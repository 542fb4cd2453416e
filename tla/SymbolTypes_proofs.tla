------------------------- MODULE SymbolTypes_proofs --------------------------
(***************************************************************************)
(* Proofs about the tree of symbols and the layout of types in SymBuilder. *)
(* Whatever a script creates, moves, changes or deletes, and in whatever   *)
(* order the dependents of a symbol are notified, every type is laid out   *)
(* from the types it holds and every datum lies where its type says once   *)
(* an operation is over, unless a notification has failed.                 *)
(***************************************************************************)
EXTENDS SymbolTypes, SequenceTheorems, FiniteSetTheorems, WellFoundedInduction, TLAPS

-----------------------------------------------------------------------------
(* The inductive invariant.                                                *)

(* What asks its type to be notified.                                      *)
Users == Positional \cup {"array", "data"}
Ids0 == 0 .. Len(symbols)

(* The ids of the tasks under way.                                         *)
IdsOf(list, do) == {list[k].id : k \in {k \in DOMAIN list : list[k].do = do}}
Erasing == IdsOf(tasks, "erase")
NotYet == IdsOf(tasks, "depend")
UnionOf(stack) == UNION {stack[k] : k \in DOMAIN stack}
Due == UnionOf(waiting)

(* What a symbol refers to.                                                *)
RefsOf(i) ==
  LET s == symbols[i] IN
  /\ s.type \in Ids0 /\ s.parent \in Ids0 /\ s.dependents \subseteq Ids0
  /\ s.type # 0 => symbols[s.type].kind \in TypeKinds
  /\ s.parent # 0 => symbols[s.parent].kind = "udt"
  /\ s.kind \in Positional => s.type # 0 /\ s.parent # 0
  /\ s.kind \notin Positional => s.parent = 0
  /\ s.kind \in {"array", "data"} => s.type # 0
  /\ s.kind \in {"udt", "basic"} => s.type = 0
  /\ s.kind # "udt" => s.children = <<>>
  /\ IsInjective(s.children)
  /\ \A k \in DOMAIN s.children :
       LET c == s.children[k] IN
       c \in DOMAIN symbols /\ symbols[c].kind \in Positional /\ symbols[c].parent = i
RefsInv == \A i \in DOMAIN symbols : RefsOf(i)

(* The loop that deletes the children of a class goes over slots that hold *)
(* children the class has or had, at least as many as there are left.      *)
LoopTask(t, u) ==
  /\ t = [do |-> "children", id |-> u, slots |-> t.slots, next |-> t.next]
  /\ t.next \in Nat \ {0} /\ t.slots \in Seq(Ids)
  /\ Len(symbols[u].children) <= Len(t.slots)
  /\ \A k \in DOMAIN t.slots :
       LET c == t.slots[k] IN
       c \in DOMAIN symbols /\ symbols[c].kind \in Positional /\ symbols[c].parent = u

(* The tasks under way are those of one operation: a field is registered,  *)
(* a symbol is erased, or a class is after its children, one of which may  *)
(* be erased first.                                                        *)
TasksInv ==
  \/ tasks = <<>>
  \/ \E f \in LiveOf(Positional) : tasks = <<Task("depend", f)>>
  \/ \E i \in live : tasks = <<Task("erase", i)>>
  \/ \E u \in LiveOf({"udt"}) :
       tasks = <<tasks[1], Task("erase", u)>> /\ LoopTask(tasks[1], u)
  \/ \E u \in LiveOf({"udt"}), c \in LiveOf(Positional) :
       tasks = <<Task("erase", c), tasks[2], Task("erase", u)>> /\ LoopTask(tasks[2], u)

(* A class holds its live fields and base classes but those about to be    *)
(* erased.                                                                 *)
Kids(u) == {i \in LiveOf(Positional) : symbols[i].parent = u}
OwnedInv ==
  \A u \in LiveOf({"udt"}) \ Erasing : Owned(u) = Kids(u) \ Erasing

(* A type notifies what is made of it, but what is about to be erased or   *)
(* registered.                                                             *)
RegisteredInv ==
  /\ \A t \in LiveOf(TypeKinds) :
       symbols[t].dependents = {i \in LiveOf(Users) : symbols[i].type = t} \ (Erasing \cup NotYet)
  /\ \A i \in LiveOf(Positional) :
       symbols[i].dependents = IF i \in NotYet THEN {} ELSE {symbols[i].parent}

(* An array and a datum are as their type says.                            *)
ArrayFits(a) ==
  /\ symbols[a].size = symbols[a].dim * symbols[symbols[a].type].size
  /\ symbols[a].align = symbols[symbols[a].type].align
DataFits(d) ==
  /\ symbols[d].actual = symbols[d].offset
  /\ symbols[d].size = symbols[symbols[d].type].size

(* What is not laid out as its parts say is due to be notified, or a part  *)
(* of it is, or a part has lost its type.                                  *)
LaidInv ==
  /\ \A u \in LiveOf({"udt"}) \ Erasing :
       \/ \E i \in Owned(u) : Zombie(i) \/ i \in Due
       \/ u \in Due \/ ClassLaidOut(u)
  /\ \A a \in LiveOf({"array"}) \ Erasing : Zombie(a) \/ a \in Due \/ ArrayFits(a)
  /\ \A d \in LiveOf({"data"}) \ Erasing : Zombie(d) \/ d \in Due \/ DataFits(d)

(* While a new field is not registered yet, no notification that is due    *)
(* comes to its type, nor to the field.                                    *)
ApartInv ==
  \A f \in NotYet :
    \E set \in SUBSET (live \ {symbols[f].type, f}) : Due \subseteq set /\ Closed(set)

(* There are no more symbols than were created.                            *)
CountInv == Len(symbols) <= Udts + Cardinality(BasicSizes) + operations

(* What always holds, and what holds until a notification fails.          *)
TreeInv == TypeOK /\ CountInv /\ RefsInv /\ TasksInv /\ OwnedInv
LayoutInv ==
  /\ TreeInv
  /\ ~failed => RegisteredInv /\ LaidInv /\ ApartInv

-----------------------------------------------------------------------------
(* What the constants are; the module that instantiates SymbolTypes assumes*)
(* it.                                                                     *)
LayoutAssumption ==
  /\ BasicSizes \subseteq Nat \ {0} /\ IsFiniteSet(BasicSizes)
  /\ Offsets \subseteq Nat /\ Automatic \notin Nat
  /\ Dims \subseteq Nat /\ Udts \in Nat /\ MaxOperations \in Nat

(* What it says.                                                           *)
LEMMA LayoutNumbers ==
  ASSUME LayoutAssumption
  PROVE  /\ BasicSizes \subseteq Nat \ {0} /\ IsFiniteSet(BasicSizes)
         /\ Offsets \subseteq Nat /\ Automatic \notin Nat
         /\ Dims \subseteq Nat /\ Udts \in Nat /\ MaxOperations \in Nat
BY DEF LayoutAssumption

(* The first aligned number from another on.                               *)
LEMMA RoundedUp ==
  ASSUME NEW n \in Nat, NEW align \in Nat \ {0}
  PROVE  RoundUp(n, align) \in Nat /\ Aligns(RoundUp(n, align), n, align)
<1> DEFINE q == (n + align - 1) \div align
           r == q * align
<1>1. q \in Nat
  BY Z3
<1>2. /\ n + align - 1 = align * q + ((n + align - 1) % align)
      /\ (n + align - 1) % align \in 0 .. align - 1
  BY Z3
<1> HIDE DEF q
<1>3. r \in Nat
  BY <1>1
<1>4. n <= r /\ r < n + align
  BY <1>1, <1>2, Z3
<1> HIDE DEF r
<1>5. r % align = 0
  <2> DEFINE p == r \div align
             m == r % align
  <2>1. p \in Int /\ r = align * p + m /\ m \in 0 .. align - 1
    BY <1>3, Z3
  <2> HIDE DEF p, m
  <2> DEFINE d == q - p
  <2>2. d \in Int /\ align * d = m
    BY <1>1, <2>1, Z3 DEF r
  <2> HIDE DEF d
  <2>3. CASE d <= 0
    BY <2>1, <2>2, <2>3, Z3 DEF m
  <2>4. CASE d >= 1
    <3>1. align * d >= align
      BY <2>2, <2>4, Z3
    <3> QED BY <2>1, <2>2, <3>1
  <2> QED BY <2>2, <2>3, <2>4
<1> QED BY <1>3, <1>4, <1>5 DEF RoundUp, Aligns, q, r

(* A set of numbers that is not empty has a least one.                     *)
LEMMA Smallest ==
  ASSUME NEW T, T \subseteq Nat, T # {}
  PROVE  \E x \in T : \A y \in T : x <= y
<1> DEFINE R == OpToRel(<, Nat)
<1>1. IsWellFoundedOn(R, Nat)
  BY NatLessThanWellFounded
<1>2. \A x, y \in Nat : <<y, x>> \in R <=> y < x
  BY DEF OpToRel
<1> HIDE DEF R
<1>3. PICK x \in T : \A y \in T : ~ (<<y, x>> \in R)
  BY <1>1, WFMin
<1>4. x \in Nat /\ \A y \in T : y \in Nat /\ ~(y < x)
  BY <1>2, <1>3
<1>5. \A y \in T : x <= y
  BY <1>4
<1> QED BY <1>5

(* Induction up to a number.                                               *)
LEMMA UpTo ==
  ASSUME NEW n \in Nat, NEW S, 0 \in S, \A k \in 1 .. n : k - 1 \in S => k \in S
  PROVE  \A k \in 0 .. n : k \in S
<1> DEFINE T == {k \in 0 .. n : k \notin S}
<1>1. SUFFICES ASSUME T # {} PROVE FALSE
  OBVIOUS
<1>2. T \subseteq Nat
  OBVIOUS
<1> HIDE DEF T
<1>3. PICK t \in T : \A u \in T : t <= u
  BY <1>1, <1>2, Smallest
<1>4. t \in 1 .. n /\ t \notin S /\ t - 1 \in 0 .. n /\ ~(t <= t - 1)
  BY <1>3 DEF T
<1>5. t - 1 \in S
  BY <1>3, <1>4 DEF T
<1> QED BY <1>4, <1>5

(* Where the loops of LayoutType start.                                    *)
FirstCursor == [at |-> 0, size |-> 0, align |-> 1, symbols |-> symbols, stopped |-> FALSE]
NextCursor(u, k, cursor) ==
  IF cursor.stopped \/ ~IsOfPass(u, k) THEN cursor ELSE Place(cursor, ChildAt(u, k))
AreCursors(f, u, n) ==
  f[0] = FirstCursor /\ \A k \in 1 .. n : f[k] = NextCursor(u, k, f[k - 1])

(* The cursors, turn after turn.                                           *)
LEMMA CursorsAre ==
  ASSUME NEW u, Turns(u) \in Nat
  PROVE  AreCursors(Cursors(u), u, Turns(u))
<1> DEFINE N == Turns(u)
           S == {n \in 0 .. N : \E f : f = [k \in 0 .. N |-> f[k]] /\ AreCursors(f, u, n)}
<1>1. 0 \in S
  <2> DEFINE f == [k \in 0 .. N |-> FirstCursor]
  <2>1. f = [k \in 0 .. N |-> f[k]] /\ AreCursors(f, u, 0)
    BY DEF AreCursors
  <2> QED BY <2>1
<1>2. ASSUME NEW n \in 1 .. N, n - 1 \in S PROVE n \in S
  <2>1. PICK f : f = [k \in 0 .. N |-> f[k]] /\ AreCursors(f, u, n - 1)
    BY <1>2
  <2> DEFINE next == [k \in 0 .. N |-> IF k = n THEN NextCursor(u, n, f[n - 1]) ELSE f[k]]
  <2>2. /\ next[0] = f[0] /\ next[n] = NextCursor(u, n, f[n - 1])
        /\ next[n - 1] = f[n - 1]
    OBVIOUS
  <2>3. ASSUME NEW k \in 1 .. n PROVE next[k] = NextCursor(u, k, next[k - 1])
    <3>1. CASE k = n
      BY <2>2, <3>1
    <3>2. CASE k # n
      <4>1. k \in 1 .. n - 1 /\ k - 1 # n /\ k \in 0 .. N /\ k - 1 \in 0 .. N
        BY <3>2
      <4>2. next[k] = f[k] /\ next[k - 1] = f[k - 1]
        BY <3>2, <4>1
      <4> QED BY <2>1, <4>1, <4>2 DEF AreCursors
    <3> QED BY <3>1, <3>2
  <2>4. next = [k \in 0 .. N |-> next[k]]
    OBVIOUS
  <2> HIDE DEF next
  <2>5. AreCursors(next, u, n)
    BY <2>1, <2>2, <2>3 DEF AreCursors
  <2> QED BY <2>4, <2>5
<1> HIDE DEF S
<1>3. N \in S
  <2>1. \A k \in 0 .. N : k \in S
    BY <1>1, <1>2, UpTo
  <2> QED BY <2>1
<1>4. PICK f : f = [k \in 0 .. N |-> f[k]] /\ AreCursors(f, u, N)
  BY <1>3 DEF S
<1> DEFINE Body(g) == [k \in 0 .. N |->
                         IF k = 0
                         THEN [at |-> 0, size |-> 0, align |-> 1, symbols |-> symbols,
                               stopped |-> FALSE]
                         ELSE IF g[k - 1].stopped \/ ~IsOfPass(u, k) THEN g[k - 1]
                         ELSE Place(g[k - 1], ChildAt(u, k))]
<1>5. \A g : \A k \in 0 .. N :
        Body(g)[k] = IF k = 0 THEN FirstCursor ELSE NextCursor(u, k, g[k - 1])
  BY DEF FirstCursor, NextCursor
<1>6. \A g : Body(g) = [k \in 0 .. N |-> Body(g)[k]]
  OBVIOUS
<1> HIDE DEF Body
<1>7. f = Body(f)
  <2>1. ASSUME NEW k \in 0 .. N PROVE f[k] = Body(f)[k]
    <3>1. CASE k = 0
      BY <1>4, <1>5, <3>1 DEF AreCursors
    <3>2. CASE k # 0
      <4>1. k \in 1 .. N
        BY <3>2
      <4> QED BY <1>4, <1>5, <3>2, <4>1 DEF AreCursors
    <3> QED BY <3>1, <3>2
  <2> QED BY <1>4, <1>6, <2>1
<1> DEFINE the == CHOOSE g : g = Body(g)
<1>8. the = Body(the)
  BY <1>7
<1>9. Cursors(u) = the
  BY Zenon DEF Cursors, Body
<1> HIDE DEF the
<1>10. the[0] = FirstCursor /\ \A k \in 1 .. N : the[k] = NextCursor(u, k, the[k - 1])
  <2>1. 0 \in 0 .. N /\ \A k \in 1 .. N : k \in 0 .. N /\ k # 0
    OBVIOUS
  <2> QED BY <1>5, <1>8, <2>1
<1> QED BY <1>9, <1>10 DEF AreCursors

(* Sequences with one domain are equally long.                             *)
LEMMA SameBounds ==
  ASSUME NEW m \in Nat, NEW n \in Nat, 1 .. m = 1 .. n
  PROVE  m = n
<1>1. ASSUME NEW a \in Nat, NEW b \in Nat, 1 .. a = 1 .. b PROVE ~(a < b)
  <2>1. SUFFICES ASSUME a < b PROVE FALSE
    OBVIOUS
  <2>2. b \in 1 .. b /\ b \notin 1 .. a
    BY <2>1
  <2> QED BY <1>1, <2>2
<1>2. ~(m < n) /\ ~(n < m)
  BY <1>1
<1> QED BY <1>2

(* The symbols have their fields.                                          *)
LEMMA Fields ==
  ASSUME NEW table \in Seq(Symbols)
  PROVE  /\ Len(table) \in Nat /\ DOMAIN table = 1 .. Len(table)
         /\ \A i \in DOMAIN table :
              LET s == table[i] IN
              /\ s \in Symbols
              /\ s.kind \in TypeKinds \cup Positional \cup {"data"}
              /\ s.offset \in Nat \cup {Automatic} /\ s.actual \in Nat \cup {Automatic}
              /\ s.size \in Nat /\ s.align \in Nat \ {0} /\ s.dim \in Nat
              /\ s.children \in Seq(Ids) /\ Len(s.children) \in Nat
              /\ DOMAIN s.children = 1 .. Len(s.children)
<1>1. Len(table) \in Nat /\ DOMAIN table = 1 .. Len(table)
  BY LenProperties
<1>2. ASSUME NEW i \in DOMAIN table
      PROVE  LET s == table[i] IN
              /\ s \in Symbols
              /\ s.kind \in TypeKinds \cup Positional \cup {"data"}
              /\ s.offset \in Nat \cup {Automatic} /\ s.actual \in Nat \cup {Automatic}
              /\ s.size \in Nat /\ s.align \in Nat \ {0} /\ s.dim \in Nat
              /\ s.children \in Seq(Ids) /\ Len(s.children) \in Nat
              /\ DOMAIN s.children = 1 .. Len(s.children)
  <2>1. table[i] \in Symbols
    BY <1>1, ElementOfSeq
  <2>2. LET s == table[i] IN
        /\ s.kind \in TypeKinds \cup Positional \cup {"data"}
        /\ s.offset \in Nat \cup {Automatic} /\ s.actual \in Nat \cup {Automatic}
        /\ s.size \in Nat /\ s.align \in Nat \ {0} /\ s.dim \in Nat
        /\ s.children \in Seq(Ids)
    BY <2>1 DEF Symbols
  <2>3. Len(table[i].children) \in Nat /\ DOMAIN table[i].children = 1 .. Len(table[i].children)
    BY <2>2, LenProperties
  <2> QED BY <2>1, <2>2, <2>3
<1> QED BY <1>1, <1>2

(* A symbol is replaced.                                                   *)
LEMMA Replaced ==
  ASSUME NEW table \in Seq(Symbols), NEW i \in DOMAIN table, NEW s \in Symbols
  PROVE  LET new == [table EXCEPT ![i] = s]
         IN  /\ new \in Seq(Symbols) /\ Len(new) = Len(table) /\ DOMAIN new = DOMAIN table
             /\ \A k \in DOMAIN table : new[k] = IF k = i THEN s ELSE table[k]
<1>1. /\ [table EXCEPT ![i] = s] \in Seq(Symbols)
      /\ Len([table EXCEPT ![i] = s]) = Len(table)
  BY LenProperties, ExceptSeq
<1> QED BY <1>1

(* The turns that come to a child of their pass.                           *)
TurnsOfKids(u) == {j \in 1 .. Turns(u) : IsOfPass(u, j)}

(* Each child has its turn, the base classes before the fields.            *)
LEMMA TurnsAre ==
  ASSUME TypeOK, RefsInv, NEW u \in DOMAIN symbols
  PROVE  /\ Turns(u) \in Nat
         /\ \A j \in 1 .. Turns(u) : ChildAt(u, j) \in Owned(u)
         /\ \A i \in Owned(u) :
              /\ \E j \in TurnsOfKids(u) : ChildAt(u, j) = i
              /\ i \in DOMAIN symbols /\ symbols[i].kind \in Positional /\ symbols[i].parent = u
         /\ \A j, l \in TurnsOfKids(u) :
              /\ ChildAt(u, j) = ChildAt(u, l) => j = l
              /\ j < l <=> IsBefore(u, ChildAt(u, j), ChildAt(u, l))
<1> DEFINE kids == symbols[u].children
           N == Len(kids)
           kind(k) == symbols[kids[k]].kind
<1>1. N \in Nat /\ DOMAIN kids = 1 .. N
  BY Fields DEF TypeOK
<1>2. /\ \A k \in 1 .. N : /\ kids[k] \in DOMAIN symbols /\ kind(k) \in Positional
                           /\ symbols[kids[k]].parent = u
      /\ \A k, l \in 1 .. N : kids[k] = kids[l] => k = l
  BY <1>1 DEF RefsInv, RefsOf, IsInjective
<1>3. \A k \in 1 .. N : kind(k) \in {"base", "field"}
  BY <1>2 DEF Positional
<1>4. Owned(u) = {kids[k] : k \in 1 .. N}
  BY <1>1 DEF Owned, ToSet
<1>5. Turns(u) = 2 * N
  BY DEF Turns
<1>6. \A j : ChildAt(u, j) = IF j <= N THEN kids[j] ELSE kids[j - N]
  BY DEF ChildAt
<1>7. \A j : IsOfPass(u, j) <=>
               symbols[ChildAt(u, j)].kind = IF j <= N THEN "base" ELSE "field"
  BY DEF IsOfPass
<1>8. \A i, j : IsBefore(u, i, j) <=>
                  IF symbols[i].kind # symbols[j].kind THEN symbols[i].kind = "base"
                  ELSE \E k, l \in 1 .. N : k < l /\ kids[k] = i /\ kids[l] = j
  BY <1>1 DEF IsBefore
<1> HIDE DEF kids, N
<1> DEFINE at(j) == IF j <= N THEN j ELSE j - N
<1>9. ASSUME NEW j \in 1 .. 2 * N
      PROVE  at(j) \in 1 .. N /\ ChildAt(u, j) = kids[at(j)]
  BY <1>1, <1>6
<1>10. \A j \in 1 .. Turns(u) : ChildAt(u, j) \in Owned(u)
  BY <1>4, <1>5, <1>9
<1>11. ASSUME NEW i \in Owned(u)
       PROVE  \E j \in TurnsOfKids(u) : ChildAt(u, j) = i
  <2>1. PICK k \in 1 .. N : i = kids[k]
    BY <1>4
  <2>2. CASE kind(k) = "base"
    <3>1. k \in 1 .. 2 * N /\ k <= N
      BY <1>1
    <3>2. ChildAt(u, k) = i /\ IsOfPass(u, k)
      BY <1>6, <1>7, <2>1, <2>2, <3>1
    <3> QED BY <1>5, <3>1, <3>2 DEF TurnsOfKids
  <2>3. CASE kind(k) = "field"
    <3>1. PICK j \in 1 .. 2 * N : ~(j <= N) /\ j - N = k
      <4>1. N + k \in 1 .. 2 * N /\ ~(N + k <= N) /\ (N + k) - N = k
        BY <1>1
      <4>2. \E j \in 1 .. 2 * N : ~(j <= N) /\ j - N = k
        BY ONLY <4>1, Zenon
      <4> QED BY <4>2
    <3>2. ChildAt(u, j) = i /\ IsOfPass(u, j)
      BY <1>6, <1>7, <2>1, <2>3, <3>1
    <3> QED BY <1>5, <3>1, <3>2 DEF TurnsOfKids
  <2> QED BY <1>3, <2>2, <2>3
<1>12. ASSUME NEW j \in TurnsOfKids(u), NEW l \in TurnsOfKids(u)
       PROVE  /\ ChildAt(u, j) = ChildAt(u, l) => j = l
              /\ j < l <=> IsBefore(u, ChildAt(u, j), ChildAt(u, l))
  <2>1. /\ j \in 1 .. 2 * N /\ l \in 1 .. 2 * N
        /\ at(j) \in 1 .. N /\ ChildAt(u, j) = kids[at(j)]
        /\ kind(at(j)) = IF j <= N THEN "base" ELSE "field"
        /\ at(l) \in 1 .. N /\ ChildAt(u, l) = kids[at(l)]
        /\ kind(at(l)) = IF l <= N THEN "base" ELSE "field"
    BY <1>5, <1>7, <1>9 DEF TurnsOfKids
  <2>2. ChildAt(u, j) = ChildAt(u, l) => j = l
    <3>1. ChildAt(u, j) = ChildAt(u, l) => at(j) = at(l)
      BY <1>2, <2>1
    <3>2. at(j) = at(l) => (j <= N <=> l <= N)
      BY <2>1
    <3>3. at(j) = at(l) => j = l
      BY <1>1, <2>1, <3>2
    <3> QED BY <3>1, <3>3
  <2>3. CASE j <= N /\ l <= N
    <3>1. at(j) = j /\ at(l) = l
      BY <2>3
    <3> QED BY <1>2, <1>8, <2>1, <2>3, <3>1
  <2>4. CASE j <= N /\ ~(l <= N)
    <3>1. j < l
      BY <1>1, <2>1, <2>4
    <3> QED BY <1>8, <2>1, <2>4, <3>1
  <2>5. CASE ~(j <= N) /\ l <= N
    <3>1. ~(j < l)
      BY <1>1, <2>1, <2>5
    <3> QED BY <1>8, <2>1, <2>5, <3>1
  <2>6. CASE ~(j <= N) /\ ~(l <= N)
    <3>1. at(j) = j - N /\ at(l) = l - N
      BY <2>6
    <3>2. j < l <=> at(j) < at(l)
      BY <1>1, <2>1, <3>1
    <3>3. IsBefore(u, ChildAt(u, j), ChildAt(u, l)) <=> at(j) < at(l)
      <4>1. IsBefore(u, ChildAt(u, j), ChildAt(u, l)) <=>
              \E k, m \in 1 .. N : k < m /\ kids[k] = kids[at(j)] /\ kids[m] = kids[at(l)]
        BY <1>8, <2>1, <2>6
      <4>2. \A k, m \in 1 .. N :
                kids[k] = kids[at(j)] /\ kids[m] = kids[at(l)] <=> k = at(j) /\ m = at(l)
        BY <1>2, <2>1
      <4>3. at(j) \in 1 .. N /\ at(l) \in 1 .. N
        BY <2>1
      <4> HIDE DEF at
      <4>4. at(j) < at(l) => IsBefore(u, ChildAt(u, j), ChildAt(u, l))
        BY ONLY <4>1, <4>3
      <4>5. IsBefore(u, ChildAt(u, j), ChildAt(u, l)) => at(j) < at(l)
        BY ONLY <4>1, <4>2
      <4> QED BY ONLY <4>4, <4>5, Zenon
    <3> QED BY <2>2, <3>2, <3>3, Zenon
  <2> QED BY <2>2, <2>3, <2>4, <2>5, <2>6
<1>13. \A i \in Owned(u) : /\ i \in DOMAIN symbols /\ symbols[i].kind \in Positional
                           /\ symbols[i].parent = u
  BY <1>2, <1>4
<1>14. Turns(u) \in Nat
  BY <1>1, <1>5
<1> QED BY <1>10, <1>11, <1>12, <1>13, <1>14

(* The type of what the loops keep.                                        *)
Cursor == [at : Nat, size : Nat, align : Nat \ {0}, symbols : Seq(Symbols), stopped : BOOLEAN]
PlacedBy(u, k) == {j \in TurnsOfKids(u) : j <= k}
CursorTyped(u, k, c) ==
  /\ c \in Cursor
  /\ DOMAIN c.symbols = DOMAIN symbols
  /\ \A i \in DOMAIN symbols :
       /\ c.symbols[i] = [symbols[i] EXCEPT !.actual = c.symbols[i].actual]
       /\ c.symbols[i].actual # symbols[i].actual =>
            symbols[i].offset = Automatic /\ \E j \in PlacedBy(u, k) : i = ChildAt(u, j)

(* What a turn does for a part whose type is there.                        *)
LEMMA PartPlaced ==
  ASSUME TypeOK, RefsInv, NEW u \in DOMAIN symbols, NEW k \in 1 .. Turns(u),
         NEW c, CursorTyped(u, k - 1, c), IsOfPass(u, k), ~Zombie(ChildAt(u, k))
  PROVE  LET i == ChildAt(u, k)
             auto == symbols[i].offset = Automatic
             now == IF auto THEN RoundUp(c.at, TypeOf(i).align) ELSE symbols[i].offset
             new == Place(c, i)
         IN  /\ CursorTyped(u, k, new) /\ ~new.stopped
             /\ TypeOf(i).size \in Nat /\ TypeOf(i).align \in Nat \ {0} /\ now \in Nat
             /\ auto => Aligns(now, c.at, TypeOf(i).align)
             /\ new.at = now + TypeOf(i).size
             /\ new.size = Larger(c.size, new.at) /\ new.align = Larger(c.align, TypeOf(i).align)
             /\ auto => new.symbols[i].actual = now
             /\ \A j \in DOMAIN symbols \ {i} : new.symbols[j] = c.symbols[j]
<1> DEFINE i == ChildAt(u, k)
           type == TypeOf(i)
           auto == symbols[i].offset = Automatic
           now == IF auto THEN RoundUp(c.at, type.align) ELSE symbols[i].offset
           table == IF auto THEN [c.symbols EXCEPT ![i].actual = now] ELSE c.symbols
           new == Place(c, i)
<1>1. i \in DOMAIN symbols
  BY TurnsAre
<1>2. type.size \in Nat /\ type.align \in Nat \ {0}
  <2>1. symbols[i].type \in DOMAIN symbols
    BY DEF Zombie, TypeOK
  <2> QED BY <2>1, Fields DEF TypeOK, TypeOf
<1>3. c.at \in Nat /\ c.size \in Nat /\ c.align \in Nat \ {0} /\ c.symbols \in Seq(Symbols)
  BY DEF CursorTyped, Cursor
<1>4. now \in Nat /\ (auto => Aligns(now, c.at, type.align))
  <2>1. RoundUp(c.at, type.align) \in Nat /\ Aligns(RoundUp(c.at, type.align), c.at, type.align)
    BY <1>2, <1>3, RoundedUp
  <2>2. symbols[i].offset \in Nat \cup {Automatic}
    BY <1>1, Fields DEF TypeOK
  <2> QED BY <2>1, <2>2
<1>5. new = [at |-> now + type.size, size |-> Larger(c.size, now + type.size),
             align |-> Larger(c.align, type.align), symbols |-> table, stopped |-> FALSE]
  BY DEF Place, TypeOf
<1>6. /\ Larger(c.size, now + type.size) \in Nat /\ Larger(c.align, type.align) \in Nat \ {0}
      /\ now + type.size \in Nat
  <2> HIDE DEF now, type
  <2> QED BY <1>2, <1>3, <1>4 DEF Larger
<1> HIDE DEF now, type
<1>7. /\ table \in Seq(Symbols) /\ DOMAIN table = DOMAIN symbols
      /\ auto => table[i] = [c.symbols[i] EXCEPT !.actual = now]
      /\ ~auto => table[i] = c.symbols[i]
      /\ \A j \in DOMAIN symbols \ {i} : table[j] = c.symbols[j]
  <2>1. CASE auto
    <3> DEFINE s == [c.symbols[i] EXCEPT !.actual = now]
    <3>1. c.symbols[i] \in Symbols /\ DOMAIN c.symbols = DOMAIN symbols
      BY <1>1, <1>3, Fields DEF CursorTyped
    <3>2. s \in Symbols
      BY <1>4, <3>1 DEF Symbols
    <3>3. table = [c.symbols EXCEPT ![i] = s]
      BY <2>1
    <3> HIDE DEF s, table
    <3>4. /\ table \in Seq(Symbols) /\ DOMAIN table = DOMAIN c.symbols
          /\ \A j \in DOMAIN c.symbols : table[j] = IF j = i THEN s ELSE c.symbols[j]
      BY <1>1, <1>3, <3>1, <3>2, <3>3, Replaced
    <3> QED BY <1>1, <2>1, <3>1, <3>4 DEF s
  <2>2. CASE ~auto
    BY <1>3, <2>2 DEF CursorTyped
  <2> QED BY <2>1, <2>2
<1>8. k \in PlacedBy(u, k) /\ PlacedBy(u, k - 1) \subseteq PlacedBy(u, k)
  BY DEF PlacedBy, TurnsOfKids
<1> HIDE DEF table, new
<1>9. new.symbols = table /\ new \in Cursor
  BY <1>5, <1>6, <1>7 DEF Cursor
<1>10. ASSUME NEW j \in DOMAIN symbols
       PROVE  /\ table[j] = [symbols[j] EXCEPT !.actual = table[j].actual]
              /\ table[j].actual # symbols[j].actual =>
                   symbols[j].offset = Automatic /\ \E l \in PlacedBy(u, k) : j = ChildAt(u, l)
  <2>0. symbols[j] \in Symbols
    BY Fields DEF TypeOK
  <2>1. CASE j = i /\ auto
    <3>1. /\ c.symbols[i] = [symbols[i] EXCEPT !.actual = c.symbols[i].actual]
          /\ table[i] = [c.symbols[i] EXCEPT !.actual = now]
      BY <1>1, <1>7, <2>1 DEF CursorTyped
    <3>2. table[i] = [symbols[i] EXCEPT !.actual = table[i].actual]
      BY <2>0, <2>1, <3>1 DEF Symbols
    <3> QED BY <1>8, <2>1, <3>2
  <2>2. CASE ~(j = i /\ auto)
    <3>1. table[j] = c.symbols[j]
      BY <1>7, <2>2
    <3>2. /\ c.symbols[j] = [symbols[j] EXCEPT !.actual = c.symbols[j].actual]
          /\ c.symbols[j].actual # symbols[j].actual =>
               symbols[j].offset = Automatic /\ \E l \in PlacedBy(u, k - 1) : j = ChildAt(u, l)
      BY DEF CursorTyped
    <3> QED BY <1>8, <3>1, <3>2
  <2> QED BY <2>1, <2>2
<1>11. CursorTyped(u, k, new)
  BY <1>7, <1>9, <1>10 DEF CursorTyped
<1>12. /\ ~new.stopped /\ new.at = now + type.size /\ new.size = Larger(c.size, new.at)
       /\ new.align = Larger(c.align, type.align)
  BY <1>5
<1>13. /\ auto => new.symbols[i].actual = now
       /\ \A j \in DOMAIN symbols \ {i} : new.symbols[j] = c.symbols[j]
  <2>1. c.symbols[i] \in Symbols
    BY <1>1, <1>3, Fields DEF CursorTyped
  <2>2. auto => table[i].actual = now
    BY <1>7, <2>1 DEF Symbols
  <2> QED BY <1>7, <1>9, <2>2
<1> QED BY <1>2, <1>4, <1>11, <1>12, <1>13 DEF now, type, new

(* The cursors are typed, and change only where a part starts.             *)
LEMMA CursorsTyped ==
  ASSUME TypeOK, RefsInv, NEW u \in DOMAIN symbols
  PROVE  \A k \in 0 .. Turns(u) : CursorTyped(u, k, Cursors(u)[k])
<1> DEFINE N == Turns(u)
           f == Cursors(u)
           S == {k \in 0 .. N : CursorTyped(u, k, f[k])}
<1>1. N \in Nat
  BY TurnsAre
<1>2. AreCursors(f, u, N)
  BY <1>1, CursorsAre
<1> HIDE DEF f
<1>3. 0 \in S
  <2>1. f[0] = FirstCursor
    BY <1>2 DEF AreCursors
  <2>2. FirstCursor \in Cursor /\ FirstCursor.symbols = symbols
    BY DEF FirstCursor, Cursor, TypeOK
  <2>3. \A i \in DOMAIN symbols : symbols[i] = [symbols[i] EXCEPT !.actual = symbols[i].actual]
    <3>1. \A i \in DOMAIN symbols : symbols[i] \in Symbols
      BY Fields DEF TypeOK
    <3> QED BY <3>1 DEF Symbols
  <2> QED BY <1>1, <2>1, <2>2, <2>3 DEF CursorTyped
<1>4. ASSUME NEW k \in 1 .. N, k - 1 \in S PROVE k \in S
  <2>1. f[k] = NextCursor(u, k, f[k - 1]) /\ CursorTyped(u, k - 1, f[k - 1])
    BY <1>2, <1>4 DEF AreCursors
  <2>2. PlacedBy(u, k - 1) \subseteq PlacedBy(u, k)
    BY <1>1 DEF PlacedBy, TurnsOfKids
  <2>3. CASE f[k - 1].stopped \/ ~IsOfPass(u, k)
    <3>1. f[k] = f[k - 1]
      BY <2>1, <2>3 DEF NextCursor
    <3> QED BY <2>1, <2>2, <3>1 DEF CursorTyped
  <2>4. CASE ~f[k - 1].stopped /\ IsOfPass(u, k) /\ ~Zombie(ChildAt(u, k))
    <3>1. CursorTyped(u, k, Place(f[k - 1], ChildAt(u, k)))
      BY <2>1, <2>4, PartPlaced
    <3> QED BY <2>1, <2>4, <3>1 DEF NextCursor
  <2>5. CASE ~f[k - 1].stopped /\ IsOfPass(u, k) /\ Zombie(ChildAt(u, k))
    <3>1. f[k] = [f[k - 1] EXCEPT !.stopped = TRUE]
      BY <2>1, <2>5 DEF NextCursor, Place
    <3>2. f[k] \in Cursor /\ f[k].symbols = f[k - 1].symbols
      BY <2>1, <3>1 DEF CursorTyped, Cursor
    <3> QED BY <2>1, <2>2, <3>2 DEF CursorTyped
  <2> QED BY <2>3, <2>4, <2>5
<1> HIDE DEF S
<1>5. \A k \in 0 .. N : k \in S
  BY <1>1, <1>3, <1>4, UpTo
<1> QED BY <1>5 DEF S, f

(* Where a part starts in a table of symbols.                              *)
StartIn(table, i) == IF symbols[i].offset = Automatic THEN table[i].actual ELSE symbols[i].offset
StopIn(table, i) == StartIn(table, i) + TypeOf(i).size
Follows(u, k, c, j) ==
  LET i == ChildAt(u, j) IN
  \/ (\A l \in PlacedBy(u, k) : j <= l) /\ Aligns(StartIn(c.symbols, i), 0, TypeOf(i).align)
  \/ \E m \in PlacedBy(u, k) :
       /\ m < j /\ \A l \in PlacedBy(u, k) : l <= m \/ j <= l
       /\ Aligns(StartIn(c.symbols, i), StopIn(c.symbols, ChildAt(u, m)), TypeOf(i).align)

(* A cursor that has not stopped stands after the parts placed so far.     *)
CursorFits(u, k, c) ==
  /\ \A j \in PlacedBy(u, k) :
       LET i == ChildAt(u, j) IN
       /\ ~Zombie(i) /\ TypeOf(i).size \in Nat /\ TypeOf(i).align \in Nat \ {0}
       /\ StartIn(c.symbols, i) \in Nat
       /\ StopIn(c.symbols, i) <= c.size /\ TypeOf(i).align <= c.align
       /\ symbols[i].offset = Automatic => Follows(u, k, c, j)
  /\ \/ PlacedBy(u, k) = {} /\ c.at = 0
     \/ \E j \in PlacedBy(u, k) :
          (\A l \in PlacedBy(u, k) : l <= j) /\ c.at = StopIn(c.symbols, ChildAt(u, j))
  /\ \/ PlacedBy(u, k) = {} /\ c.size = 0
     \/ \E j \in PlacedBy(u, k) : c.size = StopIn(c.symbols, ChildAt(u, j))
  /\ c.align = 1 \/ \E j \in PlacedBy(u, k) : c.align = TypeOf(ChildAt(u, j)).align

(* A turn keeps the cursor after the parts that are placed.                *)
LEMMA TurnFits ==
  ASSUME TypeOK, RefsInv, NEW u \in DOMAIN symbols, NEW k \in 1 .. Turns(u),
         NEW c, CursorTyped(u, k - 1, c), CursorFits(u, k - 1, c),
         IsOfPass(u, k), ~Zombie(ChildAt(u, k))
  PROVE  CursorFits(u, k, Place(c, ChildAt(u, k)))
<1> DEFINE i == ChildAt(u, k)
           type == TypeOf(i)
           auto == symbols[i].offset = Automatic
           now == IF auto THEN RoundUp(c.at, type.align) ELSE symbols[i].offset
           new == Place(c, i)
           T == PlacedBy(u, k - 1)
           U == PlacedBy(u, k)
           C(j) == ChildAt(u, j)
<1>1. /\ new.at = now + type.size /\ new.size = Larger(c.size, new.at)
      /\ new.align = Larger(c.align, type.align)
      /\ auto => new.symbols[i].actual = now
      /\ \A j \in DOMAIN symbols \ {i} : new.symbols[j] = c.symbols[j]
  BY PartPlaced
<1>2. type.size \in Nat /\ type.align \in Nat \ {0} /\ now \in Nat
  BY PartPlaced
<1>3. auto => Aligns(now, c.at, type.align)
  BY PartPlaced
<1>4. c.at \in Nat /\ c.size \in Nat /\ c.align \in Nat \ {0}
  BY DEF CursorTyped, Cursor
<1>5. /\ U = T \cup {k} /\ k \notin T /\ \A j \in T : j \in TurnsOfKids(u) /\ j < k /\ j \in Nat
      /\ k \in TurnsOfKids(u) /\ k \in Nat
  <2>1. \A j \in TurnsOfKids(u) : j \in Nat
    BY DEF TurnsOfKids
  <2>2. k \in TurnsOfKids(u)
    BY DEF TurnsOfKids
  <2>3. k \in Nat /\ \A j \in TurnsOfKids(u) : (j <= k <=> j <= k - 1 \/ j = k) /\ (j <= k - 1 => j < k)
    BY <2>1
  <2>4. T = {j \in TurnsOfKids(u) : j <= k - 1} /\ U = {j \in TurnsOfKids(u) : j <= k}
    BY DEF PlacedBy
  <2> HIDE DEF T, U
  <2>5. U = T \cup {k}
    BY <2>2, <2>3, <2>4
  <2>6. k \notin T /\ \A j \in T : j \in TurnsOfKids(u) /\ j < k /\ j \in Nat
    BY <2>1, <2>3, <2>4
  <2> QED BY <2>2, <2>3, <2>5, <2>6
<1>6. \A j \in T : C(j) \in DOMAIN symbols /\ C(j) # i
  <2>1. ASSUME NEW j \in T PROVE C(j) \in DOMAIN symbols /\ C(j) # i
    <3>1. j \in TurnsOfKids(u) /\ k \in TurnsOfKids(u) /\ j # k /\ j \in 1 .. Turns(u)
      BY <1>5 DEF TurnsOfKids
    <3> QED BY <3>1, TurnsAre
  <2> QED BY <2>1
<1>7. \A j \in T : StartIn(new.symbols, C(j)) = StartIn(c.symbols, C(j))
  BY <1>1, <1>6 DEF StartIn
<1>8. StartIn(new.symbols, i) = now
  BY <1>1 DEF StartIn
<1>9. /\ \A j \in T : StopIn(new.symbols, C(j)) = StopIn(c.symbols, C(j))
      /\ StopIn(new.symbols, i) = new.at
  BY <1>1, <1>7, <1>8 DEF StopIn
<1> HIDE DEF new, now, type
<1>10. /\ \A j \in T :
            /\ ~Zombie(C(j)) /\ TypeOf(C(j)).size \in Nat /\ TypeOf(C(j)).align \in Nat \ {0}
            /\ StartIn(c.symbols, C(j)) \in Nat
            /\ StopIn(c.symbols, C(j)) <= c.size /\ TypeOf(C(j)).align <= c.align
            /\ symbols[C(j)].offset = Automatic => Follows(u, k - 1, c, j)
       /\ \/ T = {} /\ c.at = 0
          \/ \E j \in T : (\A l \in T : l <= j) /\ c.at = StopIn(c.symbols, C(j))
       /\ \/ T = {} /\ c.size = 0
          \/ \E j \in T : c.size = StopIn(c.symbols, C(j))
       /\ c.align = 1 \/ \E j \in T : c.align = TypeOf(C(j)).align
  BY DEF CursorFits
<1>11. \A j \in T : StopIn(c.symbols, C(j)) \in Nat
  BY <1>10 DEF StopIn
<1>12. /\ new.at \in Nat /\ new.size \in Nat /\ new.align \in Nat
       /\ new.at <= new.size /\ c.size <= new.size /\ (new.size = new.at \/ new.size = c.size)
       /\ type.align <= new.align /\ c.align <= new.align
       /\ new.align = type.align \/ new.align = c.align
       /\ c.size = 0 => new.size = new.at
  BY <1>1, <1>2, <1>4 DEF Larger
<1>13. ASSUME NEW j \in U
       PROVE  /\ ~Zombie(C(j)) /\ TypeOf(C(j)).size \in Nat /\ TypeOf(C(j)).align \in Nat \ {0}
              /\ StartIn(new.symbols, C(j)) \in Nat
              /\ StopIn(new.symbols, C(j)) <= new.size /\ TypeOf(C(j)).align <= new.align
  <2>1. CASE j = k
    BY <1>2, <1>8, <1>9, <1>12, <2>1 DEF type
  <2>2. CASE j # k
    <3>1. j \in T
      BY <1>5, <2>2
    <3>2. StopIn(c.symbols, C(j)) <= c.size /\ TypeOf(C(j)).align <= c.align
      BY <1>10, <3>1
    <3>3. StopIn(new.symbols, C(j)) <= new.size
      BY <1>4, <1>9, <1>11, <1>12, <3>1, <3>2
    <3>4. TypeOf(C(j)).align \in Nat /\ TypeOf(C(j)).align <= new.align
      BY <1>4, <1>10, <1>12, <3>1, <3>2
    <3> QED BY <1>7, <1>10, <3>1, <3>3, <3>4
  <2> QED BY <2>1, <2>2
<1>14. ASSUME NEW j \in U, symbols[C(j)].offset = Automatic
       PROVE  Follows(u, k, new, j)
  <2>1. CASE j = k /\ T = {}
    <3>1. Aligns(now, 0, type.align) /\ \A l \in U : j <= l
      BY <1>3, <1>5, <1>10, <1>14, <2>1
    <3> QED BY <1>8, <2>1, <3>1 DEF Follows, type
  <2>2. CASE j = k /\ T # {}
    <3>1. PICK m \in T : (\A l \in T : l <= m) /\ c.at = StopIn(c.symbols, C(m))
      BY <1>10, <2>2
    <3>2. m \in U /\ m < j /\ \A l \in U : l <= m \/ j <= l
      BY <1>5, <2>2, <3>1
    <3>3. Aligns(now, StopIn(new.symbols, C(m)), type.align)
      BY <1>3, <1>9, <1>14, <2>2, <3>1
    <3> QED BY <1>8, <2>2, <3>2, <3>3 DEF Follows, type
  <2>3. CASE j # k
    <3>1. j \in T /\ Follows(u, k - 1, c, j)
      BY <1>5, <1>10, <1>14, <2>3
    <3>2. CASE (\A l \in T : j <= l) /\ Aligns(StartIn(c.symbols, C(j)), 0, TypeOf(C(j)).align)
      <4>1. \A l \in U : j <= l
        BY <1>5, <3>1, <3>2
      <4>2. Aligns(StartIn(new.symbols, C(j)), 0, TypeOf(C(j)).align)
        BY <1>7, <3>1, <3>2
      <4> QED BY <4>1, <4>2 DEF Follows
    <3>3. ASSUME NEW m \in T, m < j, \A l \in T : l <= m \/ j <= l,
                 Aligns(StartIn(c.symbols, C(j)), StopIn(c.symbols, C(m)), TypeOf(C(j)).align)
          PROVE  Follows(u, k, new, j)
      <4>1. m \in U /\ \A l \in U : l <= m \/ j <= l
        BY <1>5, <3>1, <3>3
      <4>2. Aligns(StartIn(new.symbols, C(j)), StopIn(new.symbols, C(m)), TypeOf(C(j)).align)
        BY <1>7, <1>9, <3>1, <3>3
      <4> QED BY <3>3, <4>1, <4>2 DEF Follows
    <3> QED BY <3>1, <3>2, <3>3 DEF Follows
  <2> QED BY <2>1, <2>2, <2>3
<1>15. \E j \in U : (\A l \in U : l <= j) /\ new.at = StopIn(new.symbols, C(j))
  <2>1. k \in U /\ \A l \in U : l <= k
    BY <1>5
  <2> QED BY <1>9, <2>1
<1>16. \E j \in U : new.size = StopIn(new.symbols, C(j))
  BY <1>5, <1>9, <1>10, <1>12
<1>17. new.align = 1 \/ \E j \in U : new.align = TypeOf(C(j)).align
  BY <1>5, <1>10, <1>12 DEF type
<1> HIDE DEF U, C
<1>18. CursorFits(u, k, new)
  BY <1>13, <1>14, <1>15, <1>16, <1>17 DEF CursorFits, U, C
<1> QED BY <1>18 DEF new

(* So do the turns of a class that is laid out to its end.                 *)
LEMMA CursorsFit ==
  ASSUME TypeOK, RefsInv, NEW u \in DOMAIN symbols
  PROVE  \A k \in 0 .. Turns(u) : ~Cursors(u)[k].stopped => CursorFits(u, k, Cursors(u)[k])
<1> DEFINE N == Turns(u)
           f == Cursors(u)
           S == {k \in 0 .. N : ~f[k].stopped => CursorFits(u, k, f[k])}
<1>1. N \in Nat
  BY TurnsAre
<1>2. AreCursors(f, u, N)
  BY <1>1, CursorsAre
<1>3. \A k \in 0 .. N : CursorTyped(u, k, f[k])
  BY CursorsTyped
<1> HIDE DEF f
<1>4. 0 \in S
  <2>1. f[0] = FirstCursor /\ PlacedBy(u, 0) = {}
    BY <1>1, <1>2 DEF AreCursors, PlacedBy, TurnsOfKids
  <2> QED BY <1>1, <2>1 DEF CursorFits, FirstCursor
<1>5. ASSUME NEW k \in 1 .. N, k - 1 \in S PROVE k \in S
  <2>1. /\ f[k] = NextCursor(u, k, f[k - 1]) /\ CursorTyped(u, k - 1, f[k - 1])
        /\ ~f[k - 1].stopped => CursorFits(u, k - 1, f[k - 1])
    BY <1>1, <1>2, <1>3, <1>5 DEF AreCursors
  <2>2. CASE f[k - 1].stopped \/ ~IsOfPass(u, k)
    <3>1. f[k] = f[k - 1]
      BY <2>1, <2>2 DEF NextCursor
    <3>2. ~IsOfPass(u, k) => PlacedBy(u, k) = PlacedBy(u, k - 1)
      BY <1>1 DEF PlacedBy, TurnsOfKids
    <3> QED BY <2>1, <2>2, <3>1, <3>2 DEF CursorFits, Follows
  <2>3. CASE ~f[k - 1].stopped /\ IsOfPass(u, k) /\ ~Zombie(ChildAt(u, k))
    <3>1. CursorFits(u, k, Place(f[k - 1], ChildAt(u, k)))
      BY <2>1, <2>3, TurnFits
    <3> QED BY <2>1, <2>3, <3>1 DEF NextCursor
  <2>4. CASE ~f[k - 1].stopped /\ IsOfPass(u, k) /\ Zombie(ChildAt(u, k))
    <3>1. f[k] = [f[k - 1] EXCEPT !.stopped = TRUE]
      BY <2>1, <2>4 DEF NextCursor, Place
    <3>2. f[k].stopped
      BY <2>1, <3>1 DEF CursorTyped, Cursor
    <3> QED BY <3>2
  <2> QED BY <2>2, <2>3, <2>4
<1> HIDE DEF S
<1>6. \A k \in 0 .. N : k \in S
  BY <1>1, <1>4, <1>5, UpTo
<1> QED BY <1>6 DEF S, f

(* A class stays laid out when nothing that its layout says changes.       *)
LEMMA ClassKept ==
  ASSUME NEW u, ClassLaidOut(u), symbols'[u].children = symbols[u].children,
         symbols'[u].size = symbols[u].size, symbols'[u].align = symbols[u].align,
         \A i \in Owned(u) :
           /\ symbols'[i].kind = symbols[i].kind /\ symbols'[i].offset = symbols[i].offset
           /\ symbols'[i].actual = symbols[i].actual
           /\ TypeOf(i)'.size = TypeOf(i).size /\ TypeOf(i)'.align = TypeOf(i).align
  PROVE  ClassLaidOut(u)'
<1>1. Owned(u)' = Owned(u)
  BY DEF Owned
<1>2. \A i, j \in Owned(u) : IsBefore(u, i, j)' <=> IsBefore(u, i, j)
  BY DEF IsBefore
<1>3. \A i, j \in Owned(u) : IsRightBefore(u, i, j)' <=> IsRightBefore(u, i, j)
  BY <1>1, <1>2 DEF IsRightBefore
<1>4. \A i \in Owned(u) : Start(i)' = Start(i) /\ Stop(i)' = Stop(i)
  BY DEF Start, Stop
<1>5. \A i \in Owned(u)' : symbols'[i].offset = Automatic =>
        \/ (\A j \in Owned(u)' : ~IsBefore(u, j, i)') /\ Aligns(Start(i)', 0, TypeOf(i)'.align)
        \/ \E j \in Owned(u)' :
             IsRightBefore(u, j, i)' /\ Aligns(Start(i)', Stop(j)', TypeOf(i)'.align)
  <2>1. ASSUME NEW i \in Owned(u), symbols[i].offset = Automatic
        PROVE  \/ (\A j \in Owned(u) : ~IsBefore(u, j, i)') /\ Aligns(Start(i)', 0, TypeOf(i)'.align)
               \/ \E j \in Owned(u) :
                    IsRightBefore(u, j, i)' /\ Aligns(Start(i)', Stop(j)', TypeOf(i)'.align)
    <3>1. CASE (\A j \in Owned(u) : ~IsBefore(u, j, i)) /\ Aligns(Start(i), 0, TypeOf(i).align)
      BY <1>2, <1>4, <3>1
    <3>2. ASSUME NEW j \in Owned(u), IsRightBefore(u, j, i),
                 Aligns(Start(i), Stop(j), TypeOf(i).align)
          PROVE  IsRightBefore(u, j, i)' /\ Aligns(Start(i)', Stop(j)', TypeOf(i)'.align)
      BY <1>3, <1>4, <3>2
    <3> QED BY <2>1, <3>1, <3>2 DEF ClassLaidOut
  <2> QED BY <1>1, <2>1
<1>6. /\ \A i \in Owned(u)' : TypeOf(i)'.align <= symbols'[u].align
      /\ symbols'[u].align = 1 \/ \E i \in Owned(u)' : symbols'[u].align = TypeOf(i)'.align
  BY <1>1 DEF ClassLaidOut
<1>7. \/ Owned(u)' = {} /\ symbols'[u].size = 0
      \/ \E i \in Owned(u)' : /\ \A j \in Owned(u)' : Stop(j)' <= Stop(i)'
                              /\ Aligns(symbols'[u].size, Stop(i)', symbols'[u].align)
  BY <1>1, <1>4 DEF ClassLaidOut
<1> QED BY <1>5, <1>6, <1>7 DEF ClassLaidOut

(* What a notification does not touch.                                     *)
SameTree ==
  /\ symbols' \in Seq(Symbols) /\ Len(symbols') = Len(symbols) /\ DOMAIN symbols' = DOMAIN symbols
  /\ \A i \in DOMAIN symbols :
       /\ symbols'[i].kind = symbols[i].kind /\ symbols'[i].parent = symbols[i].parent
       /\ symbols'[i].type = symbols[i].type /\ symbols'[i].offset = symbols[i].offset
       /\ symbols'[i].dim = symbols[i].dim /\ symbols'[i].children = symbols[i].children
       /\ symbols'[i].dependents = symbols[i].dependents
SameSizes(i) ==
  \A k \in DOMAIN symbols \ {i} :
    symbols'[k].size = symbols[k].size /\ symbols'[k].align = symbols[k].align

(* A class is laid out, up to a child whose type is gone.                  *)
LEMMA LaidOut ==
  ASSUME TypeOK, RefsInv, NEW u \in DOMAIN symbols, symbols' = LayoutType(u)
  PROVE  /\ SameTree /\ SameSizes(u)
         /\ \A i \in DOMAIN symbols : symbols'[i].actual # symbols[i].actual => i \in Owned(u)
         /\ (~Stops(u) /\ \A i \in Owned(u) : symbols[i].type # u) =>
              (\A i \in Owned(u) : ~Zombie(i)) /\ ClassLaidOut(u)'
<1> DEFINE N == Turns(u)
           c == Cursors(u)[N]
           t == c.symbols
           s == [t[u] EXCEPT !.size = RoundUp(c.size, c.align), !.align = c.align]
<1>1. N \in Nat /\ N \in 0 .. N
  BY TurnsAre
<1>2. CursorTyped(u, N, c) /\ (~c.stopped => CursorFits(u, N, c))
  BY <1>1, CursorsTyped, CursorsFit
<1>3. PlacedBy(u, N) = TurnsOfKids(u)
  BY <1>1 DEF PlacedBy, TurnsOfKids
<1>4. symbols' =
       IF c.stopped THEN t
       ELSE [t EXCEPT ![u].size = RoundUp(c.size, c.align), ![u].align = c.align]
  BY DEF LayoutType
<1>5. Stops(u) <=> c.stopped
  BY DEF Stops
<1>6. c.size \in Nat /\ c.align \in Nat \ {0} /\ t \in Seq(Symbols) /\ DOMAIN t = DOMAIN symbols
  BY <1>2 DEF CursorTyped, Cursor
<1> HIDE DEF c
<1>7. /\ RoundUp(c.size, c.align) \in Nat
      /\ Aligns(RoundUp(c.size, c.align), c.size, c.align)
  BY <1>6, RoundedUp
<1>8. \A i \in DOMAIN symbols : t[i] \in Symbols /\ symbols[i] \in Symbols
  BY <1>6, Fields DEF TypeOK
<1>9. ASSUME NEW i \in DOMAIN symbols
      PROVE  /\ t[i] = [symbols[i] EXCEPT !.actual = t[i].actual]
             /\ t[i].actual # symbols[i].actual => symbols[i].offset = Automatic /\ i \in Owned(u)
  BY <1>1, <1>2, <1>3, TurnsAre DEF CursorTyped, TurnsOfKids
<1>10. ASSUME NEW i \in DOMAIN symbols
       PROVE  /\ t[i].kind = symbols[i].kind /\ t[i].parent = symbols[i].parent
              /\ t[i].type = symbols[i].type /\ t[i].offset = symbols[i].offset
              /\ t[i].dim = symbols[i].dim /\ t[i].children = symbols[i].children
              /\ t[i].dependents = symbols[i].dependents
              /\ t[i].size = symbols[i].size /\ t[i].align = symbols[i].align
  <2>1. t[i] = [symbols[i] EXCEPT !.actual = t[i].actual] /\ symbols[i] \in Symbols
    BY <1>8, <1>9
  <2> QED BY <2>1 DEF Symbols
<1> HIDE DEF t
<1>11. s \in Symbols
  BY ZenonT(60), <1>6, <1>7, <1>8 DEF Symbols
<1>12. /\ s.kind = t[u].kind /\ s.parent = t[u].parent /\ s.type = t[u].type
       /\ s.offset = t[u].offset
       /\ s.dim = t[u].dim /\ s.children = t[u].children /\ s.dependents = t[u].dependents
       /\ s.actual = t[u].actual /\ s.size = RoundUp(c.size, c.align) /\ s.align = c.align
  BY <1>8 DEF Symbols
<1>13. symbols' = IF c.stopped THEN t ELSE [t EXCEPT ![u] = s]
  BY <1>4
<1> HIDE DEF s
<1>14. /\ symbols' \in Seq(Symbols) /\ Len(symbols') = Len(t) /\ DOMAIN symbols' = DOMAIN symbols
       /\ \A i \in DOMAIN symbols : symbols'[i] = IF i = u /\ ~c.stopped THEN s ELSE t[i]
  <2>1. /\ [t EXCEPT ![u] = s] \in Seq(Symbols) /\ Len([t EXCEPT ![u] = s]) = Len(t)
        /\ DOMAIN [t EXCEPT ![u] = s] = DOMAIN t
        /\ \A i \in DOMAIN t : [t EXCEPT ![u] = s][i] = IF i = u THEN s ELSE t[i]
    BY SMTT(60), <1>6, <1>11, Replaced
  <2> QED BY <1>6, <1>13, <2>1
<1>15. Len(t) = Len(symbols)
  <2>1. /\ Len(t) \in Nat /\ DOMAIN t = 1 .. Len(t)
        /\ Len(symbols) \in Nat /\ DOMAIN symbols = 1 .. Len(symbols)
    BY SMTT(60), <1>6, LenProperties DEF TypeOK
  <2>2. 1 .. Len(t) = 1 .. Len(symbols)
    BY <1>6, <2>1
  <2> QED BY <2>1, <2>2, SameBounds
<1>16. SameTree
  BY <1>10, <1>12, <1>14, <1>15 DEF SameTree
<1>17. SameSizes(u)
  BY <1>10, <1>14 DEF SameSizes
<1>18. \A i \in DOMAIN symbols : /\ symbols'[i].actual = t[i].actual
                                 /\ symbols'[i].actual # symbols[i].actual => i \in Owned(u)
  BY <1>9, <1>12, <1>14
<1>19. ASSUME ~Stops(u), \A i \in Owned(u) : symbols[i].type # u
       PROVE  (\A i \in Owned(u) : ~Zombie(i)) /\ ClassLaidOut(u)'
  <2> DEFINE T == TurnsOfKids(u)
             C(j) == ChildAt(u, j)
  <2>1. ~c.stopped /\ CursorFits(u, N, c)
    BY <1>2, <1>5, <1>19
  <2>2. /\ \A j \in T : C(j) \in Owned(u)
        /\ \A i \in Owned(u) : \E j \in T : C(j) = i
        /\ \A j, l \in T : j < l <=> IsBefore(u, C(j), C(l))
        /\ \A i \in Owned(u) : i \in DOMAIN symbols
        /\ \A j \in T : j \in Nat
    BY TurnsAre DEF TurnsOfKids
  <2>3. \A i \in Owned(u) : ~Zombie(i)
    BY <1>3, <2>1, <2>2 DEF CursorFits
  <2>4. symbols'[u].size = RoundUp(c.size, c.align) /\ symbols'[u].align = c.align
    BY <1>12, <1>14, <2>1
  <2>5. Owned(u)' = Owned(u)
    BY <1>16 DEF Owned, SameTree
  <2>6. \A i, j \in Owned(u) : IsBefore(u, i, j)' <=> IsBefore(u, i, j)
    BY <1>16, <2>2 DEF IsBefore, SameTree
  <2>7. \A i, j \in Owned(u) : IsRightBefore(u, i, j)' <=> IsRightBefore(u, i, j)
    BY <2>5, <2>6 DEF IsRightBefore
  <2>8. ASSUME NEW i \in Owned(u)
        PROVE  /\ TypeOf(i)'.size = TypeOf(i).size /\ TypeOf(i)'.align = TypeOf(i).align
               /\ symbols'[i].offset = symbols[i].offset
               /\ Start(i)' = StartIn(t, i) /\ Stop(i)' = StopIn(t, i)
    <3>1. symbols[i].type \in DOMAIN symbols \ {u}
      BY <1>19, <2>3, <2>8 DEF Zombie, TypeOK
    <3>2. symbols'[i].type = symbols[i].type /\ symbols'[i].offset = symbols[i].offset
      BY <1>16, <2>2 DEF SameTree
    <3>3. TypeOf(i)'.size = TypeOf(i).size /\ TypeOf(i)'.align = TypeOf(i).align
      BY <1>17, <3>1, <3>2 DEF SameSizes, TypeOf
    <3>4. Start(i)' = StartIn(t, i)
      BY <1>18, <2>2, <3>2 DEF Start, StartIn
    <3> QED BY <3>2, <3>3, <3>4 DEF Stop, StopIn
  <2>9. /\ \A j \in T :
             LET i == C(j) IN
             /\ StopIn(t, i) <= c.size /\ TypeOf(i).align <= c.align
             /\ symbols[i].offset = Automatic => Follows(u, N, c, j)
        /\ \/ T = {} /\ c.size = 0
           \/ \E j \in T : c.size = StopIn(t, C(j))
        /\ c.align = 1 \/ \E j \in T : c.align = TypeOf(C(j)).align
    BY <1>3, <2>1 DEF CursorFits, t
  <2> DEFINE before(i, j) == IsBefore(u, i, j)
  <2>10. ASSUME NEW i \in Owned(u), symbols[i].offset = Automatic
         PROVE  \/ (\A j \in Owned(u) : ~IsBefore(u, j, i)) /\ Aligns(StartIn(t, i), 0, TypeOf(i).align)
                \/ \E j \in Owned(u) : IsRightBefore(u, j, i)
                                       /\ Aligns(StartIn(t, i), StopIn(t, j), TypeOf(i).align)
    <3>1. PICK k \in T : C(k) = i
      BY <2>2
    <3>2. Follows(u, N, c, k)
      BY <2>9, <2>10, <3>1
    <3>3. \/ (\A l \in T : k <= l) /\ Aligns(StartIn(t, i), 0, TypeOf(i).align)
          \/ \E m \in T : /\ m < k /\ \A l \in T : l <= m \/ k <= l
                          /\ Aligns(StartIn(t, i), StopIn(t, C(m)), TypeOf(i).align)
      BY <1>3, <3>1, <3>2 DEF Follows, t
    <3>4. CASE (\A l \in T : k <= l) /\ Aligns(StartIn(t, i), 0, TypeOf(i).align)
      <4>1. ASSUME NEW j \in Owned(u) PROVE ~IsBefore(u, j, i)
        <5>1. PICK l \in T : C(l) = j
          BY <2>2
        <5>2. ~(l < k)
          BY <2>2, <3>4
        <5> QED BY <2>2, <3>1, <5>1, <5>2
      <4> QED BY <3>4, <4>1
    <3>5. ASSUME NEW m \in T, m < k, \A l \in T : l <= m \/ k <= l,
                 Aligns(StartIn(t, i), StopIn(t, C(m)), TypeOf(i).align)
          PROVE  \E j \in Owned(u) : IsRightBefore(u, j, i)
                                     /\ Aligns(StartIn(t, i), StopIn(t, j), TypeOf(i).align)
      <4>1. IsBefore(u, C(m), i) /\ C(m) \in Owned(u)
        BY <2>2, <3>1, <3>5
      <4>2. ASSUME NEW j \in Owned(u), IsBefore(u, C(m), j), IsBefore(u, j, i) PROVE FALSE
        <5>1. PICK l \in T : C(l) = j
          BY <2>2
        <5>2. m < l /\ l < k
          BY <2>2, <3>1, <4>2, <5>1
        <5> QED BY <2>2, <3>5, <5>2
      <4>3. IsRightBefore(u, C(m), i)
        BY <4>1, <4>2 DEF IsRightBefore
      <4> QED BY <3>5, <4>1, <4>3
    <3> QED BY <3>3, <3>4, <3>5
  <2>11. \A i \in Owned(u) : StopIn(t, i) <= c.size /\ TypeOf(i).align <= c.align
    BY <2>2, <2>9
  <2>12. c.align = 1 \/ \E i \in Owned(u) : c.align = TypeOf(i).align
    BY <2>2, <2>9
  <2>13. \/ Owned(u) = {} /\ c.size = 0
         \/ \E i \in Owned(u) : c.size = StopIn(t, i)
    BY <2>2, <2>9
  <2>14. /\ \A i \in Owned(u)' : symbols'[i].offset = Automatic =>
              \/ (\A j \in Owned(u)' : ~IsBefore(u, j, i)') /\ Aligns(Start(i)', 0, TypeOf(i)'.align)
              \/ \E j \in Owned(u)' :
                   IsRightBefore(u, j, i)' /\ Aligns(Start(i)', Stop(j)', TypeOf(i)'.align)
    <3>1. ASSUME NEW i \in Owned(u), symbols[i].offset = Automatic
          PROVE  \/ (\A j \in Owned(u) : ~IsBefore(u, j, i)') /\ Aligns(Start(i)', 0, TypeOf(i)'.align)
                 \/ \E j \in Owned(u) :
                      IsRightBefore(u, j, i)' /\ Aligns(Start(i)', Stop(j)', TypeOf(i)'.align)
      <4>1. CASE (\A j \in Owned(u) : ~IsBefore(u, j, i)) /\ Aligns(StartIn(t, i), 0, TypeOf(i).align)
        BY <2>6, <2>8, <4>1
      <4>2. ASSUME NEW j \in Owned(u), IsRightBefore(u, j, i),
                   Aligns(StartIn(t, i), StopIn(t, j), TypeOf(i).align)
            PROVE  IsRightBefore(u, j, i)' /\ Aligns(Start(i)', Stop(j)', TypeOf(i)'.align)
        BY <2>7, <2>8, <4>2
      <4> QED BY <2>10, <3>1, <4>1, <4>2
    <3> QED BY <2>5, <2>8, <3>1
  <2>15. /\ \A i \in Owned(u)' : TypeOf(i)'.align <= symbols'[u].align
         /\ symbols'[u].align = 1 \/ \E i \in Owned(u)' : symbols'[u].align = TypeOf(i)'.align
    BY <2>4, <2>5, <2>8, <2>11, <2>12
  <2>16. \/ Owned(u)' = {} /\ symbols'[u].size = 0
         \/ \E i \in Owned(u)' : /\ \A j \in Owned(u)' : Stop(j)' <= Stop(i)'
                                 /\ Aligns(symbols'[u].size, Stop(i)', symbols'[u].align)
    <3>1. CASE Owned(u) = {} /\ c.size = 0
      <4>1. T = {}
        BY <2>2, <3>1
      <4>2. c.align = 1
        BY <2>9, <4>1
      <4>3. Aligns(symbols'[u].size, 0, 1) /\ symbols'[u].size \in Nat
        BY <1>7, <2>4, <3>1, <4>2
      <4>4. symbols'[u].size = 0
        BY <4>3 DEF Aligns
      <4> QED BY <2>5, <3>1, <4>4
    <3>2. ASSUME NEW i \in Owned(u), c.size = StopIn(t, i)
          PROVE  /\ \A j \in Owned(u) : Stop(j)' <= Stop(i)'
                 /\ Aligns(symbols'[u].size, Stop(i)', symbols'[u].align)
      BY <1>7, <2>4, <2>8, <2>11, <3>2
    <3> QED BY <2>5, <2>13, <3>1, <3>2
  <2> QED BY <2>3, <2>14, <2>15, <2>16 DEF ClassLaidOut
<1> QED BY <1>16, <1>17, <1>18, <1>19

(* What a notification recomputes, and that it fits then unless the symbol *)
(* is made of itself.                                                      *)
LEMMA RecomputedFits ==
  ASSUME TypeOK, RefsInv, NEW i \in DOMAIN symbols, symbols' = Recomputed(i)
  PROVE  /\ SameTree /\ SameSizes(i)
         /\ \A k \in DOMAIN symbols : symbols'[k].actual # symbols[k].actual =>
              IF symbols[i].kind = "data" THEN k = i ELSE k \in Owned(i)
         /\ (symbols[i].kind = "udt" /\ ~Fails(i) /\ \A k \in Owned(i) : symbols[k].type # i) =>
              (\A k \in Owned(i) : ~Zombie(k)) /\ ClassLaidOut(i)'
         /\ symbols[i].type # i /\ ~Zombie(i) =>
              /\ symbols[i].kind = "array" => ArrayFits(i)'
              /\ symbols[i].kind = "data" => DataFits(i)'
<1>1. /\ symbols \in Seq(Symbols) /\ Len(symbols) \in Nat
      /\ \A k \in DOMAIN symbols : symbols[k] \in Symbols
  BY Fields DEF TypeOK
<1>2. CASE symbols[i].kind = "udt"
  <2>1. symbols' = LayoutType(i)
    BY <1>2 DEF Recomputed
  <2>2. Fails(i) <=> Stops(i)
    BY <1>2 DEF Fails
  <2> QED BY <1>2, <2>1, <2>2, LaidOut
<1>3. CASE symbols[i].kind \in {"array", "data"} /\ ~Zombie(i)
  <2> DEFINE of == symbols[symbols[i].type]
             s == IF symbols[i].kind = "array"
                  THEN [symbols[i] EXCEPT !.size = of.size * symbols[i].dim, !.align = of.align]
                  ELSE [symbols[i] EXCEPT !.actual = symbols[i].offset, !.size = of.size]
  <2>1. symbols[i].type \in DOMAIN symbols /\ of \in Symbols
    BY <1>1, <1>3 DEF Zombie, TypeOK
  <2>2. /\ of.size \in Nat /\ of.align \in Nat \ {0} /\ symbols[i].dim \in Nat
        /\ symbols[i].offset \in Nat \cup {Automatic} /\ symbols[i] \in Symbols
    BY <2>1, Fields DEF TypeOK
  <2>3. symbols' = [symbols EXCEPT ![i] = s]
    BY <1>3 DEF Recomputed, OfArray, OfData
  <2>4. of.size * symbols[i].dim \in Nat
    BY <2>2
  <2> HIDE DEF of
  <2>5. /\ s \in Symbols /\ s.kind = symbols[i].kind /\ s.parent = symbols[i].parent
        /\ s.type = symbols[i].type /\ s.offset = symbols[i].offset /\ s.dim = symbols[i].dim
        /\ s.children = symbols[i].children /\ s.dependents = symbols[i].dependents
    BY <2>2, <2>4 DEF Symbols
  <2>6. IF symbols[i].kind = "array"
        THEN s.size = of.size * symbols[i].dim /\ s.align = of.align /\ s.actual = symbols[i].actual
        ELSE s.size = of.size /\ s.actual = symbols[i].offset
    BY <2>2 DEF Symbols
  <2> HIDE DEF s
  <2>7. /\ symbols' \in Seq(Symbols) /\ Len(symbols') = Len(symbols)
        /\ DOMAIN symbols' = DOMAIN symbols
        /\ \A k \in DOMAIN symbols : symbols'[k] = IF k = i THEN s ELSE symbols[k]
    BY <1>1, <2>3, <2>5, Replaced
  <2>8. SameTree /\ SameSizes(i)
    BY <2>5, <2>7 DEF SameTree, SameSizes
  <2>9. \A k \in DOMAIN symbols : symbols'[k].actual # symbols[k].actual =>
          symbols[i].kind = "data" /\ k = i
    BY <1>3, <2>6, <2>7
  <2>10. symbols[i].type # i =>
           /\ symbols[i].kind = "array" => ArrayFits(i)'
           /\ symbols[i].kind = "data" => DataFits(i)'
    <3>1. SUFFICES ASSUME symbols[i].type # i
                   PROVE  /\ symbols[i].kind = "array" => ArrayFits(i)'
                          /\ symbols[i].kind = "data" => DataFits(i)'
      OBVIOUS
    <3>2. symbols'[i] = s /\ symbols'[i].type = symbols[i].type
          /\ symbols'[symbols'[i].type] = of
      BY <2>1, <2>5, <2>7, <3>1 DEF of
    <3>3. symbols[i].kind = "array" => ArrayFits(i)'
      BY <2>2, <2>5, <2>6, <3>2 DEF ArrayFits
    <3>4. symbols[i].kind = "data" => DataFits(i)'
      BY <2>5, <2>6, <3>2 DEF DataFits
    <3> QED BY <3>3, <3>4
  <2> QED BY <1>3, <2>8, <2>9, <2>10
<1>4. CASE ~(symbols[i].kind \in {"array", "data"} /\ ~Zombie(i)) /\ symbols[i].kind # "udt"
  <2>1. symbols' = symbols
    BY <1>4 DEF Recomputed, OfData
  <2> QED BY <1>1, <1>4, <2>1 DEF SameTree, SameSizes
<1> QED BY <1>2, <1>3, <1>4

(* The members of a level, of two stacks and of a stack without its first. *)
LEMMA Unions ==
  ASSUME NEW X
  PROVE  /\ \A S \in SUBSET X : Level(S) \in Seq((SUBSET X) \ {{}}) /\ UnionOf(Level(S)) = S
         /\ \A v, w \in Seq((SUBSET X) \ {{}}) :
              v \o w \in Seq((SUBSET X) \ {{}}) /\ UnionOf(v \o w) = UnionOf(v) \cup UnionOf(w)
         /\ \A w \in Seq((SUBSET X) \ {{}}) : w # <<>> =>
              /\ Head(w) \in (SUBSET X) \ {{}} /\ Tail(w) \in Seq((SUBSET X) \ {{}})
              /\ UnionOf(w) = Head(w) \cup UnionOf(Tail(w))
         /\ \A w \in Seq((SUBSET X) \ {{}}) : UnionOf(w) = {} <=> w = <<>>
<1> DEFINE Y == (SUBSET X) \ {{}}
<1>1. ASSUME NEW S \in SUBSET X PROVE Level(S) \in Seq(Y) /\ UnionOf(Level(S)) = S
  <2>1. CASE S = {}
    BY <2>1 DEF Level, UnionOf
  <2>2. CASE S # {}
    <3>1. S \in Y
      BY <2>2
    <3>2. Level(S) = <<S>>
      BY <2>2, Zenon DEF Level
    <3>3. <<S>> \in Seq(Y) /\ DOMAIN <<S>> = {1} /\ <<S>>[1] = S
      BY <3>1
    <3> QED BY <3>2, <3>3 DEF UnionOf
  <2> QED BY <2>1, <2>2
<1> HIDE DEF Y
<1>2. ASSUME NEW v \in Seq(Y), NEW w \in Seq(Y)
      PROVE  v \o w \in Seq(Y) /\ UnionOf(v \o w) = UnionOf(v) \cup UnionOf(w)
  <2>1. /\ v \o w \in Seq(Y) /\ Len(v \o w) = Len(v) + Len(w)
        /\ \A k \in 1 .. Len(v) + Len(w) : (v \o w)[k] = IF k <= Len(v) THEN v[k] ELSE w[k - Len(v)]
    BY ConcatProperties
  <2>2. /\ Len(v) \in Nat /\ Len(w) \in Nat /\ DOMAIN v = 1 .. Len(v) /\ DOMAIN w = 1 .. Len(w)
        /\ DOMAIN (v \o w) = 1 .. Len(v) + Len(w)
    BY <2>1, LenProperties
  <2> DEFINE x == v \o w
  <2>3. \A k \in DOMAIN x : (\E l \in DOMAIN v : x[k] = v[l]) \/ (\E l \in DOMAIN w : x[k] = w[l])
    <3>1. ASSUME NEW k \in 1 .. Len(v) + Len(w), ~(k <= Len(v))
          PROVE  \E l \in DOMAIN w : x[k] = w[l]
      <4>1. k - Len(v) \in 1 .. Len(w)
        BY <2>2, <3>1
      <4> QED BY <2>1, <2>2, <3>1, <4>1
    <3>2. ASSUME NEW k \in 1 .. Len(v) + Len(w), k <= Len(v)
          PROVE  \E l \in DOMAIN v : x[k] = v[l]
      BY <2>1, <2>2, <3>2
    <3> QED BY <2>2, <3>1, <3>2
  <2>4. \A l \in DOMAIN v : \E k \in DOMAIN x : x[k] = v[l]
    <3>1. ASSUME NEW l \in 1 .. Len(v) PROVE l \in 1 .. Len(v) + Len(w) /\ x[l] = v[l]
      BY <2>1, <2>2
    <3> QED BY <2>2, <3>1
  <2>5. \A l \in DOMAIN w : \E k \in DOMAIN x : x[k] = w[l]
    <3>1. ASSUME NEW l \in 1 .. Len(w) PROVE \E k \in 1 .. Len(v) + Len(w) : x[k] = w[l]
      <4>1. PICK k \in 1 .. Len(v) + Len(w) : ~(k <= Len(v)) /\ k - Len(v) = l
        <5>1. /\ Len(v) + l \in 1 .. Len(v) + Len(w) /\ ~(Len(v) + l <= Len(v))
              /\ (Len(v) + l) - Len(v) = l
          BY <2>2
        <5>2. \E k \in 1 .. Len(v) + Len(w) : ~(k <= Len(v)) /\ k - Len(v) = l
          BY ONLY <5>1, Zenon
        <5> QED BY <5>2
      <4> QED BY <2>1, <4>1
    <3> QED BY <2>2, <3>1
  <2> HIDE DEF x
  <2>6. UnionOf(x) = UnionOf(v) \cup UnionOf(w)
    BY <2>3, <2>4, <2>5 DEF UnionOf
  <2> QED BY <2>1, <2>6 DEF x
<1>3. ASSUME NEW w \in Seq(Y), w # <<>>
      PROVE  Head(w) \in Y /\ Tail(w) \in Seq(Y) /\ UnionOf(w) = Head(w) \cup UnionOf(Tail(w))
  <2>1. Head(w) \in Y /\ Tail(w) \in Seq(Y) /\ <<Head(w)>> \in Seq(Y) /\ w = <<Head(w)>> \o Tail(w)
    BY <1>3, HeadTailProperties
  <2>2. UnionOf(w) = UnionOf(<<Head(w)>>) \cup UnionOf(Tail(w))
    BY <1>2, <2>1
  <2>3. DOMAIN <<Head(w)>> = {1} /\ <<Head(w)>>[1] = Head(w)
    OBVIOUS
  <2> QED BY <2>1, <2>2, <2>3 DEF UnionOf
<1>4. ASSUME NEW w \in Seq(Y) PROVE UnionOf(w) = {} <=> w = <<>>
  <2>1. w # <<>> => Head(w) \subseteq UnionOf(w) /\ Head(w) # {}
    <3>1. SUFFICES ASSUME w # <<>> PROVE Head(w) \subseteq UnionOf(w) /\ Head(w) # {}
      OBVIOUS
    <3>2. Head(w) \in Y /\ UnionOf(w) = Head(w) \cup UnionOf(Tail(w))
      BY <1>3, <3>1
    <3> QED BY <3>2 DEF Y
  <2>2. w = <<>> => UnionOf(w) = {}
    BY DEF UnionOf
  <2> QED BY <2>1, <2>2
<1> QED BY <1>1, <1>2, <1>3, <1>4 DEF Y

(* The ids of one, two or three tasks.                                     *)
LEMMA IdsOfTasks ==
  ASSUME NEW do
  PROVE  /\ IdsOf(<<>>, do) = {}
         /\ \A t : IdsOf(<<t>>, do) = {x \in {t.id} : t.do = do}
         /\ \A s, t : IdsOf(<<s, t>>, do) = {x \in {s.id} : s.do = do} \cup {x \in {t.id} : t.do = do}
         /\ \A r, s, t : IdsOf(<<r, s, t>>, do) =
              {x \in {r.id} : r.do = do} \cup {x \in {s.id} : s.do = do} \cup {x \in {t.id} : t.do = do}
<1>1. IdsOf(<<>>, do) = {}
  BY DEF IdsOf
<1>2. ASSUME NEW t PROVE IdsOf(<<t>>, do) = {x \in {t.id} : t.do = do}
  <2>1. DOMAIN <<t>> = {1} /\ <<t>>[1] = t
    OBVIOUS
  <2> DEFINE list == <<t>>
  <2> HIDE DEF list
  <2> QED BY <2>1 DEF IdsOf, list
<1>3. ASSUME NEW s, NEW t
      PROVE  IdsOf(<<s, t>>, do) = {x \in {s.id} : s.do = do} \cup {x \in {t.id} : t.do = do}
  <2> DEFINE list == <<s, t>>
  <2>1. DOMAIN list = {1, 2} /\ list[1] = s /\ list[2] = t
    OBVIOUS
  <2> HIDE DEF list
  <2>2. IdsOf(list, do) = {x \in {s.id} : s.do = do} \cup {x \in {t.id} : t.do = do}
    BY <2>1 DEF IdsOf
  <2> QED BY <2>2 DEF list
<1>4. ASSUME NEW r, NEW s, NEW t
      PROVE  IdsOf(<<r, s, t>>, do) =
              {x \in {r.id} : r.do = do} \cup {x \in {s.id} : s.do = do} \cup {x \in {t.id} : t.do = do}
  <2> DEFINE list == <<r, s, t>>
  <2>1. DOMAIN list = {1, 2, 3} /\ list[1] = r /\ list[2] = s /\ list[3] = t
    OBVIOUS
  <2> HIDE DEF list
  <2>2. IdsOf(list, do) =
          {x \in {r.id} : r.do = do} \cup {x \in {s.id} : s.do = do} \cup {x \in {t.id} : t.do = do}
    BY <2>1 DEF IdsOf
  <2> QED BY <2>2 DEF list
<1> QED BY <1>1, <1>2, <1>3, <1>4

(* The tasks there may be, with the symbols that they erase or register.   *)
LEMMA TaskIds ==
  /\ IdsOf(<<>>, "erase") = {} /\ IdsOf(<<>>, "depend") = {}
  /\ \A i : /\ IdsOf(<<Task("depend", i)>>, "erase") = {}
            /\ IdsOf(<<Task("depend", i)>>, "depend") = {i}
            /\ IdsOf(<<Task("erase", i)>>, "erase") = {i}
            /\ IdsOf(<<Task("erase", i)>>, "depend") = {}
<1>1. \A do, id : Task(do, id).do = do /\ Task(do, id).id = id
  BY DEF Task
<1> HIDE DEF Task
<1> QED BY <1>1, IdsOfTasks

(* Those with the loop of a deletion.                                      *)
LEMMA LoopIds ==
  ASSUME NEW i, NEW c, NEW t, t.do = "children"
  PROVE  /\ IdsOf(<<t, Task("erase", i)>>, "erase") = {i}
         /\ IdsOf(<<t, Task("erase", i)>>, "depend") = {}
         /\ IdsOf(<<Task("erase", c), t, Task("erase", i)>>, "erase") = {c, i}
         /\ IdsOf(<<Task("erase", c), t, Task("erase", i)>>, "depend") = {}
<1> DEFINE d == Task("erase", c)
           e == Task("erase", i)
<1>1. d.do = "erase" /\ d.id = c /\ e.do = "erase" /\ e.id = i
  BY DEF Task
<1> HIDE DEF d, e
<1>2. IdsOf(<<t, e>>, "erase") = {i} /\ IdsOf(<<t, e>>, "depend") = {}
  <2>1. \A do : IdsOf(<<t, e>>, do) = {x \in {t.id} : t.do = do} \cup {x \in {e.id} : e.do = do}
    BY SMTT(60), IdsOfTasks
  <2> QED BY <1>1, <2>1
<1>3. IdsOf(<<d, t, e>>, "erase") = {c, i} /\ IdsOf(<<d, t, e>>, "depend") = {}
  <2>1. \A do : IdsOf(<<d, t, e>>, do) = {x \in {d.id} : d.do = do} \cup {x \in {t.id} : t.do = do}
                                          \cup {x \in {e.id} : e.do = do}
    BY SMTT(60), IdsOfTasks
  <2> QED BY <1>1, <2>1
<1> QED BY <1>2, <1>3 DEF d, e

(* Symbols still refer to symbols of the right kinds.                      *)
LEMMA RefsKept ==
  ASSUME TypeOK, RefsInv, symbols' \in Seq(Symbols),
         Len(symbols) <= Len(symbols'),
         \A i \in DOMAIN symbols :
           /\ symbols'[i].kind = symbols[i].kind /\ symbols'[i].parent = symbols[i].parent
           /\ \/ symbols'[i].type = symbols[i].type
              \/ /\ symbols'[i].type \in DOMAIN symbols /\ symbols[i].kind \in Users
                 /\ symbols[symbols'[i].type].kind \in TypeKinds
           /\ symbols'[i].dependents \subseteq 0 .. Len(symbols')
           /\ \/ symbols'[i].children = symbols[i].children
              \/ /\ symbols[i].kind = "udt" /\ IsInjective(symbols'[i].children)
                 /\ \A k \in DOMAIN symbols'[i].children :
                      LET c == symbols'[i].children[k] IN
                      /\ c \in DOMAIN symbols'
                      /\ symbols'[c].kind \in Positional
                      /\ symbols'[c].parent = i,
         \A i \in DOMAIN symbols' \ DOMAIN symbols : RefsOf(i)'
  PROVE  RefsInv'
<1>1. /\ Len(symbols) \in Nat /\ DOMAIN symbols = 1 .. Len(symbols)
      /\ Len(symbols') \in Nat /\ DOMAIN symbols' = 1 .. Len(symbols')
  BY LenProperties DEF TypeOK
<1>2. DOMAIN symbols \subseteq DOMAIN symbols' /\ Ids0 \subseteq Ids0'
      /\ Ids0 = DOMAIN symbols \cup {0} /\ Ids0' = DOMAIN symbols' \cup {0}
      /\ 0 \notin DOMAIN symbols'
  BY SMTT(60), <1>1 DEF Ids0
<1>3. ASSUME NEW i \in DOMAIN symbols PROVE RefsOf(i)'
  <2> DEFINE s == symbols[i]
             t == symbols'[i]
  <2>1. /\ t.kind = s.kind /\ t.parent = s.parent
        /\ \/ t.type = s.type
           \/ t.type \in DOMAIN symbols /\ s.kind \in Users /\ symbols[t.type].kind \in TypeKinds
        /\ t.dependents \subseteq Ids0'
        /\ \/ t.children = s.children
           \/ /\ s.kind = "udt" /\ IsInjective(t.children)
              /\ \A k \in DOMAIN t.children :
                   LET c == t.children[k] IN
                   c \in DOMAIN symbols' /\ symbols'[c].kind \in Positional /\ symbols'[c].parent = i
    BY DEF Ids0
  <2>2. \A k \in DOMAIN symbols :
          symbols'[k].kind = symbols[k].kind /\ symbols'[k].parent = symbols[k].parent
    OBVIOUS
  <2>3. /\ s.type \in Ids0 /\ s.parent \in Ids0
        /\ s.type # 0 => symbols[s.type].kind \in TypeKinds
        /\ s.parent # 0 => symbols[s.parent].kind = "udt"
        /\ s.kind \in Positional => s.type # 0 /\ s.parent # 0
        /\ s.kind \notin Positional => s.parent = 0
        /\ s.kind \in {"array", "data"} => s.type # 0
        /\ s.kind \in {"udt", "basic"} => s.type = 0
        /\ s.kind # "udt" => s.children = <<>>
        /\ IsInjective(s.children)
        /\ \A k \in DOMAIN s.children :
             LET c == s.children[k] IN
             c \in DOMAIN symbols /\ symbols[c].kind \in Positional /\ symbols[c].parent = i
    BY DEF RefsInv, RefsOf
  <2> HIDE DEF s, t
  <2>4. s.kind \in Users => s.kind \notin {"udt", "basic"}
    BY DEF Users, Positional
  <2>5. /\ t.type \in Ids0' /\ t.parent \in Ids0'
        /\ t.type # 0 => symbols'[t.type].kind \in TypeKinds
        /\ t.parent # 0 => symbols'[t.parent].kind = "udt"
        /\ t.kind \in Positional => t.type # 0 /\ t.parent # 0
        /\ t.kind \notin Positional => t.parent = 0
        /\ t.kind \in {"array", "data"} => t.type # 0
        /\ t.kind \in {"udt", "basic"} => t.type = 0
    BY <1>2, <2>1, <2>2, <2>3, <2>4
  <2>6. /\ t.kind # "udt" => t.children = <<>>
        /\ IsInjective(t.children)
        /\ \A k \in DOMAIN t.children :
             LET c == t.children[k] IN
             c \in DOMAIN symbols' /\ symbols'[c].kind \in Positional /\ symbols'[c].parent = i
    BY SMTT(60), <1>2, <2>1, <2>2, <2>3
  <2> QED BY <2>1, <2>5, <2>6 DEF RefsOf, t
<1> QED BY <1>3 DEF RefsInv

(* The loop of a deletion still runs over children of the class.           *)
LEMMA LoopKept ==
  ASSUME NEW t, NEW u, LoopTask(t, u), Len(symbols'[u].children) <= Len(t.slots),
         \A i \in DOMAIN symbols :
           /\ i \in DOMAIN symbols'
           /\ symbols'[i].kind = symbols[i].kind /\ symbols'[i].parent = symbols[i].parent
  PROVE  LoopTask(t, u)'
BY DEF LoopTask

(* The tasks still stand for symbols of the right kinds.                   *)
LEMMA TasksKept ==
  ASSUME TypeOK, TasksInv, tasks' = tasks, live' = live, SameTree
  PROVE  TasksInv'
<1>1. /\ \A i : i \in live => i \in DOMAIN symbols
      /\ \A i \in DOMAIN symbols :
           /\ i \in DOMAIN symbols'
           /\ symbols'[i].kind = symbols[i].kind /\ symbols'[i].parent = symbols[i].parent
           /\ symbols'[i].children = symbols[i].children
  BY DEF TypeOK, SameTree
<1>2. \A kinds : LiveOf(kinds)' = LiveOf(kinds)
  BY <1>1 DEF LiveOf
<1>3. \A t : \A u \in live : LoopTask(t, u) => LoopTask(t, u)'
  <2>1. ASSUME NEW t, NEW u \in live, LoopTask(t, u) PROVE LoopTask(t, u)'
    <3>1. Len(symbols'[u].children) <= Len(t.slots)
      BY <1>1, <2>1 DEF LoopTask
    <3> QED BY <1>1, <2>1, <3>1, LoopKept
  <2> QED BY <2>1
<1>4. CASE tasks = <<>>
  BY <1>4 DEF TasksInv
<1>5. ASSUME NEW f \in LiveOf(Positional), tasks = <<Task("depend", f)>>
      PROVE  TasksInv'
  <2>1. f \in LiveOf(Positional)' /\ tasks' = <<Task("depend", f)>>
    BY <1>2, <1>5
  <2> QED BY <2>1, Zenon DEF TasksInv, Task
<1>6. ASSUME NEW i \in live, tasks = <<Task("erase", i)>>
      PROVE  TasksInv'
  <2>1. i \in live' /\ tasks' = <<Task("erase", i)>>
    BY <1>6
  <2> QED BY <2>1, Zenon DEF TasksInv, Task
<1>7. ASSUME NEW u \in LiveOf({"udt"}), tasks = <<tasks[1], Task("erase", u)>>,
             LoopTask(tasks[1], u)
      PROVE  TasksInv'
  <2>1. u \in LiveOf({"udt"})' /\ tasks' = <<tasks'[1], Task("erase", u)>> /\ LoopTask(tasks[1], u)'
    BY <1>2, <1>3, <1>7 DEF LiveOf
  <2> QED BY <2>1, Zenon DEF TasksInv, Task
<1>8. ASSUME NEW u \in LiveOf({"udt"}), NEW c \in LiveOf(Positional),
             tasks = <<Task("erase", c), tasks[2], Task("erase", u)>>, LoopTask(tasks[2], u)
      PROVE  TasksInv'
  <2>1. /\ u \in LiveOf({"udt"})' /\ c \in LiveOf(Positional)'
        /\ tasks' = <<Task("erase", c), tasks'[2], Task("erase", u)>> /\ LoopTask(tasks[2], u)'
    BY <1>2, <1>3, <1>8 DEF LiveOf
  <2> QED BY <2>1, Zenon DEF TasksInv, Task
<1> QED BY <1>4, <1>5, <1>6, <1>7, <1>8 DEF TasksInv

(* The tasks have their type.                                              *)
LEMMA TasksTyped ==
  ASSUME LayoutAssumption, symbols' \in Seq(Symbols), live' \subseteq DOMAIN symbols',
         operations' \in 0 .. MaxOperations, CountInv', TasksInv'
  PROVE  \A k \in DOMAIN tasks' :
           tasks'[k] \in [do : {"depend", "children", "erase"}, id : Ids,
                         slots : Seq(Ids), next : Nat \ {0}]
<1> DEFINE Tasks == [do : {"depend", "children", "erase"}, id : Ids, slots : Seq(Ids),
                     next : Nat \ {0}]
<1>1. live' \subseteq Ids
  <2>1. Cardinality(BasicSizes) \in Nat
    BY LayoutNumbers, FS_CardinalityType
  <2>2. Len(symbols') \in Nat /\ DOMAIN symbols' = 1 .. Len(symbols')
    BY LenProperties
  <2>3. Len(symbols') <= Udts + Cardinality(BasicSizes) + MaxOperations
    BY LayoutNumbers, <2>1, <2>2 DEF CountInv
  <2> QED BY LayoutNumbers, <2>1, <2>2, <2>3 DEF Ids
<1>2. \A i \in live' : Task("depend", i) \in Tasks /\ Task("erase", i) \in Tasks
  BY <1>1 DEF Task
<1>3. \A t : \A u \in live' : LoopTask(t, u)' => t \in Tasks
  BY <1>1 DEF LoopTask
<1> HIDE DEF Tasks
<1>4. CASE tasks' = <<>>
  BY <1>4
<1>5. ASSUME NEW t \in Tasks, tasks' = <<t>> PROVE \A k \in DOMAIN tasks' : tasks'[k] \in Tasks
  BY <1>5
<1>6. ASSUME NEW s \in Tasks, NEW t \in Tasks, tasks' = <<s, t>>
      PROVE  \A k \in DOMAIN tasks' : tasks'[k] \in Tasks
  BY <1>6
<1>7. ASSUME NEW r \in Tasks, NEW s \in Tasks, NEW t \in Tasks, tasks' = <<r, s, t>>
      PROVE  \A k \in DOMAIN tasks' : tasks'[k] \in Tasks
  BY <1>7
<1>8. ASSUME NEW f \in LiveOf(Positional)', tasks' = <<Task("depend", f)>>
      PROVE  \A k \in DOMAIN tasks' : tasks'[k] \in Tasks
  BY <1>2, <1>5, <1>8 DEF LiveOf
<1>9. ASSUME NEW i \in live', tasks' = <<Task("erase", i)>>
      PROVE  \A k \in DOMAIN tasks' : tasks'[k] \in Tasks
  BY <1>2, <1>5, <1>9
<1>10. ASSUME NEW u \in LiveOf({"udt"})', tasks' = <<tasks'[1], Task("erase", u)>>,
              LoopTask(tasks[1], u)'
       PROVE  \A k \in DOMAIN tasks' : tasks'[k] \in Tasks
  BY <1>2, <1>3, <1>6, <1>10 DEF LiveOf
<1>11. ASSUME NEW u \in LiveOf({"udt"})', NEW c \in LiveOf(Positional)',
              tasks' = <<Task("erase", c), tasks'[2], Task("erase", u)>>, LoopTask(tasks[2], u)'
       PROVE  \A k \in DOMAIN tasks' : tasks'[k] \in Tasks
  BY <1>2, <1>3, <1>7, <1>11 DEF LiveOf
<1>12. \A k \in DOMAIN tasks' : tasks'[k] \in Tasks
  BY <1>4, <1>8, <1>9, <1>10, <1>11 DEF TasksInv
<1> QED BY <1>12 DEF Tasks

(* Which symbols the tasks are about.                                      *)
LEMMA TaskSets ==
  ASSUME TasksInv
  PROVE  /\ Erasing \subseteq live /\ NotYet \subseteq LiveOf(Positional)
         /\ NotYet # {} => /\ Erasing = {}
                           /\ \E f \in LiveOf(Positional) :
                                NotYet = {f} /\ tasks = <<Task("depend", f)>>
         /\ tasks # <<>> /\ Head(tasks).do = "depend" => Tail(tasks) = <<>> /\ Erasing = {}
         /\ tasks = <<>> => Erasing = {} /\ NotYet = {}
<1> DEFINE G ==
         /\ Erasing \subseteq live /\ NotYet \subseteq LiveOf(Positional)
         /\ NotYet # {} => /\ Erasing = {}
                           /\ \E f \in LiveOf(Positional) :
                                NotYet = {f} /\ tasks = <<Task("depend", f)>>
         /\ tasks # <<>> /\ Head(tasks).do = "depend" => Tail(tasks) = <<>> /\ Erasing = {}
         /\ tasks = <<>> => Erasing = {} /\ NotYet = {}
<1>0. \A do, id : Task(do, id).do = do
  BY DEF Task
<1>1. CASE tasks = <<>>
  BY <1>1, TaskIds DEF Erasing, NotYet
<1>2. ASSUME NEW f \in LiveOf(Positional), tasks = <<Task("depend", f)>>
      PROVE  G
  <2>1. Erasing = {} /\ NotYet = {f}
    BY <1>2, TaskIds DEF Erasing, NotYet
  <2>2. Tail(tasks) = <<>> /\ tasks # <<>>
    BY <1>2
  <2> QED BY <1>2, <2>1, <2>2
<1>3. ASSUME NEW i \in live, tasks = <<Task("erase", i)>>
      PROVE  G
  <2>1. Erasing = {i} /\ NotYet = {}
    BY <1>3, TaskIds DEF Erasing, NotYet
  <2>2. Head(tasks) = Task("erase", i) /\ tasks # <<>>
    BY <1>3
  <2> QED BY <1>0, <1>3, <2>1, <2>2
<1>4. ASSUME NEW u \in LiveOf({"udt"}), tasks = <<tasks[1], Task("erase", u)>>,
             LoopTask(tasks[1], u)
      PROVE  G
  <2> DEFINE t == tasks[1]
  <2>0. t.do = "children"
    BY <1>4 DEF LoopTask
  <2>1. tasks = <<t, Task("erase", u)>>
    BY <1>4
  <2>2. Head(tasks) = t /\ tasks # <<>>
    BY <2>1
  <2> HIDE DEF t
  <2>3. Erasing = {u} /\ NotYet = {}
    BY <2>0, <2>1, LoopIds DEF Erasing, NotYet
  <2>4. u \in live
    BY DEF LiveOf
  <2> QED BY <2>0, <2>2, <2>3, <2>4
<1>5. ASSUME NEW u \in LiveOf({"udt"}), NEW c \in LiveOf(Positional),
             tasks = <<Task("erase", c), tasks[2], Task("erase", u)>>, LoopTask(tasks[2], u)
      PROVE  G
  <2> DEFINE t == tasks[2]
  <2>0. t.do = "children"
    BY <1>5 DEF LoopTask
  <2>1. tasks = <<Task("erase", c), t, Task("erase", u)>>
    BY <1>5
  <2>2. Head(tasks) = Task("erase", c) /\ tasks # <<>>
    BY <2>1
  <2> HIDE DEF t
  <2>3. Erasing = {c, u} /\ NotYet = {}
    BY <2>0, <2>1, LoopIds DEF Erasing, NotYet
  <2>4. u \in live /\ c \in live
    BY DEF LiveOf
  <2> QED BY <1>0, <2>2, <2>3, <2>4
<1> QED BY <1>1, <1>2, <1>3, <1>4, <1>5 DEF TasksInv

(* A notification keeps the tree.                                          *)
LEMMA NotifyTree ==
  ASSUME LayoutAssumption, TreeInv, NEW i \in live, NotifyDependentChange(i)
  PROVE  TreeInv' /\ SameTree /\ Erasing' = Erasing /\ (~failed' => tasks' = tasks)
<1> USE DEF TreeInv
<1>1. /\ symbols' = Recomputed(i) /\ live' = live /\ operations' = operations
      /\ waiting # <<>> /\ i \in Head(waiting) /\ i \in DOMAIN symbols
  BY DEF NotifyDependentChange, TypeOK
<1>2. SameTree
  BY <1>1, RecomputedFits
<1>3. RefsInv'
  <2>1. \A k \in DOMAIN symbols : symbols[k].dependents \subseteq 0 .. Len(symbols)
    BY DEF RefsInv, RefsOf, Ids0
  <2>2. Len(symbols) \in Nat
    BY LenProperties DEF TypeOK
  <2> QED BY <1>2, <2>1, <2>2, RefsKept DEF SameTree
<1>4. waiting' \in Seq((SUBSET live') \ {{}}) /\ failed' \in BOOLEAN
  <2>1. CASE Fails(i)
    <3>1. waiting' = <<>> /\ failed' = TRUE
      BY <2>1 DEF NotifyDependentChange
    <3> QED BY <3>1
  <2>2. CASE ~Fails(i)
    <3>1. /\ waiting' = Level(symbols[i].dependents \cap live)
                          \o Level(Head(waiting) \ {i}) \o Tail(waiting)
          /\ failed' = failed
      BY <2>2 DEF NotifyDependentChange
    <3>2. waiting \in Seq((SUBSET live) \ {{}})
      BY DEF TypeOK
    <3>3. Head(waiting) \in SUBSET live /\ Tail(waiting) \in Seq((SUBSET live) \ {{}})
      BY <1>1, <3>2, Unions
    <3>4. /\ Level(symbols[i].dependents \cap live) \in Seq((SUBSET live) \ {{}})
          /\ Level(Head(waiting) \ {i}) \in Seq((SUBSET live) \ {{}})
      BY ZenonT(60), <3>3, Unions
    <3>5. waiting' \in Seq((SUBSET live) \ {{}})
      BY <3>1, <3>3, <3>4, Unions
    <3> QED BY <1>1, <3>1, <3>5 DEF TypeOK
  <2> QED BY <2>1, <2>2
<1>5. TasksInv' /\ Erasing' = Erasing /\ (~failed' => tasks' = tasks)
  <2>1. CASE tasks' = tasks
    BY <1>1, <1>2, <2>1, TasksKept DEF Erasing
  <2>2. CASE tasks' # tasks
    <3>1. failed' /\ tasks # <<>> /\ Head(tasks).do = "depend" /\ tasks' = Tail(tasks)
      BY <2>2 DEF NotifyDependentChange
    <3>2. tasks' = <<>> /\ Erasing = {}
      BY <3>1, TaskSets
    <3>3. Erasing' = {}
      BY <3>2, TaskIds DEF Erasing
    <3> QED BY <3>1, <3>2, <3>3 DEF TasksInv
  <2> QED BY <2>1, <2>2
<1>6. OwnedInv'
  <2>1. \A k \in live' : /\ k \in DOMAIN symbols /\ symbols'[k].kind = symbols[k].kind
                         /\ symbols'[k].parent = symbols[k].parent
                         /\ symbols'[k].children = symbols[k].children
    BY <1>1, <1>2 DEF SameTree, TypeOK
  <2>2. \A kinds : LiveOf(kinds)' = LiveOf(kinds)
    BY <1>1, <2>1 DEF LiveOf
  <2>3. \A u \in live : Kids(u)' = Kids(u) /\ Owned(u)' = Owned(u)
    <3>1. ASSUME NEW u \in live PROVE Kids(u)' = Kids(u) /\ Owned(u)' = Owned(u)
      <4>1. Kids(u)' = Kids(u)
        BY <1>1, <2>1, <2>2 DEF Kids, LiveOf
      <4>2. Owned(u)' = Owned(u)
        BY <1>1, <2>1 DEF Owned
      <4> QED BY <4>1, <4>2
    <3> QED BY <3>1
  <2>4. \A u \in LiveOf({"udt"}) : u \in live
    BY DEF LiveOf
  <2> QED BY <1>5, <2>2, <2>3, <2>4 DEF OwnedInv
<1>7. CountInv'
  BY <1>1, <1>2 DEF SameTree, CountInv
<1>8. TypeOK'
  <2>1. /\ symbols' \in Seq(Symbols) /\ live' \subseteq DOMAIN symbols'
        /\ operations' \in 0 .. MaxOperations
    BY <1>1, <1>2 DEF SameTree, TypeOK
  <2>2. \A k \in DOMAIN tasks' :
          tasks'[k] \in [do : {"depend", "children", "erase"}, id : Ids,
                         slots : Seq(Ids), next : Nat \ {0}]
    BY <1>5, <1>7, <2>1, TasksTyped
  <2> QED BY <1>4, <2>1, <2>2 DEF TypeOK
<1> QED BY <1>2, <1>3, <1>5, <1>6, <1>7, <1>8

(* What is laid out, or is still to be notified, stays so.                 *)
LEMMA NotifyLaid ==
  ASSUME LayoutAssumption, LayoutInv, NEW i \in live, NotifyDependentChange(i), ~failed'
  PROVE  RegisteredInv' /\ LaidInv' /\ ApartInv'
<1>1. TreeInv /\ TypeOK /\ RefsInv /\ TasksInv /\ OwnedInv
  BY DEF LayoutInv, TreeInv
<1>2. /\ ~failed /\ ~Fails(i) /\ symbols' = Recomputed(i) /\ live' = live
      /\ waiting # <<>> /\ i \in Head(waiting) /\ i \in DOMAIN symbols
      /\ waiting' =
           Level(symbols[i].dependents \cap live) \o Level(Head(waiting) \ {i}) \o Tail(waiting)
  BY <1>1 DEF NotifyDependentChange, TypeOK
<1>3. RegisteredInv /\ LaidInv /\ ApartInv
  BY <1>2 DEF LayoutInv
<1> DEFINE D == symbols[i].dependents \cap live
<1>4. /\ i \in Due /\ D \subseteq Due' /\ Due' \subseteq Due \cup D
      /\ \A k \in Due : k # i => k \in Due'
  <2> DEFINE L == (SUBSET live) \ {{}}
  <2>0. /\ \A S \in SUBSET live : Level(S) \in Seq(L) /\ UnionOf(Level(S)) = S
        /\ \A v, w \in Seq(L) : v \o w \in Seq(L) /\ UnionOf(v \o w) = UnionOf(v) \cup UnionOf(w)
    BY Unions
  <2>1. waiting \in Seq(L)
    BY <1>1 DEF TypeOK
  <2>2. /\ Head(waiting) \in SUBSET live /\ Tail(waiting) \in Seq(L)
        /\ UnionOf(waiting) = Head(waiting) \cup UnionOf(Tail(waiting))
    BY <1>2, <2>1, Unions
  <2>3. /\ Level(D) \in Seq(L) /\ UnionOf(Level(D)) = D
        /\ Level(Head(waiting) \ {i}) \in Seq(L)
        /\ UnionOf(Level(Head(waiting) \ {i})) = Head(waiting) \ {i}
    <3>1. Head(waiting) \ {i} \in SUBSET live /\ D \in SUBSET live
      BY <2>2
    <3> HIDE DEF L, D
    <3> QED BY <2>0, <3>1
  <2>4. UnionOf(waiting') = D \cup (Head(waiting) \ {i}) \cup UnionOf(Tail(waiting))
    <3> DEFINE a == Level(D)
               b == Level(Head(waiting) \ {i})
               c == Tail(waiting)
    <3>1. a \in Seq(L) /\ b \in Seq(L) /\ c \in Seq(L)
      BY <2>2, <2>3
    <3>2. waiting' = a \o b \o c
      BY <1>2
    <3> HIDE DEF a, b, c, L
    <3>3. a \o b \in Seq(L) /\ UnionOf(a \o b) = UnionOf(a) \cup UnionOf(b)
      BY <2>0, <3>1
    <3>4. UnionOf(a \o b \o c) = UnionOf(a \o b) \cup UnionOf(c)
      BY <2>0, <3>1, <3>3
    <3> QED BY <2>3, <3>2, <3>3, <3>4 DEF a, b, c
  <2> HIDE DEF D
  <2> QED BY <1>2, <2>2, <2>4 DEF Due
<1>5. SameTree /\ Erasing' = Erasing /\ tasks' = tasks
  BY <1>1, NotifyTree
<1>6. /\ NotYet' = NotYet
      /\ \A k \in live : /\ k \in DOMAIN symbols /\ symbols'[k].kind = symbols[k].kind
                         /\ symbols'[k].parent = symbols[k].parent
                         /\ symbols'[k].type = symbols[k].type
                         /\ symbols'[k].offset = symbols[k].offset
                         /\ symbols'[k].dim = symbols[k].dim
                         /\ symbols'[k].children = symbols[k].children
                         /\ symbols'[k].dependents = symbols[k].dependents
      /\ \A kinds : LiveOf(kinds)' = LiveOf(kinds)
      /\ \A k \in live : Zombie(k)' <=> Zombie(k)
  <2>1. NotYet' = NotYet
    BY <1>5 DEF NotYet
  <2>2. \A k \in live : /\ k \in DOMAIN symbols /\ symbols'[k].kind = symbols[k].kind
                        /\ symbols'[k].parent = symbols[k].parent
                        /\ symbols'[k].type = symbols[k].type
                        /\ symbols'[k].offset = symbols[k].offset
                        /\ symbols'[k].dim = symbols[k].dim
                        /\ symbols'[k].children = symbols[k].children
                        /\ symbols'[k].dependents = symbols[k].dependents
    BY <1>1, <1>5 DEF SameTree, TypeOK
  <2>3. \A kinds : LiveOf(kinds)' = LiveOf(kinds)
    BY <1>2, <2>2 DEF LiveOf
  <2>4. \A k \in live : Zombie(k)' <=> Zombie(k)
    BY <1>2, <2>2 DEF Zombie
  <2> QED BY <2>1, <2>2, <2>3, <2>4
<1>7. RegisteredInv'
  <2>1. \A t \in LiveOf(TypeKinds)' :
          symbols'[t].dependents
            = {k \in LiveOf(Users)' : symbols'[k].type = t} \ (Erasing' \cup NotYet')
    <3>1. \A k \in LiveOf(Users) : symbols'[k].type = symbols[k].type
      BY <1>6 DEF LiveOf
    <3>2. \A t \in LiveOf(TypeKinds) : symbols'[t].dependents = symbols[t].dependents
      BY <1>6 DEF LiveOf
    <3> QED BY <1>3, <1>5, <1>6, <3>1, <3>2 DEF RegisteredInv
  <2>2. \A k \in LiveOf(Positional)' :
          symbols'[k].dependents = IF k \in NotYet' THEN {} ELSE {symbols'[k].parent}
    <3>1. \A k \in LiveOf(Positional) :
            symbols'[k].dependents = symbols[k].dependents /\ symbols'[k].parent = symbols[k].parent
      BY <1>6 DEF LiveOf
    <3> QED BY <1>3, <1>6, <3>1 DEF RegisteredInv
  <2> QED BY <2>1, <2>2 DEF RegisteredInv
<1>8. ASSUME NEW f \in NotYet
      PROVE  i # f /\ i # symbols[f].type /\ f \in live /\ f \in DOMAIN symbols
  BY <1>1, <1>3, <1>4, <1>8, TaskSets DEF ApartInv, LiveOf, TypeOK
<1>9. ASSUME NEW k \in LiveOf(Users) \ Erasing, symbols[k].type = i PROVE k \in Due'
  <2>1. k \in DOMAIN symbols /\ k \in live
    BY <1>6 DEF LiveOf
  <2>2. i \in LiveOf(TypeKinds)
    <3>1. i # 0
      BY <1>1, <1>2, Fields DEF TypeOK
    <3> QED BY <1>1, <1>9, <2>1, <3>1 DEF RefsInv, RefsOf, LiveOf
  <2>3. k \notin NotYet
    BY <1>8, <1>9
  <2>4. k \in symbols[i].dependents
    BY <1>3, <1>9, <2>2, <2>3 DEF RegisteredInv
  <2> QED BY <1>4, <2>1, <2>4
<1>10. ASSUME symbols[i].kind \in Positional, symbols[i].parent \in live
       PROVE  symbols[i].parent \in Due'
  <2>1. i \in LiveOf(Positional) /\ i \notin NotYet
    BY <1>8, <1>10 DEF LiveOf
  <2>2. symbols[i].dependents = {symbols[i].parent}
    BY <1>3, <2>1 DEF RegisteredInv
  <2> QED BY <1>4, <1>10, <2>2
<1>11. /\ \A k \in DOMAIN symbols \ {i} :
            symbols'[k].size = symbols[k].size /\ symbols'[k].align = symbols[k].align
       /\ \A k \in DOMAIN symbols : symbols'[k].actual # symbols[k].actual =>
            IF symbols[i].kind = "data" THEN k = i ELSE k \in Owned(i)
       /\ (symbols[i].kind = "udt" /\ \A k \in Owned(i) : symbols[k].type # i) => ClassLaidOut(i)'
       /\ symbols[i].type # i /\ ~Zombie(i) =>
            /\ symbols[i].kind = "array" => ArrayFits(i)'
            /\ symbols[i].kind = "data" => DataFits(i)'
  BY <1>1, <1>2, RecomputedFits DEF SameSizes
<1>12. ASSUME NEW u \in LiveOf({"udt"}) \ Erasing
       PROVE  \/ \E k \in Owned(u)' : Zombie(k)' \/ k \in Due'
              \/ u \in Due' \/ ClassLaidOut(u)'
  <2>1. u \in live /\ u \in DOMAIN symbols /\ symbols[u].kind = "udt"
    BY <1>6 DEF LiveOf
  <2>2. Owned(u)' = Owned(u)
    BY <1>6, <2>1 DEF Owned
  <2>3. \A k \in Owned(u) : /\ k \in LiveOf(Users) \ Erasing /\ k \in live /\ k \in DOMAIN symbols
                            /\ symbols[k].kind \in Positional /\ symbols[k].parent = u
    BY <1>1, <1>6 DEF OwnedInv, Kids, LiveOf, Users
  <2>4. CASE \E k \in Owned(u) : symbols[k].type = i
    BY <1>9, <2>2, <2>3, <2>4
  <2>5. CASE u = i /\ \A k \in Owned(u) : symbols[k].type # i
    BY <1>11, <2>1, <2>5
  <2>6. CASE u # i /\ \A k \in Owned(u) : symbols[k].type # i
    <3>1. CASE \E k \in Owned(u) : Zombie(k)
      BY <1>6, <2>2, <2>3, <3>1
    <3>2. ASSUME NEW k \in Owned(u), k \in Due
          PROVE  k \in Due' \/ u \in Due'
      BY <1>4, <1>10, <2>1, <2>3, <3>2
    <3>3. CASE u \in Due
      BY <1>4, <2>6, <3>3
    <3>4. CASE (\A k \in Owned(u) : ~Zombie(k)) /\ ClassLaidOut(u)
      <4>1. /\ symbols'[u].children = symbols[u].children
            /\ symbols'[u].size = symbols[u].size /\ symbols'[u].align = symbols[u].align
        BY <1>6, <1>11, <2>1, <2>6
      <4>2. ASSUME NEW k \in Owned(u)
            PROVE  /\ symbols'[k].kind = symbols[k].kind /\ symbols'[k].offset = symbols[k].offset
                   /\ symbols'[k].actual = symbols[k].actual
                   /\ TypeOf(k)'.size = TypeOf(k).size /\ TypeOf(k)'.align = TypeOf(k).align
        <5>1. symbols'[k].kind = symbols[k].kind /\ symbols'[k].offset = symbols[k].offset
              /\ symbols'[k].type = symbols[k].type
          BY <1>6, <2>3
        <5>2. symbols[k].type \in DOMAIN symbols \ {i}
          BY <1>1, <2>6, <3>4 DEF Zombie, TypeOK
        <5>3. TypeOf(k)'.size = TypeOf(k).size /\ TypeOf(k)'.align = TypeOf(k).align
          BY <1>11, <5>1, <5>2 DEF TypeOf
        <5>4. symbols'[k].actual = symbols[k].actual
          <6>1. symbols[i].kind = "data" => k # i
            BY <2>3 DEF Positional
          <6>2. k \notin Owned(i)
            <7>1. \A l \in Owned(i) : symbols[l].parent = i
              BY <1>1, <1>2, TurnsAre
            <7> QED BY <2>3, <2>6, <7>1
          <6> QED BY <1>11, <2>3, <6>1, <6>2
        <5> QED BY <5>1, <5>3, <5>4
      <4> QED BY <3>4, <4>1, <4>2, ClassKept
    <3>5. \/ \E k \in Owned(u) : Zombie(k) \/ k \in Due
          \/ u \in Due \/ ClassLaidOut(u)
      BY <1>3 DEF LaidInv
    <3> QED BY <2>2, <3>1, <3>2, <3>3, <3>4, <3>5
  <2> QED BY <2>4, <2>5, <2>6
<1>13. ASSUME NEW a \in LiveOf({"array", "data"}) \ Erasing
       PROVE  \/ Zombie(a)' \/ a \in Due'
              \/ /\ symbols[a].kind = "array" => ArrayFits(a)'
                 /\ symbols[a].kind = "data" => DataFits(a)'
  <2>1. /\ a \in live /\ a \in DOMAIN symbols /\ symbols[a].kind \in {"array", "data"}
        /\ a \in LiveOf(Users)
    BY <1>6 DEF LiveOf, Users
  <2>2. CASE symbols[a].type = i
    BY <1>9, <2>1, <2>2
  <2>3. CASE Zombie(a)
    BY <1>6, <2>1, <2>3
  <2>4. CASE symbols[a].type # i /\ ~Zombie(a) /\ a = i
    BY <1>11, <2>4
  <2>5. CASE symbols[a].type # i /\ ~Zombie(a) /\ a # i
    <3>1. CASE a \in Due
      BY <1>4, <2>5, <3>1
    <3>2. CASE a \notin Due
      <4>1. /\ symbols[a].kind = "array" => ArrayFits(a)
            /\ symbols[a].kind = "data" => DataFits(a)
        BY <1>3, <2>1, <2>5, <3>2 DEF LaidInv, LiveOf
      <4>2. symbols[a].type \in DOMAIN symbols \ {i}
        BY <1>1, <2>5 DEF Zombie, TypeOK
      <4>3. symbols'[a].actual = symbols[a].actual
        <5>1. a \notin Owned(i)
          <6>1. \A l \in Owned(i) : symbols[l].kind \in Positional
            BY <1>1, <1>2, TurnsAre
          <6> QED BY <2>1, <6>1 DEF Positional
        <5> QED BY <1>11, <2>1, <2>5, <5>1
      <4>4. /\ symbols'[a].size = symbols[a].size /\ symbols'[a].align = symbols[a].align
            /\ symbols'[a].type = symbols[a].type /\ symbols'[a].offset = symbols[a].offset
            /\ symbols'[a].dim = symbols[a].dim
            /\ symbols'[symbols[a].type].size = symbols[symbols[a].type].size
            /\ symbols'[symbols[a].type].align = symbols[symbols[a].type].align
        BY <1>6, <1>11, <2>1, <2>5, <4>2
      <4>5. symbols[a].kind = "array" => ArrayFits(a)'
        BY <4>1, <4>4 DEF ArrayFits
      <4>6. symbols[a].kind = "data" => DataFits(a)'
        BY <4>1, <4>3, <4>4 DEF DataFits
      <4> QED BY <4>5, <4>6
    <3> QED BY <3>1, <3>2
  <2> QED BY <2>2, <2>3, <2>4, <2>5
<1>14. LaidInv'
  <2>1. \A a \in LiveOf({"array"}) : a \in LiveOf({"array", "data"}) /\ symbols[a].kind = "array"
    BY DEF LiveOf
  <2>2. \A a \in LiveOf({"data"}) : a \in LiveOf({"array", "data"}) /\ symbols[a].kind = "data"
    BY DEF LiveOf
  <2>3. \A a \in LiveOf({"array"}) \ Erasing : Zombie(a)' \/ a \in Due' \/ ArrayFits(a)'
    BY <1>13, <2>1
  <2>4. \A a \in LiveOf({"data"}) \ Erasing : Zombie(a)' \/ a \in Due' \/ DataFits(a)'
    BY <1>13, <2>2
  <2> QED BY <1>5, <1>6, <1>12, <2>3, <2>4 DEF LaidInv
<1>15. ApartInv'
  <2>1. ASSUME NEW f \in NotYet
        PROVE  \E set \in SUBSET (live \ {symbols'[f].type, f}) : Due' \subseteq set /\ Closed(set)'
    <3>1. PICK set \in SUBSET (live \ {symbols[f].type, f}) : Due \subseteq set /\ Closed(set)
      BY <1>3 DEF ApartInv
    <3>2. D \subseteq set
      BY <1>4, <3>1 DEF Closed
    <3>3. Closed(set)'
      <4>1. \A k \in set : symbols'[k].dependents = symbols[k].dependents
        BY <1>6, <3>1
      <4> QED BY <1>2, <3>1, <4>1 DEF Closed
    <3>4. symbols'[f].type = symbols[f].type
      BY <1>6, <1>8
    <3> QED BY <1>4, <3>1, <3>2, <3>3, <3>4
  <2> QED BY <1>2, <1>6, <2>1 DEF ApartInv
<1> QED BY <1>7, <1>14, <1>15

(* What is laid out stays so unless something that is notified changes.    *)
LEMMA LaidKept ==
  ASSUME TypeOK, RefsInv, LaidInv, NEW owners, NEW moved, moved \subseteq Due', Due = {},
         DOMAIN symbols \subseteq DOMAIN symbols',
         \A k \in DOMAIN symbols :
           /\ symbols'[k].kind = symbols[k].kind /\ symbols'[k].size = symbols[k].size
           /\ symbols'[k].align = symbols[k].align /\ symbols'[k].actual = symbols[k].actual
           /\ symbols'[k].dim = symbols[k].dim
           /\ k \notin moved =>
                symbols'[k].type = symbols[k].type /\ symbols'[k].offset = symbols[k].offset
           /\ k \notin owners => symbols'[k].children = symbols[k].children,
         live' \subseteq DOMAIN symbols', live' \cap DOMAIN symbols \subseteq live,
         \A k \in DOMAIN symbols : k \in live' \ Erasing' => k \in live \ Erasing,
         \A u \in owners : u \in Due' \cup Erasing' \/ u \notin live',
         \A k \in live' \ DOMAIN symbols :
           /\ symbols'[k].kind = "udt" => ClassLaidOut(k)'
           /\ symbols'[k].kind = "array" => ArrayFits(k)'
           /\ symbols'[k].kind = "data" => DataFits(k)'
  PROVE  LaidInv'
<1>1. DOMAIN symbols = 1 .. Len(symbols) /\ Len(symbols) \in Nat
  BY LenProperties DEF TypeOK
<1>2. ASSUME NEW k \in DOMAIN symbols, Zombie(k), k \notin moved, symbols[k].type # 0
      PROVE  Zombie(k)'
  <2>1. symbols[k].type \in DOMAIN symbols
    BY <1>1, <1>2 DEF RefsInv, RefsOf, Ids0
  <2> QED BY <1>2, <2>1 DEF Zombie
<1>3. ASSUME NEW k \in DOMAIN symbols, ~Zombie(k), k \notin moved
      PROVE  /\ symbols[k].type \in DOMAIN symbols
             /\ TypeOf(k)'.size = TypeOf(k).size /\ TypeOf(k)'.align = TypeOf(k).align
  <2>1. symbols[k].type \in DOMAIN symbols
    BY <1>3 DEF Zombie, TypeOK
  <2> QED BY <1>3, <2>1 DEF TypeOf
<1>4. ASSUME NEW u \in LiveOf({"udt"})' \ Erasing'
      PROVE  \/ \E k \in Owned(u)' : Zombie(k)' \/ k \in Due'
             \/ u \in Due' \/ ClassLaidOut(u)'
  <2>1. u \in live' /\ symbols'[u].kind = "udt" /\ u \in DOMAIN symbols'
    BY DEF LiveOf
  <2>2. CASE u \notin DOMAIN symbols
    BY <2>1, <2>2
  <2>3. CASE u \in owners
    BY <2>1, <2>3
  <2>4. CASE u \in DOMAIN symbols \ owners
    <3>1. u \in LiveOf({"udt"}) \ Erasing
      BY <2>1, <2>4 DEF LiveOf
    <3>2. symbols'[u].children = symbols[u].children /\ Owned(u)' = Owned(u)
      BY <2>4 DEF Owned
    <3>3. \A k \in Owned(u) : /\ k \in DOMAIN symbols /\ symbols[k].type # 0
      <4>1. \A k \in Owned(u) : k \in DOMAIN symbols /\ symbols[k].kind \in Positional
        BY <2>4, TurnsAre
      <4> QED BY <4>1 DEF RefsInv, RefsOf
    <3>4. CASE \E k \in Owned(u) : k \in moved
      BY <3>2, <3>4
    <3>5. CASE \A k \in Owned(u) : k \notin moved
      <4>1. CASE \E k \in Owned(u) : Zombie(k)
        BY <1>2, <3>2, <3>3, <3>5, <4>1
      <4>2. CASE (\A k \in Owned(u) : ~Zombie(k)) /\ ClassLaidOut(u)
        <5>1. /\ symbols'[u].size = symbols[u].size /\ symbols'[u].align = symbols[u].align
          BY <2>4
        <5>2. \A k \in Owned(u) :
                /\ symbols'[k].kind = symbols[k].kind /\ symbols'[k].offset = symbols[k].offset
                /\ symbols'[k].actual = symbols[k].actual
                /\ TypeOf(k)'.size = TypeOf(k).size /\ TypeOf(k)'.align = TypeOf(k).align
          BY <1>3, <3>3, <3>5, <4>2
        <5> QED BY <3>2, <4>2, <5>1, <5>2, ClassKept
      <4> QED BY <3>1, <4>1, <4>2 DEF LaidInv
    <3> QED BY <3>4, <3>5
  <2> QED BY <2>1, <2>2, <2>3, <2>4
<1>5. ASSUME NEW a \in live' \ Erasing', symbols'[a].kind \in {"array", "data"}
      PROVE  \/ Zombie(a)' \/ a \in Due'
             \/ /\ symbols'[a].kind = "array" => ArrayFits(a)'
                /\ symbols'[a].kind = "data" => DataFits(a)'
  <2>1. CASE a \notin DOMAIN symbols
    BY <1>5, <2>1
  <2>2. CASE a \in moved
    BY <2>2
  <2>3. CASE a \in DOMAIN symbols /\ a \notin moved
    <3>1. a \in live \ Erasing /\ symbols[a].kind \in {"array", "data"} /\ symbols[a].type # 0
      BY <1>5, <2>3 DEF RefsInv, RefsOf
    <3>2. CASE Zombie(a)
      BY <1>2, <2>3, <3>1, <3>2
    <3>3. CASE ~Zombie(a)
      <4>1. /\ symbols[a].kind = "array" => ArrayFits(a)
            /\ symbols[a].kind = "data" => DataFits(a)
        BY <3>1, <3>3 DEF LaidInv, LiveOf
      <4>2. symbols[a].type \in DOMAIN symbols
        BY <1>3, <2>3, <3>3
      <4>3. /\ symbols'[a].size = symbols[a].size /\ symbols'[a].align = symbols[a].align
            /\ symbols'[a].type = symbols[a].type /\ symbols'[a].offset = symbols[a].offset
            /\ symbols'[a].dim = symbols[a].dim /\ symbols'[a].actual = symbols[a].actual
            /\ symbols'[a].kind = symbols[a].kind
            /\ symbols'[symbols[a].type].size = symbols[symbols[a].type].size
            /\ symbols'[symbols[a].type].align = symbols[symbols[a].type].align
        BY <2>3, <4>2
      <4>4. symbols'[a].kind = "array" => ArrayFits(a)'
        BY <4>1, <4>3 DEF ArrayFits
      <4>5. symbols'[a].kind = "data" => DataFits(a)'
        BY <4>1, <4>3 DEF DataFits
      <4> QED BY <4>4, <4>5
    <3> QED BY <3>2, <3>3
  <2> QED BY <2>1, <2>2, <2>3
<1>6. \A a \in LiveOf({"array"})' : a \in live' /\ symbols'[a].kind = "array"
  BY DEF LiveOf
<1>7. \A a \in LiveOf({"data"})' : a \in live' /\ symbols'[a].kind = "data"
  BY DEF LiveOf
<1>8. \A a \in LiveOf({"array"})' \ Erasing' : Zombie(a)' \/ a \in Due' \/ ArrayFits(a)'
  BY <1>5, <1>6
<1>9. \A a \in LiveOf({"data"})' \ Erasing' : Zombie(a)' \/ a \in Due' \/ DataFits(a)'
  BY <1>5, <1>7
<1> QED BY <1>4, <1>8, <1>9 DEF LaidInv

(* A notification keeps the invariant.                                     *)
LEMMA NotifyStep ==
  ASSUME LayoutAssumption, LayoutInv, NEW i \in live, NotifyDependentChange(i)
  PROVE  LayoutInv'
<1>1. TreeInv
  BY DEF LayoutInv
<1>2. TreeInv'
  BY <1>1, NotifyTree
<1>3. ~failed' => RegisteredInv' /\ LaidInv' /\ ApartInv'
  BY NotifyLaid
<1> QED BY <1>2, <1>3 DEF LayoutInv

(* What every other step leaves of a symbol.                               *)
Alike(s, t) ==
  /\ s.kind = t.kind /\ s.parent = t.parent /\ s.size = t.size /\ s.align = t.align
  /\ s.actual = t.actual /\ s.dim = t.dim
SameSymbols(new, table) ==
  /\ new \in Seq(Symbols) /\ Len(new) = Len(table) /\ DOMAIN new = DOMAIN table
  /\ \A k \in DOMAIN table : Alike(new[k], table[k])

(* A symbol is replaced by one that is alike.                              *)
LEMMA AlikeSet ==
  ASSUME NEW table \in Seq(Symbols), NEW i \in DOMAIN table, NEW s \in Symbols, Alike(s, table[i]),
         NEW new, new = [table EXCEPT ![i] = s]
  PROVE  /\ SameSymbols(new, table)
         /\ \A k \in DOMAIN table : new[k] = IF k = i THEN s ELSE table[k]
BY Replaced DEF SameSymbols, Alike

(* A change of one part of a symbol.                                       *)
WithChildren(table, i, v) == [table EXCEPT ![i].children = v]
WithType(table, i, v) == [table EXCEPT ![i].type = v]
WithOffset(table, i, v) == [table EXCEPT ![i].offset = v]

(* The children of a symbol are set.                                       *)
LEMMA ChildrenSet ==
  ASSUME NEW table \in Seq(Symbols), NEW i \in DOMAIN table, NEW v \in Seq(Ids)
  PROVE  LET new == WithChildren(table, i, v) IN
         /\ SameSymbols(new, table)
         /\ \A k \in DOMAIN table :
              /\ new[k].children = IF k = i THEN v ELSE table[k].children
              /\ new[k].dependents = table[k].dependents /\ new[k].type = table[k].type
              /\ new[k].offset = table[k].offset
<1> DEFINE t == table[i]
           s == [t EXCEPT !.children = v]
<1>1. t \in Symbols
  BY Fields
<1>2. /\ s \in Symbols /\ Alike(s, t) /\ s.children = v /\ s.dependents = t.dependents
      /\ s.type = t.type /\ s.offset = t.offset
  BY <1>1 DEF Symbols, Alike
<1> DEFINE new == WithChildren(table, i, v)
<1>3. new = [table EXCEPT ![i] = s]
  BY DEF WithChildren
<1> HIDE DEF s, new
<1>4. /\ SameSymbols(new, table)
      /\ \A k \in DOMAIN table : new[k] = IF k = i THEN s ELSE table[k]
  BY <1>2, <1>3, AlikeSet
<1>5. /\ SameSymbols(new, table)
      /\ \A k \in DOMAIN table :
           /\ new[k].dependents = IF k = i THEN s.dependents ELSE table[k].dependents
           /\ new[k].children = IF k = i THEN s.children ELSE table[k].children
           /\ new[k].type = IF k = i THEN s.type ELSE table[k].type
           /\ new[k].offset = IF k = i THEN s.offset ELSE table[k].offset
  BY <1>4
<1> QED BY <1>2, <1>5 DEF new

(* The type of a symbol is set.                                            *)
LEMMA TypeSet ==
  ASSUME NEW table \in Seq(Symbols), NEW i \in DOMAIN table, NEW v \in Ids
  PROVE  LET new == WithType(table, i, v) IN
         /\ SameSymbols(new, table)
         /\ \A k \in DOMAIN table :
              /\ new[k].type = IF k = i THEN v ELSE table[k].type
              /\ new[k].dependents = table[k].dependents /\ new[k].children = table[k].children
              /\ new[k].offset = table[k].offset
<1> DEFINE t == table[i]
           s == [t EXCEPT !.type = v]
<1>1. t \in Symbols
  BY Fields
<1>2. /\ s \in Symbols /\ Alike(s, t) /\ s.type = v /\ s.dependents = t.dependents
      /\ s.children = t.children /\ s.offset = t.offset
  BY <1>1 DEF Symbols, Alike
<1> DEFINE new == WithType(table, i, v)
<1>3. new = [table EXCEPT ![i] = s]
  BY DEF WithType
<1> HIDE DEF s, new
<1>4. /\ SameSymbols(new, table)
      /\ \A k \in DOMAIN table : new[k] = IF k = i THEN s ELSE table[k]
  BY <1>2, <1>3, AlikeSet
<1>5. /\ SameSymbols(new, table)
      /\ \A k \in DOMAIN table :
           /\ new[k].dependents = IF k = i THEN s.dependents ELSE table[k].dependents
           /\ new[k].children = IF k = i THEN s.children ELSE table[k].children
           /\ new[k].type = IF k = i THEN s.type ELSE table[k].type
           /\ new[k].offset = IF k = i THEN s.offset ELSE table[k].offset
  BY <1>4
<1> QED BY <1>2, <1>5 DEF new

(* The offset of a symbol is set.                                          *)
LEMMA OffsetSet ==
  ASSUME NEW table \in Seq(Symbols), NEW i \in DOMAIN table, NEW v \in Nat \cup {Automatic}
  PROVE  LET new == WithOffset(table, i, v) IN
         /\ SameSymbols(new, table)
         /\ \A k \in DOMAIN table :
              /\ new[k].offset = IF k = i THEN v ELSE table[k].offset
              /\ new[k].dependents = table[k].dependents /\ new[k].children = table[k].children
              /\ new[k].type = table[k].type
<1> DEFINE t == table[i]
           s == [t EXCEPT !.offset = v]
<1>1. t \in Symbols
  BY Fields
<1>2. /\ s \in Symbols /\ Alike(s, t) /\ s.offset = v /\ s.dependents = t.dependents
      /\ s.children = t.children /\ s.type = t.type
  BY <1>1 DEF Symbols, Alike
<1> DEFINE new == WithOffset(table, i, v)
<1>3. new = [table EXCEPT ![i] = s]
  BY DEF WithOffset
<1> HIDE DEF s, new
<1>4. /\ SameSymbols(new, table)
      /\ \A k \in DOMAIN table : new[k] = IF k = i THEN s ELSE table[k]
  BY <1>2, <1>3, AlikeSet
<1>5. /\ SameSymbols(new, table)
      /\ \A k \in DOMAIN table :
           /\ new[k].dependents = IF k = i THEN s.dependents ELSE table[k].dependents
           /\ new[k].children = IF k = i THEN s.children ELSE table[k].children
           /\ new[k].type = IF k = i THEN s.type ELSE table[k].type
           /\ new[k].offset = IF k = i THEN s.offset ELSE table[k].offset
  BY <1>4
<1> QED BY <1>2, <1>5 DEF new

(* The symbols there are have ids.                                         *)
LEMMA HaveIds ==
  ASSUME LayoutAssumption, TypeOK, CountInv
  PROVE  /\ Len(symbols) \in Nat /\ DOMAIN symbols = 1 .. Len(symbols)
         /\ DOMAIN symbols \subseteq Ids
         /\ operations \in Nat /\ Cardinality(BasicSizes) \in Nat
         /\ operations < MaxOperations => NewId \in Ids
<1>1. Cardinality(BasicSizes) \in Nat
  BY LayoutNumbers, FS_CardinalityType
<1>2. Len(symbols) \in Nat /\ DOMAIN symbols = 1 .. Len(symbols)
  BY LenProperties DEF TypeOK
<1>3. operations \in Nat /\ operations <= MaxOperations /\ MaxOperations \in Nat /\ Udts \in Nat
  BY LayoutNumbers DEF TypeOK
<1>4. Len(symbols) <= Udts + Cardinality(BasicSizes) + operations
  BY DEF CountInv
<1> QED BY <1>1, <1>2, <1>3, <1>4 DEF Ids, NewId

(* What the first task is.                                                 *)
LEMMA TaskShapes ==
  ASSUME TasksInv, tasks # <<>>
  PROVE  /\ Head(tasks).do = "depend" =>
              \E f \in LiveOf(Positional) : tasks = <<Task("depend", f)>>
         /\ Head(tasks).do = "erase" =>
              \/ \E i \in live : tasks = <<Task("erase", i)>>
              \/ \E u \in LiveOf({"udt"}), c \in LiveOf(Positional) :
                   tasks = <<Task("erase", c), tasks[2], Task("erase", u)>> /\ LoopTask(tasks[2], u)
         /\ Head(tasks).do = "children" =>
              \E u \in LiveOf({"udt"}) :
                tasks = <<tasks[1], Task("erase", u)>> /\ LoopTask(tasks[1], u)
<1>0. \A do, id : Task(do, id).do = do
  BY DEF Task
<1>1. ASSUME NEW f \in LiveOf(Positional), tasks = <<Task("depend", f)>>
      PROVE  Head(tasks).do = "depend"
  <2>1. Head(tasks) = Task("depend", f)
    BY <1>1
  <2> QED BY <1>0, <2>1
<1>2. ASSUME NEW i \in live, tasks = <<Task("erase", i)>>
      PROVE  Head(tasks).do = "erase"
  <2>1. Head(tasks) = Task("erase", i)
    BY <1>2
  <2> QED BY <1>0, <2>1
<1>3. ASSUME NEW u \in LiveOf({"udt"}), tasks = <<tasks[1], Task("erase", u)>>,
             LoopTask(tasks[1], u)
      PROVE  Head(tasks).do = "children"
  <2>1. Head(tasks) = tasks[1]
    BY <1>3
  <2> QED BY <1>3, <2>1 DEF LoopTask
<1>4. ASSUME NEW u \in LiveOf({"udt"}), NEW c \in LiveOf(Positional),
             tasks = <<Task("erase", c), tasks[2], Task("erase", u)>>, LoopTask(tasks[2], u)
      PROVE  Head(tasks).do = "erase"
  <2>1. Head(tasks) = Task("erase", c)
    BY <1>4
  <2> QED BY <1>0, <2>1
<1> QED BY <1>1, <1>2, <1>3, <1>4, Zenon DEF TasksInv

(* A symbol asks to be notified, or no longer.                             *)
SameButDependents(new, table) ==
  /\ SameSymbols(new, table)
  /\ \A k \in DOMAIN table :
       /\ new[k].children = table[k].children /\ new[k].type = table[k].type
       /\ new[k].offset = table[k].offset

(* Only the dependents of one symbol change.                               *)
LEMMA DependentsChange ==
  ASSUME NEW table \in Seq(Symbols), NEW t \in DOMAIN table
  PROVE  /\ \A i \in Ids :
              LET new == [table EXCEPT ![t].dependents = @ \cup {i}] IN
              /\ SameButDependents(new, table)
              /\ \A k \in DOMAIN table :
                   new[k].dependents =
                     IF k = t THEN table[k].dependents \cup {i} ELSE table[k].dependents
         /\ \A i :
              LET new == [table EXCEPT ![t].dependents = @ \ {i}] IN
              /\ SameButDependents(new, table)
              /\ \A k \in DOMAIN table :
                   new[k].dependents = IF k = t THEN table[k].dependents \ {i} ELSE table[k].dependents
<1>1. table[t].dependents \in SUBSET (Ids \cup {0})
  <2>1. table[t] \in Symbols
    BY Fields
  <2> QED BY <2>1 DEF Symbols
<1>2. ASSUME NEW v, v \subseteq Ids \cup {0}
      PROVE  LET new == [table EXCEPT ![t].dependents = v] IN
             /\ SameButDependents(new, table)
             /\ \A k \in DOMAIN table :
                  new[k].dependents = IF k = t THEN v ELSE table[k].dependents
  <2> DEFINE new == [table EXCEPT ![t].dependents = v]
             old == table[t]
             s == [old EXCEPT !.dependents = v]
  <2>1. old \in Symbols
    BY Fields
  <2>2. /\ s \in Symbols /\ Alike(s, old) /\ s.dependents = v /\ s.children = old.children
        /\ s.type = old.type /\ s.offset = old.offset
    BY <1>2, <2>1 DEF Symbols, Alike
  <2>4. new = [table EXCEPT ![t] = s]
    OBVIOUS
  <2> HIDE DEF s, new
  <2>5. /\ SameSymbols(new, table)
        /\ \A k \in DOMAIN table : new[k] = IF k = t THEN s ELSE table[k]
    BY <2>2, <2>4, AlikeSet
  <2>6. /\ SameSymbols(new, table)
        /\ \A k \in DOMAIN table :
             /\ new[k].dependents = IF k = t THEN v ELSE table[k].dependents
             /\ new[k].children = table[k].children /\ new[k].type = table[k].type
             /\ new[k].offset = table[k].offset
    BY <2>2, <2>5
  <2>3. SameButDependents(new, table)
    BY <2>6 DEF SameButDependents
  <2> QED BY <2>6, <2>3 DEF new
<1>3. ASSUME NEW i \in Ids
      PROVE  LET new == [table EXCEPT ![t].dependents = @ \cup {i}] IN
              /\ SameButDependents(new, table)
              /\ \A k \in DOMAIN table :
                   new[k].dependents =
                     IF k = t THEN table[k].dependents \cup {i} ELSE table[k].dependents
  <2> DEFINE v == table[t].dependents \cup {i}
  <2>1. v \subseteq Ids \cup {0}
    BY <1>1
  <2>2. [table EXCEPT ![t].dependents = @ \cup {i}] = [table EXCEPT ![t].dependents = v]
    OBVIOUS
  <2> HIDE DEF v
  <2>3. \A k \in DOMAIN table : (IF k = t THEN v ELSE table[k].dependents)
          = IF k = t THEN table[k].dependents \cup {i} ELSE table[k].dependents
    BY DEF v
  <2> QED BY <1>2, <2>1, <2>2, <2>3
<1>4. ASSUME NEW i
      PROVE  LET new == [table EXCEPT ![t].dependents = @ \ {i}] IN
              /\ SameButDependents(new, table)
              /\ \A k \in DOMAIN table :
                   new[k].dependents = IF k = t THEN table[k].dependents \ {i} ELSE table[k].dependents
  <2> DEFINE v == table[t].dependents \ {i}
  <2>1. v \subseteq Ids \cup {0}
    BY <1>1
  <2>2. [table EXCEPT ![t].dependents = @ \ {i}] = [table EXCEPT ![t].dependents = v]
    OBVIOUS
  <2> HIDE DEF v
  <2>3. \A k \in DOMAIN table : (IF k = t THEN v ELSE table[k].dependents)
          = IF k = t THEN table[k].dependents \ {i} ELSE table[k].dependents
    BY DEF v
  <2> QED BY <1>2, <2>1, <2>2, <2>3
<1> QED BY <1>3, <1>4

(* The variables have their types after a step.                            *)
LEMMA TypedAfter ==
  ASSUME LayoutAssumption, symbols' \in Seq(Symbols), live' \subseteq DOMAIN symbols',
         operations' \in 0 .. MaxOperations, waiting' \in Seq((SUBSET live') \ {{}}),
         failed' \in BOOLEAN, CountInv', TasksInv'
  PROVE  TypeOK'
<1>1. \A k \in DOMAIN tasks' :
        tasks'[k] \in [do : {"depend", "children", "erase"}, id : Ids,
                       slots : Seq(Ids), next : Nat \ {0}]
  BY TasksTyped
<1> QED BY <1>1 DEF TypeOK

(* The end of an initialisation.                                           *)
LEMMA DependStep ==
  ASSUME LayoutAssumption, LayoutInv, Depend
  PROVE  LayoutInv'
<1>1. /\ TreeInv /\ TypeOK /\ CountInv /\ RefsInv /\ TasksInv /\ OwnedInv
      /\ waiting = <<>> /\ tasks # <<>> /\ Head(tasks).do = "depend"
      /\ live' = live /\ waiting' = waiting /\ failed' = failed /\ operations' = operations
      /\ tasks' = Tail(tasks)
  BY DEF Depend, Returned, LayoutInv, TreeInv
<1>2. PICK f \in LiveOf(Positional) : tasks = <<Task("depend", f)>>
  BY <1>1, TaskShapes
<1>3. /\ Head(tasks).id = f /\ tasks' = <<>>
      /\ Erasing = {} /\ NotYet = {f} /\ Erasing' = {} /\ NotYet' = {}
  <2>1. Head(tasks) = Task("depend", f) /\ tasks' = <<>>
    BY <1>1, <1>2
  <2> QED BY <1>2, <2>1, TaskIds DEF Task, Erasing, NotYet
<1> DEFINE t == symbols[f].type
           p == symbols[f].parent
           table == [symbols EXCEPT ![t].dependents = @ \cup {f}]
<1>4. /\ f \in live /\ f \in DOMAIN symbols /\ symbols[f].kind \in Positional
      /\ t \in DOMAIN symbols /\ symbols[t].kind \in TypeKinds /\ t # f
      /\ p \in DOMAIN symbols /\ symbols[p].kind = "udt"
  <2>1. f \in live /\ f \in DOMAIN symbols /\ symbols[f].kind \in Positional
    BY <1>1 DEF LiveOf, TypeOK
  <2>2. /\ t \in Ids0 /\ t # 0 /\ symbols[t].kind \in TypeKinds /\ p \in Ids0 /\ p # 0
        /\ symbols[p].kind = "udt"
    BY <1>1, <2>1 DEF RefsInv, RefsOf
  <2>3. Ids0 = DOMAIN symbols \cup {0}
    BY <1>1, HaveIds DEF Ids0
  <2>4. t # f
    BY SMTT(60), <2>1, <2>2 DEF Positional, TypeKinds
  <2> QED BY <2>1, <2>2, <2>3, <2>4
<1>5. symbols' = [table EXCEPT ![f].dependents = @ \cup {p}]
  BY <1>3 DEF Depend, Registered
<1>6. /\ SameButDependents(table, symbols)
      /\ \A k \in DOMAIN symbols :
           table[k].dependents = IF k = t THEN symbols[k].dependents \cup {f} ELSE symbols[k].dependents
  <2>1. f \in Ids /\ symbols \in Seq(Symbols)
    BY <1>1, <1>4, HaveIds DEF TypeOK
  <2> QED BY <1>4, <2>1, DependentsChange
<1> HIDE DEF table
<1>7. /\ SameButDependents(symbols', table)
      /\ \A k \in DOMAIN table :
           symbols'[k].dependents = IF k = f THEN table[k].dependents \cup {p} ELSE table[k].dependents
  <2>1. p \in Ids /\ table \in Seq(Symbols) /\ f \in DOMAIN table
    BY <1>1, <1>4, <1>6, HaveIds DEF SameButDependents, SameSymbols
  <2> QED BY <1>5, <2>1, DependentsChange
<1>8. /\ SameButDependents(symbols', symbols)
      /\ \A k \in DOMAIN symbols :
           symbols'[k].dependents =
             symbols[k].dependents \cup {x \in {f} : k = t} \cup {x \in {p} : k = f}
  <2>1. SameButDependents(symbols', symbols)
    BY <1>6, <1>7 DEF SameButDependents, SameSymbols, Alike
  <2>2. DOMAIN table = DOMAIN symbols
    BY <1>6 DEF SameButDependents, SameSymbols
  <2> QED BY <1>4, <1>6, <1>7, <2>1, <2>2
<1>9. /\ symbols' \in Seq(Symbols) /\ Len(symbols') = Len(symbols)
      /\ DOMAIN symbols' = DOMAIN symbols
      /\ \A k \in DOMAIN symbols :
           /\ symbols'[k].kind = symbols[k].kind /\ symbols'[k].parent = symbols[k].parent
           /\ symbols'[k].size = symbols[k].size /\ symbols'[k].align = symbols[k].align
           /\ symbols'[k].actual = symbols[k].actual /\ symbols'[k].dim = symbols[k].dim
           /\ symbols'[k].children = symbols[k].children /\ symbols'[k].type = symbols[k].type
           /\ symbols'[k].offset = symbols[k].offset
  BY <1>8 DEF SameButDependents, SameSymbols, Alike
<1> HIDE DEF t, p
<1>10. RefsInv'
  <2>1. \A k \in DOMAIN symbols : symbols'[k].dependents \subseteq 0 .. Len(symbols')
    <3>1. \A k \in DOMAIN symbols : symbols[k].dependents \subseteq 0 .. Len(symbols)
      BY <1>1 DEF RefsInv, RefsOf, Ids0
    <3>2. f \in 0 .. Len(symbols) /\ p \in 0 .. Len(symbols)
      BY <1>1, <1>4, HaveIds
    <3> QED BY <1>8, <1>9, <3>1, <3>2
  <2>2. Len(symbols) <= Len(symbols')
    BY <1>1, <1>9, HaveIds
  <2> QED BY <1>1, <1>9, <2>1, <2>2, RefsKept
<1>11. TasksInv' /\ CountInv'
  BY <1>1, <1>3, <1>9 DEF TasksInv, CountInv
<1>12. TypeOK'
  <2>1. /\ live' \subseteq DOMAIN symbols' /\ operations' \in 0 .. MaxOperations
        /\ waiting' \in Seq((SUBSET live') \ {{}}) /\ failed' \in BOOLEAN
    BY <1>1, <1>9 DEF TypeOK
  <2> QED BY <1>9, <1>11, <2>1, TypedAfter
<1>13. \A kinds : LiveOf(kinds)' = LiveOf(kinds)
  BY <1>1, <1>9 DEF LiveOf, TypeOK
<1>14. OwnedInv'
  <2>1. ASSUME NEW u \in live PROVE Kids(u)' = Kids(u) /\ Owned(u)' = Owned(u)
    <3>1. u \in DOMAIN symbols /\ \A k \in LiveOf(Positional) : k \in DOMAIN symbols
      BY <1>1 DEF TypeOK, LiveOf
    <3> QED BY <1>9, <1>13, <3>1 DEF Kids, Owned
  <2>2. \A u \in LiveOf({"udt"}) : u \in live
    BY DEF LiveOf
  <2> QED BY <1>1, <1>3, <1>13, <2>1, <2>2 DEF OwnedInv
<1>15. ASSUME ~failed PROVE RegisteredInv' /\ LaidInv' /\ ApartInv'
  <2>1. RegisteredInv /\ LaidInv
    BY <1>15 DEF LayoutInv
  <2>2. RegisteredInv'
    <3>1. ASSUME NEW k \in LiveOf(TypeKinds)
          PROVE  symbols'[k].dependents = {i \in LiveOf(Users) : symbols'[i].type = k}
      <4>1. k \in DOMAIN symbols /\ k # f
        BY <1>1, <1>4 DEF LiveOf, TypeOK, Positional, TypeKinds
      <4>2. symbols[k].dependents = {i \in LiveOf(Users) : symbols[i].type = k} \ {f}
        BY <1>3, <2>1 DEF RegisteredInv
      <4>3. symbols'[k].dependents = symbols[k].dependents \cup {x \in {f} : k = t}
        BY <1>8, <4>1
      <4>4. f \in LiveOf(Users) /\ \A i \in LiveOf(Users) : symbols'[i].type = symbols[i].type
        BY <1>1, <1>4, <1>9 DEF LiveOf, Users, TypeOK
      <4> QED BY <4>2, <4>3, <4>4 DEF t
    <3>2. ASSUME NEW k \in LiveOf(Positional) PROVE symbols'[k].dependents = {symbols'[k].parent}
      <4>1. k \in DOMAIN symbols /\ k # t /\ symbols'[k].parent = symbols[k].parent
        BY <1>1, <1>4, <1>9 DEF LiveOf, TypeOK, Positional, TypeKinds
      <4>2. symbols[k].dependents = IF k = f THEN {} ELSE {symbols[k].parent}
        BY <1>3, <2>1 DEF RegisteredInv
      <4>3. symbols'[k].dependents = symbols[k].dependents \cup {x \in {p} : k = f}
        BY <1>8, <4>1
      <4> QED BY <4>1, <4>2, <4>3 DEF p
    <3> QED BY <1>3, <1>13, <3>1, <3>2 DEF RegisteredInv
  <2>3. Due = {} /\ Due' = {}
    BY <1>1 DEF Due, UnionOf
  <2>4. LaidInv'
    <3>1. /\ live' \subseteq DOMAIN symbols' /\ live' \cap DOMAIN symbols \subseteq live
          /\ \A k \in DOMAIN symbols : k \in live' \ Erasing' => k \in live \ Erasing
          /\ live' \ DOMAIN symbols = {}
      BY <1>1, <1>3, <1>9 DEF TypeOK
    <3> DEFINE none == {}
    <3>2. none \subseteq Due'
      OBVIOUS
    <3> QED BY <1>1, <1>9, <2>1, <2>3, <3>1, LaidKept
  <2>5. ApartInv'
    BY <1>3 DEF ApartInv
  <2> QED BY <2>2, <2>4, <2>5
<1> QED BY <1>1, <1>10, <1>11, <1>12, <1>14, <1>15 DEF LayoutInv, TreeInv

(* A sequence without one of its elements.                                 *)
LEMMA Removed ==
  ASSUME NEW S, NEW s \in Seq(S), NEW i \in 1 .. Len(s)
  PROVE  LET t == RemoveAt(s, i)
         IN /\ t \in Seq(S) /\ Len(t) = Len(s) - 1
            /\ \A j \in 1 .. Len(s) - 1 : t[j] = IF j < i THEN s[j] ELSE s[j + 1]
<1>1. Len(s) \in Nat /\ i \in 1 .. Len(s) /\ \A j \in 1 .. Len(s) : s[j] \in S
  BY LenProperties, ElementOfSeq
<1> DEFINE f == SubSeq(s, 1, i - 1)
           g == SubSeq(s, i + 1, Len(s))
<1>2. /\ f \in Seq(S) /\ Len(f) = i - 1 /\ \A j \in 1 .. i - 1 : f[j] = s[j]
  BY <1>1, SubSeqProperties
<1>3. /\ g \in Seq(S) /\ Len(g) = Len(s) - i /\ \A j \in 1 .. Len(s) - i : g[j] = s[i + j]
  BY <1>1, SubSeqProperties
<1> HIDE DEF f, g
<1>4. /\ f \o g \in Seq(S) /\ Len(f \o g) = Len(s) - 1
      /\ \A j \in 1 .. Len(s) - 1 : (f \o g)[j] = IF j <= i - 1 THEN f[j] ELSE g[j - (i - 1)]
  <2>1. /\ f \o g \in Seq(S) /\ Len(f \o g) = Len(f) + Len(g)
        /\ \A j \in 1 .. Len(f) + Len(g) :
             (f \o g)[j] = IF j <= Len(f) THEN f[j] ELSE g[j - Len(f)]
    BY <1>2, <1>3, ConcatProperties
  <2>2. Len(f) + Len(g) = Len(s) - 1
    BY <1>1, <1>2, <1>3
  <2> QED BY <1>2, <2>1, <2>2
<1>5. ASSUME NEW j \in 1 .. Len(s) - 1
      PROVE  (f \o g)[j] = IF j < i THEN s[j] ELSE s[j + 1]
  <2>1. CASE j < i
    BY <1>1, <1>2, <1>4, <2>1
  <2>2. CASE ~(j < i)
    <3>1. j - (i - 1) \in 1 .. Len(s) - i /\ i + (j - (i - 1)) = j + 1 /\ ~(j <= i - 1)
      BY <1>1, <2>2
    <3> QED BY <1>3, <1>4, <2>2, <3>1
  <2> QED BY <2>1, <2>2
<1> QED BY <1>4, <1>5 DEF RemoveAt, f, g

(* A sequence with an element more.                                        *)
LEMMA Inserted ==
  ASSUME NEW S, NEW s \in Seq(S), NEW i \in 1 .. Len(s) + 1, NEW e \in S
  PROVE  LET t == InsertAt(s, i, e)
         IN /\ t \in Seq(S) /\ Len(t) = Len(s) + 1
            /\ \A j \in 1 .. Len(s) + 1 :
                 t[j] = IF j < i THEN s[j] ELSE IF j = i THEN e ELSE s[j - 1]
<1>1. Len(s) \in Nat /\ i \in 1 .. Len(s) + 1 /\ \A j \in 1 .. Len(s) : s[j] \in S
  BY LenProperties, ElementOfSeq
<1> DEFINE f == SubSeq(s, 1, i - 1)
           g == SubSeq(s, i, Len(s))
           m == <<e>>
<1>2. /\ f \in Seq(S) /\ Len(f) = i - 1 /\ \A j \in 1 .. i - 1 : f[j] = s[j]
  BY <1>1, SubSeqProperties
<1>3. /\ g \in Seq(S) /\ Len(g) = Len(s) - i + 1
      /\ \A j \in 1 .. Len(s) - i + 1 : g[j] = s[i + j - 1]
  BY <1>1, SubSeqProperties
<1>4. m \in Seq(S) /\ Len(m) = 1 /\ m[1] = e
  OBVIOUS
<1> HIDE DEF f, g, m
<1> DEFINE h == f \o m
<1>5. /\ h \in Seq(S) /\ Len(h) = i
      /\ \A j \in 1 .. i : h[j] = IF j <= i - 1 THEN f[j] ELSE m[j - (i - 1)]
  <2>1. /\ h \in Seq(S) /\ Len(h) = Len(f) + Len(m)
        /\ \A j \in 1 .. Len(f) + Len(m) : h[j] = IF j <= Len(f) THEN f[j] ELSE m[j - Len(f)]
    BY <1>2, <1>4, ConcatProperties
  <2>2. Len(f) + Len(m) = i
    BY <1>1, <1>2, <1>4
  <2> QED BY <1>2, <2>1, <2>2
<1>6. h[i] = e /\ \A j \in 1 .. i - 1 : h[j] = s[j]
  BY <1>1, <1>2, <1>4, <1>5
<1> HIDE DEF h
<1>7. /\ h \o g \in Seq(S) /\ Len(h \o g) = Len(s) + 1
      /\ \A j \in 1 .. Len(s) + 1 : (h \o g)[j] = IF j <= i THEN h[j] ELSE g[j - i]
  <2>1. /\ h \o g \in Seq(S) /\ Len(h \o g) = Len(h) + Len(g)
        /\ \A j \in 1 .. Len(h) + Len(g) :
             (h \o g)[j] = IF j <= Len(h) THEN h[j] ELSE g[j - Len(h)]
    BY <1>3, <1>5, ConcatProperties
  <2>2. Len(h) + Len(g) = Len(s) + 1
    BY <1>1, <1>3, <1>5
  <2> QED BY <1>5, <2>1, <2>2
<1>8. ASSUME NEW j \in 1 .. Len(s) + 1
      PROVE  (h \o g)[j] = IF j < i THEN s[j] ELSE IF j = i THEN e ELSE s[j - 1]
  <2>1. CASE j < i
    BY <1>1, <1>6, <1>7, <2>1
  <2>2. CASE j = i
    BY <1>1, <1>6, <1>7, <2>2
  <2>3. CASE j > i
    <3>1. j - i \in 1 .. Len(s) - i + 1 /\ i + (j - i) - 1 = j - 1 /\ ~(j <= i)
      BY <1>1, <2>3
    <3> QED BY <1>3, <1>7, <2>3, <3>1
  <2>4. j < i \/ j = i \/ j > i
    BY <1>1
  <2> QED BY <2>1, <2>2, <2>3, <2>4
<1>9. InsertAt(s, i, e) = h \o g
  BY DEF InsertAt, f, g, h, m
<1> QED BY <1>7, <1>8, <1>9

(* An element of a sequence is moved.                                      *)
LEMMA ElementMoved ==
  ASSUME NEW S, NEW s \in Seq(S), IsInjective(s),
         NEW i \in 1 .. Len(s), NEW k \in 1 .. Len(s),
         NEW e, e = s[i], NEW t, t = InsertAt(RemoveAt(s, i), k, e)
  PROVE  /\ t \in Seq(S) /\ Len(t) = Len(s)
         /\ ToSet(t) = ToSet(s) /\ IsInjective(t)
         /\ t[k] = e
         /\ \A j \in 1 .. Len(s) :
              j # k => t[j] = LET l == IF j < k THEN j ELSE j - 1
                              IN IF l < i THEN s[l] ELSE s[l + 1]
<1> DEFINE N == Len(s)
           r == RemoveAt(s, i)
<1>1. N \in Nat /\ DOMAIN s = 1 .. N /\ e \in S
  BY LenProperties, ElementOfSeq
<1>2. /\ r \in Seq(S) /\ Len(r) = N - 1
      /\ \A j \in 1 .. N - 1 : r[j] = IF j < i THEN s[j] ELSE s[j + 1]
  BY Removed
<1> HIDE DEF r
<1>3. /\ t \in Seq(S) /\ Len(t) = N
      /\ \A j \in 1 .. N : t[j] = IF j < k THEN r[j] ELSE IF j = k THEN e ELSE r[j - 1]
  <2>1. Len(r) + 1 = N /\ k \in 1 .. Len(r) + 1
    BY <1>1, <1>2
  <2>2. /\ t \in Seq(S) /\ Len(t) = Len(r) + 1
        /\ \A j \in 1 .. Len(r) + 1 : t[j] = IF j < k THEN r[j] ELSE IF j = k THEN e ELSE r[j - 1]
    <3> DEFINE u == InsertAt(r, k, e)
    <3>1. /\ u \in Seq(S) /\ Len(u) = Len(r) + 1
          /\ \A j \in 1 .. Len(r) + 1 : u[j] = IF j < k THEN r[j] ELSE IF j = k THEN e ELSE r[j - 1]
      <4>1. r \in Seq(S) /\ k \in 1 .. Len(r) + 1 /\ e \in S
        BY <1>1, <1>2, <2>1
      <4> QED BY ONLY <4>1, Inserted
    <3>2. t = u
      BY DEF r
    <3> QED BY <3>1, <3>2
  <2> QED BY <2>1, <2>2
<1> DEFINE left(l) == IF l < i THEN l ELSE l + 1
           was(j) == IF j < k THEN left(j) ELSE IF j = k THEN i ELSE left(j - 1)
           now(l) == IF l = i THEN k
                    ELSE LET m == IF l < i THEN l ELSE l - 1 IN IF m < k THEN m ELSE m + 1
<1>4. \A j \in 1 .. N : t[j] = s[was(j)] /\ was(j) \in 1 .. N
  <2>1. ASSUME NEW j \in 1 .. N PROVE t[j] = s[was(j)] /\ was(j) \in 1 .. N
    <3>1. CASE j < k
      <4>1. j \in 1 .. N - 1
        BY <1>1, <3>1
      <4> QED BY <1>1, <1>2, <1>3, <3>1, <4>1
    <3>2. CASE j = k
      BY <1>1, <1>3, <3>2
    <3>3. CASE j > k
      <4>1. j - 1 \in 1 .. N - 1 /\ ~(j < k) /\ j # k
        BY <1>1, <3>3
      <4> QED BY <1>1, <1>2, <1>3, <4>1
    <3> QED BY <1>1, <3>1, <3>2, <3>3
  <2> QED BY <2>1
<1>5. \A j, l \in 1 .. N : was(j) = was(l) => j = l
  BY <1>1
<1>6. \A l \in 1 .. N : now(l) \in 1 .. N /\ was(now(l)) = l
  BY <1>1
<1>7. \A j \in 1 .. N : j # k => t[j] = LET l == IF j < k THEN j ELSE j - 1
                                        IN IF l < i THEN s[l] ELSE s[l + 1]
  BY <1>1, <1>4
<1>8. t[k] = e
  BY <1>1, <1>3
<1> HIDE DEF was, now
<1>9. DOMAIN t = 1 .. N
  BY <1>3, LenProperties
<1>10. ToSet(t) = ToSet(s)
  <2>1. \A j \in 1 .. N : t[j] \in ToSet(s)
    BY <1>1, <1>4 DEF ToSet
  <2>2. ASSUME NEW l \in 1 .. N PROVE s[l] \in ToSet(t)
    <3>1. now(l) \in 1 .. N /\ t[now(l)] = s[l]
      BY <1>4, <1>6
    <3> QED BY <1>9, <3>1 DEF ToSet
  <2>3. ToSet(t) \subseteq ToSet(s)
    BY <1>9, <2>1 DEF ToSet
  <2>4. ToSet(s) \subseteq ToSet(t)
    BY <1>1, <2>2 DEF ToSet
  <2> QED BY <2>3, <2>4
<1>11. IsInjective(t)
  <2>1. ASSUME NEW j \in 1 .. N, NEW l \in 1 .. N, t[j] = t[l] PROVE j = l
    <3>1. was(j) = was(l)
      BY <1>1, <1>4, <2>1 DEF IsInjective
    <3> QED BY <1>5, <3>1
  <2> QED BY <1>9, <2>1 DEF IsInjective
<1> QED BY <1>3, <1>7, <1>8, <1>10, <1>11

(* The least number of one.                                                *)
LEMMA MinOfOne ==
  ASSUME NEW i \in Nat
  PROVE  Min({i}) = i
<1>1. \A x \in {i} : x = i
  OBVIOUS
<1>2. \E x \in {i} : \A y \in {i} : x =< y
  OBVIOUS
<1> QED BY <1>1, <1>2 DEF Min

(* Where a child is in a list of children.                                 *)
LEMMA PositionIs ==
  ASSUME NEW S, NEW s \in Seq(S), IsInjective(s), NEW e \in ToSet(s)
  PROVE  Position(s, e) \in 1 .. Len(s) /\ s[Position(s, e)] = e
<1> DEFINE I == {j \in 1 .. Len(s) : s[j] = e}
<1>1. Len(s) \in Nat /\ DOMAIN s = 1 .. Len(s)
  BY LenProperties
<1>2. PICK i \in 1 .. Len(s) : s[i] = e
  BY <1>1 DEF ToSet
<1>3. I = {i}
  BY <1>1, <1>2 DEF IsInjective
<1>4. Min({i}) = i
  BY <1>2, MinOfOne
<1> HIDE DEF I
<1>5. SelectInSeq(s, LAMBDA c : c = e) = IF I # {} THEN Min(I) ELSE 0
  BY DEF SelectInSeq, I
<1>6. Position(s, e) = i
  BY <1>3, <1>4, <1>5 DEF Position
<1> QED BY <1>2, <1>6

(* A list of children without one of them.                                 *)
LEMMA FirstRemoved ==
  ASSUME NEW S, NEW s \in Seq(S), IsInjective(s), NEW e
  PROVE  LET t == RemoveFirst(s, e)
         IN  /\ t \in Seq(S) /\ Len(t) <= Len(s)
             /\ ToSet(t) = ToSet(s) \ {e} /\ IsInjective(t)
<1> DEFINE N == Len(s)
<1>1. N \in Nat /\ DOMAIN s = 1 .. N
  BY LenProperties
<1>2. CASE e \notin ToSet(s)
  <2>1. RemoveFirst(s, e) = s
    BY <1>1, <1>2 DEF RemoveFirst, ToSet
  <2> QED BY <1>1, <1>2, <2>1
<1>3. CASE e \in ToSet(s)
  <2> DEFINE p == Position(s, e)
             t == RemoveAt(s, p)
  <2>1. p \in 1 .. N /\ s[p] = e
    BY <1>3, PositionIs
  <2>2. RemoveFirst(s, e) = t
    BY <2>1 DEF RemoveFirst, Position
  <2> HIDE DEF p
  <2>3. /\ t \in Seq(S) /\ Len(t) = N - 1
        /\ \A j \in 1 .. N - 1 : t[j] = IF j < p THEN s[j] ELSE s[j + 1]
    BY <2>1, Removed
  <2> HIDE DEF t
  <2>4. DOMAIN t = 1 .. N - 1
    BY <2>3, LenProperties
  <2> DEFINE was(j) == IF j < p THEN j ELSE j + 1
             now(l) == IF l < p THEN l ELSE l - 1
  <2>5. \A j \in 1 .. N - 1 : was(j) \in 1 .. N /\ was(j) # p /\ t[j] = s[was(j)]
    BY <1>1, <2>1, <2>3
  <2>6. \A l \in 1 .. N : l # p => now(l) \in 1 .. N - 1 /\ was(now(l)) = l
    BY <1>1, <2>1
  <2>7. \A j, l \in 1 .. N - 1 : was(j) = was(l) => j = l
    BY <1>1, <2>1
  <2> HIDE DEF was, now
  <2>8. ToSet(t) = ToSet(s) \ {e}
    <3>1. \A j \in 1 .. N - 1 : t[j] \in ToSet(s) /\ t[j] # e
      BY <1>1, <2>1, <2>5 DEF ToSet, IsInjective
    <3>2. ASSUME NEW l \in 1 .. N, s[l] # e PROVE s[l] \in ToSet(t)
      <4>1. now(l) \in 1 .. N - 1 /\ was(now(l)) = l
        BY <2>1, <2>6, <3>2
      <4>2. t[now(l)] = s[l]
        BY <2>5, <4>1
      <4> QED BY <2>4, <4>1, <4>2 DEF ToSet
    <3>3. ToSet(t) \subseteq ToSet(s) \ {e}
      BY <2>4, <3>1 DEF ToSet
    <3>4. ToSet(s) \ {e} \subseteq ToSet(t)
      BY <1>1, <3>2 DEF ToSet
    <3> QED BY <3>3, <3>4
  <2>9. IsInjective(t)
    <3>1. ASSUME NEW j \in 1 .. N - 1, NEW l \in 1 .. N - 1, t[j] = t[l] PROVE j = l
      <4>1. was(j) = was(l)
        BY <1>1, <2>5, <3>1 DEF IsInjective
      <4> QED BY <2>7, <4>1
    <3> QED BY <2>4, <3>1 DEF IsInjective
  <2> QED BY <1>1, <2>2, <2>3, <2>8, <2>9
<1> QED BY <1>2, <1>3

(* A symbol is erased.                                                     *)
LEMMA EraseStep ==
  ASSUME LayoutAssumption, LayoutInv, Erase
  PROVE  LayoutInv'
<1>1. /\ TreeInv /\ TypeOK /\ CountInv /\ RefsInv /\ TasksInv /\ OwnedInv
      /\ waiting = <<>> /\ tasks # <<>> /\ Head(tasks).do = "erase"
      /\ symbols' = symbols /\ waiting' = waiting /\ failed' = failed /\ operations' = operations
      /\ tasks' = Tail(tasks) /\ live' = live \ {Head(tasks).id}
  BY DEF Erase, Returned, LayoutInv, TreeInv
<1>2. \A do, id : Task(do, id).do = do /\ Task(do, id).id = id
  BY DEF Task
<1>3. \E e \in Erasing :
        /\ live' = live \ {e} /\ Erasing' = Erasing \ {e} /\ NotYet = {} /\ NotYet' = {}
        /\ TasksInv'
  <2>1. ASSUME NEW i \in live, tasks = <<Task("erase", i)>>
        PROVE  /\ i \in Erasing /\ live' = live \ {i} /\ Erasing' = Erasing \ {i}
               /\ NotYet = {} /\ NotYet' = {} /\ TasksInv'
    <3>1. Head(tasks) = Task("erase", i) /\ tasks' = <<>>
      BY <1>1, <2>1
    <3>2. Erasing = {i} /\ NotYet = {} /\ Erasing' = {} /\ NotYet' = {}
      BY <2>1, <3>1, TaskIds DEF Erasing, NotYet
    <3>3. TasksInv'
      BY <3>1 DEF TasksInv
    <3> QED BY <1>1, <1>2, <3>1, <3>2, <3>3
  <2>2. ASSUME NEW u \in LiveOf({"udt"}), NEW c \in LiveOf(Positional),
               tasks = <<Task("erase", c), tasks[2], Task("erase", u)>>, LoopTask(tasks[2], u)
        PROVE  /\ c \in Erasing /\ live' = live \ {c} /\ Erasing' = Erasing \ {c}
               /\ NotYet = {} /\ NotYet' = {} /\ TasksInv'
    <3>0. PICK t : t = tasks[2]
      OBVIOUS
    <3>1. t.do = "children" /\ LoopTask(t, u)
      BY <2>2, <3>0 DEF LoopTask
    <3>2. tasks = <<Task("erase", c), t, Task("erase", u)>>
      BY <2>2, <3>0
    <3>3. Head(tasks) = Task("erase", c) /\ tasks' = <<t, Task("erase", u)>>
      BY <1>1, <3>2
    <3>4. Erasing = {c, u} /\ NotYet = {} /\ Erasing' = {u} /\ NotYet' = {}
      BY <3>1, <3>2, <3>3, LoopIds DEF Erasing, NotYet
    <3>5. c # u /\ u \in live /\ symbols[u].kind = "udt"
      BY DEF LiveOf, Positional
    <3>6. u \in LiveOf({"udt"})' /\ live' = live \ {c}
      BY <1>1, <1>2, <3>3, <3>5 DEF LiveOf
    <3>7. LoopTask(t, u)'
      BY <1>1, <3>1 DEF LoopTask
    <3>8. TasksInv'
      <4>1. tasks'[1] = t
        BY <3>3
      <4>2. tasks' = <<tasks'[1], Task("erase", u)>> /\ LoopTask(tasks[1], u)'
        <5>1. LoopTask(tasks[1], u)'
          BY <3>7, <4>1 DEF LoopTask
        <5> QED BY <3>3, <4>1, <5>1
      <4> QED BY <3>6, <4>2, Zenon DEF TasksInv, Task
    <3> QED BY <3>4, <3>5, <3>6, <3>8
  <2> QED BY <1>1, <2>1, <2>2, TaskShapes
<1>4. PICK e \in Erasing :
        /\ live' = live \ {e} /\ Erasing' = Erasing \ {e} /\ NotYet = {} /\ NotYet' = {}
        /\ TasksInv'
  BY <1>3
<1>5. RefsInv' /\ CountInv'
  BY <1>1 DEF RefsInv, RefsOf, Ids0, CountInv
<1>6. TypeOK'
  <2>1. /\ symbols' \in Seq(Symbols) /\ live' \subseteq DOMAIN symbols'
        /\ operations' \in 0 .. MaxOperations
        /\ failed' \in BOOLEAN
    BY <1>1, <1>4 DEF TypeOK
  <2>2. waiting' \in Seq((SUBSET live') \ {{}})
    BY <1>1
  <2> QED BY <1>4, <1>5, <2>1, <2>2, TypedAfter
<1>7. /\ \A kinds : LiveOf(kinds)' = LiveOf(kinds) \ {e}
      /\ \A S : (S \ {e}) \ (Erasing \ {e}) = S \ Erasing
  BY <1>1, <1>4 DEF LiveOf
<1>8. OwnedInv'
  <2>1. \A u : Owned(u)' = Owned(u) /\ Kids(u)' = Kids(u) \ {e}
    BY <1>1, <1>7 DEF Owned, Kids
  <2> QED BY <1>1, <1>4, <1>7, <2>1 DEF OwnedInv
<1>9. ASSUME ~failed PROVE RegisteredInv' /\ LaidInv' /\ ApartInv'
  <2>1. RegisteredInv /\ LaidInv
    BY <1>9 DEF LayoutInv
  <2>2. RegisteredInv'
    <3>1. ASSUME NEW t \in LiveOf(TypeKinds)
          PROVE  symbols'[t].dependents =
                   {i \in LiveOf(Users)' : symbols'[i].type = t} \ (Erasing' \cup NotYet')
      BY <1>1, <1>4, <1>7, <2>1 DEF RegisteredInv
    <3> QED BY <1>1, <1>4, <1>7, <2>1, <3>1 DEF RegisteredInv
  <2>3. Due = {} /\ Due' = {}
    BY <1>1 DEF Due, UnionOf
  <2>4. LaidInv'
    <3>1. /\ live' \subseteq DOMAIN symbols' /\ live' \cap DOMAIN symbols \subseteq live
          /\ \A k \in DOMAIN symbols : k \in live' \ Erasing' => k \in live \ Erasing
          /\ live' \ DOMAIN symbols = {}
      BY <1>1, <1>4 DEF TypeOK
    <3> DEFINE none == {}
    <3>2. none \subseteq Due'
      OBVIOUS
    <3> QED BY <1>1, <2>1, <2>3, <3>1, LaidKept
  <2>5. ApartInv'
    BY <1>4 DEF ApartInv
  <2> QED BY <2>2, <2>4, <2>5
<1> QED BY <1>1, <1>4, <1>5, <1>6, <1>8, <1>9 DEF LayoutInv, TreeInv

(* A symbol leaves the dependents of its type.                             *)
LEMMA UnregisteredIs ==
  ASSUME TypeOK, NEW table \in Seq(Symbols), NEW i \in live,
         DOMAIN table = DOMAIN symbols
  PROVE  /\ SameButDependents(Unregistered(table, i), table)
         /\ \A k \in DOMAIN table :
              Unregistered(table, i)[k].dependents
                = IF k = symbols[i].type /\ k \in live THEN table[k].dependents \ {i}
                  ELSE table[k].dependents
<1>1. CASE Zombie(i)
  <2>1. Unregistered(table, i) = table
    BY <1>1 DEF Unregistered
  <2>2. SameButDependents(table, table)
    BY DEF SameButDependents, SameSymbols, Alike
  <2> QED BY <1>1, <2>1, <2>2 DEF Zombie
<1>2. CASE ~Zombie(i)
  <2> DEFINE t == symbols[i].type
             new == [table EXCEPT ![t].dependents = @ \ {i}]
  <2>1. Unregistered(table, i) = new
    BY <1>2 DEF Unregistered
  <2>2. t \in live /\ t \in DOMAIN table
    BY <1>2 DEF Zombie, TypeOK
  <2>3. /\ SameButDependents(new, table)
        /\ \A k \in DOMAIN table :
             new[k].dependents = IF k = t THEN table[k].dependents \ {i} ELSE table[k].dependents
    BY <2>2, DependentsChange
  <2> QED BY <2>1, <2>2, <2>3
<1> QED BY <1>1, <1>2

(* A symbol leaves the dependents of its type and the children of its      *)
(* parent.                                                                 *)
LEMMA UnlinkedIs ==
  ASSUME TypeOK, RefsInv, CountInv, NEW i \in live
  PROVE  /\ SameSymbols(Unlinked(i), symbols)
         /\ \A k \in DOMAIN symbols :
              /\ Unlinked(i)[k].type = symbols[k].type /\ Unlinked(i)[k].offset = symbols[k].offset
              /\ Unlinked(i)[k].dependents
                   = IF k = symbols[i].type /\ k \in live THEN symbols[k].dependents \ {i}
                     ELSE symbols[k].dependents
              /\ Unlinked(i)[k].children
                   = IF k = symbols[i].parent /\ k \in live THEN RemoveFirst(symbols[k].children, i)
                     ELSE symbols[k].children
<1> DEFINE table == Unregistered(symbols, i)
           p == symbols[i].parent
<1>1. symbols \in Seq(Symbols)
  BY DEF TypeOK
<1>2. /\ SameButDependents(table, symbols)
      /\ \A k \in DOMAIN symbols :
           table[k].dependents = IF k = symbols[i].type /\ k \in live THEN symbols[k].dependents \ {i}
                                 ELSE symbols[k].dependents
  BY <1>1, UnregisteredIs
<1>3. Unlinked(i) = IF p \in live THEN [table EXCEPT ![p].children = RemoveFirst(@, i)] ELSE table
  BY DEF Unlinked
<1> HIDE DEF table
<1>4. CASE p \notin live
  BY <1>2, <1>3, <1>4 DEF SameButDependents, SameSymbols
<1>5. CASE p \in live
  <2> DEFINE old == table[p]
             v == RemoveFirst(old.children, i)
             s == [old EXCEPT !.children = v]
             new == [table EXCEPT ![p] = s]
  <2>1. /\ p \in DOMAIN symbols /\ p \in DOMAIN table /\ table \in Seq(Symbols)
        /\ old.children = symbols[p].children
    BY <1>2, <1>5 DEF SameButDependents, SameSymbols, TypeOK
  <2>2. old \in Symbols /\ old.children \in Seq(Ids)
    BY <2>1, Fields
  <2>3. IsInjective(old.children)
    BY <2>1 DEF RefsInv, RefsOf
  <2>4. v \in Seq(Ids)
    BY <2>2, <2>3, FirstRemoved
  <2> HIDE DEF v
  <2>5. /\ s \in Symbols /\ Alike(s, old) /\ s.children = v /\ s.dependents = old.dependents
        /\ s.type = old.type /\ s.offset = old.offset
    BY <2>2, <2>4 DEF Symbols, Alike
  <2>6. Unlinked(i) = new
    BY <1>3, <1>5 DEF v
  <2> HIDE DEF s, new
  <2>7. /\ SameSymbols(new, table)
        /\ \A k \in DOMAIN table : new[k] = IF k = p THEN s ELSE table[k]
    BY <2>1, <2>5, AlikeSet DEF new
  <2>8. \A k \in DOMAIN symbols :
          /\ new[k].type = table[k].type /\ new[k].offset = table[k].offset
          /\ new[k].dependents = table[k].dependents
          /\ new[k].children = IF k = p THEN v ELSE table[k].children
    BY <1>2, <2>5, <2>7 DEF SameButDependents, SameSymbols
  <2>9. v = RemoveFirst(symbols[p].children, i)
    BY <2>1 DEF v
  <2>10. SameSymbols(new, symbols)
    BY <1>2, <2>7 DEF SameButDependents, SameSymbols, Alike
  <2> QED BY <1>2, <1>5, <2>6, <2>8, <2>9, <2>10 DEF SameButDependents
<1> QED BY <1>4, <1>5

(* A symbol is unlinked, and is to be erased.                              *)
LEMMA UnlinkStep ==
  ASSUME LayoutAssumption, LayoutInv, NEW i \in live \ Erasing, NEW next, Unlink(i, next),
         waiting = <<>>, live' = live, failed' = failed,
         operations <= operations', operations' \in 0 .. MaxOperations,
         NotYet = {}, NotYet' = {}, Erasing' = Erasing \cup {i}, TasksInv'
  PROVE  LayoutInv'
<1> DEFINE t == symbols[i].type
           p == symbols[i].parent
<1>1. /\ TreeInv /\ TypeOK /\ CountInv /\ RefsInv /\ TasksInv /\ OwnedInv
      /\ symbols' = Unlinked(i) /\ waiting' = Level({p} \cap live)
  BY DEF Unlink, LayoutInv, TreeInv
<1>2. /\ SameSymbols(symbols', symbols)
      /\ \A k \in DOMAIN symbols :
           /\ symbols'[k].type = symbols[k].type /\ symbols'[k].offset = symbols[k].offset
           /\ symbols'[k].dependents = IF k = t /\ k \in live THEN symbols[k].dependents \ {i}
                                       ELSE symbols[k].dependents
           /\ symbols'[k].children = IF k = p /\ k \in live THEN RemoveFirst(symbols[k].children, i)
                                     ELSE symbols[k].children
  BY <1>1, UnlinkedIs
<1>3. /\ symbols' \in Seq(Symbols) /\ Len(symbols') = Len(symbols)
      /\ DOMAIN symbols' = DOMAIN symbols
      /\ \A k \in DOMAIN symbols :
           /\ symbols'[k].kind = symbols[k].kind /\ symbols'[k].parent = symbols[k].parent
           /\ symbols'[k].size = symbols[k].size /\ symbols'[k].align = symbols[k].align
           /\ symbols'[k].actual = symbols[k].actual /\ symbols'[k].dim = symbols[k].dim
  BY <1>2 DEF SameSymbols, Alike
<1>4. /\ i \in live /\ i \in DOMAIN symbols /\ live \subseteq DOMAIN symbols
      /\ p \in live => /\ symbols[p].kind = "udt" /\ symbols[i].kind \in Positional
                       /\ p \in LiveOf({"udt"})
      /\ t \in live => symbols[t].kind \in TypeKinds
  <2>1. i \in live /\ i \in DOMAIN symbols /\ live \subseteq DOMAIN symbols
    BY <1>1 DEF TypeOK
  <2>2. 0 \notin live
    BY <1>1, <2>1, HaveIds
  <2> QED BY <1>1, <2>1, <2>2 DEF RefsInv, RefsOf, LiveOf
<1>5. ASSUME NEW u \in live, symbols[u].kind = "udt"
      PROVE  /\ Owned(u)' = Owned(u) \ {x \in {i} : u = p}
             /\ Len(symbols'[u].children) <= Len(symbols[u].children)
             /\ IsInjective(symbols'[u].children)
  <2>1. /\ u \in DOMAIN symbols /\ IsInjective(symbols[u].children)
        /\ symbols[u].children \in Seq(Ids)
        /\ Len(symbols[u].children) \in Nat
    <3>1. symbols \in Seq(Symbols) /\ u \in DOMAIN symbols
      BY <1>1, <1>4, <1>5 DEF TypeOK
    <3> QED BY <1>1, <3>1, Fields DEF RefsInv, RefsOf
  <2>2. CASE u = p
    <3>1. symbols'[u].children = RemoveFirst(symbols[u].children, i)
      BY <1>2, <1>5, <2>1, <2>2
    <3> DEFINE v == RemoveFirst(symbols[u].children, i)
    <3>2. /\ Len(v) <= Len(symbols[u].children) /\ ToSet(v) = ToSet(symbols[u].children) \ {i}
          /\ IsInjective(v)
      BY <2>1, FirstRemoved
    <3> HIDE DEF v
    <3>3. symbols'[u].children = v
      BY <3>1 DEF v
    <3> QED BY <2>2, <3>2, <3>3 DEF Owned
  <2>3. CASE u # p
    <3>1. symbols'[u].children = symbols[u].children
      BY <1>2, <2>1, <2>3
    <3> QED BY <2>1, <2>3, <3>1 DEF Owned
  <2> QED BY <2>2, <2>3
<1>6. RefsInv'
  <2>1. \A k \in DOMAIN symbols : symbols'[k].dependents \subseteq 0 .. Len(symbols')
    <3>1. \A k \in DOMAIN symbols : symbols[k].dependents \subseteq 0 .. Len(symbols)
      BY <1>1 DEF RefsInv, RefsOf, Ids0
    <3>2. \A k \in DOMAIN symbols : symbols'[k].dependents \subseteq symbols[k].dependents
      BY <1>2
    <3>3. Len(symbols') = Len(symbols)
      BY <1>3
    <3> QED BY <3>1, <3>2, <3>3
  <2>2. Len(symbols) <= Len(symbols')
    BY <1>1, <1>3, HaveIds
  <2>3. ASSUME NEW k \in DOMAIN symbols
        PROVE  \/ symbols'[k].children = symbols[k].children
               \/ /\ symbols[k].kind = "udt" /\ IsInjective(symbols'[k].children)
                  /\ \A l \in DOMAIN symbols'[k].children :
                       LET c == symbols'[k].children[l] IN
                       /\ c \in DOMAIN symbols'
                       /\ symbols'[c].kind \in Positional
                       /\ symbols'[c].parent = k
    <3>1. CASE k = p /\ k \in live
      <4>1. /\ symbols[k].kind = "udt" /\ IsInjective(symbols'[k].children)
            /\ Owned(k)' \subseteq Owned(k)
        BY <1>4, <1>5, <3>1
      <4>2. \A c \in Owned(k) :
              c \in DOMAIN symbols /\ symbols[c].kind \in Positional /\ symbols[c].parent = k
        BY <1>1 DEF RefsInv, RefsOf, Owned, ToSet
      <4>3. \A l \in DOMAIN symbols'[k].children : symbols'[k].children[l] \in Owned(k)
        BY <4>1 DEF Owned, ToSet
      <4> QED BY <1>3, <4>1, <4>2, <4>3
    <3>2. CASE ~(k = p /\ k \in live)
      BY <1>2, <3>2
    <3> QED BY <3>1, <3>2
  <2> QED BY <1>1, <1>2, <1>3, <2>1, <2>2, <2>3, RefsKept
<1>7. CountInv'
  <2>1. Len(symbols) <= Udts + Cardinality(BasicSizes) + operations
    BY <1>1 DEF CountInv
  <2>2. /\ Len(symbols) \in Nat /\ Cardinality(BasicSizes) \in Nat /\ operations \in Nat
        /\ operations' \in Nat /\ Udts \in Nat
    BY <1>1, LayoutNumbers, HaveIds
  <2>3. Len(symbols') <= Udts + Cardinality(BasicSizes) + operations'
    BY <1>3, <2>1, <2>2
  <2> QED BY <2>3 DEF CountInv
<1>8. /\ waiting' \in Seq((SUBSET live') \ {{}})
      /\ Due = {} /\ Due' = {p} \cap live
  <2>1. /\ Level({p} \cap live) \in Seq((SUBSET live) \ {{}})
        /\ UnionOf(Level({p} \cap live)) = {p} \cap live
    <3>1. {p} \cap live \in SUBSET live
      OBVIOUS
    <3> QED BY ZenonT(60), <3>1, Unions
  <2>2. UnionOf(<<>>) = {}
    BY DEF UnionOf
  <2> QED BY <1>1, <2>1, <2>2 DEF Due
<1>9. TypeOK'
  <2>1. symbols' \in Seq(Symbols) /\ live' \subseteq DOMAIN symbols' /\ failed' \in BOOLEAN
    BY <1>1, <1>3 DEF TypeOK
  <2> QED BY <1>7, <1>8, <2>1, TypedAfter
<1>10. \A kinds : LiveOf(kinds)' = LiveOf(kinds)
  BY <1>3, <1>4 DEF LiveOf
<1>11. OwnedInv'
  <2>1. ASSUME NEW u \in LiveOf({"udt"}) \ Erasing' PROVE Owned(u)' = Kids(u)' \ Erasing'
    <3>1. u \in live /\ symbols[u].kind = "udt" /\ u \in LiveOf({"udt"}) \ Erasing
      BY DEF LiveOf
    <3>2. Owned(u) = Kids(u) \ Erasing
      BY <1>1, <3>1 DEF OwnedInv
    <3>3. Owned(u)' = Owned(u) \ {x \in {i} : u = p}
      BY <1>5, <3>1
    <3>4. Kids(u)' = Kids(u)
      <4>1. \A k \in LiveOf(Positional) : symbols'[k].parent = symbols[k].parent
        BY <1>3, <1>4 DEF LiveOf
      <4> QED BY <1>10, <4>1 DEF Kids
    <3>5. u # p => i \notin Kids(u)
      BY DEF Kids
    <3> QED BY <3>2, <3>3, <3>4, <3>5
  <2> QED BY <1>10, <2>1 DEF OwnedInv
<1>12. ASSUME ~failed PROVE RegisteredInv' /\ LaidInv' /\ ApartInv'
  <2>1. RegisteredInv /\ LaidInv
    BY <1>12 DEF LayoutInv
  <2>2. RegisteredInv'
    <3>1. ASSUME NEW k \in LiveOf(TypeKinds)
          PROVE  symbols'[k].dependents =
                   {j \in LiveOf(Users) : symbols'[j].type = k} \ (Erasing' \cup {})
      <4>1. k \in DOMAIN symbols /\ k \in live
        BY <1>4 DEF LiveOf
      <4>2. symbols[k].dependents = {j \in LiveOf(Users) : symbols[j].type = k} \ Erasing
        BY <2>1 DEF RegisteredInv
      <4>3. symbols'[k].dependents =
              IF k = t THEN symbols[k].dependents \ {i} ELSE symbols[k].dependents
        BY <1>2, <4>1
      <4>4. \A j \in LiveOf(Users) : symbols'[j].type = symbols[j].type
        BY <1>2, <1>4 DEF LiveOf
      <4> QED BY <4>2, <4>3, <4>4
    <3>2. ASSUME NEW k \in LiveOf(Positional) PROVE symbols'[k].dependents = {symbols'[k].parent}
      <4>1. k \in DOMAIN symbols /\ ~(k = t /\ k \in live) /\ symbols'[k].parent = symbols[k].parent
        BY <1>3, <1>4 DEF LiveOf, Positional, TypeKinds
      <4>2. symbols[k].dependents = {symbols[k].parent}
        BY <2>1 DEF RegisteredInv
      <4>3. symbols'[k].dependents = symbols[k].dependents
        BY <1>2, <4>1
      <4> QED BY <4>1, <4>2, <4>3
    <3> QED BY <1>10, <3>1, <3>2 DEF RegisteredInv
  <2>3. LaidInv'
    <3> DEFINE owners == {p}
               none == {}
    <3>1. /\ live' \subseteq DOMAIN symbols' /\ live' \cap DOMAIN symbols \subseteq live
          /\ \A k \in DOMAIN symbols : k \in live' \ Erasing' => k \in live \ Erasing
          /\ live' \ DOMAIN symbols = {}
      BY <1>3, <1>4
    <3>2. none \subseteq Due'
      OBVIOUS
    <3>3. \A k \in DOMAIN symbols :
            /\ symbols'[k].kind = symbols[k].kind /\ symbols'[k].size = symbols[k].size
            /\ symbols'[k].align = symbols[k].align /\ symbols'[k].actual = symbols[k].actual
            /\ symbols'[k].dim = symbols[k].dim
            /\ k \notin none =>
                 symbols'[k].type = symbols[k].type /\ symbols'[k].offset = symbols[k].offset
            /\ k \notin owners => symbols'[k].children = symbols[k].children
      BY <1>2, <1>3
    <3>4. \A u \in owners : u \in Due' \cup Erasing' \/ u \notin live'
      BY <1>8
    <3>5. DOMAIN symbols \subseteq DOMAIN symbols'
      BY <1>3
    <3>6. \A k \in live' \ DOMAIN symbols :
            /\ symbols'[k].kind = "udt" => ClassLaidOut(k)'
            /\ symbols'[k].kind = "array" => ArrayFits(k)'
            /\ symbols'[k].kind = "data" => DataFits(k)'
      BY <3>1
    <3> HIDE DEF owners, none
    <3> QED BY <1>1, <1>8, <2>1, <3>1, <3>2, <3>3, <3>4, <3>5, <3>6, LaidKept
  <2>4. ApartInv'
    BY DEF ApartInv
  <2> QED BY <2>2, <2>3, <2>4
<1> QED BY <1>6, <1>7, <1>9, <1>11, <1>12 DEF LayoutInv, TreeInv

(* LayoutNumbers sequence of one followed by another.                                  *)
LEMMA TwoOfOne ==
  ASSUME NEW a, NEW b
  PROVE  <<a>> \o <<b>> = <<a, b>>
<1> DEFINE S == {a, b}
           f == <<a>>
           g == <<b>>
<1>1. f \in Seq(S) /\ g \in Seq(S) /\ Len(f) = 1 /\ Len(g) = 1 /\ f[1] = a /\ g[1] = b
  OBVIOUS
<1> HIDE DEF f, g, S
<1> DEFINE h == f \o g
<1>2. /\ h \in Seq(S) /\ Len(h) = 2 /\ \A j \in 1 .. 2 : h[j] = IF j <= 1 THEN f[j] ELSE g[j - 1]
  <2>1. /\ h \in Seq(S) /\ Len(h) = Len(f) + Len(g)
        /\ \A j \in 1 .. Len(f) + Len(g) : h[j] = IF j <= Len(f) THEN f[j] ELSE g[j - Len(f)]
    BY <1>1, ConcatProperties
  <2> QED BY <1>1, <2>1
<1> HIDE DEF h
<1>3. h[1] = a /\ h[2] = b
  BY <1>1, <1>2
<1>4. h = <<h[1], h[2]>>
  BY <1>2
<1>5. h = <<a, b>>
  BY <1>3, <1>4
<1> QED BY <1>5 DEF h, f, g

(* The loop of a deletion, one child further.                              *)
Further(t, kids, c) == [t EXCEPT !.next = @ + 1, !.slots = Shifted(@, kids, c)]

(* It still goes over children of its class, as many as there are left.    *)
LEMMA LoopShifted ==
  ASSUME NEW t, NEW u, LoopTask(t, u), NEW kids, NEW c,
         Len(kids) \in Nat, Len(kids) <= Len(t.slots)
  PROVE  LET s == Further(t, kids, c)
         IN  /\ s = [do |-> "children", id |-> u, slots |-> s.slots, next |-> s.next]
             /\ s.do = "children" /\ s.next \in Nat \ {0} /\ s.slots \in Seq(Ids)
             /\ Len(s.slots) = Len(t.slots)
             /\ \A k \in DOMAIN s.slots : \E l \in DOMAIN t.slots : s.slots[k] = t.slots[l]
<1> DEFINE N == Len(t.slots)
           shifted == Shifted(t.slots, kids, c)
<1>1. /\ t = [do |-> "children", id |-> u, slots |-> t.slots, next |-> t.next]
      /\ t.next \in Nat \ {0} /\ t.slots \in Seq(Ids)
  BY DEF LoopTask
<1>2. N \in Nat /\ DOMAIN t.slots = 1 .. N /\ \A k \in 1 .. N : t.slots[k] \in Ids
  BY <1>1, LenProperties, ElementOfSeq
<1> DEFINE p == Position(kids, c)
           from(k) == IF p <= k /\ k < Len(kids) THEN k + 1 ELSE k
<1>3. \A k \in 1 .. N : from(k) \in 1 .. N
  BY <1>2
<1>4. shifted = [k \in 1 .. N |-> t.slots[from(k)]]
  BY <1>2 DEF Shifted
<1> HIDE DEF from, shifted
<1>5. /\ shifted \in Seq(Ids) /\ Len(shifted) = N
      /\ \A k \in 1 .. N : shifted[k] = t.slots[from(k)]
  <2>1. shifted \in [1 .. N -> Ids]
    BY <1>2, <1>3, <1>4
  <2>2. shifted \in Seq(Ids) /\ Len(shifted) \in Nat /\ DOMAIN shifted = 1 .. Len(shifted)
    BY <1>2, <2>1, LenProperties
  <2>3. 1 .. Len(shifted) = 1 .. N
    BY <2>1, <2>2
  <2>4. Len(shifted) = N
    BY <1>2, <2>2, <2>3, SameBounds
  <2> QED BY <1>4, <2>2, <2>4
<1> DEFINE s == Further(t, kids, c)
<1> DEFINE T == [do : {"children"}, id : {u}, slots : Seq(Ids), next : Nat]
<1>6. t \in T
  BY <1>1
<1>7. /\ s = [do |-> "children", id |-> u, slots |-> s.slots, next |-> s.next]
      /\ s.do = "children" /\ s.next = t.next + 1 /\ s.slots = shifted
  <2>1. s = [t EXCEPT !.next = t.next + 1, !.slots = shifted]
    BY DEF shifted, Further
  <2> HIDE DEF s
  <2>2. s \in T /\ s.next = t.next + 1 /\ s.slots = shifted
    <3> DEFINE n == t.next + 1
               m == [t EXCEPT !.next = n]
    <3>1. n \in Nat
      BY <1>1
    <3> HIDE DEF n
    <3>2. m \in T /\ m.next = n
      BY <1>6, <3>1
    <3>3. s = [m EXCEPT !.slots = shifted]
      BY <2>1 DEF n
    <3> HIDE DEF m
    <3>4. s \in T /\ s.next = m.next /\ s.slots = shifted
      BY <1>5, <3>2, <3>3
    <3> QED BY <3>2, <3>4 DEF n
  <2>3. s = [do |-> "children", id |-> u, slots |-> s.slots, next |-> s.next] /\ s.do = "children"
    BY <2>2
  <2> QED BY <2>2, <2>3
<1> HIDE DEF s
<1>8. \A k \in DOMAIN shifted : \E l \in DOMAIN t.slots : shifted[k] = t.slots[l]
  <2>1. DOMAIN shifted = 1 .. N
    BY <1>5, LenProperties
  <2> QED BY <1>2, <1>3, <1>5, <2>1
<1>9. s.next \in Nat \ {0}
  BY <1>1, <1>7
<1> QED BY <1>5, <1>7, <1>8, <1>9 DEF s

(* A symbol is deleted.                                                    *)
LEMMA DeleteStep ==
  ASSUME LayoutAssumption, LayoutInv, NEW i, Delete(i)
  PROVE  LayoutInv'
<1> DEFINE kids == symbols[i].children
           loop == [Task("children", i) EXCEPT !.slots = kids]
           next == (IF kids = <<>> THEN <<>> ELSE <<loop>>) \o <<Task("erase", i)>>
<1>1. /\ TreeInv /\ TypeOK /\ CountInv /\ RefsInv
      /\ waiting = <<>> /\ tasks = <<>> /\ i \in live /\ operations < MaxOperations
      /\ operations' = operations + 1 /\ failed' = failed /\ live' = live
      /\ Unlink(i, next)
  BY DEF Delete, Begin, Idle, LayoutInv, TreeInv
<1>2. tasks' = next /\ symbols' = Unlinked(i)
  BY <1>1 DEF Unlink
<1> HIDE DEF next
<1>3. /\ operations <= operations' /\ operations' \in 0 .. MaxOperations
  BY LayoutNumbers, <1>1, HaveIds
<1>4. Erasing = {} /\ NotYet = {}
  BY <1>1, TaskIds DEF Erasing, NotYet
<1>5. NotYet' = {} /\ Erasing' = {i} /\ TasksInv'
  <2>1. CASE kids = <<>>
    <3>1. tasks' = <<Task("erase", i)>>
      BY <1>2, <2>1 DEF next
    <3> QED BY <1>1, <3>1, TaskIds, Zenon DEF Erasing, NotYet, TasksInv, Task
  <2>2. CASE kids # <<>>
    <3>1. tasks' = <<loop, Task("erase", i)>>
      <4>1. \A a, b : <<a>> \o <<b>> = <<a, b>>
        BY TwoOfOne
      <4>2. next = <<loop>> \o <<Task("erase", i)>>
        BY <2>2 DEF next
      <4> HIDE DEF loop
      <4> QED BY <1>2, <4>1, <4>2, Zenon
    <3>2. /\ i \in DOMAIN symbols /\ symbols[i].kind = "udt" /\ symbols[i].parent = 0
          /\ kids \in Seq(Ids) /\ Len(kids) \in Nat
      <4>1. i \in DOMAIN symbols /\ symbols \in Seq(Symbols)
        BY <1>1 DEF TypeOK
      <4>2. symbols[i].kind = "udt" /\ symbols[i].parent = 0
        BY <1>1, <2>2, <4>1 DEF RefsInv, RefsOf, Positional
      <4> QED BY <4>1, <4>2, Fields
    <3>3. /\ SameSymbols(symbols', symbols) /\ symbols'[i].children = kids
      <4>1. 0 \notin live
        BY <1>1, HaveIds DEF TypeOK
      <4> QED BY <1>1, <1>2, <3>2, <4>1, UnlinkedIs
    <3>4. /\ loop = [do |-> "children", id |-> i, slots |-> loop.slots, next |-> loop.next]
          /\ loop.do = "children" /\ loop.next = 1 /\ loop.slots = kids
      BY DEF Task
    <3>5. \A k \in DOMAIN kids :
            /\ kids[k] \in DOMAIN symbols
            /\ symbols[kids[k]].kind \in Positional
            /\ symbols[kids[k]].parent = i
      BY <1>1, <3>2 DEF RefsInv, RefsOf
    <3>6. PICK t : t = loop
      OBVIOUS
    <3>7. LoopTask(t, i)'
      <4>1. \A k \in DOMAIN kids :
              /\ kids[k] \in DOMAIN symbols' /\ symbols'[kids[k]].kind \in Positional
              /\ symbols'[kids[k]].parent = i
        BY <3>3, <3>5 DEF SameSymbols, Alike
      <4>2. /\ t = [do |-> "children", id |-> i, slots |-> t.slots, next |-> t.next]
            /\ t.next = 1 /\ t.slots = kids
        BY <3>4, <3>6
      <4> QED BY <3>2, <3>3, <4>1, <4>2 DEF LoopTask
    <3>8. tasks' = <<t, Task("erase", i)>> /\ t.do = "children"
      BY <3>1, <3>4, <3>6
    <3>9. NotYet' = {} /\ Erasing' = {i}
      BY <3>8, LoopIds DEF Erasing, NotYet
    <3>10. i \in LiveOf({"udt"})'
      BY <1>1, <3>2, <3>3 DEF LiveOf, SameSymbols, Alike
    <3>11. TasksInv'
      <4>1. tasks'[1] = t
        BY <3>8
      <4>2. tasks' = <<tasks'[1], Task("erase", i)>> /\ LoopTask(tasks[1], i)'
        <5>1. LoopTask(tasks[1], i)'
          BY <3>7, <4>1 DEF LoopTask
        <5> QED BY <3>8, <4>1, <5>1
      <4> QED BY <3>10, <4>2, Zenon DEF TasksInv, Task
    <3> QED BY <3>9, <3>11
  <2> QED BY <2>1, <2>2
<1>6. i \in live \ Erasing /\ Erasing' = Erasing \cup {i}
  BY <1>1, <1>4, <1>5
<1> QED BY <1>1, <1>3, <1>4, <1>5, <1>6, UnlinkStep

(* Three sequences of one.                                                 *)
LEMMA ThreeOfOne ==
  ASSUME NEW a, NEW b, NEW c
  PROVE  <<a>> \o (<<b>> \o <<c>>) = <<a, b, c>>
<1> DEFINE S == {a, b, c}
           f == <<a>>
           g == <<b, c>>
<1>1. /\ f \in Seq(S) /\ g \in Seq(S) /\ Len(f) = 1 /\ Len(g) = 2 /\ f[1] = a
      /\ g[1] = b /\ g[2] = c
  OBVIOUS
<1>2. <<b>> \o <<c>> = g
  BY TwoOfOne
<1> HIDE DEF f, g, S
<1> DEFINE h == f \o g
<1>3. /\ h \in Seq(S) /\ Len(h) = 3 /\ \A j \in 1 .. 3 : h[j] = IF j <= 1 THEN f[j] ELSE g[j - 1]
  <2>1. /\ h \in Seq(S) /\ Len(h) = Len(f) + Len(g)
        /\ \A j \in 1 .. Len(f) + Len(g) : h[j] = IF j <= Len(f) THEN f[j] ELSE g[j - Len(f)]
    BY <1>1, ConcatProperties
  <2> QED BY <1>1, <2>1
<1> HIDE DEF h
<1>4. h[1] = a /\ h[2] = b /\ h[3] = c
  BY <1>1, <1>3
<1>5. h = <<h[1], h[2], h[3]>>
  BY <1>3
<1>6. h = <<a, b, c>>
  BY <1>4, <1>5
<1> QED BY <1>2, <1>6 DEF h, f

(* Lists of children and offsets change, of what is then notified or is    *)
(* being erased.                                                           *)
LEMMA StillLaidOut ==
  ASSUME LayoutAssumption, LayoutInv, NEW owners, NEW moved, owners \subseteq DOMAIN symbols,
         SameSymbols(symbols', symbols),
         \A k \in DOMAIN symbols :
           /\ symbols'[k].dependents = symbols[k].dependents /\ symbols'[k].type = symbols[k].type
           /\ k \notin moved => symbols'[k].offset = symbols[k].offset
           /\ k \notin owners => symbols'[k].children = symbols[k].children,
         \A u \in owners :
           /\ symbols[u].kind = "udt" /\ IsInjective(symbols'[u].children)
           /\ Owned(u)' \subseteq Owned(u) /\ (u \notin Erasing => Owned(u)' = Owned(u)),
         owners \subseteq Due' \cup Erasing, moved \subseteq Due', Due = {},
         waiting' \in Seq((SUBSET live) \ {{}}),
         live' = live, failed' = failed,
         operations <= operations', operations' \in 0 .. MaxOperations,
         NotYet = {}, NotYet' = {}, Erasing' = Erasing, TasksInv'
  PROVE  LayoutInv'
<1>1. /\ TreeInv /\ TypeOK /\ CountInv /\ RefsInv /\ TasksInv /\ OwnedInv
  BY DEF LayoutInv, TreeInv
<1>3. /\ symbols' \in Seq(Symbols) /\ Len(symbols') = Len(symbols)
      /\ DOMAIN symbols' = DOMAIN symbols
      /\ \A k \in DOMAIN symbols :
           /\ symbols'[k].kind = symbols[k].kind /\ symbols'[k].parent = symbols[k].parent
           /\ symbols'[k].size = symbols[k].size /\ symbols'[k].align = symbols[k].align
           /\ symbols'[k].actual = symbols[k].actual /\ symbols'[k].dim = symbols[k].dim
  BY DEF SameSymbols, Alike
<1>4. live \subseteq DOMAIN symbols
  BY <1>1 DEF TypeOK
<1>6. RefsInv'
  <2>1. \A k \in DOMAIN symbols : symbols'[k].dependents \subseteq 0 .. Len(symbols')
    <3>1. \A k \in DOMAIN symbols : symbols[k].dependents \subseteq 0 .. Len(symbols)
      BY <1>1 DEF RefsInv, RefsOf, Ids0
    <3>2. \A k \in DOMAIN symbols : symbols'[k].dependents = symbols[k].dependents
      OBVIOUS
    <3>3. Len(symbols') = Len(symbols)
      BY <1>3
    <3> QED BY <3>1, <3>2, <3>3
  <2>2. Len(symbols) <= Len(symbols')
    BY <1>1, <1>3, HaveIds
  <2>3. ASSUME NEW k \in DOMAIN symbols
        PROVE  \/ symbols'[k].children = symbols[k].children
               \/ /\ symbols[k].kind = "udt" /\ IsInjective(symbols'[k].children)
                  /\ \A l \in DOMAIN symbols'[k].children :
                       LET c == symbols'[k].children[l] IN
                       /\ c \in DOMAIN symbols'
                       /\ symbols'[c].kind \in Positional
                       /\ symbols'[c].parent = k
    <3>1. CASE k \in owners
      <4>1. /\ symbols[k].kind = "udt" /\ IsInjective(symbols'[k].children)
            /\ Owned(k)' \subseteq Owned(k)
        BY <3>1
      <4>2. \A c \in Owned(k) :
              c \in DOMAIN symbols /\ symbols[c].kind \in Positional /\ symbols[c].parent = k
        BY <1>1 DEF RefsInv, RefsOf, Owned, ToSet
      <4>3. \A l \in DOMAIN symbols'[k].children : symbols'[k].children[l] \in Owned(k)
        BY <4>1 DEF Owned, ToSet
      <4> QED BY SMTT(60), <1>3, <4>1, <4>2, <4>3
    <3>2. CASE k \notin owners
      BY <3>2
    <3> QED BY <3>1, <3>2
  <2> QED BY <1>1, <1>3, <2>1, <2>2, <2>3, RefsKept
<1>7. CountInv'
  <2>1. Len(symbols) <= Udts + Cardinality(BasicSizes) + operations
    BY <1>1 DEF CountInv
  <2>2. /\ Len(symbols) \in Nat /\ Cardinality(BasicSizes) \in Nat /\ operations \in Nat
        /\ operations' \in Nat /\ Udts \in Nat
    BY <1>1, LayoutNumbers, HaveIds
  <2>3. Len(symbols') <= Udts + Cardinality(BasicSizes) + operations'
    BY <1>3, <2>1, <2>2
  <2> QED BY <2>3 DEF CountInv
<1>9. TypeOK'
  <2>1. symbols' \in Seq(Symbols) /\ live' \subseteq DOMAIN symbols' /\ failed' \in BOOLEAN
    BY <1>1, <1>3 DEF TypeOK
  <2> QED BY <1>7, <2>1, TypedAfter
<1>10. \A kinds : LiveOf(kinds)' = LiveOf(kinds)
  BY <1>3, <1>4 DEF LiveOf
<1>11. OwnedInv'
  <2>1. ASSUME NEW u \in LiveOf({"udt"}) \ Erasing PROVE Owned(u)' = Kids(u)' \ Erasing
    <3>1. u \in live /\ symbols[u].kind = "udt" /\ u \in DOMAIN symbols
      BY <1>4 DEF LiveOf
    <3>2. Owned(u) = Kids(u) \ Erasing
      BY <1>1, <3>1 DEF OwnedInv
    <3>3. Owned(u)' = Owned(u)
      BY <3>1 DEF Owned
    <3>4. Kids(u)' = Kids(u)
      <4>1. \A k \in LiveOf(Positional) : symbols'[k].parent = symbols[k].parent
        BY <1>3, <1>4 DEF LiveOf
      <4> QED BY <1>10, <4>1 DEF Kids
    <3> QED BY <3>2, <3>3, <3>4
  <2> QED BY <1>10, <2>1 DEF OwnedInv
<1>12. ASSUME ~failed PROVE RegisteredInv' /\ LaidInv' /\ ApartInv'
  <2>1. RegisteredInv /\ LaidInv
    BY <1>12 DEF LayoutInv
  <2>2. RegisteredInv'
    <3>1. ASSUME NEW k \in LiveOf(TypeKinds)
          PROVE  symbols'[k].dependents = {j \in LiveOf(Users) : symbols'[j].type = k} \ Erasing
      <4>1. k \in DOMAIN symbols
        BY <1>4 DEF LiveOf
      <4>2. symbols[k].dependents = {j \in LiveOf(Users) : symbols[j].type = k} \ Erasing
        BY <2>1 DEF RegisteredInv
      <4>3. symbols'[k].dependents = symbols[k].dependents
        BY <4>1
      <4>4. \A j \in LiveOf(Users) : symbols'[j].type = symbols[j].type
        BY <1>4 DEF LiveOf
      <4> QED BY <4>2, <4>3, <4>4
    <3>2. ASSUME NEW k \in LiveOf(Positional) PROVE symbols'[k].dependents = {symbols'[k].parent}
      <4>1. k \in DOMAIN symbols /\ symbols'[k].parent = symbols[k].parent
        BY <1>3, <1>4 DEF LiveOf
      <4>2. symbols[k].dependents = {symbols[k].parent}
        BY <2>1 DEF RegisteredInv
      <4> QED BY <4>1, <4>2
    <3> QED BY <1>10, <3>1, <3>2 DEF RegisteredInv
  <2>3. LaidInv'
    <3>1. /\ live' \subseteq DOMAIN symbols' /\ live' \cap DOMAIN symbols \subseteq live
          /\ \A k \in DOMAIN symbols : k \in live' \ Erasing' => k \in live \ Erasing
          /\ live' \ DOMAIN symbols = {}
      BY <1>3, <1>4
    <3>4. \A u \in owners : u \in Due' \cup Erasing' \/ u \notin live'
      OBVIOUS
    <3>5. DOMAIN symbols \subseteq DOMAIN symbols'
      BY <1>3
    <3>2. \A k \in DOMAIN symbols :
            /\ symbols'[k].kind = symbols[k].kind /\ symbols'[k].size = symbols[k].size
            /\ symbols'[k].align = symbols[k].align /\ symbols'[k].actual = symbols[k].actual
            /\ symbols'[k].dim = symbols[k].dim
            /\ k \notin moved =>
                 symbols'[k].type = symbols[k].type /\ symbols'[k].offset = symbols[k].offset
            /\ k \notin owners => symbols'[k].children = symbols[k].children
      BY <1>3
    <3>3. moved \subseteq Due' /\ Due = {}
      OBVIOUS
    <3>6. \A k \in live' \ DOMAIN symbols :
            /\ symbols'[k].kind = "udt" => ClassLaidOut(k)'
            /\ symbols'[k].kind = "array" => ArrayFits(k)'
            /\ symbols'[k].kind = "data" => DataFits(k)'
      BY <3>1
    <3> QED BY ONLY <1>1, <2>1, <3>1, <3>2, <3>3, <3>4, <3>5, <3>6, LaidKept
  <2>4. ApartInv'
    BY DEF ApartInv
  <2> QED BY <2>2, <2>3, <2>4
<1> QED BY <1>6, <1>7, <1>9, <1>11, <1>12 DEF LayoutInv, TreeInv

(* LayoutNumbers deletion comes to the next child.                                     *)
LEMMA DeleteNextChildStep ==
  ASSUME LayoutAssumption, LayoutInv, DeleteNextChild
  PROVE  LayoutInv'
<1>1. /\ TreeInv /\ TypeOK /\ CountInv /\ RefsInv /\ TasksInv /\ OwnedInv
      /\ waiting = <<>> /\ tasks # <<>> /\ Head(tasks).do = "children"
      /\ live' = live /\ failed' = failed /\ operations' = operations
  BY DEF DeleteNextChild, Returned, LayoutInv, TreeInv
<1>2. PICK u \in LiveOf({"udt"}) :
        tasks = <<tasks[1], Task("erase", u)>> /\ LoopTask(tasks[1], u)
  BY <1>1, TaskShapes
<1>3. PICK t : t = tasks[1]
  OBVIOUS
<1>4. /\ tasks = <<t, Task("erase", u)>> /\ LoopTask(t, u) /\ t.id = u /\ t.do = "children"
      /\ t.next \in Nat \ {0} /\ t.slots \in Seq(Ids)
  BY <1>2, <1>3 DEF LoopTask
<1>5. Head(tasks) = t /\ Tail(tasks) = <<Task("erase", u)>>
  BY <1>4
<1>6. Erasing = {u} /\ NotYet = {}
  BY <1>4, LoopIds DEF Erasing, NotYet
<1>7. /\ u \in live /\ u \in DOMAIN symbols /\ symbols[u].kind = "udt" /\ symbols \in Seq(Symbols)
      /\ live \subseteq DOMAIN symbols
  BY <1>1 DEF LiveOf, TypeOK
<1> DEFINE kids == symbols[u].children
           child == t.slots[t.next]
           rest == <<[t EXCEPT !.next = @ + 1]>> \o <<Task("erase", u)>>
           loop == [t EXCEPT !.next = @ + 1, !.slots = Shifted(@, kids, child)]
           shifted == <<loop>> \o <<Task("erase", u)>>
<1>8. \/ /\ t.next <= Len(t.slots) /\ child \in live
         /\ Unlink(child, <<Task("erase", child)>> \o shifted)
      \/ tasks' = rest /\ symbols' = symbols /\ waiting' = waiting
      \/ /\ symbols' = [symbols EXCEPT ![u].children = <<>>]
         /\ tasks' = <<Task("erase", u)>> /\ waiting' = waiting
  BY <1>4, <1>5 DEF DeleteNextChild
<1>9. \A s : s = [do |-> "children", id |-> u, slots |-> s.slots, next |-> s.next]
             /\ tasks' = <<s, Task("erase", u)>> /\ LoopTask(s, u)' /\ u \in LiveOf({"udt"})'
         => TasksInv'
  <2>1. ASSUME NEW s, tasks' = <<s, Task("erase", u)>>, LoopTask(s, u)', u \in LiveOf({"udt"})'
        PROVE  TasksInv'
    <3>1. tasks'[1] = s
      BY <2>1
    <3>2. LoopTask(tasks[1], u)'
      BY <2>1, <3>1 DEF LoopTask
    <3>3. tasks' = <<tasks'[1], Task("erase", u)>> /\ LoopTask(tasks[1], u)'
      BY <2>1, <3>1, <3>2
    <3> QED BY <2>1, <3>3, Zenon DEF TasksInv, Task
  <2> QED BY <2>1
<1>10. CASE /\ t.next <= Len(t.slots) /\ child \in live
            /\ Unlink(child, <<Task("erase", child)>> \o shifted)
  <2>1. PICK c : c = child
    OBVIOUS
  <2>2. PICK s : s = loop
    OBVIOUS
  <2>3. /\ c \in live /\ c \in DOMAIN symbols /\ symbols[c].kind \in Positional
        /\ symbols[c].parent = u /\ c # u
    <3>1. t.next \in DOMAIN t.slots
      BY <1>4, <1>10, LenProperties
    <3>2. c \in DOMAIN symbols /\ symbols[c].kind \in Positional /\ symbols[c].parent = u
      BY <1>4, <2>1, <3>1 DEF LoopTask
    <3>3. c # u
      BY <1>7, <3>2 DEF Positional
    <3> QED BY <1>10, <2>1, <3>2, <3>3
  <2> DEFINE next == <<Task("erase", c)>> \o (<<s>> \o <<Task("erase", u)>>)
  <2>4. Unlink(c, next)
    BY <1>10, <2>1, <2>2
  <2>5. tasks' = <<Task("erase", c), s, Task("erase", u)>>
    <3>1. tasks' = <<Task("erase", c)>> \o (<<s>> \o <<Task("erase", u)>>)
      BY <2>4 DEF Unlink
    <3> QED BY <3>1, ThreeOfOne
  <2>6. symbols' = Unlinked(c)
    BY <2>4 DEF Unlink
  <2>7. Len(kids) \in Nat /\ Len(kids) <= Len(t.slots)
    BY <1>4, <1>7, Fields DEF LoopTask
  <2>8. /\ s = [do |-> "children", id |-> u, slots |-> s.slots, next |-> s.next]
        /\ s.do = "children" /\ s.next \in Nat \ {0} /\ s.slots \in Seq(Ids)
        /\ Len(s.slots) = Len(t.slots)
        /\ \A k \in DOMAIN s.slots : \E l \in DOMAIN t.slots : s.slots[k] = t.slots[l]
    <3>1. s = Further(t, kids, c)
      BY <2>1, <2>2 DEF Further
    <3>2. LoopTask(t, u) /\ Len(kids) \in Nat /\ Len(kids) <= Len(t.slots)
      BY <1>4, <2>7
    <3> QED BY ONLY <3>1, <3>2, LoopShifted
  <2>9. /\ SameSymbols(symbols', symbols)
        /\ Len(symbols'[u].children) <= Len(kids) /\ Len(symbols'[u].children) \in Nat
    <3>1. /\ SameSymbols(symbols', symbols)
          /\ symbols'[u].children = RemoveFirst(kids, c)
      BY <1>1, <1>7, <2>3, <2>6, UnlinkedIs
    <3>2. kids \in Seq(Ids) /\ IsInjective(kids)
      BY <1>1, <1>7, Fields DEF RefsInv, RefsOf
    <3>3. Len(RemoveFirst(kids, c)) <= Len(kids) /\ RemoveFirst(kids, c) \in Seq(Ids)
      BY <3>2, FirstRemoved
    <3> QED BY <3>1, <3>3, LenProperties
  <2>10. LoopTask(s, u)'
    <3>1. \A k \in DOMAIN s.slots :
            /\ s.slots[k] \in DOMAIN symbols' /\ symbols'[s.slots[k]].kind \in Positional
            /\ symbols'[s.slots[k]].parent = u
      <4>1. \A l \in DOMAIN t.slots :
              /\ t.slots[l] \in DOMAIN symbols' /\ symbols'[t.slots[l]].kind \in Positional
              /\ symbols'[t.slots[l]].parent = u
        BY <1>4, <2>9 DEF LoopTask, SameSymbols, Alike
      <4> QED BY <2>8, <4>1
    <3>2. Len(symbols'[u].children) <= Len(s.slots)
      <4>1. Len(t.slots) \in Nat
        BY <1>4, LenProperties
      <4> QED BY <2>7, <2>8, <2>9, <4>1
    <3> QED BY <2>8, <3>1, <3>2 DEF LoopTask
  <2>11. u \in LiveOf({"udt"})' /\ c \in LiveOf(Positional)'
    BY <1>1, <1>7, <2>3, <2>9 DEF LiveOf, SameSymbols, Alike
  <2>12. NotYet' = {} /\ Erasing' = {c, u}
    BY <2>5, <2>8, LoopIds DEF Erasing, NotYet
  <2>13. TasksInv'
    <3>1. tasks'[2] = s
      BY <2>5
    <3>2. LoopTask(tasks[2], u)'
      BY <2>10, <3>1 DEF LoopTask
    <3>3. tasks' = <<Task("erase", c), tasks'[2], Task("erase", u)>> /\ LoopTask(tasks[2], u)'
      BY <2>5, <3>1, <3>2
    <3> QED BY <2>11, <3>3, Zenon DEF TasksInv, Task
  <2>14. /\ c \in live \ Erasing /\ Erasing' = Erasing \cup {c}
         /\ operations <= operations' /\ operations' \in 0 .. MaxOperations
    BY <1>1, <1>6, <2>3, <2>12, HaveIds DEF TypeOK
  <2> QED BY <1>1, <1>6, <2>4, <2>12, <2>13, <2>14, UnlinkStep
<1>11. CASE tasks' = rest /\ symbols' = symbols /\ waiting' = waiting
  <2>1. PICK s : s = [t EXCEPT !.next = @ + 1]
    OBVIOUS
  <2>2. tasks' = <<s, Task("erase", u)>>
    BY <1>11, <2>1, TwoOfOne
  <2>3. /\ s = [do |-> "children", id |-> u, slots |-> s.slots, next |-> s.next]
        /\ s.do = "children" /\ s.next \in Nat \ {0} /\ s.slots = t.slots
    <3> DEFINE T == [do : {"children"}, id : {u}, slots : Seq(Ids), next : Nat]
               n == t.next + 1
    <3>1. t \in T /\ n \in Nat \ {0}
      BY <1>4 DEF LoopTask
    <3>2. s = [t EXCEPT !.next = n]
      BY <2>1
    <3> HIDE DEF n
    <3>3. s \in T /\ s.next = n /\ s.slots = t.slots
      BY <3>1, <3>2
    <3> QED BY <3>1, <3>3
  <2>4. LoopTask(s, u)' /\ u \in LiveOf({"udt"})'
    BY <1>1, <1>4, <1>11, <2>3 DEF LoopTask, LiveOf
  <2>5. TasksInv'
    BY <1>9, <2>2, <2>3, <2>4
  <2>6. Erasing' = {u} /\ NotYet' = {}
    BY <2>2, <2>3, LoopIds DEF Erasing, NotYet
  <2> DEFINE none == {}
  <2>7. /\ none \subseteq DOMAIN symbols /\ SameSymbols(symbols', symbols)
        /\ none \subseteq Due' \cup Erasing /\ none \subseteq Due'
        /\ \A k \in DOMAIN symbols : symbols'[k] = symbols[k]
        /\ \A w \in none : /\ symbols[w].kind = "udt" /\ IsInjective(symbols'[w].children)
                           /\ Owned(w)' \subseteq Owned(w)
                           /\ (w \notin Erasing => Owned(w)' = Owned(w))
    BY <1>7, <1>11 DEF SameSymbols, Alike
  <2>8. /\ Due = {} /\ waiting' \in Seq((SUBSET live) \ {{}})
        /\ operations <= operations' /\ operations' \in 0 .. MaxOperations
    BY <1>1, <1>11, HaveIds DEF TypeOK, Due, UnionOf
  <2> HIDE DEF none
  <2> QED BY <1>1, <1>6, <2>5, <2>6, <2>7, <2>8, StillLaidOut
<1>12. CASE /\ symbols' = [symbols EXCEPT ![u].children = <<>>]
            /\ tasks' = <<Task("erase", u)>> /\ waiting' = waiting
  <2>1. Erasing' = {u} /\ NotYet' = {}
    BY <1>12, TaskIds DEF Erasing, NotYet
  <2>2. TasksInv'
    BY <1>1, <1>7, <1>12, Zenon DEF TasksInv, Task
  <2>3. /\ SameSymbols(symbols', symbols)
        /\ \A k \in DOMAIN symbols :
             /\ symbols'[k].children = IF k = u THEN <<>> ELSE symbols[k].children
             /\ symbols'[k].dependents = symbols[k].dependents /\ symbols'[k].type = symbols[k].type
             /\ symbols'[k].offset = symbols[k].offset
    <3>1. <<>> \in Seq(Ids)
      OBVIOUS
    <3>2. PICK v : v = <<>>
      OBVIOUS
    <3>3. symbols' = WithChildren(symbols, u, v) /\ v \in Seq(Ids)
      BY <1>12, <3>1, <3>2 DEF WithChildren
    <3>4. /\ SameSymbols(symbols', symbols)
          /\ \A k \in DOMAIN symbols :
               /\ symbols'[k].children = IF k = u THEN v ELSE symbols[k].children
               /\ symbols'[k].dependents = symbols[k].dependents
               /\ symbols'[k].type = symbols[k].type
               /\ symbols'[k].offset = symbols[k].offset
      BY <1>7, <3>3, ChildrenSet
    <3> QED BY <3>2, <3>4
  <2> DEFINE owners == {u}
             none == {}
  <2>4. IsInjective(symbols'[u].children) /\ Owned(u)' = {}
    <3>1. symbols'[u].children = <<>>
      BY <1>7, <2>3
    <3> QED BY <3>1 DEF IsInjective, ToSet, Owned
  <2>5. /\ owners \subseteq DOMAIN symbols /\ owners \subseteq Due' \cup Erasing
        /\ none \subseteq Due'
        /\ \A w \in owners : /\ symbols[w].kind = "udt" /\ IsInjective(symbols'[w].children)
                             /\ Owned(w)' \subseteq Owned(w)
                             /\ (w \notin Erasing => Owned(w)' = Owned(w))
    BY <1>6, <1>7, <2>4
  <2>6. /\ Due = {} /\ waiting' \in Seq((SUBSET live) \ {{}})
        /\ operations <= operations' /\ operations' \in 0 .. MaxOperations
    BY <1>1, <1>12, HaveIds DEF TypeOK, Due, UnionOf
  <2>7. \A k \in DOMAIN symbols : k \notin owners => symbols'[k].children = symbols[k].children
    BY <2>3
  <2> HIDE DEF owners, none
  <2> QED BY <1>1, <1>6, <2>1, <2>2, <2>3, <2>5, <2>6, <2>7, StillLaidOut
<1> QED BY <1>8, <1>10, <1>11, <1>12

(* One symbol waits.                                                       *)
LEMMA OneWaits ==
  ASSUME NEW X, NEW x \in X
  PROVE  <<{x}>> \in Seq((SUBSET X) \ {{}}) /\ UnionOf(<<{x}>>) = {x}
<1>1. {x} \in SUBSET X /\ {x} # {}
  OBVIOUS
<1>2. Level({x}) = <<{x}>>
  BY <1>1 DEF Level
<1>3. Level({x}) \in Seq((SUBSET X) \ {{}}) /\ UnionOf(Level({x})) = {x}
  BY <1>1, Unions
<1> QED BY <1>2, <1>3

(* What an operation begins with.                                          *)
LEMMA Begins ==
  ASSUME LayoutAssumption, LayoutInv, Begin
  PROVE  /\ TypeOK /\ CountInv /\ RefsInv /\ TasksInv /\ OwnedInv
         /\ waiting = <<>> /\ tasks = <<>> /\ Due = {} /\ Erasing = {} /\ NotYet = {}
         /\ failed' = failed /\ operations' = operations + 1 /\ operations < MaxOperations
         /\ operations <= operations' /\ operations' \in 0 .. MaxOperations
         /\ symbols \in Seq(Symbols) /\ live \subseteq DOMAIN symbols /\ 0 \notin DOMAIN symbols
         /\ NewId \in Ids /\ NewId \notin DOMAIN symbols
<1>1. /\ TypeOK /\ CountInv /\ RefsInv /\ TasksInv /\ OwnedInv
      /\ waiting = <<>> /\ tasks = <<>>
      /\ failed' = failed /\ operations' = operations + 1 /\ operations < MaxOperations
  BY DEF LayoutInv, TreeInv, Begin, Idle
<1>2. Due = {} /\ Erasing = {} /\ NotYet = {}
  BY <1>1, TaskIds DEF Due, UnionOf, Erasing, NotYet
<1>3. /\ operations <= operations' /\ operations' \in 0 .. MaxOperations
      /\ 0 \notin DOMAIN symbols /\ NewId \in Ids /\ NewId \notin DOMAIN symbols
  BY LayoutNumbers, <1>1, HaveIds DEF NewId
<1> QED BY <1>1, <1>2, <1>3 DEF TypeOK

(* No task is under way.                                                   *)
LEMMA NoTasks ==
  ASSUME tasks' = <<>>
  PROVE  TasksInv' /\ Erasing' = {} /\ NotYet' = {}
BY TaskIds DEF TasksInv, Erasing, NotYet

(* An offset is set.                                                       *)
LEMMA SetSymbolOffsetStep ==
  ASSUME LayoutAssumption, LayoutInv, NEW i, NEW offset, SetSymbolOffset(i, offset)
  PROVE  LayoutInv'
<1>1. /\ Begin /\ i \in LiveOf(Positional \cup {"data"}) /\ offset \in SettableOffsets(i)
      /\ symbols' = WithOffset(symbols, i, offset) /\ waiting' = <<{i}>>
      /\ live' = live /\ tasks' = tasks
  BY DEF SetSymbolOffset, WithOffset
<1>2. /\ TypeOK /\ tasks = <<>> /\ Due = {} /\ Erasing = {} /\ NotYet = {}
      /\ failed' = failed /\ operations <= operations' /\ operations' \in 0 .. MaxOperations
      /\ symbols \in Seq(Symbols) /\ live \subseteq DOMAIN symbols
  BY <1>1, Begins
<1>3. i \in live /\ i \in DOMAIN symbols
  BY <1>1, <1>2 DEF LiveOf
<1>4. offset \in Nat \cup {Automatic}
  <2>1. symbols[i].actual \in Nat \cup {Automatic}
    BY <1>2, <1>3, Fields
  <2> QED BY LayoutNumbers, <1>1, <2>1 DEF SettableOffsets
<1>5. /\ SameSymbols(symbols', symbols)
      /\ \A k \in DOMAIN symbols :
           /\ symbols'[k].offset = IF k = i THEN offset ELSE symbols[k].offset
           /\ symbols'[k].dependents = symbols[k].dependents
           /\ symbols'[k].children = symbols[k].children
           /\ symbols'[k].type = symbols[k].type
  BY <1>1, <1>2, <1>3, <1>4, OffsetSet
<1>6. waiting' \in Seq((SUBSET live) \ {{}}) /\ Due' = {i}
  BY <1>1, <1>3, OneWaits DEF Due
<1>7. TasksInv' /\ Erasing' = {} /\ NotYet' = {}
  BY <1>1, <1>2, NoTasks
<1> DEFINE owners == {}
           moved == {i}
<1>8. /\ owners \subseteq DOMAIN symbols /\ owners \subseteq Due' \cup Erasing
      /\ moved \subseteq Due'
      /\ \A w \in owners : /\ symbols[w].kind = "udt" /\ IsInjective(symbols'[w].children)
                           /\ Owned(w)' \subseteq Owned(w)
                           /\ (w \notin Erasing => Owned(w)' = Owned(w))
  BY <1>6
<1>9. \A k \in DOMAIN symbols :
        /\ symbols'[k].dependents = symbols[k].dependents /\ symbols'[k].type = symbols[k].type
        /\ k \notin moved => symbols'[k].offset = symbols[k].offset
        /\ k \notin owners => symbols'[k].children = symbols[k].children
  BY <1>5
<1> HIDE DEF owners, moved
<1> QED BY <1>1, <1>2, <1>5, <1>6, <1>7, <1>8, <1>9, StillLaidOut

(* LayoutNumbers child is moved.                                                       *)
LEMMA MoveToBeforeStep ==
  ASSUME LayoutAssumption, LayoutInv, NEW i, NEW pos, MoveToBefore(i, pos)
  PROVE  LayoutInv'
<1> DEFINE owner == symbols[i].parent
           kids == symbols[owner].children
           N == Len(kids)
           to == MovedBefore(kids, i, pos)
<1>1. /\ Begin /\ i \in LiveOf(Positional) /\ owner \in live
      /\ symbols' = WithChildren(symbols, owner, to) /\ waiting' = <<{owner}>>
      /\ live' = live /\ tasks' = tasks
  BY DEF MoveToBefore, WithChildren
<1>2. /\ TypeOK /\ RefsInv /\ OwnedInv
      /\ tasks = <<>> /\ Due = {} /\ Erasing = {} /\ NotYet = {}
      /\ failed' = failed /\ operations <= operations' /\ operations' \in 0 .. MaxOperations
      /\ symbols \in Seq(Symbols) /\ live \subseteq DOMAIN symbols /\ 0 \notin DOMAIN symbols
  BY <1>1, Begins
<1>3. /\ i \in live /\ i \in DOMAIN symbols /\ symbols[i].kind \in Positional
      /\ owner \in DOMAIN symbols /\ symbols[owner].kind = "udt" /\ owner \in LiveOf({"udt"})
  <2>1. /\ i \in live /\ i \in DOMAIN symbols /\ symbols[i].kind \in Positional
        /\ owner \in DOMAIN symbols
    BY <1>1, <1>2 DEF LiveOf
  <2>2. symbols[owner].kind = "udt"
    BY <1>2, <2>1 DEF RefsInv, RefsOf
  <2> QED BY <1>1, <2>1, <2>2 DEF LiveOf
<1>4. i \in ToSet(kids)
  <2>1. Owned(owner) = Kids(owner)
    BY <1>2, <1>3 DEF OwnedInv
  <2>2. i \in Kids(owner)
    BY <1>1 DEF Kids
  <2> QED BY <2>1, <2>2 DEF Owned
<1>5. kids \in Seq(Ids) /\ N \in Nat /\ DOMAIN kids = 1 .. N /\ IsInjective(kids)
  BY <1>2, <1>3, Fields DEF RefsInv, RefsOf
<1>6. to \in Seq(Ids) /\ ToSet(to) = ToSet(kids) /\ IsInjective(to)
  <2> DEFINE old == Position(kids, i)
             new == NewPosition(kids, i, pos)
             k == IF new > old THEN new - 1 ELSE new
  <2>1. old \in 1 .. N /\ kids[old] = i
    BY <1>4, <1>5, PositionIs
  <2>2. new \in 1 .. N + 1
    <3> DEFINE kin == {l \in DOMAIN kids : symbols[kids[l]].kind = symbols[i].kind}
               reached == {l \in kin : Cardinality({m \in kin : m < l}) = pos}
    <3>1. new = IF reached = {} THEN N + 1 ELSE CHOOSE l \in reached : TRUE
      BY SMTT(60) DEF NewPosition
    <3>2. reached \subseteq 1 .. N
      BY <1>5
    <3>3. N + 1 \in 1 .. N + 1 /\ \A l \in 1 .. N : l \in 1 .. N + 1
      BY <1>5
    <3> HIDE DEF reached, new, N
    <3>4. reached # {} => (CHOOSE l \in reached : TRUE) \in 1 .. N
      BY <3>2
    <3> QED BY <3>1, <3>3, <3>4
  <2>3. to = InsertAt(RemoveAt(kids, old), k, i)
    BY DEF MovedBefore
  <2> HIDE DEF old, new
  <2>4. k \in 1 .. N
    BY <1>5, <2>1, <2>2
  <2> HIDE DEF k, to
  <2>5. /\ kids \in Seq(Ids) /\ IsInjective(kids) /\ old \in 1 .. Len(kids) /\ k \in 1 .. Len(kids)
        /\ i = kids[old] /\ to = InsertAt(RemoveAt(kids, old), k, i)
    BY <1>5, <2>1, <2>3, <2>4
  <2> HIDE DEF kids
  <2> QED BY ONLY <2>5, ElementMoved
<1> HIDE DEF to
<1>7. /\ SameSymbols(symbols', symbols)
      /\ \A k \in DOMAIN symbols :
           /\ symbols'[k].children = IF k = owner THEN to ELSE symbols[k].children
           /\ symbols'[k].dependents = symbols[k].dependents /\ symbols'[k].type = symbols[k].type
           /\ symbols'[k].offset = symbols[k].offset
  BY <1>1, <1>2, <1>3, <1>6, ChildrenSet
<1>8. waiting' \in Seq((SUBSET live) \ {{}}) /\ Due' = {owner}
  BY <1>1, OneWaits DEF Due
<1>9. TasksInv' /\ Erasing' = {} /\ NotYet' = {}
  BY <1>1, <1>2, NoTasks
<1>10. PICK o : o = owner
  OBVIOUS
<1> DEFINE owners == {o}
           moved == {}
<1>11. Owned(o)' = Owned(o) /\ IsInjective(symbols'[o].children)
  <2>1. symbols'[o].children = to /\ symbols[o].children = kids
    BY <1>3, <1>7, <1>10
  <2> QED BY <1>6, <2>1 DEF Owned
<1>12. /\ owners \subseteq DOMAIN symbols /\ owners \subseteq Due' \cup Erasing
       /\ moved \subseteq Due'
       /\ \A w \in owners : /\ symbols[w].kind = "udt" /\ IsInjective(symbols'[w].children)
                            /\ Owned(w)' \subseteq Owned(w)
                            /\ (w \notin Erasing => Owned(w)' = Owned(w))
  BY <1>3, <1>8, <1>10, <1>11
<1>13. \A k \in DOMAIN symbols :
        /\ symbols'[k].dependents = symbols[k].dependents /\ symbols'[k].type = symbols[k].type
        /\ k \notin moved => symbols'[k].offset = symbols[k].offset
        /\ k \notin owners => symbols'[k].children = symbols[k].children
  BY <1>7, <1>10
<1> HIDE DEF owners, moved
<1> QED BY <1>1, <1>2, <1>7, <1>8, <1>9, <1>12, <1>13, StillLaidOut

(* A type is set.                                                          *)
LEMMA SetSymbolTypeIdStep ==
  ASSUME LayoutAssumption, LayoutInv, NEW i, NEW type, SetSymbolTypeId(i, type)
  PROVE  LayoutInv'
<1> DEFINE was == symbols[i].type
           first == Unregistered(symbols, i)
           second == Registered(first, i, type)
<1>1. /\ Begin /\ i \in LiveOf(Positional \cup {"data"}) /\ type \in LiveOf(TypeKinds) /\ type # was
      /\ symbols' = WithType(second, i, type) /\ waiting' = <<{i}>>
      /\ live' = live /\ tasks' = tasks
  BY DEF SetSymbolTypeId, WithType
<1>2. /\ TypeOK /\ CountInv /\ RefsInv /\ OwnedInv /\ tasks = <<>> /\ Due = {} /\ Erasing = {}
      /\ NotYet = {}
      /\ failed' = failed /\ operations <= operations' /\ operations' \in 0 .. MaxOperations
      /\ symbols \in Seq(Symbols) /\ live \subseteq DOMAIN symbols
  BY <1>1, Begins
<1>3. /\ i \in live /\ i \in DOMAIN symbols /\ symbols[i].kind \in Positional \cup {"data"}
      /\ symbols[i].kind \in Users
      /\ type \in live /\ type \in DOMAIN symbols /\ symbols[type].kind \in TypeKinds
      /\ i \in Ids /\ type \in Ids
  BY <1>1, <1>2, HaveIds DEF LiveOf, Users
<1>4. /\ SameButDependents(first, symbols)
      /\ \A k \in DOMAIN symbols :
           first[k].dependents = IF k = was /\ k \in live THEN symbols[k].dependents \ {i}
                                 ELSE symbols[k].dependents
  BY <1>2, <1>3, UnregisteredIs
<1> HIDE DEF first
<1>5. first \in Seq(Symbols) /\ DOMAIN first = DOMAIN symbols
  BY <1>4 DEF SameButDependents, SameSymbols
<1>6. /\ SameButDependents(second, first)
      /\ \A k \in DOMAIN first :
           second[k].dependents = IF k = type THEN first[k].dependents \cup {i} ELSE first[k].dependents
  <2>1. second = [first EXCEPT ![type].dependents = @ \cup {i}]
    BY DEF Registered
  <2> HIDE DEF second
  <2> QED BY <1>3, <1>5, <2>1, DependentsChange
<1> HIDE DEF second
<1>7. second \in Seq(Symbols) /\ DOMAIN second = DOMAIN symbols
  BY <1>5, <1>6 DEF SameButDependents, SameSymbols
<1>8. /\ SameSymbols(symbols', second)
      /\ \A k \in DOMAIN second :
           /\ symbols'[k].type = IF k = i THEN type ELSE second[k].type
           /\ symbols'[k].dependents = second[k].dependents
           /\ symbols'[k].children = second[k].children
           /\ symbols'[k].offset = second[k].offset
  BY <1>1, <1>3, <1>7, TypeSet
<1>9. /\ symbols' \in Seq(Symbols) /\ Len(symbols') = Len(symbols)
      /\ DOMAIN symbols' = DOMAIN symbols
      /\ \A k \in DOMAIN symbols :
           /\ symbols'[k].kind = symbols[k].kind /\ symbols'[k].parent = symbols[k].parent
           /\ symbols'[k].size = symbols[k].size /\ symbols'[k].align = symbols[k].align
           /\ symbols'[k].actual = symbols[k].actual /\ symbols'[k].dim = symbols[k].dim
  BY <1>4, <1>6, <1>8 DEF SameButDependents, SameSymbols, Alike
<1>10. \A k \in DOMAIN symbols :
         /\ symbols'[k].type = IF k = i THEN type ELSE symbols[k].type
         /\ symbols'[k].children = symbols[k].children /\ symbols'[k].offset = symbols[k].offset
         /\ symbols'[k].dependents =
              (IF k = was /\ k \in live THEN symbols[k].dependents \ {i} ELSE symbols[k].dependents)
              \cup {x \in {i} : k = type}
  <2>1. ASSUME NEW k \in DOMAIN symbols
        PROVE /\ symbols'[k].type = IF k = i THEN type ELSE symbols[k].type
              /\ symbols'[k].children = symbols[k].children
              /\ symbols'[k].offset = symbols[k].offset
              /\ symbols'[k].dependents =
                   (IF k = was /\ k \in live THEN symbols[k].dependents \ {i}
                    ELSE symbols[k].dependents)
                   \cup {x \in {i} : k = type}
    <3>1. /\ first[k].type = symbols[k].type /\ first[k].children = symbols[k].children
          /\ first[k].offset = symbols[k].offset
          /\ second[k].type = first[k].type /\ second[k].children = first[k].children
          /\ second[k].offset = first[k].offset
      BY <1>4, <1>5, <1>6 DEF SameButDependents
    <3>2. symbols'[k].dependents =
            IF k = type THEN first[k].dependents \cup {i} ELSE first[k].dependents
      BY <1>5, <1>6, <1>7, <1>8
    <3>3. first[k].dependents = IF k = was /\ k \in live THEN symbols[k].dependents \ {i}
                                ELSE symbols[k].dependents
      BY <1>4
    <3>4. symbols'[k].dependents = first[k].dependents \cup {x \in {i} : k = type}
      BY <3>2
    <3> QED BY <1>7, <1>8, <3>1, <3>3, <3>4
  <2> QED BY <2>1
<1>11. waiting' \in Seq((SUBSET live) \ {{}}) /\ Due' = {i}
  BY <1>1, <1>3, OneWaits DEF Due
<1>12. TasksInv' /\ Erasing' = {} /\ NotYet' = {}
  BY <1>1, <1>2, NoTasks
<1>13. RefsInv'
  <2>1. \A k \in DOMAIN symbols : symbols'[k].dependents \subseteq 0 .. Len(symbols')
    <3>1. \A k \in DOMAIN symbols : symbols[k].dependents \subseteq 0 .. Len(symbols)
      BY <1>2 DEF RefsInv, RefsOf, Ids0
    <3>2. i \in 0 .. Len(symbols)
      BY <1>2, <1>3, HaveIds
    <3>3. \A k \in DOMAIN symbols : symbols'[k].dependents \subseteq symbols[k].dependents \cup {i}
      BY <1>10
    <3>4. Len(symbols') = Len(symbols)
      BY <1>9
    <3> QED BY <3>1, <3>2, <3>3, <3>4
  <2>2. Len(symbols) <= Len(symbols')
    BY <1>2, <1>9, HaveIds
  <2>3. DOMAIN symbols' \ DOMAIN symbols = {}
    BY <1>9
  <2>4. \A k \in DOMAIN symbols :
          /\ \/ symbols'[k].type = symbols[k].type
             \/ /\ symbols'[k].type \in DOMAIN symbols /\ symbols[k].kind \in Users
                /\ symbols[symbols'[k].type].kind \in TypeKinds
          /\ symbols'[k].children = symbols[k].children
    BY <1>3, <1>10
  <2> QED BY <1>2, <1>9, <2>1, <2>2, <2>3, <2>4, RefsKept
<1>14. CountInv'
  <2>1. Len(symbols) <= Udts + Cardinality(BasicSizes) + operations
    BY <1>2 DEF CountInv
  <2>2. /\ Len(symbols) \in Nat /\ Cardinality(BasicSizes) \in Nat /\ operations \in Nat
        /\ operations' \in Nat /\ Udts \in Nat
    BY <1>2, LayoutNumbers, HaveIds
  <2>3. Len(symbols') <= Udts + Cardinality(BasicSizes) + operations'
    BY <1>2, <1>9, <2>1, <2>2
  <2> QED BY <2>3 DEF CountInv
<1>15. TypeOK'
  <2>1. /\ live' \subseteq DOMAIN symbols' /\ failed' \in BOOLEAN
        /\ waiting' \in Seq((SUBSET live') \ {{}})
    BY <1>1, <1>2, <1>9, <1>11 DEF TypeOK
  <2> QED BY <1>2, <1>9, <1>12, <1>14, <2>1, TypedAfter
<1>16. \A kinds : LiveOf(kinds)' = LiveOf(kinds)
  BY <1>1, <1>2, <1>9 DEF LiveOf
<1>17. OwnedInv'
  <2>1. ASSUME NEW u \in live PROVE Kids(u)' = Kids(u) /\ Owned(u)' = Owned(u)
    <3>1. u \in DOMAIN symbols /\ \A k \in LiveOf(Positional) : k \in DOMAIN symbols
      BY <1>2 DEF LiveOf
    <3> QED BY <1>9, <1>10, <1>16, <3>1 DEF Kids, Owned
  <2>2. \A u \in LiveOf({"udt"}) : u \in live
    BY DEF LiveOf
  <2> QED BY <1>2, <1>12, <1>16, <2>1, <2>2 DEF OwnedInv
<1>18. ASSUME ~failed PROVE RegisteredInv' /\ LaidInv' /\ ApartInv'
  <2>1. RegisteredInv /\ LaidInv
    BY <1>18 DEF LayoutInv
  <2>2. RegisteredInv'
    <3>1. ASSUME NEW k \in LiveOf(TypeKinds)
          PROVE  symbols'[k].dependents = {j \in LiveOf(Users) : symbols'[j].type = k}
      <4>1. k \in DOMAIN symbols /\ k \in live
        BY <1>2 DEF LiveOf
      <4>2. symbols[k].dependents = {j \in LiveOf(Users) : symbols[j].type = k}
        BY <1>2, <2>1 DEF RegisteredInv
      <4>3. symbols'[k].dependents =
              (IF k = was THEN symbols[k].dependents \ {i} ELSE symbols[k].dependents)
              \cup {x \in {i} : k = type}
        BY <1>10, <4>1
      <4>4. \A j \in LiveOf(Users) : symbols'[j].type = IF j = i THEN type ELSE symbols[j].type
        BY <1>2, <1>10 DEF LiveOf
      <4>5. i \in LiveOf(Users)
        BY <1>3 DEF LiveOf
      <4> QED BY <1>1, <4>2, <4>3, <4>4, <4>5
    <3>2. ASSUME NEW k \in LiveOf(Positional) PROVE symbols'[k].dependents = {symbols'[k].parent}
      <4>1. /\ k \in DOMAIN symbols /\ symbols'[k].parent = symbols[k].parent
            /\ symbols[k].kind \in Positional
        BY <1>2, <1>9 DEF LiveOf
      <4>2. k # type /\ ~(k = was /\ k \in live)
        <5>1. was # 0 => symbols[was].kind \in TypeKinds
          BY <1>2, <1>3 DEF RefsInv, RefsOf
        <5>2. k # 0
          BY <1>2, <4>1, HaveIds
        <5> QED BY <1>3, <4>1, <5>1, <5>2 DEF Positional, TypeKinds
      <4>3. symbols[k].dependents = {symbols[k].parent}
        BY <1>2, <2>1 DEF RegisteredInv
      <4>4. symbols'[k].dependents = symbols[k].dependents
        BY <1>10, <4>1, <4>2
      <4> QED BY <4>1, <4>3, <4>4
    <3> QED BY <1>12, <1>16, <3>1, <3>2 DEF RegisteredInv
  <2>3. LaidInv'
    <3> DEFINE owners == {}
               moved == {i}
    <3>1. /\ live' \subseteq DOMAIN symbols' /\ live' \cap DOMAIN symbols \subseteq live
          /\ \A k \in DOMAIN symbols : k \in live' \ Erasing' => k \in live \ Erasing
          /\ live' \ DOMAIN symbols = {}
      BY <1>1, <1>2, <1>9
    <3>2. \A k \in DOMAIN symbols :
            /\ symbols'[k].kind = symbols[k].kind /\ symbols'[k].size = symbols[k].size
            /\ symbols'[k].align = symbols[k].align /\ symbols'[k].actual = symbols[k].actual
            /\ symbols'[k].dim = symbols[k].dim
            /\ k \notin moved =>
                 symbols'[k].type = symbols[k].type /\ symbols'[k].offset = symbols[k].offset
            /\ k \notin owners => symbols'[k].children = symbols[k].children
      BY <1>9, <1>10
    <3>3. /\ moved \subseteq Due'
          /\ Due = {}
          /\ \A u \in owners : u \in Due' \cup Erasing' \/ u \notin live'
      BY <1>2, <1>11
    <3>4. DOMAIN symbols \subseteq DOMAIN symbols'
      BY <1>9
    <3>5. \A k \in live' \ DOMAIN symbols :
            /\ symbols'[k].kind = "udt" => ClassLaidOut(k)'
            /\ symbols'[k].kind = "array" => ArrayFits(k)'
            /\ symbols'[k].kind = "data" => DataFits(k)'
      BY <3>1
    <3>6. TypeOK /\ RefsInv /\ LaidInv
      BY <1>2, <2>1
    <3> HIDE DEF owners, moved
    <3> QED BY ONLY ZenonT(60), <3>1, <3>2, <3>3, <3>4, <3>5, <3>6, LaidKept
  <2>4. ApartInv'
    BY <1>12 DEF ApartInv
  <2> QED BY <2>2, <2>3, <2>4
<1> QED BY <1>13, <1>14, <1>15, <1>12, <1>17, <1>18, <1>1, <1>2 DEF LayoutInv, TreeInv

(* LayoutNumbers symbol is created that is no child.                                   *)
LEMMA CreatedStep ==
  ASSUME LayoutAssumption, LayoutInv, Begin, NEW new, new = NewId, NEW s \in Symbols,
         symbols' \in Seq(Symbols), Len(symbols') = Len(symbols) + 1,
         DOMAIN symbols' = DOMAIN symbols \cup {new}, symbols'[new] = s,
         \A k \in DOMAIN symbols :
           /\ Alike(symbols'[k], symbols[k]) /\ symbols'[k].type = symbols[k].type
           /\ symbols'[k].children = symbols[k].children /\ symbols'[k].offset = symbols[k].offset
           /\ symbols'[k].dependents =
                symbols[k].dependents \cup {x \in {new} : s.kind \in {"array", "data"} /\ k = s.type},
         s.kind \in {"udt", "array", "typedef", "data"}, s.parent = 0, s.children = <<>>,
         s.dependents \subseteq {0}, s.kind # "data" => s.dependents = {},
         s.kind = "udt" => s.type = 0 /\ s.size = 0 /\ s.align = 1,
         s.kind # "udt" => s.type \in LiveOf(TypeKinds),
         s.kind = "array" => /\ s.size = s.dim * symbols[s.type].size
                             /\ s.align = symbols[s.type].align,
         s.kind = "data" => s.actual = s.offset /\ s.size = symbols[s.type].size,
         live' = live \cup {new}, waiting' = waiting, tasks' = tasks
  PROVE  LayoutInv'
<1>2. /\ TypeOK /\ CountInv /\ RefsInv /\ OwnedInv /\ waiting = <<>> /\ tasks = <<>>
      /\ Due = {} /\ Erasing = {} /\ NotYet = {}
      /\ failed' = failed /\ operations' = operations + 1 /\ operations <= operations'
      /\ operations' \in 0 .. MaxOperations
      /\ symbols \in Seq(Symbols) /\ live \subseteq DOMAIN symbols
      /\ new \in Ids /\ new \notin DOMAIN symbols /\ 0 \notin DOMAIN symbols
  BY Begins
<1>3. \A k \in DOMAIN symbols :
        /\ symbols'[k].kind = symbols[k].kind /\ symbols'[k].parent = symbols[k].parent
        /\ symbols'[k].size = symbols[k].size /\ symbols'[k].align = symbols[k].align
        /\ symbols'[k].actual = symbols[k].actual /\ symbols'[k].dim = symbols[k].dim
        /\ symbols'[k].type = symbols[k].type /\ symbols'[k].children = symbols[k].children
        /\ symbols'[k].offset = symbols[k].offset
        /\ symbols'[k].dependents =
             symbols[k].dependents \cup {x \in {new} : s.kind \in {"array", "data"} /\ k = s.type}
  BY DEF Alike
<1>4. /\ Ids0 = DOMAIN symbols \cup {0} /\ Ids0' = DOMAIN symbols \cup {new, 0}
      /\ new \notin Ids0
      /\ \A k \in DOMAIN symbols : symbols[k].type # new /\ symbols[k].parent # new
      /\ \A k \in DOMAIN symbols : symbols[k].dependents \subseteq Ids0
  <2>1. Ids0 = DOMAIN symbols \cup {0}
    BY <1>2, HaveIds DEF Ids0
  <2>2. Ids0' = DOMAIN symbols' \cup {0}
    <3>1. Len(symbols') \in Nat /\ DOMAIN symbols' = 1 .. Len(symbols')
      BY LenProperties
    <3> QED BY <3>1 DEF Ids0
  <2>3. new \notin Ids0
    BY <1>2, HaveIds DEF Ids0, NewId
  <2> QED BY <1>2, <2>1, <2>2, <2>3 DEF RefsInv, RefsOf
<1>5. \A kinds : LiveOf(kinds)' = LiveOf(kinds) \cup {x \in {new} : s.kind \in kinds}
  BY <1>2, <1>3 DEF LiveOf
<1>6. s.kind # "udt" => /\ s.type \in DOMAIN symbols /\ s.type \in live
                        /\ symbols[s.type].kind \in TypeKinds /\ s.type # 0
  BY <1>2 DEF LiveOf
<1>7. RefsInv'
  <2>1. RefsOf(new)'
    <3>1. s.type \in Ids0' /\ s.parent \in Ids0' /\ s.dependents \subseteq Ids0'
      BY <1>4, <1>6
    <3>2. /\ s.type # 0 => symbols'[s.type].kind \in TypeKinds
          /\ s.kind \notin Positional
      BY <1>3, <1>6 DEF Positional
    <3>3. IsInjective(s.children) /\ DOMAIN s.children = {}
      BY DEF IsInjective
    <3>4. s.kind \in {"array", "data"} => s.type # 0
      BY <1>6
    <3> QED BY <3>1, <3>2, <3>3, <3>4 DEF RefsOf
  <2>2. \A i \in DOMAIN symbols' \ DOMAIN symbols : RefsOf(i)'
    BY <2>1
  <2>3. \A k \in DOMAIN symbols : symbols'[k].dependents \subseteq 0 .. Len(symbols')
    <3>1. \A k \in DOMAIN symbols : symbols'[k].dependents \subseteq Ids0'
      BY <1>3, <1>4
    <3> QED BY <3>1 DEF Ids0
  <2>4. Len(symbols) <= Len(symbols')
    BY <1>2, HaveIds
  <2> QED BY <1>2, <1>3, <2>2, <2>3, <2>4, RefsKept
<1>8. CountInv'
  <2>1. Len(symbols) <= Udts + Cardinality(BasicSizes) + operations
    BY <1>2 DEF CountInv
  <2>2. /\ Len(symbols) \in Nat /\ Cardinality(BasicSizes) \in Nat /\ operations \in Nat
        /\ Udts \in Nat
    BY <1>2, LayoutNumbers, HaveIds
  <2>3. Len(symbols') <= Udts + Cardinality(BasicSizes) + operations'
    BY <1>2, <2>1, <2>2
  <2> QED BY <2>3 DEF CountInv
<1>9. TasksInv' /\ Erasing' = {} /\ NotYet' = {}
  BY <1>2, NoTasks
<1>10. TypeOK'
  <2>1. /\ live' \subseteq DOMAIN symbols' /\ failed' \in BOOLEAN
        /\ waiting' \in Seq((SUBSET live') \ {{}})
    BY <1>2 DEF TypeOK
  <2> QED BY <1>2, <1>8, <1>9, <2>1, TypedAfter
<1>11. OwnedInv'
  <2>1. LiveOf(Positional)' = LiveOf(Positional)
    BY <1>5 DEF Positional
  <2>2. \A k \in LiveOf(Positional) : k \in DOMAIN symbols
    BY <1>2 DEF LiveOf
  <2>3. ASSUME NEW u \in LiveOf({"udt"}) PROVE Owned(u)' = Kids(u)'
    <3>1. u \in DOMAIN symbols
      BY <1>2 DEF LiveOf
    <3>2. Owned(u)' = Owned(u) /\ Kids(u)' = Kids(u)
      BY <1>3, <2>1, <2>2, <3>1 DEF Owned, Kids
    <3>3. Owned(u) = Kids(u)
      BY <1>2 DEF OwnedInv
    <3> QED BY <3>2, <3>3
  <2>4. Owned(new)' = {}
    BY DEF Owned, ToSet
  <2>5. Kids(new)' = {}
    <3>1. \A k \in LiveOf(Positional) : symbols'[k].parent # new
      BY <1>3, <1>4, <2>2
    <3> QED BY <2>1, <3>1 DEF Kids
  <2> QED BY ZenonT(60), <1>5, <1>9, <2>3, <2>4, <2>5 DEF OwnedInv
<1>12. ASSUME ~failed PROVE RegisteredInv' /\ LaidInv' /\ ApartInv'
  <2>1. RegisteredInv /\ LaidInv
    BY <1>12 DEF LayoutInv
  <2>2. RegisteredInv'
    <3>1. ASSUME NEW k \in LiveOf(TypeKinds)
          PROVE  symbols'[k].dependents = {j \in LiveOf(Users)' : symbols'[j].type = k}
      <4>1. k \in DOMAIN symbols
        BY <1>2 DEF LiveOf
      <4>2. symbols[k].dependents = {j \in LiveOf(Users) : symbols[j].type = k}
        BY <1>2, <2>1 DEF RegisteredInv
      <4>3. \A j \in LiveOf(Users) : symbols'[j].type = symbols[j].type
        BY <1>2, <1>3 DEF LiveOf
      <4>4. symbols'[k].dependents =
              symbols[k].dependents \cup {x \in {new} : s.kind \in {"array", "data"} /\ k = s.type}
        BY <1>3, <4>1
      <4>5. LiveOf(Users)' = LiveOf(Users) \cup {x \in {new} : s.kind \in {"array", "data"}}
        BY <1>5 DEF Users, Positional
      <4> QED BY <4>2, <4>3, <4>4, <4>5
    <3>2. ASSUME s.kind \in TypeKinds
          PROVE  symbols'[new].dependents = {j \in LiveOf(Users)' : symbols'[j].type = new}
      <4>1. \A j \in LiveOf(Users)' : symbols'[j].type # new
        <5>1. \A j \in LiveOf(Users) : j \in DOMAIN symbols
          BY <1>2 DEF LiveOf
        <5>2. s.type # new
          BY <1>2, <1>6
        <5> QED BY <1>3, <1>4, <1>5, <5>1, <5>2
      <4>2. s.dependents = {}
        BY <3>2 DEF TypeKinds
      <4> QED BY <4>1, <4>2
    <3>3. ASSUME NEW k \in LiveOf(Positional)' PROVE symbols'[k].dependents = {symbols'[k].parent}
      <4>1. k \in LiveOf(Positional) /\ k \in DOMAIN symbols /\ symbols[k].kind \in Positional
        <5>1. k \in LiveOf(Positional)
          BY <1>5 DEF Positional
        <5> QED BY <1>2, <5>1 DEF LiveOf
      <4>2. ~(s.kind \in {"array", "data"} /\ k = s.type)
        BY <1>6, <4>1 DEF Positional, TypeKinds
      <4>3. symbols[k].dependents = {symbols[k].parent}
        BY <1>2, <2>1, <4>1 DEF RegisteredInv
      <4>4. symbols'[k].dependents = symbols[k].dependents /\ symbols'[k].parent = symbols[k].parent
        BY ZenonT(60), <1>3, <4>1, <4>2
      <4> QED BY <4>3, <4>4
    <3> QED BY <1>5, <1>9, <3>1, <3>2, <3>3 DEF RegisteredInv
  <2>3. LaidInv'
    <3> DEFINE none == {}
    <3>1. /\ live' \subseteq DOMAIN symbols' /\ live' \cap DOMAIN symbols \subseteq live
          /\ \A k \in DOMAIN symbols : k \in live' \ Erasing' => k \in live \ Erasing
      BY <1>2
    <3>2. \A k \in DOMAIN symbols :
            /\ symbols'[k].kind = symbols[k].kind /\ symbols'[k].size = symbols[k].size
            /\ symbols'[k].align = symbols[k].align /\ symbols'[k].actual = symbols[k].actual
            /\ symbols'[k].dim = symbols[k].dim
            /\ k \notin none =>
                 symbols'[k].type = symbols[k].type /\ symbols'[k].offset = symbols[k].offset
            /\ k \notin none => symbols'[k].children = symbols[k].children
      BY <1>3
    <3>3. none \subseteq Due' /\ Due = {} /\ \A u \in none : u \in Due' \cup Erasing' \/ u \notin live'
      BY <1>2
    <3>4. DOMAIN symbols \subseteq DOMAIN symbols'
      OBVIOUS
    <3>5. s.kind = "udt" => ClassLaidOut(new)'
      <4>1. Owned(new)' = {}
        BY DEF Owned, ToSet
      <4> QED BY <4>1 DEF ClassLaidOut
    <3>6. /\ s.kind = "array" => ArrayFits(new)'
          /\ s.kind = "data" => DataFits(new)'
      BY <1>3, <1>6 DEF ArrayFits, DataFits
    <3>7. \A k \in live' \ DOMAIN symbols :
            /\ symbols'[k].kind = "udt" => ClassLaidOut(k)'
            /\ symbols'[k].kind = "array" => ArrayFits(k)'
            /\ symbols'[k].kind = "data" => DataFits(k)'
      BY <1>2, <3>5, <3>6
    <3>8. TypeOK /\ RefsInv /\ LaidInv
      BY <1>2, <2>1
    <3> HIDE DEF none
    <3> QED BY ONLY <3>1, <3>2, <3>3, <3>4, <3>7, <3>8, LaidKept
  <2>4. ApartInv'
    BY <1>9 DEF ApartInv
  <2> QED BY <2>2, <2>3, <2>4
<1> QED BY <1>2, <1>7, <1>8, <1>9, <1>10, <1>11, <1>12 DEF LayoutInv, TreeInv

(* LayoutNumbers symbol is appended.                                                   *)
LEMMA Appended ==
  ASSUME NEW table \in Seq(Symbols), NEW s \in Symbols
  PROVE  LET new == Append(table, s)
             n == Len(table) + 1
         IN  /\ new \in Seq(Symbols) /\ Len(new) = n /\ DOMAIN new = DOMAIN table \cup {n}
             /\ new[n] = s /\ \A k \in DOMAIN table : new[k] = table[k]
<1> DEFINE new == Append(table, s)
           n == Len(table) + 1
<1>1. Len(table) \in Nat /\ DOMAIN table = 1 .. Len(table)
  BY LenProperties
<1>2. /\ new \in Seq(Symbols) /\ Len(new) = n
      /\ \A k \in 1 .. n : new[k] = IF k = n THEN s ELSE table[k]
  BY <1>1, AppendProperties
<1> HIDE DEF new
<1>3. DOMAIN new = 1 .. n
  BY <1>2, LenProperties
<1>4. \A k \in DOMAIN table : k \in 1 .. n /\ k # n
  BY <1>1
<1>5. 1 .. n = DOMAIN table \cup {n} /\ n \in 1 .. n
  BY <1>1
<1> QED BY <1>2, <1>3, <1>4, <1>5 DEF new

(* What is created.                                                        *)
NewArray(type, dim, size, align) ==
  [Blank EXCEPT !.kind = "array", !.type = type, !.dim = dim, !.size = size, !.align = align]
NewTypedef(type, size, align) ==
  [Blank EXCEPT !.kind = "typedef", !.type = type, !.size = size, !.align = align]
NewData(type, offset, size) ==
  [Blank EXCEPT !.kind = "data", !.type = type, !.dependents = {0}, !.offset = offset,
                !.actual = offset, !.size = size]
NewChild(kind, owner, type, offset) ==
  [Blank EXCEPT !.kind = kind, !.parent = owner, !.type = type, !.offset = offset, !.actual = offset]

(* It is a symbol.                                                         *)
LEMMA Blanks ==
  /\ Udt \in Symbols /\ Udt.kind = "udt" /\ Udt.parent = 0 /\ Udt.type = 0 /\ Udt.size = 0
  /\ Udt.align = 1 /\ Udt.children = <<>> /\ Udt.dependents = {}
  /\ \A size \in Nat \ {0} :
       LET s == Basic(size) IN
       /\ s \in Symbols /\ s.kind = "basic" /\ s.parent = 0 /\ s.type = 0
       /\ s.children = <<>> /\ s.dependents = {}
  /\ \A type \in Ids, dim \in Nat, size \in Nat, align \in Nat \ {0} :
       /\ LET s == NewArray(type, dim, size, align)
          IN  /\ s \in Symbols /\ s.kind = "array" /\ s.parent = 0 /\ s.type = type /\ s.dim = dim
              /\ s.size = size /\ s.align = align /\ s.children = <<>> /\ s.dependents = {}
       /\ LET s == NewTypedef(type, size, align)
          IN  /\ s \in Symbols /\ s.kind = "typedef" /\ s.parent = 0 /\ s.type = type
              /\ s.children = <<>> /\ s.dependents = {}
  /\ \A type \in Ids, offset \in Nat \cup {Automatic}, size \in Nat :
       LET s == NewData(type, offset, size)
       IN  /\ s \in Symbols /\ s.kind = "data" /\ s.parent = 0 /\ s.type = type
           /\ s.offset = offset /\ s.actual = offset
           /\ s.size = size /\ s.children = <<>> /\ s.dependents = {0}
  /\ \A kind \in Positional, owner \in Ids, type \in Ids, offset \in Nat \cup {Automatic} :
       LET s == NewChild(kind, owner, type, offset)
       IN  /\ s \in Symbols /\ s.kind = kind /\ s.parent = owner /\ s.type = type
           /\ s.children = <<>> /\ s.dependents = {}
<1>1. <<>> \in Seq(Ids) /\ {} \in SUBSET (Ids \cup {0}) /\ {0} \in SUBSET (Ids \cup {0})
  OBVIOUS
<1>0. /\ Blank \in Symbols /\ Blank.kind = "basic" /\ Blank.parent = 0 /\ Blank.type = 0
      /\ Blank.offset = 0 /\ Blank.actual = 0 /\ Blank.size = 0 /\ Blank.align = 1 /\ Blank.dim = 1
      /\ Blank.children = <<>> /\ Blank.dependents = {}
  BY <1>1 DEF Blank, Symbols, TypeKinds
<1>2. /\ Udt \in Symbols /\ Udt.kind = "udt" /\ Udt.parent = 0 /\ Udt.type = 0 /\ Udt.size = 0
      /\ Udt.align = 1 /\ Udt.children = <<>> /\ Udt.dependents = {}
  <2>1. \A b \in Symbols :
          LET s == [b EXCEPT !.kind = "udt"] IN
          /\ s \in Symbols /\ s.kind = "udt" /\ s.parent = b.parent /\ s.type = b.type
          /\ s.size = b.size /\ s.align = b.align /\ s.children = b.children
          /\ s.dependents = b.dependents
    BY DEF Symbols, TypeKinds
  <2> QED BY <1>0, <2>1 DEF Udt
<1>3. ASSUME NEW size \in Nat \ {0}
      PROVE  LET s == Basic(size) IN
             /\ s \in Symbols /\ s.kind = "basic" /\ s.parent = 0 /\ s.type = 0
             /\ s.children = <<>> /\ s.dependents = {}
  BY <1>1 DEF Basic, Blank, Symbols, TypeKinds
<1>4. ASSUME NEW type \in Ids, NEW dim \in Nat, NEW size \in Nat, NEW align \in Nat \ {0}
      PROVE
       /\ LET s == NewArray(type, dim, size, align)
          IN  /\ s \in Symbols /\ s.kind = "array" /\ s.parent = 0 /\ s.type = type /\ s.dim = dim
              /\ s.size = size /\ s.align = align /\ s.children = <<>> /\ s.dependents = {}
       /\ LET s == NewTypedef(type, size, align)
          IN  /\ s \in Symbols /\ s.kind = "typedef" /\ s.parent = 0 /\ s.type = type
              /\ s.children = <<>> /\ s.dependents = {}
  BY <1>1 DEF Blank, Symbols, TypeKinds, NewArray, NewTypedef
<1>5. ASSUME NEW type \in Ids, NEW offset \in Nat \cup {Automatic}, NEW size \in Nat
      PROVE
       LET s == NewData(type, offset, size)
       IN  /\ s \in Symbols /\ s.kind = "data" /\ s.parent = 0 /\ s.type = type
           /\ s.offset = offset /\ s.actual = offset
           /\ s.size = size /\ s.children = <<>> /\ s.dependents = {0}
  <2>1. \A b \in Symbols :
          LET s == [b EXCEPT !.kind = "data", !.type = type, !.dependents = {0}, !.offset = offset,
                             !.actual = offset, !.size = size]
          IN  /\ s \in Symbols /\ s.kind = "data" /\ s.parent = b.parent /\ s.type = type
              /\ s.offset = offset /\ s.actual = offset
              /\ s.size = size /\ s.children = b.children /\ s.dependents = {0}
    BY ZenonT(60), <1>1 DEF Symbols
  <2> QED BY <1>0, <2>1 DEF NewData
<1>6. ASSUME NEW kind \in Positional, NEW owner \in Ids, NEW type \in Ids,
             NEW offset \in Nat \cup {Automatic}
      PROVE
       LET s == NewChild(kind, owner, type, offset)
       IN  /\ s \in Symbols /\ s.kind = kind /\ s.parent = owner /\ s.type = type
           /\ s.children = <<>> /\ s.dependents = {}
  <2>1. \A b \in Symbols :
          LET s == [b EXCEPT !.kind = kind, !.parent = owner, !.type = type, !.offset = offset,
                             !.actual = offset]
          IN  /\ s \in Symbols /\ s.kind = kind /\ s.parent = owner /\ s.type = type
              /\ s.children = b.children /\ s.dependents = b.dependents
    BY ZenonT(60), <1>1 DEF Symbols
  <2> QED BY <1>0, <2>1 DEF NewChild
<1> QED BY <1>2, <1>3, <1>4, <1>5, <1>6

(* A new array and a new typedef are as they were asked for.               *)
LEMMA NewArrayIs ==
  ASSUME NEW type \in Ids, NEW dim \in Nat, NEW n \in Nat, NEW a \in Nat \ {0},
         NEW s, s = NewArray(type, dim, n, a)
  PROVE  /\ s \in Symbols /\ s.kind = "array" /\ s.parent = 0 /\ s.type = type /\ s.dim = dim
         /\ s.size = n /\ s.align = a /\ s.children = <<>> /\ s.dependents = {}
BY Blanks

LEMMA NewTypedefIs ==
  ASSUME NEW type \in Ids, NEW n \in Nat, NEW a \in Nat \ {0},
         NEW s, s = NewTypedef(type, n, a)
  PROVE  /\ s \in Symbols /\ s.kind = "typedef" /\ s.parent = 0 /\ s.type = type
         /\ s.children = <<>> /\ s.dependents = {}
<1>1. 0 \in Nat
  OBVIOUS
<1> QED BY <1>1, Blanks

(* A class is created.                                                     *)
LEMMA CreateUdtStep ==
  ASSUME LayoutAssumption, LayoutInv, CreateUdt
  PROVE  LayoutInv'
<1>1. /\ Begin /\ symbols' = Append(symbols, Udt) /\ live' = live \cup {NewId}
      /\ waiting' = waiting /\ tasks' = tasks
  BY DEF CreateUdt, Create
<1>2. symbols \in Seq(Symbols)
  BY <1>1, Begins
<1>3. PICK s \in Symbols : s = Udt
  BY Blanks
<1>4. PICK new : new = NewId
  OBVIOUS
<1>5. /\ symbols' \in Seq(Symbols) /\ Len(symbols') = Len(symbols) + 1
      /\ DOMAIN symbols' = DOMAIN symbols \cup {new} /\ symbols'[new] = s
      /\ \A k \in DOMAIN symbols : symbols'[k] = symbols[k]
  <2>1. symbols' = Append(symbols, s)
    BY <1>1, <1>3
  <2> QED BY <1>2, <1>4, <2>1, Appended DEF NewId
<1>6. /\ s.kind = "udt" /\ s.parent = 0 /\ s.type = 0 /\ s.size = 0
      /\ s.align = 1 /\ s.children = <<>> /\ s.dependents = {}
  BY <1>3, Blanks
<1>7. \A k \in DOMAIN symbols :
        /\ Alike(symbols'[k], symbols[k]) /\ symbols'[k].type = symbols[k].type
        /\ symbols'[k].children = symbols[k].children /\ symbols'[k].offset = symbols[k].offset
        /\ symbols'[k].dependents =
             symbols[k].dependents \cup {x \in {new} : s.kind \in {"array", "data"} /\ k = s.type}
  BY <1>5, <1>6 DEF Alike
<1>8. live' = live \cup {new}
  BY <1>1, <1>4
<1> QED BY <1>1, <1>4, <1>5, <1>6, <1>7, <1>8, CreatedStep

(* A symbol is registered for the changes of its type.                     *)
LEMMA RegisteredIs ==
  ASSUME NEW table \in Seq(Symbols), NEW i \in Ids, NEW t \in DOMAIN table
  PROVE  /\ SameButDependents(Registered(table, i, t), table)
         /\ \A k \in DOMAIN table :
              Registered(table, i, t)[k].dependents
                = IF k = t THEN table[k].dependents \cup {i} ELSE table[k].dependents
BY DependentsChange DEF Registered

(* A symbol is created that asks to be notified.                           *)
Joined(new, s, type) ==
  /\ symbols' \in Seq(Symbols) /\ Len(symbols') = Len(symbols) + 1
  /\ DOMAIN symbols' = DOMAIN symbols \cup {new} /\ symbols'[new] = s
  /\ \A k \in DOMAIN symbols :
       /\ Alike(symbols'[k], symbols[k]) /\ symbols'[k].type = symbols[k].type
       /\ symbols'[k].children = symbols[k].children /\ symbols'[k].offset = symbols[k].offset
       /\ symbols'[k].dependents =
            IF k = type THEN symbols[k].dependents \cup {new} ELSE symbols[k].dependents

(* It is what Append and Registered make of the symbols.                   *)
LEMMA RegisteredNew ==
  ASSUME LayoutAssumption, LayoutInv, Begin, NEW type \in LiveOf(TypeKinds), NEW s \in Symbols,
         NEW new, new = NewId,
         symbols' = Registered(Append(symbols, s), new, type)
  PROVE  Joined(new, s, type)
<1>1. /\ symbols \in Seq(Symbols) /\ live \subseteq DOMAIN symbols
      /\ new \in Ids /\ new \notin DOMAIN symbols
  BY Begins
<1>2. type \in DOMAIN symbols /\ type # new
  BY <1>1 DEF LiveOf
<1> DEFINE table == Append(symbols, s)
<1>3. /\ table \in Seq(Symbols) /\ Len(table) = Len(symbols) + 1
      /\ DOMAIN table = DOMAIN symbols \cup {new}
      /\ table[new] = s /\ \A k \in DOMAIN symbols : table[k] = symbols[k]
  BY <1>1, Appended DEF NewId
<1>4. symbols' = Registered(table, new, type)
  OBVIOUS
<1> HIDE DEF table
<1>5. /\ SameButDependents(symbols', table)
      /\ \A k \in DOMAIN table :
           symbols'[k].dependents =
             IF k = type THEN table[k].dependents \cup {new} ELSE table[k].dependents
  <2>1. table \in Seq(Symbols) /\ type \in DOMAIN table /\ new \in Ids
    BY <1>1, <1>2, <1>3
  <2> QED BY ONLY ZenonT(60), <1>4, <2>1, RegisteredIs
<1>6. /\ symbols' \in Seq(Symbols) /\ Len(symbols') = Len(symbols) + 1
      /\ DOMAIN symbols' = DOMAIN symbols \cup {new}
  BY <1>3, <1>5 DEF SameButDependents, SameSymbols
<1>7. \A k \in DOMAIN symbols :
        /\ Alike(symbols'[k], symbols[k]) /\ symbols'[k].type = symbols[k].type
        /\ symbols'[k].children = symbols[k].children /\ symbols'[k].offset = symbols[k].offset
        /\ symbols'[k].dependents =
             IF k = type THEN symbols[k].dependents \cup {new} ELSE symbols[k].dependents
  <2>1. ASSUME NEW k \in DOMAIN symbols
        PROVE  /\ Alike(symbols'[k], symbols[k]) /\ symbols'[k].type = symbols[k].type
               /\ symbols'[k].children = symbols[k].children
               /\ symbols'[k].offset = symbols[k].offset
               /\ symbols'[k].dependents =
                    IF k = type THEN symbols[k].dependents \cup {new} ELSE symbols[k].dependents
    <3>1. k \in DOMAIN table /\ table[k] = symbols[k]
      BY <1>3
    <3>2. /\ Alike(symbols'[k], table[k]) /\ symbols'[k].type = table[k].type
          /\ symbols'[k].children = table[k].children /\ symbols'[k].offset = table[k].offset
          /\ symbols'[k].dependents =
               IF k = type THEN table[k].dependents \cup {new} ELSE table[k].dependents
      BY <1>5, <3>1 DEF SameButDependents, SameSymbols
    <3> QED BY <3>1, <3>2
  <2> QED BY <2>1
<1>8. symbols'[new] = s
  <2>1. Registered(table, new, type)[new] = table[new]
    BY <1>2, <1>3 DEF Registered
  <2> QED BY <1>3, <1>4, <2>1
<1> QED BY <1>6, <1>7, <1>8 DEF Joined

(* An array is created.                                                    *)
LEMMA CreateArrayStep ==
  ASSUME LayoutAssumption, LayoutInv, NEW type, NEW dim \in Dims, CreateArray(type, dim)
  PROVE  LayoutInv'
<1> DEFINE array == [Blank EXCEPT !.kind = "array", !.type = type, !.dim = dim,
                                  !.size = symbols[type].size * dim,
                                  !.align = symbols[type].align]
<1>1. /\ Begin /\ type \in LiveOf(TypeKinds) /\ live' = live \cup {NewId}
      /\ symbols' = Registered(Append(symbols, array), NewId, type)
      /\ waiting' = waiting /\ tasks' = tasks
  BY DEF CreateArray, Create
<1>2. /\ symbols \in Seq(Symbols) /\ type \in DOMAIN symbols /\ type \in Ids
      /\ symbols[type].size \in Nat /\ symbols[type].align \in Nat \ {0} /\ dim \in Nat
  <2>1. /\ symbols \in Seq(Symbols) /\ type \in DOMAIN symbols /\ type \in Ids
    BY <1>1, Begins, HaveIds DEF LiveOf
  <2> QED BY LayoutNumbers, <2>1, Fields
<1>3. PICK n \in Nat : n = symbols[type].size * dim
  BY <1>2
<1>4. PICK a \in Nat \ {0} : a = symbols[type].align
  BY <1>2
<1>5. PICK s : s = array
  OBVIOUS
<1>6. /\ s \in Symbols /\ s.kind = "array" /\ s.parent = 0 /\ s.type = type /\ s.dim = dim
      /\ s.size = n /\ s.align = a /\ s.children = <<>> /\ s.dependents = {}
  <2>1. s = NewArray(type, dim, n, a)
    BY <1>3, <1>4, <1>5 DEF NewArray
  <2>2. n \in Nat /\ a \in Nat \ {0}
    BY <1>3, <1>4
  <2>3. type \in Ids /\ dim \in Nat
    BY <1>2
  <2> QED BY ONLY <2>1, <2>2, <2>3, NewArrayIs
<1>7. PICK new : new = NewId
  OBVIOUS
<1>8. /\ symbols' \in Seq(Symbols) /\ Len(symbols') = Len(symbols) + 1
      /\ DOMAIN symbols' = DOMAIN symbols \cup {new} /\ symbols'[new] = s
      /\ \A k \in DOMAIN symbols :
           /\ Alike(symbols'[k], symbols[k]) /\ symbols'[k].type = symbols[k].type
           /\ symbols'[k].children = symbols[k].children /\ symbols'[k].offset = symbols[k].offset
           /\ symbols'[k].dependents =
                IF k = type THEN symbols[k].dependents \cup {new} ELSE symbols[k].dependents
  <2>1. symbols' = Registered(Append(symbols, s), new, type)
    BY <1>1, <1>5, <1>7
  <2>2. /\ LayoutInv /\ Begin /\ type \in LiveOf(TypeKinds) /\ s \in Symbols /\ new = NewId
    BY <1>1, <1>6, <1>7
  <2>3. Joined(new, s, type)
    BY ONLY LayoutAssumption, <2>1, <2>2, RegisteredNew
  <2> QED BY <2>3 DEF Joined
<1>9. \A k \in DOMAIN symbols :
           /\ Alike(symbols'[k], symbols[k]) /\ symbols'[k].type = symbols[k].type
           /\ symbols'[k].children = symbols[k].children /\ symbols'[k].offset = symbols[k].offset
           /\ symbols'[k].dependents =
                symbols[k].dependents \cup {x \in {new} : s.kind \in {"array", "data"} /\ k = s.type}
  BY <1>6, <1>8
<1>10. s.size = s.dim * symbols[s.type].size /\ s.align = symbols[s.type].align
  BY <1>2, <1>3, <1>4, <1>6
<1>11. live' = live \cup {new}
  BY <1>1, <1>7
<1> HIDE DEF array
<1> QED BY <1>1, <1>6, <1>7, <1>8, <1>9, <1>10, <1>11, CreatedStep

(* LayoutNumbers typedef is created.                                                   *)
LEMMA CreateTypedefStep ==
  ASSUME LayoutAssumption, LayoutInv, NEW type, CreateTypedef(type)
  PROVE  LayoutInv'
<1> DEFINE typedef == [Blank EXCEPT !.kind = "typedef", !.type = type, !.size = symbols[type].size,
                                    !.align = symbols[type].align]
<1>1. /\ Begin /\ type \in LiveOf(TypeKinds) /\ live' = live \cup {NewId}
      /\ symbols' = Append(symbols, typedef)
      /\ waiting' = waiting /\ tasks' = tasks
  BY DEF CreateTypedef, Create
<1>2. /\ symbols \in Seq(Symbols) /\ type \in DOMAIN symbols /\ type \in Ids
      /\ symbols[type].size \in Nat /\ symbols[type].align \in Nat \ {0}
  <2>1. /\ symbols \in Seq(Symbols) /\ type \in DOMAIN symbols /\ type \in Ids
    BY <1>1, Begins, HaveIds DEF LiveOf
  <2> QED BY <2>1, Fields
<1>3. PICK n \in Nat : n = symbols[type].size
  BY <1>2
<1>4. PICK a \in Nat \ {0} : a = symbols[type].align
  BY <1>2
<1>5. PICK s : s = typedef
  OBVIOUS
<1>6. /\ s \in Symbols /\ s.kind = "typedef" /\ s.parent = 0 /\ s.type = type
      /\ s.children = <<>> /\ s.dependents = {}
  <2>1. s = NewTypedef(type, n, a)
    BY <1>3, <1>4, <1>5 DEF NewTypedef
  <2> QED BY ONLY <1>2, <1>3, <1>4, <2>1, NewTypedefIs
<1>7. PICK new : new = NewId
  OBVIOUS
<1>8. /\ symbols' \in Seq(Symbols) /\ Len(symbols') = Len(symbols) + 1
      /\ DOMAIN symbols' = DOMAIN symbols \cup {new} /\ symbols'[new] = s
      /\ \A k \in DOMAIN symbols : symbols'[k] = symbols[k]
  <2>1. symbols' = Append(symbols, s)
    BY <1>1, <1>5
  <2> QED BY <1>2, <1>6, <1>7, <2>1, Appended DEF NewId
<1>9. \A k \in DOMAIN symbols :
           /\ Alike(symbols'[k], symbols[k]) /\ symbols'[k].type = symbols[k].type
           /\ symbols'[k].children = symbols[k].children /\ symbols'[k].offset = symbols[k].offset
           /\ symbols'[k].dependents =
                symbols[k].dependents \cup {x \in {new} : s.kind \in {"array", "data"} /\ k = s.type}
  BY <1>6, <1>8 DEF Alike
<1>10. live' = live \cup {new}
  BY <1>1, <1>7
<1> HIDE DEF typedef
<1> QED BY <1>1, <1>6, <1>7, <1>8, <1>9, <1>10, CreatedStep

(* Global data is created.                                                 *)
LEMMA CreateGlobalStep ==
  ASSUME LayoutAssumption, LayoutInv, NEW type, NEW offset \in Offsets, CreateGlobal(type, offset)
  PROVE  LayoutInv'
<1> DEFINE data == [Blank EXCEPT !.kind = "data", !.type = type, !.dependents = {0},
                                 !.offset = offset, !.actual = offset,
                                 !.size = symbols[type].size]
<1>1. /\ Begin /\ type \in LiveOf(TypeKinds) /\ live' = live \cup {NewId}
      /\ symbols' = Registered(Append(symbols, data), NewId, type)
      /\ waiting' = waiting /\ tasks' = tasks
  BY DEF CreateGlobal, Create
<1>2. /\ symbols \in Seq(Symbols) /\ type \in DOMAIN symbols /\ type \in Ids
      /\ symbols[type].size \in Nat /\ offset \in Nat \cup {Automatic}
  <2>1. /\ symbols \in Seq(Symbols) /\ type \in DOMAIN symbols /\ type \in Ids
    BY <1>1, Begins, HaveIds DEF LiveOf
  <2> QED BY LayoutNumbers, <2>1, Fields
<1>3. PICK n \in Nat : n = symbols[type].size
  BY <1>2
<1>5. PICK s : s = data
  OBVIOUS
<1>6. /\ s \in Symbols /\ s.kind = "data" /\ s.parent = 0 /\ s.type = type
      /\ s.offset = offset /\ s.actual = offset
      /\ s.size = n /\ s.children = <<>> /\ s.dependents = {0}
  <2>1. s = NewData(type, offset, n) /\ type \in Ids /\ offset \in Nat \cup {Automatic} /\ n \in Nat
    BY <1>2, <1>3, <1>5 DEF NewData
  <2> QED BY ONLY <2>1, Blanks
<1>7. PICK new : new = NewId
  OBVIOUS
<1>8. /\ symbols' \in Seq(Symbols) /\ Len(symbols') = Len(symbols) + 1
      /\ DOMAIN symbols' = DOMAIN symbols \cup {new} /\ symbols'[new] = s
      /\ \A k \in DOMAIN symbols :
           /\ Alike(symbols'[k], symbols[k]) /\ symbols'[k].type = symbols[k].type
           /\ symbols'[k].children = symbols[k].children /\ symbols'[k].offset = symbols[k].offset
           /\ symbols'[k].dependents =
                IF k = type THEN symbols[k].dependents \cup {new} ELSE symbols[k].dependents
  <2>1. symbols' = Registered(Append(symbols, s), new, type)
    BY <1>1, <1>5, <1>7
  <2>2. /\ LayoutInv /\ Begin /\ type \in LiveOf(TypeKinds) /\ s \in Symbols /\ new = NewId
    BY <1>1, <1>6, <1>7
  <2>3. Joined(new, s, type)
    BY ONLY LayoutAssumption, <2>1, <2>2, RegisteredNew
  <2> QED BY <2>3 DEF Joined
<1>9. \A k \in DOMAIN symbols :
           /\ Alike(symbols'[k], symbols[k]) /\ symbols'[k].type = symbols[k].type
           /\ symbols'[k].children = symbols[k].children /\ symbols'[k].offset = symbols[k].offset
           /\ symbols'[k].dependents =
                symbols[k].dependents \cup {x \in {new} : s.kind \in {"array", "data"} /\ k = s.type}
  BY <1>6, <1>8
<1>10. s.actual = s.offset /\ s.size = symbols[s.type].size
  BY <1>2, <1>3, <1>6
<1>11. live' = live \cup {new}
  BY <1>1, <1>7
<1> HIDE DEF data
<1> QED BY <1>1, <1>6, <1>7, <1>8, <1>9, <1>10, <1>11, CreatedStep

(* The fields of a new child.                                              *)
LEMMA ChildIs ==
  ASSUME LayoutAssumption, NEW kind \in Positional, NEW owner \in Ids, NEW type \in Ids,
         NEW offset, offset \in Offsets \cup {Automatic},
         NEW s, s = NewChild(kind, owner, type, offset)
  PROVE  /\ s \in Symbols /\ s.kind = kind /\ s.parent = owner /\ s.type = type
         /\ s.children = <<>> /\ s.dependents = {}
<1>1. PICK o \in Nat \cup {Automatic} : o = offset
  BY LayoutNumbers
<1>2. s = NewChild(kind, owner, type, o)
  BY <1>1
<1>3. LET c == NewChild(kind, owner, type, o)
      IN  /\ c \in Symbols /\ c.kind = kind /\ c.parent = owner /\ c.type = type
          /\ c.children = <<>> /\ c.dependents = {}
  BY Blanks
<1> QED BY ONLY <1>2, <1>3

(* LayoutNumbers base class or a field is added.                                       *)
LEMMA AddPositionalStep ==
  ASSUME LayoutAssumption, LayoutInv, NEW kind \in Positional, NEW owner, NEW type,
         NEW offset \in Offsets \cup {Automatic}, AddPositional(kind, owner, type, offset)
  PROVE  LayoutInv'
<1> DEFINE child == [Blank EXCEPT !.kind = kind, !.parent = owner, !.type = type,
                                  !.offset = offset, !.actual = offset]
           kids == symbols[owner].children
<1>1. /\ Begin /\ owner \in LiveOf({"udt"})
      /\ type \in LiveOf(IF kind = "base" THEN {"udt"} ELSE TypeKinds) /\ IsApart(owner, type)
      /\ live' = live \cup {NewId} /\ waiting' = <<{owner}>> /\ tasks' = <<Task("depend", NewId)>>
      /\ symbols' = [Append(symbols, child) EXCEPT ![owner].children = Append(@, NewId)]
  BY DEF AddPositional, Create
<1>2. /\ TypeOK /\ CountInv /\ RefsInv /\ OwnedInv
      /\ Due = {} /\ Erasing = {} /\ NotYet = {}
      /\ failed' = failed /\ operations' = operations + 1 /\ operations <= operations'
      /\ operations' \in 0 .. MaxOperations
      /\ symbols \in Seq(Symbols) /\ live \subseteq DOMAIN symbols
      /\ 0 \notin DOMAIN symbols /\ NewId \in Ids /\ NewId \notin DOMAIN symbols
  BY <1>1, Begins
<1>3. PICK new : new = NewId
  OBVIOUS
<1>4. PICK s : s = child
  OBVIOUS
<1> HIDE DEF child
<1>5. /\ owner \in live /\ owner \in DOMAIN symbols /\ symbols[owner].kind = "udt" /\ owner \in Ids
      /\ type \in live /\ type \in DOMAIN symbols /\ symbols[type].kind \in TypeKinds
      /\ type \in Ids
      /\ new \in Ids /\ new \notin DOMAIN symbols /\ owner # new /\ type # new
  <2>1. /\ owner \in live /\ owner \in DOMAIN symbols /\ symbols[owner].kind = "udt"
        /\ type \in live /\ type \in DOMAIN symbols /\ symbols[type].kind \in TypeKinds
    BY <1>1, <1>2 DEF LiveOf, TypeKinds
  <2> QED BY <1>2, <1>3, <2>1, HaveIds
<1>6. /\ s \in Symbols /\ s.kind = kind /\ s.parent = owner /\ s.type = type
      /\ s.children = <<>> /\ s.dependents = {}
  <2>1. s = NewChild(kind, owner, type, offset)
    BY <1>4 DEF NewChild, child
  <2>2. owner \in Ids /\ type \in Ids
    BY <1>5
  <2> QED BY <2>1, <2>2, ChildIs
<1> DEFINE table == Append(symbols, s)
           v == Append(kids, new)
<1>7. /\ table \in Seq(Symbols) /\ Len(table) = Len(symbols) + 1
      /\ DOMAIN table = DOMAIN symbols \cup {new}
      /\ table[new] = s /\ \A k \in DOMAIN symbols : table[k] = symbols[k]
  BY <1>2, <1>3, <1>6, Appended DEF NewId
<1>8. /\ kids \in Seq(Ids) /\ IsInjective(kids) /\ new \notin ToSet(kids)
      /\ ToSet(kids) = Kids(owner)
  <2>1. kids \in Seq(Ids) /\ IsInjective(kids)
    BY <1>2, <1>5, Fields DEF RefsInv, RefsOf
  <2>2. ToSet(kids) = Kids(owner)
    BY <1>1, <1>2 DEF OwnedInv, Owned
  <2>3. new \notin Kids(owner)
    BY <1>2, <1>5 DEF Kids, LiveOf
  <2> QED BY <2>1, <2>2, <2>3
<1>9. v \in Seq(Ids) /\ IsInjective(v) /\ ToSet(v) = ToSet(kids) \cup {new}
  <2> DEFINE N == Len(kids)
  <2>1. N \in Nat /\ DOMAIN kids = 1 .. N
    BY <1>8, LenProperties
  <2>2. /\ v \in Seq(Ids) /\ Len(v) = N + 1
        /\ \A k \in 1 .. N + 1 : v[k] = IF k = N + 1 THEN new ELSE kids[k]
    BY <1>5, <1>8, <2>1, AppendProperties
  <2> HIDE DEF v
  <2>3. DOMAIN v = 1 .. N + 1
    BY <2>2, LenProperties
  <2> HIDE DEF kids, N
  <2>4. \A k \in 1 .. N : k \in 1 .. N + 1 /\ k # N + 1
    BY <2>1
  <2>5. 1 .. N + 1 = (1 .. N) \cup {N + 1}
    BY <2>1
  <2>6. ToSet(v) = ToSet(kids) \cup {new}
    <3>1. \A k \in 1 .. N : v[k] = kids[k]
      BY <2>2, <2>4
    <3>2. v[N + 1] = new
      BY <2>1, <2>2
    <3> QED BY <2>1, <2>3, <2>5, <3>1, <3>2 DEF ToSet
  <2>7. \A k \in 1 .. N : kids[k] # new
    BY <1>8, <2>1 DEF ToSet
  <2>8. \A k, l \in 1 .. N : kids[k] = kids[l] => k = l
    BY <1>8, <2>1 DEF IsInjective
  <2>9. \A k, l \in 1 .. N + 1 : v[k] = v[l] => k = l
    BY <2>1, <2>2, <2>7, <2>8
  <2> QED BY <2>2, <2>3, <2>6, <2>9 DEF IsInjective
<1>10. symbols' = WithChildren(table, owner, v)
  <2>1. table[owner].children = kids
    BY <1>5, <1>7
  <2>2. symbols' = [table EXCEPT ![owner].children = Append(@, new)]
    BY <1>1, <1>3, <1>4
  <2>3. symbols' = [table EXCEPT ![owner].children = Append(table[owner].children, new)]
    BY <2>2
  <2> QED BY <2>1, <2>3 DEF WithChildren
<1> HIDE DEF table, v
<1>11. /\ SameSymbols(symbols', table)
       /\ \A k \in DOMAIN table :
            /\ symbols'[k].children = IF k = owner THEN v ELSE table[k].children
            /\ symbols'[k].dependents = table[k].dependents /\ symbols'[k].type = table[k].type
            /\ symbols'[k].offset = table[k].offset
  <2>1. table \in Seq(Symbols) /\ owner \in DOMAIN table /\ v \in Seq(Ids)
    BY <1>5, <1>7, <1>9
  <2> QED BY ONLY <1>10, <2>1, ChildrenSet
<1>12. /\ symbols' \in Seq(Symbols) /\ Len(symbols') = Len(symbols) + 1
       /\ DOMAIN symbols' = DOMAIN symbols \cup {new}
  BY <1>7, <1>11 DEF SameSymbols
<1>13. \A k \in DOMAIN symbols :
         /\ symbols'[k].kind = symbols[k].kind /\ symbols'[k].parent = symbols[k].parent
         /\ symbols'[k].size = symbols[k].size /\ symbols'[k].align = symbols[k].align
         /\ symbols'[k].actual = symbols[k].actual /\ symbols'[k].dim = symbols[k].dim
         /\ symbols'[k].type = symbols[k].type /\ symbols'[k].offset = symbols[k].offset
         /\ symbols'[k].dependents = symbols[k].dependents
         /\ symbols'[k].children = IF k = owner THEN v ELSE symbols[k].children
  <2>1. ASSUME NEW k \in DOMAIN symbols
        PROVE  /\ k \in DOMAIN table /\ table[k] = symbols[k] /\ Alike(symbols'[k], table[k])
    BY <1>7, <1>11 DEF SameSymbols
  <2> QED BY <1>11, <2>1 DEF Alike
<1>14. /\ symbols'[new].kind = kind /\ symbols'[new].parent = owner /\ symbols'[new].type = type
       /\ symbols'[new].children = <<>> /\ symbols'[new].dependents = {}
  BY <1>5, <1>6, <1>7, <1>11 DEF SameSymbols, Alike
<1> HIDE DEF kids
<1>15. /\ Ids0 = DOMAIN symbols \cup {0} /\ Ids0' = DOMAIN symbols \cup {new, 0}
       /\ new \notin Ids0
       /\ \A k \in DOMAIN symbols : symbols[k].type # new /\ symbols[k].parent # new
       /\ \A k \in DOMAIN symbols : symbols[k].dependents \subseteq Ids0
  <2>1. Ids0 = DOMAIN symbols \cup {0}
    BY <1>2, HaveIds DEF Ids0
  <2>2. Ids0' = DOMAIN symbols' \cup {0}
    <3>1. Len(symbols') \in Nat /\ DOMAIN symbols' = 1 .. Len(symbols')
      BY <1>12, LenProperties
    <3> QED BY <3>1 DEF Ids0
  <2>3. new \notin Ids0
    BY <1>2, <1>3, HaveIds DEF Ids0, NewId
  <2> QED BY <1>2, <1>12, <2>1, <2>2, <2>3 DEF RefsInv, RefsOf
<1>16. \A kinds : LiveOf(kinds)' = LiveOf(kinds) \cup {x \in {new} : kind \in kinds}
  BY <1>1, <1>2, <1>3, <1>5, <1>13, <1>14 DEF LiveOf
<1>17. RefsInv'
  <2>1. RefsOf(new)'
    <3>1. type \in Ids0' /\ owner \in Ids0' /\ owner # 0 /\ type # 0
      BY <1>2, <1>5, <1>15
    <3>2. /\ symbols'[type].kind \in TypeKinds /\ symbols'[owner].kind = "udt"
          /\ kind \notin {"udt", "basic", "array", "data"}
      BY <1>5, <1>13 DEF Positional
    <3>3. /\ IsInjective(<<>>) /\ DOMAIN symbols'[new].children = {}
          /\ IsInjective(symbols'[new].children)
      BY <1>14 DEF IsInjective
    <3> QED BY <1>14, <3>1, <3>2, <3>3 DEF RefsOf
  <2>2. \A i \in DOMAIN symbols' \ DOMAIN symbols : RefsOf(i)'
    BY <1>12, <2>1
  <2>3. \A k \in DOMAIN symbols : symbols'[k].dependents \subseteq 0 .. Len(symbols')
    <3>1. \A k \in DOMAIN symbols : symbols'[k].dependents \subseteq Ids0'
      BY <1>13, <1>15
    <3> QED BY <3>1 DEF Ids0
  <2>4. Len(symbols) <= Len(symbols')
    BY <1>2, <1>12, HaveIds
  <2>5. ASSUME NEW k \in DOMAIN symbols
        PROVE  \/ symbols'[k].children = symbols[k].children
               \/ /\ symbols[k].kind = "udt" /\ IsInjective(symbols'[k].children)
                  /\ \A l \in DOMAIN symbols'[k].children :
                       LET c == symbols'[k].children[l] IN
                       /\ c \in DOMAIN symbols'
                       /\ symbols'[c].kind \in Positional
                       /\ symbols'[c].parent = k
    <3>1. CASE k = owner
      <4>1. symbols'[k].children = v
        BY <1>13, <3>1
      <4>2. \A c \in ToSet(v) :
              c \in DOMAIN symbols' /\ symbols'[c].kind \in Positional /\ symbols'[c].parent = k
        <5>1. \A c \in Kids(owner) :
                c \in DOMAIN symbols /\ symbols[c].kind \in Positional /\ symbols[c].parent = owner
          BY <1>2 DEF Kids, LiveOf
        <5> QED BY <1>8, <1>9, <1>12, <1>13, <1>14, <3>1, <5>1
      <4>3. \A l \in DOMAIN v : v[l] \in ToSet(v)
        BY DEF ToSet
      <4> QED BY <1>5, <1>9, <3>1, <4>1, <4>2, <4>3
    <3>2. CASE k # owner
      BY <1>13, <3>2
    <3> QED BY <3>1, <3>2
  <2> QED BY <1>2, <1>12, <1>13, <2>2, <2>3, <2>4, <2>5, RefsKept
<1>18. CountInv'
  <2>1. Len(symbols) <= Udts + Cardinality(BasicSizes) + operations
    BY <1>2 DEF CountInv
  <2>2. /\ Len(symbols) \in Nat /\ Cardinality(BasicSizes) \in Nat /\ operations \in Nat
        /\ Udts \in Nat
    BY <1>2, LayoutNumbers, HaveIds
  <2>3. Len(symbols') <= Udts + Cardinality(BasicSizes) + operations'
    BY <1>2, <1>12, <2>1, <2>2
  <2> QED BY <2>3 DEF CountInv
<1>19. new \in LiveOf(Positional)' /\ tasks' = <<Task("depend", new)>> /\ live' = live \cup {new}
  BY <1>1, <1>3, <1>16
<1>20. TasksInv' /\ Erasing' = {} /\ NotYet' = {new}
  BY <1>19, TaskIds, Zenon DEF TasksInv, Erasing, NotYet, Task
<1>21. waiting' \in Seq((SUBSET live') \ {{}}) /\ Due' = {owner}
  BY <1>1, <1>5, OneWaits DEF Due
<1>22. TypeOK'
  <2>1. live' \subseteq DOMAIN symbols' /\ failed' \in BOOLEAN
    BY <1>2, <1>12, <1>19 DEF TypeOK
  <2> QED BY <1>2, <1>12, <1>18, <1>20, <1>21, <2>1, TypedAfter
<1>23. OwnedInv'
  <2>1. LiveOf(Positional)' = LiveOf(Positional) \cup {new} /\ LiveOf({"udt"})' = LiveOf({"udt"})
    BY <1>16 DEF Positional
  <2>2. \A k \in LiveOf(Positional) : k \in DOMAIN symbols
    BY <1>2 DEF LiveOf
  <2>3. ASSUME NEW u \in LiveOf({"udt"}) PROVE Owned(u)' = Kids(u)'
    <3>1. u \in DOMAIN symbols
      BY <1>2 DEF LiveOf
    <3>2. Kids(u)' = Kids(u) \cup {x \in {new} : u = owner}
      BY <1>13, <1>14, <2>1, <2>2 DEF Kids
    <3>3. Owned(u) = Kids(u)
      BY <1>2 DEF OwnedInv
    <3>4. CASE u = owner
      <4>1. Owned(u)' = ToSet(v)
        BY <1>13, <3>1, <3>4 DEF Owned
      <4> QED BY <1>8, <1>9, <3>2, <3>4, <4>1
    <3>5. CASE u # owner
      BY <1>13, <3>1, <3>2, <3>3, <3>5 DEF Owned
    <3> QED BY <3>4, <3>5
  <2> QED BY <1>20, <2>1, <2>3 DEF OwnedInv
<1>24. ASSUME ~failed PROVE RegisteredInv' /\ LaidInv' /\ ApartInv'
  <2>1. RegisteredInv /\ LaidInv
    BY <1>24 DEF LayoutInv
  <2>2. RegisteredInv'
    <3>1. LiveOf(TypeKinds)' = LiveOf(TypeKinds) /\ LiveOf(Users)' = LiveOf(Users) \cup {new}
          /\ LiveOf(Positional)' = LiveOf(Positional) \cup {new}
      BY <1>16 DEF TypeKinds, Users, Positional
    <3>2. ASSUME NEW k \in LiveOf(TypeKinds)
          PROVE  symbols'[k].dependents = {j \in LiveOf(Users)' : symbols'[j].type = k} \ {new}
      <4>1. k \in DOMAIN symbols
        BY <1>2 DEF LiveOf
      <4>2. symbols[k].dependents = {j \in LiveOf(Users) : symbols[j].type = k}
        BY <1>2, <2>1 DEF RegisteredInv
      <4>3. \A j \in LiveOf(Users) : symbols'[j].type = symbols[j].type /\ j # new
        BY <1>2, <1>5, <1>13 DEF LiveOf
      <4>4. symbols'[k].dependents = symbols[k].dependents
        BY <1>13, <4>1
      <4>5. PICK U : U = LiveOf(Users)
        OBVIOUS
      <4>6. PICK V : V = LiveOf(Users)'
        OBVIOUS
      <4>7. {j \in V : symbols'[j].type = k} \ {new} = {j \in U : symbols[j].type = k}
        <5>1. V = U \cup {new} /\ \A j \in U : symbols'[j].type = symbols[j].type /\ j # new
          BY ONLY <3>1, <4>3, <4>5, <4>6
        <5> QED BY ONLY <5>1
      <4> QED BY ONLY <4>2, <4>4, <4>5, <4>6, <4>7
    <3>3. ASSUME NEW k \in LiveOf(Positional)
          PROVE  k # new /\ symbols'[k].dependents = {symbols'[k].parent}
      <4>1. k \in DOMAIN symbols /\ k # new
        BY <1>2, <1>5 DEF LiveOf
      <4>2. symbols[k].dependents = {symbols[k].parent}
        BY <1>2, <2>1 DEF RegisteredInv
      <4> QED BY <1>13, <4>1, <4>2
    <3>4. \A k \in LiveOf(TypeKinds)' :
            symbols'[k].dependents
              = {j \in LiveOf(Users)' : symbols'[j].type = k} \ (Erasing' \cup NotYet')
      <4>1. LiveOf(TypeKinds)' = LiveOf(TypeKinds) /\ Erasing' \cup NotYet' = {new}
        BY ONLY <1>20, <3>1
      <4> QED BY ONLY <3>2, <4>1
    <3>5. \A k \in LiveOf(Positional)' :
            symbols'[k].dependents = IF k \in NotYet' THEN {} ELSE {symbols'[k].parent}
      <4>1. ASSUME NEW k \in LiveOf(Positional)'
            PROVE  /\ k = new => symbols'[k].dependents = {}
                   /\ k # new => symbols'[k].dependents = {symbols'[k].parent}
        <5>1. CASE k = new
          BY ONLY <1>14, <5>1
        <5>2. CASE k # new
          BY ONLY <3>1, <3>3, <4>1, <5>2
        <5> QED BY ONLY <5>1, <5>2
      <4>2. NotYet' = {new}
        BY ONLY <1>20
      <4> QED BY ONLY <4>1, <4>2
    <3> QED BY ONLY <3>4, <3>5 DEF RegisteredInv
  <2>3. LaidInv'
    <3> DEFINE none == {}
               owners == {owner}
    <3>1. /\ live' \subseteq DOMAIN symbols' /\ live' \cap DOMAIN symbols \subseteq live
          /\ \A k \in DOMAIN symbols : k \in live' \ Erasing' => k \in live \ Erasing
      BY <1>2, <1>5, <1>12, <1>19
    <3>2. \A k \in DOMAIN symbols :
            /\ symbols'[k].kind = symbols[k].kind /\ symbols'[k].size = symbols[k].size
            /\ symbols'[k].align = symbols[k].align /\ symbols'[k].actual = symbols[k].actual
            /\ symbols'[k].dim = symbols[k].dim
            /\ k \notin none =>
                 symbols'[k].type = symbols[k].type /\ symbols'[k].offset = symbols[k].offset
            /\ k \notin owners => symbols'[k].children = symbols[k].children
      BY <1>13
    <3>3. /\ none \subseteq Due'
          /\ Due = {}
          /\ \A u \in owners : u \in Due' \cup Erasing' \/ u \notin live'
      BY <1>2, <1>21
    <3>4. DOMAIN symbols \subseteq DOMAIN symbols'
      BY <1>12
    <3>5. \A k \in live' \ DOMAIN symbols :
            /\ symbols'[k].kind = "udt" => ClassLaidOut(k)'
            /\ symbols'[k].kind = "array" => ArrayFits(k)'
            /\ symbols'[k].kind = "data" => DataFits(k)'
      <4>1. live' \ DOMAIN symbols = {new} /\ symbols'[new].kind \notin {"udt", "array", "data"}
        BY <1>2, <1>5, <1>14, <1>19 DEF Positional
      <4> QED BY <4>1
    <3>6. TypeOK /\ RefsInv /\ LaidInv
      BY <1>2, <2>1
    <3> HIDE DEF owners, none
    <3> QED BY ONLY <3>1, <3>2, <3>3, <3>4, <3>5, <3>6, LaidKept
  <2>4. ApartInv'
    <3>1. PICK set \in SUBSET (live \ {type}) : owner \in set /\ Closed(set)
      BY <1>1 DEF IsApart
    <3>2. set \in SUBSET (live' \ {symbols'[new].type, new})
      BY <1>2, <1>5, <1>14, <1>19
    <3>3. Due' \subseteq set
      BY <1>21, <3>1
    <3>4. Closed(set)'
      <4>1. ASSUME NEW k \in set PROVE symbols'[k].dependents \cap live' \subseteq set
        <5>1. k \in DOMAIN symbols
          BY <1>2
        <5>2. symbols'[k].dependents = symbols[k].dependents /\ new \notin symbols[k].dependents
          BY <1>13, <1>15, <5>1
        <5>3. symbols[k].dependents \cap live \subseteq set
          BY <3>1 DEF Closed
        <5> QED BY <1>19, <5>2, <5>3
      <4> QED BY <4>1 DEF Closed
    <3> QED BY <1>20, <3>2, <3>3, <3>4 DEF ApartInv
  <2> QED BY <2>2, <2>3, <2>4
<1> QED BY <1>2, <1>17, <1>18, <1>20, <1>22, <1>23, <1>24 DEF LayoutInv, TreeInv

(* LayoutNumbers finite set as a sequence.                                             *)
LEMMA Listed ==
  ASSUME NEW X, IsFiniteSet(X)
  PROVE  SetToSeq(X) \in Seq(X) /\ Len(SetToSeq(X)) = Cardinality(X)
<1>1. Cardinality(X) \in Nat /\ ExistsBijection(1 .. Cardinality(X), X)
  BY FS_CardinalityType
<1>2. \E f \in [1 .. Cardinality(X) -> X] : IsInjective(f)
  BY <1>1 DEF ExistsBijection, Bijection, Injection, IsInjective
<1>3. SetToSeq(X) \in [1 .. Cardinality(X) -> X]
  BY <1>2, Zenon DEF SetToSeq
<1>4. PICK n \in Nat : n = Cardinality(X)
  BY <1>1
<1>5. PICK s \in [1 .. n -> X] : s = SetToSeq(X)
  BY <1>3, <1>4
<1>6. s \in Seq(X) /\ Len(s) = n
  OBVIOUS
<1> QED BY <1>4, <1>5, <1>6

(* The basic types, one for each size.                                     *)
LEMMA BasicTypes ==
  ASSUME LayoutAssumption
  PROVE  LET basics == {Basic(size) : size \in BasicSizes} IN
         /\ SetToSeq(basics) \in Seq(basics)
         /\ Len(SetToSeq(basics)) = Cardinality(BasicSizes)
<1> DEFINE basics == {Basic(size) : size \in BasicSizes}
           f == [size \in BasicSizes |-> Basic(size)]
<1>1. \A size \in Nat : Basic(size).size = size
  BY DEF Basic, Blank
<1>2. f \in [BasicSizes -> basics]
  OBVIOUS
<1>3. \A a, b \in BasicSizes : f[a] = f[b] => a = b
  <2>1. \A a \in BasicSizes : f[a].size = a
    BY <1>1, LayoutNumbers
  <2> QED BY <2>1
<1>4. \A t \in basics : \E s \in BasicSizes : f[s] = t
  OBVIOUS
<1>5. ExistsBijection(BasicSizes, basics)
  <2>1. f \in Injection(BasicSizes, basics)
    BY <1>2, <1>3 DEF Injection, IsInjective
  <2>2. f \in Surjection(BasicSizes, basics)
    BY <1>2, <1>4 DEF Surjection
  <2> QED BY <2>1, <2>2 DEF ExistsBijection, Bijection
<1>6. IsFiniteSet(basics) /\ Cardinality(basics) = Cardinality(BasicSizes)
  BY <1>5, LayoutNumbers, FS_Bijection
<1> HIDE DEF basics
<1>7. SetToSeq(basics) \in Seq(basics) /\ Len(SetToSeq(basics)) = Cardinality(BasicSizes)
  BY <1>6, Listed
<1> QED BY <1>7 DEF basics

(* The symbols at the start.                                               *)
LEMMA FirstSymbols ==
  ASSUME LayoutAssumption, Init
  PROVE  /\ symbols \in Seq(Symbols) /\ Len(symbols) = Udts + Cardinality(BasicSizes)
         /\ \A k \in DOMAIN symbols :
              LET s == symbols[k] IN
              /\ s.kind \in {"udt", "basic"} /\ s.type = 0 /\ s.parent = 0
              /\ s.children = <<>> /\ s.dependents = {}
              /\ s.kind = "udt" => s.size = 0 /\ s.align = 1
<1> DEFINE basics == {Basic(size) : size \in BasicSizes}
           ok(s) == /\ s \in Symbols /\ s.kind \in {"udt", "basic"} /\ s.type = 0 /\ s.parent = 0
                    /\ s.children = <<>> /\ s.dependents = {}
                    /\ s.kind = "udt" => s.size = 0 /\ s.align = 1
           First == {s \in Symbols : ok(s)}
           udts == [k \in 1 .. Udts |-> Udt]
<1>1. Udt \in First
  BY Blanks
<1>2. basics \subseteq First
  <2>1. ASSUME NEW size \in BasicSizes PROVE Basic(size) \in First
    <3>1. size \in Nat \ {0}
      BY LayoutNumbers
    <3> QED BY <3>1, Blanks
  <2> QED BY <2>1
<1> HIDE DEF First, basics
<1>3. udts \in Seq(First) /\ Len(udts) = Udts
  <2>1. PICK u \in First : u = Udt
    BY <1>1
  <2>2. Udts \in Nat
    BY LayoutNumbers
  <2> QED BY <2>1, <2>2
<1>4. PICK t : t = SetToSeq(basics)
  OBVIOUS
<1>5. t \in Seq(First) /\ Len(t) = Cardinality(BasicSizes)
  <2>1. t \in Seq(basics) /\ Len(t) = Cardinality(BasicSizes)
    BY <1>4, BasicTypes DEF basics
  <2> QED BY <1>2, <2>1
<1>6. symbols = udts \o t
  BY <1>4 DEF Init, basics
<1> HIDE DEF udts
<1>7. symbols \in Seq(First) /\ Len(symbols) = Udts + Cardinality(BasicSizes)
  BY <1>3, <1>5, <1>6, ConcatProperties
<1>8. First \subseteq Symbols
  BY DEF First
<1>9. \A k \in DOMAIN symbols : symbols[k] \in First
  BY <1>7
<1>10. symbols \in Seq(Symbols)
  BY <1>7, <1>8
<1>11. \A k \in DOMAIN symbols : ok(symbols[k])
  BY <1>9 DEF First
<1> QED BY <1>7, <1>10, <1>11

(* The invariant holds at the start.                                       *)
LEMMA LayoutInit ==
  ASSUME LayoutAssumption, Init
  PROVE  LayoutInv
<1>1. /\ live = DOMAIN symbols /\ waiting = <<>> /\ tasks = <<>> /\ failed = FALSE /\ operations = 0
  BY DEF Init
<1>2. /\ symbols \in Seq(Symbols) /\ Len(symbols) = Udts + Cardinality(BasicSizes)
  BY FirstSymbols
<1>3. \A k \in DOMAIN symbols :
              LET s == symbols[k] IN
              /\ s.kind \in {"udt", "basic"} /\ s.type = 0 /\ s.parent = 0
              /\ s.children = <<>> /\ s.dependents = {}
              /\ s.kind = "udt" => s.size = 0 /\ s.align = 1
  BY FirstSymbols
<1>4. TasksInv /\ Erasing = {} /\ NotYet = {}
  BY <1>1, TaskIds DEF TasksInv, Erasing, NotYet
<1>5. Due = {}
  BY <1>1 DEF Due, UnionOf
<1>6. TypeOK
  <2>1. waiting \in Seq((SUBSET live) \ {{}})
    BY <1>1
  <2>2. DOMAIN tasks = {}
    BY <1>1
  <2>3. operations \in 0 .. MaxOperations
    BY <1>1, LayoutNumbers
  <2> QED BY <1>1, <1>2, <2>1, <2>2, <2>3 DEF TypeOK
<1>7. CountInv
  <2>1. Udts + Cardinality(BasicSizes) \in Nat
    BY LayoutNumbers, FS_CardinalityType
  <2> QED BY <1>1, <1>2, <2>1 DEF CountInv
<1>8. RefsInv
  <2>1. 0 \in Ids0
    <3>1. Len(symbols) \in Nat
      BY <1>2, LenProperties
    <3> QED BY <3>1 DEF Ids0
  <2>2. IsInjective(<<>>) /\ DOMAIN <<>> = {}
    BY DEF IsInjective
  <2>3. ASSUME NEW k \in DOMAIN symbols PROVE RefsOf(k)
    <3>1. /\ symbols[k].kind \in {"udt", "basic"} /\ symbols[k].type = 0 /\ symbols[k].parent = 0
          /\ symbols[k].children = <<>> /\ symbols[k].dependents = {}
      BY <1>3
    <3>2. IsInjective(symbols[k].children) /\ DOMAIN symbols[k].children = {}
      BY <2>2, <3>1
    <3> QED BY <2>1, <3>1, <3>2 DEF RefsOf, Positional, TypeKinds
  <2> QED BY <2>3 DEF RefsInv
<1>9. /\ LiveOf(Positional) = {} /\ LiveOf(Users) = {} /\ LiveOf({"array"}) = {}
      /\ LiveOf({"data"}) = {}
  BY <1>1, <1>3 DEF LiveOf, Positional, Users
<1>10. OwnedInv
  <2>1. ASSUME NEW u \in LiveOf({"udt"}) PROVE Owned(u) = {}
    BY <1>1, <1>3 DEF LiveOf, Owned, ToSet
  <2> QED BY <1>9, <2>1 DEF OwnedInv, Kids
<1>11. RegisteredInv
  <2>1. \A t \in LiveOf(TypeKinds) : symbols[t].dependents = {}
    BY <1>1, <1>3 DEF LiveOf
  <2> QED BY <1>9, <2>1 DEF RegisteredInv
<1>12. LaidInv
  <2>1. ASSUME NEW u \in LiveOf({"udt"}) PROVE ClassLaidOut(u)
    <3>1. Owned(u) = {} /\ symbols[u].size = 0 /\ symbols[u].align = 1
      BY <1>1, <1>3 DEF LiveOf, Owned, ToSet
    <3> QED BY <3>1 DEF ClassLaidOut
  <2> QED BY <1>9, <2>1 DEF LaidInv
<1>13. ApartInv
  BY <1>4 DEF ApartInv
<1> QED BY <1>4, <1>6, <1>7, <1>8, <1>10, <1>11, <1>12, <1>13 DEF LayoutInv, TreeInv

(* LayoutNumbers stuttering step.                                                      *)
LEMMA LayoutStutters ==
  ASSUME LayoutInv, UNCHANGED vars
  PROVE  LayoutInv'
<1>1. /\ symbols' = symbols /\ live' = live /\ waiting' = waiting /\ tasks' = tasks
      /\ failed' = failed /\ operations' = operations
  BY DEF vars
<1>2. /\ TypeOK' = TypeOK /\ CountInv' = CountInv /\ RefsInv' = RefsInv
  BY <1>1 DEF TypeOK, CountInv, RefsInv, RefsOf, Ids0
<1>3. TasksInv' = TasksInv /\ Erasing' = Erasing /\ NotYet' = NotYet /\ Due' = Due
  BY <1>1 DEF TasksInv, LiveOf, LoopTask, Erasing, NotYet, Due
<1>4. OwnedInv' = OwnedInv
  BY <1>1, <1>3 DEF OwnedInv, LiveOf, Owned, Kids
<1>5. RegisteredInv' = RegisteredInv
  BY <1>1, <1>3 DEF RegisteredInv, LiveOf
<1>6. LaidInv' = LaidInv
  <2>1. \A u : ClassLaidOut(u)' = ClassLaidOut(u)
    BY <1>1 DEF ClassLaidOut, Owned, Start, Stop, TypeOf, IsRightBefore, IsBefore
  <2>2. \A u : /\ ArrayFits(u)' = ArrayFits(u) /\ DataFits(u)' = DataFits(u)
               /\ Owned(u)' = Owned(u) /\ Zombie(u)' = Zombie(u)
    BY <1>1 DEF ArrayFits, DataFits, Owned, Zombie
  <2>3. \A kinds : LiveOf(kinds)' = LiveOf(kinds)
    BY <1>1 DEF LiveOf
  <2> QED BY <1>3, <2>1, <2>2, <2>3 DEF LaidInv
<1>7. ApartInv' = ApartInv
  BY <1>1, <1>3 DEF ApartInv, Closed
<1> QED BY <1>1, <1>2, <1>3, <1>4, <1>5, <1>6, <1>7 DEF LayoutInv, TreeInv

(* Every step keeps the invariant.                                         *)
LEMMA LayoutNext ==
  ASSUME LayoutAssumption, LayoutInv, [Next]_vars
  PROVE  LayoutInv'
<1>1. CASE Step
  BY <1>1, NotifyStep, DependStep, EraseStep, DeleteNextChildStep DEF Step
<1>2. ASSUME NEW type, NEW dim \in Dims, CreateArray(type, dim) PROVE LayoutInv'
  BY <1>2, CreateArrayStep
<1>3. ASSUME NEW type, NEW offset \in Offsets, CreateGlobal(type, offset) PROVE LayoutInv'
  BY <1>3, CreateGlobalStep
<1>4. ASSUME NEW kind \in Positional, NEW owner, NEW type, NEW offset \in Offsets \cup {Automatic},
             AddPositional(kind, owner, type, offset)
      PROVE  LayoutInv'
  BY <1>4, AddPositionalStep
<1>5. ASSUME NEW i, NEW offset, SetSymbolOffset(i, offset) PROVE LayoutInv'
  BY <1>5, SetSymbolOffsetStep
<1>6. ASSUME NEW i, NEW type, SetSymbolTypeId(i, type) PROVE LayoutInv'
  BY <1>6, SetSymbolTypeIdStep
<1>7. ASSUME NEW i, NEW pos, MoveToBefore(i, pos) PROVE LayoutInv'
  BY <1>7, MoveToBeforeStep
<1>8. CASE Operation
  BY <1>2, <1>3, <1>4, <1>5, <1>6, <1>7, <1>8, CreateUdtStep, CreateTypedefStep, DeleteStep
     DEF Operation
<1>9. CASE UNCHANGED vars
  BY <1>9, LayoutStutters
<1> QED BY <1>1, <1>8, <1>9 DEF Next

(* What holds between operations.                                          *)
LEMMA LayoutMeans ==
  ASSUME LayoutInv
  PROVE  LayoutsFollow /\ TreeOwned
<1>1. /\ TypeOK /\ RefsInv /\ OwnedInv
      /\ ~failed => RegisteredInv /\ LaidInv
  BY DEF LayoutInv, TreeInv
<1>2. Idle => Due = {} /\ Erasing = {} /\ NotYet = {}
  BY TaskIds DEF Idle, Due, UnionOf, Erasing, NotYet
<1>3. TypesLaidOut
  <2> SUFFICES ASSUME Idle, ~failed
               PROVE  /\ \A u \in LiveOf({"udt"}) :
                           (\A k \in DOMAIN symbols[u].children : ~Zombie(symbols[u].children[k]))
                             => ClassLaidOut(u)
                      /\ \A a \in LiveOf({"array"}) :
                           ~Zombie(a) =>
                             /\ symbols[a].size = symbols[a].dim * symbols[symbols[a].type].size
                             /\ symbols[a].align = symbols[symbols[a].type].align
    BY DEF TypesLaidOut
  <2>1. ASSUME NEW u \in LiveOf({"udt"}),
               \A k \in DOMAIN symbols[u].children : ~Zombie(symbols[u].children[k])
        PROVE  ClassLaidOut(u)
    <3>1. \A i \in Owned(u) : ~Zombie(i)
      BY <2>1 DEF Owned, ToSet
    <3> QED BY <1>1, <1>2, <3>1 DEF LaidInv
  <2>2. ASSUME NEW a \in LiveOf({"array"}), ~Zombie(a) PROVE ArrayFits(a)
    BY <1>1, <1>2, <2>2 DEF LaidInv
  <2> QED BY <2>1, <2>2 DEF ArrayFits
<1>4. DataFollows
  <2> SUFFICES ASSUME Idle, ~failed, NEW d \in LiveOf({"data"}), ~Zombie(d)
               PROVE  DataFits(d)
    BY DEF DataFollows, DataFits
  <2> QED BY <1>1, <1>2 DEF LaidInv
<1>5. ChildrenOwned
  <2> SUFFICES ASSUME Idle, NEW u \in LiveOf({"udt"})
               PROVE  /\ ToSet(symbols[u].children) = {i \in LiveOf(Positional) : symbols[i].parent = u}
                      /\ IsInjective(symbols[u].children)
    BY DEF ChildrenOwned
  <2>1. Owned(u) = Kids(u)
    BY <1>1, <1>2 DEF OwnedInv
  <2>2. u \in DOMAIN symbols
    BY <1>1 DEF TypeOK, LiveOf
  <2>3. IsInjective(symbols[u].children)
    BY <1>1, <2>2 DEF RefsInv, RefsOf
  <2> QED BY <2>1, <2>3 DEF Owned, Kids
<1>6. NotifiesUsers
  BY <1>1, <1>2 DEF NotifiesUsers, RegisteredInv, Users
<1> QED BY <1>1, <1>3, <1>4, <1>5, <1>6 DEF LayoutsFollow, TreeOwned

(* Once an operation is over, classes, arrays and data are laid out from   *)
(* the types they hold, unless a notification has failed; the children of a*)
(* class are its live fields and base classes, and a type notifies what is *)
(* made of it (BaseSymbol::NotifyDependentChange,                          *)
(* UdtTypeSymbol::LayoutType, BaseSymbol::Delete).                         *)
THEOREM LayoutsAlways ==
  ASSUME LayoutAssumption
  PROVE  Spec => [](LayoutsFollow /\ TreeOwned)
<1>1. Init => LayoutInv
  BY LayoutInit
<1>2. LayoutInv /\ [Next]_vars => LayoutInv'
  BY LayoutNext
<1>3. LayoutInv => LayoutsFollow /\ TreeOwned
  BY LayoutMeans
<1> QED BY <1>1, <1>2, <1>3, PTL DEF Spec
=============================================================================
