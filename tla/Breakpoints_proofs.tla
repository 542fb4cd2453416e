-------------------------- MODULE Breakpoints_proofs --------------------------
(***************************************************************************)
(* Proofs about Breakpoints, for any number of kinds, places, cores and    *)
(* tries: the types, what holds while the server carries every request out,*)
(* and that until then each call takes effect at once.                     *)
(***************************************************************************)
EXTENDS Breakpoints, FiniteSetTheorems, SequenceTheorems, TLAPS

-----------------------------------------------------------------------------
(* The slots.                                                              *)

(* A set of natural numbers has a least element.                           *)
LEMMA Least ==
  ASSUME NEW S \in SUBSET Nat, S # {}
  PROVE  \E x \in S : \A y \in S : x <= y
<1> DEFINE R == {p \in Nat \X Nat : p[1] < p[2]}
<1>1. IsWellFoundedOn(R, Nat)
  BY NatLessThanWellFounded DEF OpToRel
<1>2. PICK x \in S : \A y \in S : <<y, x>> \notin R
  BY <1>1, WFMin
<1>3. ASSUME NEW y \in S PROVE x <= y
  <2>1. ~(y < x)
    BY <1>2
  <2> QED BY <2>1
<1> QED BY <1>3

(* A new breakpoint gets a slot that is not in use, and moves no other.    *)
LEMMA FreshSlot ==
  ASSUME NEW used \in Seq(BOOLEAN)
  PROVE  /\ Grown(used) \in Seq(BOOLEAN)
         /\ NewSlot(used) \in Nat \ {0}
         /\ NewSlot(used) \in DOMAIN Grown(used)
         /\ Grown(used)[NewSlot(used)] = FALSE
         /\ \A i \in DOMAIN used :
              i \in DOMAIN Grown(used) /\ Grown(used)[i] = used[i]
<1>1. CASE FreeSlots(used) = {}
  <2>1. NewSlot(used) = Len(used) + 1 /\ Grown(used) = Append(used, FALSE)
    BY <1>1 DEF NewSlot, Grown
  <2>2. /\ Append(used, FALSE) \in Seq(BOOLEAN)
        /\ Len(used) \in Nat
        /\ DOMAIN used = 1 .. Len(used)
        /\ DOMAIN Append(used, FALSE) = 1 .. Len(used) + 1
        /\ Append(used, FALSE)[Len(used) + 1] = FALSE
        /\ \A i \in 1 .. Len(used) : Append(used, FALSE)[i] = used[i]
    OBVIOUS
  <2> QED BY <2>1, <2>2
<1>2. CASE FreeSlots(used) # {}
  <2>1. FreeSlots(used) \in SUBSET Nat /\ DOMAIN used \subseteq Nat \ {0}
    BY DEF FreeSlots
  <2>2. \E i \in FreeSlots(used) : \A j \in FreeSlots(used) : i <= j
    BY <1>2, <2>1, Least
  <2>3. NewSlot(used) \in FreeSlots(used)
    BY <1>2, <2>2 DEF NewSlot
  <2>4. Grown(used) = used
    BY <1>2 DEF Grown
  <2>5. used[NewSlot(used)] = FALSE
    BY <2>3 DEF FreeSlots
  <2> QED BY <2>1, <2>3, <2>4, <2>5 DEF FreeSlots
<1> QED BY <1>1, <1>2

(* Marking a slot changes that slot only.                                  *)
LEMMA SlotMarked ==
  ASSUME NEW used \in Seq(BOOLEAN), NEW i \in Nat
  PROVE  /\ MarkSlot(used, i) \in Seq(BOOLEAN)
         /\ DOMAIN MarkSlot(used, i) = DOMAIN used
         /\ i \in DOMAIN used => MarkSlot(used, i)[i] = (call = "create")
         /\ \A j \in DOMAIN used : j # i => MarkSlot(used, i)[j] = used[j]
<1> DEFINE b == (call = "create")
<1>1. b \in BOOLEAN
  OBVIOUS
<1> HIDE DEF b
<1>2. [used EXCEPT ![i] = b] \in Seq(BOOLEAN)
  <2>1. Len(used) \in Nat /\ used \in [1 .. Len(used) -> BOOLEAN]
    OBVIOUS
  <2>2. [used EXCEPT ![i] = b] \in [1 .. Len(used) -> BOOLEAN]
    BY <1>1, <2>1, Zenon
  <2> QED BY <2>1, <2>2
<1>3. DOMAIN [used EXCEPT ![i] = b] = DOMAIN used
  OBVIOUS
<1>4. i \in DOMAIN used => [used EXCEPT ![i] = b][i] = b
  BY Zenon
<1>5. \A j \in DOMAIN used : j # i => [used EXCEPT ![i] = b][j] = used[j]
  BY Zenon
<1>6. MarkSlot(used, i) = [used EXCEPT ![i] = b]
  BY DEF MarkSlot, b
<1>7. b = (call = "create")
  BY DEF b
<1> HIDE DEF b
<1> QED BY <1>2, <1>3, <1>4, <1>5, <1>6, <1>7, Zenon

-----------------------------------------------------------------------------
(* Types.                                                                  *)

(* No action leaves the types.                                             *)
LEMMA TypeNext == SlotsTypeOK /\ [SlotsNext]_slotVars => SlotsTypeOK'
<1> SUFFICES ASSUME SlotsTypeOK, [SlotsNext]_slotVars PROVE SlotsTypeOK'
  OBVIOUS
<1> USE BreakpointsAssumption DEF SlotsTypeOK
<1>0. 0 \in Cores /\ 0 \in 0 .. MaxTries - 1
  BY DEF Cores
<1>1. CASE RunStateChanges
  BY <1>1 DEF RunStateChanges
<1>2. ASSUME NEW bp \in AllBreakpoints, Create(bp) PROVE SlotsTypeOK'
  <2>1. bp.kind \in Kinds
    BY DEF AllBreakpoints
  <2>2. slots' \in [Kinds -> Seq(BOOLEAN)]
    BY <1>2, <2>1, FreshSlot DEF Create
  <2>3. NewSlot(slots[bp.kind]) \in Nat \ {0}
    BY <2>1, FreshSlot
  <2>4. current' \in Objects
    BY <1>2, <2>3 DEF Create, Objects
  <2> QED BY <1>0, <1>2, <2>2, <2>4 DEF Create
<1>3. ASSUME NEW o \in objects, Delete(o) PROVE SlotsTypeOK'
  BY <1>0, <1>3 DEF Delete
<1>4. NextCore => /\ call' \in {"none", "create", "delete"}
                  /\ core' \in Cores
                  /\ retry' \in 0 .. MaxTries - 1
                  /\ objects' \subseteq Objects
  BY <1>0 DEF NextCore, IsLastCore, Cores
<1>5. current.bp \in AllBreakpoints /\ current.bp.kind \in Kinds /\ current.slot \in Nat
  BY DEF Objects, AllBreakpoints
<1>6. CarriedOut(armed[core], current.bp) \in SUBSET AllBreakpoints
  BY <1>5 DEF CarriedOut
<1>7. [armed EXCEPT ![core] = CarriedOut(@, current.bp)] \in [Cores -> SUBSET AllBreakpoints]
  BY <1>6
<1>8. Fault => failed' \in 0 .. MaxFailed
  BY DEF Fault
<1>9. CASE RequestOK
  <2>1. slots' \in [Kinds -> Seq(BOOLEAN)]
    BY <1>5, <1>9, SlotMarked DEF RequestOK
  <2> QED BY <1>4, <1>7, <1>9, <2>1 DEF RequestOK
<1>10. CASE RequestRefused
  BY <1>4, <1>8, <1>10 DEF RequestRefused
<1>11. CASE UnexpectedReply
  <2>1. armed' \in [Cores -> SUBSET AllBreakpoints] /\ failed' \in 0 .. MaxFailed
    BY <1>7, <1>8, <1>11 DEF UnexpectedReply, PerhapsCarriedOut
  <2> QED BY <1>4, <1>11, <2>1 DEF UnexpectedReply, IsRetryAllowed
<1>12. CASE RequestThrows
  <2>1. armed' \in [Cores -> SUBSET AllBreakpoints] /\ failed' \in 0 .. MaxFailed
    BY <1>7, <1>8, <1>12 DEF RequestThrows, PerhapsCarriedOut
  <2> QED BY <1>0, <1>12, <2>1 DEF RequestThrows
<1>13. CASE UNCHANGED slotVars
  BY <1>13 DEF slotVars
<1> QED BY <1>1, <1>2, <1>3, <1>9, <1>10, <1>11, <1>12, <1>13
        DEF SlotsNext, CallerNext, LoopNext

(* Every variable keeps its type, whatever the server answers.             *)
THEOREM TypeCorrect == SlotsSpec => []SlotsTypeOK
<1>1. SlotsInit => SlotsTypeOK
  <2>1. SUFFICES ASSUME SlotsInit PROVE SlotsTypeOK
    OBVIOUS
  <2>2. slots \in [Kinds -> Seq(BOOLEAN)]
    BY <2>1 DEF SlotsInit
  <2>3. current \in Objects
    BY <2>1 DEF SlotsInit, Objects
  <2>4. armed \in [Cores -> SUBSET AllBreakpoints]
    BY <2>1 DEF SlotsInit
  <2>5. /\ core \in Cores /\ retry \in 0 .. MaxTries - 1
        /\ failed \in 0 .. MaxFailed
    BY BreakpointsAssumption, <2>1 DEF SlotsInit, Cores
  <2> QED BY <2>1, <2>2, <2>3, <2>4, <2>5 DEF SlotsInit, SlotsTypeOK
<1> QED BY <1>1, TypeNext, PTL DEF SlotsSpec

-----------------------------------------------------------------------------
(* While the server carries every request out.                             *)

(* What the call under way makes of the breakpoints on a core.             *)
Wanted == CarriedOut(Held, current.bp)

(* An object is known by its breakpoint and by its slot.                   *)
Distinct ==
  \A o, p \in objects :
    o.bp = p.bp \/ (o.bp.kind = p.bp.kind /\ o.slot = p.slot) => o = p

(* The slot of an object is in use; that of a deleted one until it is freed*)
SlotsInUse ==
  \A o \in objects :
    /\ o.slot \in DOMAIN slots[o.bp.kind]
    /\ slots[o.bp.kind][o.slot] = TRUE \/ (call = "delete" /\ o = current)

(* The object of a create is a new one with a slot of its own, that of a   *)
(* delete is the engine's.                                                 *)
CurrentObject ==
  /\ call = "create" =>
       /\ current.bp \notin Held
       /\ current.slot \in DOMAIN slots[current.bp.kind]
       /\ \A o \in objects : o.bp.kind = current.bp.kind => o.slot # current.slot
  /\ call = "delete" => current \in objects

(* The cores before the loop's are done, those behind it untouched.        *)
CoresDone ==
  /\ call = "none" => \A c \in Cores : armed[c] = Held
  /\ call # "none" =>
       /\ \A c \in Cores : c < core => armed[c] = Wanted
       /\ \A c \in Cores : c > core => armed[c] = Held
       /\ armed[core] = Held \/ armed[core] = Wanted

IntactInv == Distinct /\ SlotsInUse /\ CurrentObject /\ CoresDone

(* Carrying a request out again, or after it was carried out, changes      *)
(* nothing.                                                                *)
LEMMA CarriedOutOnce ==
  ASSUME NEW set, set = Held \/ set = Wanted
  PROVE  CarriedOut(set, current.bp) = Wanted
BY DEF CarriedOut, Wanted

(* Adding the object of a create, or removing that of a delete, makes the  *)
(* breakpoints held those wanted.                                          *)
LEMMA WantedIsHeld ==
  ASSUME SlotsTypeOK, IntactInv, call # "none",
         objects' = IF call = "create" THEN objects \cup {current}
                                       ELSE objects \ {current}
  PROVE  Held' = Wanted
<1>1. CASE call = "create"
  BY <1>1 DEF Held, Wanted, CarriedOut
<1>2. CASE call = "delete"
  <2>1. \A o \in objects : o.bp = current.bp => o = current
    BY <1>2 DEF IntactInv, CurrentObject, Distinct
  <2> QED BY <1>2, <2>1 DEF Held, Wanted, CarriedOut
<1> QED BY <1>1, <1>2 DEF SlotsTypeOK

(* A call that starts.                                                     *)
LEMMA CallStarts ==
  ASSUME SlotsTypeOK, IntactInv,
         (\E bp \in AllBreakpoints : Create(bp)) \/ (\E o \in objects : Delete(o))
  PROVE  IntactInv'
<1>0. 0 \in Cores /\ Cores \subseteq Nat
  BY BreakpointsAssumption DEF Cores
<1>1. ASSUME NEW bp \in AllBreakpoints, Create(bp) PROVE IntactInv'
  <2> DEFINE used == slots[bp.kind]
  <2>1. bp.kind \in Kinds /\ used \in Seq(BOOLEAN)
    BY DEF SlotsTypeOK, AllBreakpoints
  <2>2. /\ UNCHANGED <<objects, armed>> /\ Held' = Held
        /\ slots'[bp.kind] = Grown(used)
        /\ \A k \in Kinds : k # bp.kind => slots'[k] = slots[k]
        /\ call = "none" /\ bp \notin Held
    BY <1>1, <2>1 DEF Create, Held, SlotsTypeOK
  <2>3. \A o \in objects : o.bp.kind \in Kinds
    BY DEF SlotsTypeOK, Objects, AllBreakpoints
  <2>4. \A o \in objects : /\ o.slot \in DOMAIN slots[o.bp.kind]
                           /\ slots[o.bp.kind][o.slot] = TRUE
    BY <2>2 DEF IntactInv, SlotsInUse
  <2>5. \A o \in objects : /\ o.slot \in DOMAIN slots'[o.bp.kind]
                           /\ slots'[o.bp.kind][o.slot] = TRUE
    <3>1. TAKE o \in objects
    <3>2. CASE o.bp.kind = bp.kind
      <4>1. o.slot \in DOMAIN used /\ used[o.slot] = TRUE
        BY <2>4, <3>2
      <4>2. o.slot \in DOMAIN Grown(used) /\ Grown(used)[o.slot] = used[o.slot]
        BY <2>1, <4>1, FreshSlot
      <4>3. slots'[o.bp.kind] = Grown(used)
        BY <2>2, <3>2
      <4> HIDE DEF used
      <4> QED BY <4>1, <4>2, <4>3
    <3>3. CASE o.bp.kind # bp.kind
      BY <2>2, <2>3, <2>4, <3>3
    <3> QED BY <3>2, <3>3
  <2>6. CASE running
    BY <1>1, <2>2, <2>5, <2>6
       DEF Create, IntactInv, Distinct, SlotsInUse, CurrentObject, CoresDone
  <2>7. CASE ~running
    <3>1. /\ call' = "create" /\ core' = 0
          /\ current'.bp = bp /\ current'.slot = NewSlot(used)
      BY <1>1, <2>7 DEF Create
    <3>2. NewSlot(used) \in DOMAIN slots'[bp.kind] /\ slots'[bp.kind][NewSlot(used)] = FALSE
      BY <2>1, <2>2, FreshSlot
    <3>3. \A o \in objects : o.bp.kind = bp.kind => o.slot # NewSlot(used)
      BY <2>5, <3>2
    <3>4. Distinct' /\ SlotsInUse'
      BY <2>2, <2>5 DEF IntactInv, Distinct, SlotsInUse
    <3>5. CurrentObject'
      BY <2>2, <3>1, <3>2, <3>3 DEF CurrentObject
    <3>6. \A c \in Cores : armed'[c] = Held'
      BY <2>2 DEF IntactInv, CoresDone
    <3>7. CoresDone'
      BY <1>0, <3>1, <3>6 DEF CoresDone
    <3> QED BY <3>4, <3>5, <3>7 DEF IntactInv
  <2> QED BY <2>6, <2>7
<1>2. ASSUME NEW o \in objects, Delete(o) PROVE IntactInv'
  <2>1. /\ UNCHANGED <<slots, objects, armed>> /\ Held' = Held
        /\ call = "none" /\ call' = "delete" /\ core' = 0 /\ current' = o
    BY <1>2 DEF Delete, Held
  <2> QED BY <1>0, <2>1 DEF IntactInv, Distinct, SlotsInUse, CurrentObject, CoresDone
<1> QED BY <1>1, <1>2

(* The reply "OK" completes a core, and on the last core the call.         *)
LEMMA RequestCarriedOut ==
  ASSUME SlotsTypeOK, IntactInv, RequestOK
  PROVE  IntactInv'
<1> DEFINE k == current.bp.kind
           i == current.slot
<1>0. /\ core \in Cores /\ Cores \subseteq Nat /\ NumCores \in Nat
      /\ \A c \in Cores : c < NumCores
  BY BreakpointsAssumption DEF Cores, SlotsTypeOK
<1>1. /\ k \in Kinds /\ slots[k] \in Seq(BOOLEAN) /\ i \in Nat
      /\ \A o \in objects : o.bp.kind \in Kinds
      /\ call \in {"create", "delete"} /\ UNCHANGED current
  BY DEF SlotsTypeOK, Objects, AllBreakpoints, RequestOK
<1>2. /\ slots'[k] = MarkSlot(slots[k], i)
      /\ \A kind \in Kinds : kind # k => slots'[kind] = slots[kind]
  BY <1>1 DEF RequestOK, SlotsTypeOK
<1>3. /\ i \in DOMAIN slots[k]
      /\ DOMAIN slots'[k] = DOMAIN slots[k]
      /\ slots'[k][i] = (call = "create")
      /\ \A j \in DOMAIN slots[k] : j # i => slots'[k][j] = slots[k][j]
  <2>1. i \in DOMAIN slots[k]
    BY <1>1 DEF IntactInv, CurrentObject, SlotsInUse
  <2>2. /\ DOMAIN MarkSlot(slots[k], i) = DOMAIN slots[k]
        /\ i \in DOMAIN slots[k] => MarkSlot(slots[k], i)[i] = (call = "create")
        /\ \A j \in DOMAIN slots[k] : j # i => MarkSlot(slots[k], i)[j] = slots[k][j]
    BY <1>1, SlotMarked, Zenon
  <2> HIDE DEF k, i
  <2> QED BY <1>2, <2>1, <2>2, Zenon
<1>4. \A o \in objects : o # current =>
        /\ o.slot \in DOMAIN slots'[o.bp.kind]
        /\ slots'[o.bp.kind][o.slot] = TRUE
  <2>1. SUFFICES ASSUME NEW o \in objects, o # current
                 PROVE  /\ o.slot \in DOMAIN slots'[o.bp.kind]
                        /\ slots'[o.bp.kind][o.slot] = TRUE
    OBVIOUS
  <2>2. o.slot \in DOMAIN slots[o.bp.kind] /\ slots[o.bp.kind][o.slot] = TRUE
    BY <2>1 DEF IntactInv, SlotsInUse
  <2>3. CASE o.bp.kind = k
    <3>1. o.slot # i
      BY <1>1, <2>1, <2>3 DEF IntactInv, CurrentObject, Distinct
    <3> QED BY <1>3, <2>2, <2>3, <3>1
  <2>4. CASE o.bp.kind # k
    BY <1>1, <1>2, <2>2, <2>4
  <2> QED BY <2>3, <2>4
<1>5. /\ armed'[core] = Wanted
      /\ \A c \in Cores : c # core => armed'[c] = armed[c]
      /\ \A c \in Cores : c < core => armed'[c] = Wanted
      /\ \A c \in Cores : c > core => armed'[c] = Held
  <2>1. CarriedOut(armed[core], current.bp) = Wanted
    BY <1>1, CarriedOutOnce DEF IntactInv, CoresDone
  <2>2. armed' = [armed EXCEPT ![core] = Wanted]
    BY <2>1 DEF RequestOK
  <2> QED BY <1>0, <1>1, <2>2 DEF IntactInv, CoresDone, SlotsTypeOK
<1>6. CASE IsLastCore(core)
  <2>1. /\ call' = "none"
        /\ objects' = IF call = "create" THEN objects \cup {current}
                                         ELSE objects \ {current}
    BY <1>6 DEF RequestOK, NextCore
  <2>2. Held' = Wanted
    BY <1>1, <2>1, WantedIsHeld
  <2>3. CoresDone'
    <3>1. \A c \in Cores : c < core \/ c = core
      BY <1>6 DEF Cores, SlotsTypeOK, IsLastCore
    <3>2. \A c \in Cores : armed'[c] = Held'
      BY <1>5, <2>2, <3>1
    <3> QED BY <2>1, <3>2 DEF CoresDone
  <2>4. CurrentObject'
    BY <2>1 DEF CurrentObject
  <2>5. CASE call = "create"
    <3>1. objects' = objects \cup {current}
      BY <2>1, <2>5
    <3>2. \A o \in objects : /\ o.bp # current.bp /\ o # current
                             /\ o.bp.kind = k => o.slot # i
      BY <2>5 DEF IntactInv, CurrentObject, Held
    <3>3. Distinct'
      BY <1>1, <3>1, <3>2 DEF IntactInv, Distinct
    <3>4. SlotsInUse'
      BY <1>3, <1>4, <2>1, <2>5, <3>1, <3>2 DEF SlotsInUse
    <3> QED BY <2>3, <2>4, <3>3, <3>4 DEF IntactInv
  <2>6. CASE call = "delete"
    <3>1. objects' = objects \ {current}
      BY <2>1, <2>6
    <3> QED BY <1>4, <2>3, <2>4, <3>1 DEF IntactInv, Distinct, SlotsInUse
  <2> QED BY <1>1, <2>5, <2>6
<1>7. CASE ~IsLastCore(core)
  <2>1. /\ UNCHANGED <<call, objects>> /\ core' = core + 1
        /\ Held' = Held /\ Wanted' = Wanted
    BY <1>1, <1>7 DEF RequestOK, NextCore, Held, Wanted, CarriedOut
  <2>2. core + 1 \in Cores
    BY <1>0, <1>7 DEF Cores, IsLastCore
  <2>3. CoresDone'
    <3>1. \A c \in Cores : c < core + 1 => c < core \/ c = core
      BY <1>0
    <3>2. \A c \in Cores : c < core + 1 => armed'[c] = Wanted
      BY <1>5, <3>1
    <3>3. \A c \in Cores : c >= core + 1 => armed'[c] = Held
      BY <1>0, <1>5
    <3>4. armed'[core + 1] = Held
      BY <1>0, <2>2, <3>3
    <3>5. \A c \in Cores : c > core + 1 => armed'[c] = Held
      BY <1>0, <3>3
    <3>6. call' # "none"
      BY <1>1, <2>1
    <3> QED BY <2>1, <3>2, <3>4, <3>5, <3>6 DEF CoresDone
  <2>4. CurrentObject'
    BY <1>1, <1>2, <1>3, <2>1 DEF IntactInv, CurrentObject
  <2>5. SlotsInUse'
    BY <1>1, <1>3, <1>4, <2>1 DEF IntactInv, SlotsInUse
  <2>6. Distinct'
    BY <2>1 DEF IntactInv, Distinct
  <2> QED BY <2>3, <2>4, <2>5, <2>6 DEF IntactInv
<1> QED BY <1>6, <1>7

(* An unexpected reply that is not the last one is a stutter of the loop.  *)
LEMMA ReplyRetried ==
  ASSUME SlotsTypeOK, IntactInv, UnexpectedReply, failed' = failed
  PROVE  IntactInv' /\ UNCHANGED <<call, objects>>
<1>1. retry + 1 # MaxTries
  BY DEF UnexpectedReply, Fault, SlotsTypeOK
<1>2. IsRetryAllowed(retry + 1)
  BY <1>1, BreakpointsAssumption DEF SlotsTypeOK, IsRetryAllowed
<1>3. /\ UNCHANGED <<call, objects, current, slots, core>>
      /\ Held' = Held /\ Wanted' = Wanted /\ call # "none"
  BY <1>2 DEF UnexpectedReply, Held, Wanted, CarriedOut
<1>4. CarriedOut(armed[core], current.bp) = Wanted
  BY <1>3, CarriedOutOnce DEF IntactInv, CoresDone
<1>5. armed' = armed \/ armed' = [armed EXCEPT ![core] = Wanted]
  BY <1>4 DEF UnexpectedReply, PerhapsCarriedOut
<1>6. core \in Cores /\ Cores \subseteq Nat
  BY BreakpointsAssumption DEF SlotsTypeOK, Cores
<1>7. CoresDone'
  BY <1>3, <1>5, <1>6 DEF IntactInv, CoresDone, SlotsTypeOK
<1>8. Distinct' /\ SlotsInUse' /\ CurrentObject'
  BY <1>3 DEF IntactInv, Distinct, SlotsInUse, CurrentObject
<1> QED BY <1>3, <1>7, <1>8 DEF IntactInv

(* Requests that are not carried out are only ever counted up.             *)
LEMMA FaultsCounted ==
  ASSUME SlotsTypeOK, [SlotsNext]_slotVars
  PROVE  failed' = failed \/ failed' = failed + 1
<1>1. CASE RunStateChanges \/ CallerNext
  BY <1>1 DEF RunStateChanges, CallerNext, Create, Delete
<1>2. CASE LoopNext
  BY <1>2 DEF LoopNext, RequestOK, RequestRefused, UnexpectedReply, RequestThrows,
              Fault
<1>3. CASE UNCHANGED slotVars
  BY <1>3 DEF slotVars
<1> QED BY <1>1, <1>2, <1>3 DEF SlotsNext

(* No other request keeps its count.                                       *)
LEMMA IntactNext ==
  ASSUME SlotsTypeOK, IntactInv, [SlotsNext]_slotVars, failed' = failed
  PROVE  IntactInv'
<1>1. CASE RunStateChanges
  BY <1>1 DEF RunStateChanges, IntactInv, Distinct, SlotsInUse, CurrentObject,
              CoresDone, Held, Wanted, CarriedOut
<1>2. CASE CallerNext
  BY <1>2, CallStarts DEF CallerNext
<1>3. CASE RequestOK
  BY <1>3, RequestCarriedOut
<1>4. CASE UnexpectedReply
  BY <1>4, ReplyRetried
<1>5. CASE RequestRefused \/ RequestThrows
  BY <1>5 DEF RequestRefused, RequestThrows, Fault, SlotsTypeOK
<1>6. CASE UNCHANGED slotVars
  BY <1>6 DEF slotVars, IntactInv, Distinct, SlotsInUse, CurrentObject, CoresDone,
              Held, Wanted, CarriedOut
<1> QED BY <1>1, <1>2, <1>3, <1>4, <1>5, <1>6 DEF SlotsNext, LoopNext

BreakpointsInv == failed = 0 => IntactInv

(* The invariant of all behaviours, with or without faults.                *)
LEMMA Invariance == SlotsSpec => [](SlotsTypeOK /\ BreakpointsInv)
<1>1. SlotsInit => BreakpointsInv
  BY DEF SlotsInit, BreakpointsInv, IntactInv, Distinct, SlotsInUse, CurrentObject,
         CoresDone, Held
<1>2. ASSUME SlotsTypeOK, BreakpointsInv, [SlotsNext]_slotVars PROVE BreakpointsInv'
  <2> SUFFICES ASSUME failed' = 0 PROVE IntactInv'
    BY DEF BreakpointsInv
  <2>1. failed = 0
    BY <1>2, FaultsCounted DEF SlotsTypeOK
  <2> QED BY <1>2, <2>1, IntactNext DEF BreakpointsInv
<1> QED BY <1>1, <1>2, TypeCorrect, PTL DEF SlotsSpec

(* As long as the server carries every request out, each breakpoint has a  *)
(* number of its own and every core stops at the breakpoints held, however *)
(* many replies had to be asked for again.                                 *)
THEOREM BreakpointsKept == SlotsSpec => []BreakpointsIntact
<1>1. BreakpointsInv => BreakpointsIntact
  BY DEF BreakpointsInv, IntactInv, Distinct, CoresDone, BreakpointsIntact,
         SlotsDistinct, HeldArmed
<1> QED BY <1>1, Invariance, PTL

-----------------------------------------------------------------------------
(* The calls implement the table of breakpoints.                           *)

(* Until the first fault, the breakpoints held are live.                   *)
LEMMA LiveIsHeld ==
  ASSUME SlotsTypeOK, IntactInv
  PROVE  Live = Held
<1>1. 0 \in Cores
  BY BreakpointsAssumption DEF Cores
<1>2. Held \subseteq AllBreakpoints
  BY DEF Held, SlotsTypeOK, Objects
<1> QED BY <1>1, <1>2 DEF Live, IntactInv, CoresDone

(* The same of the state after a step.                                     *)
LEMMA LiveIsHeldNext ==
  ASSUME SlotsTypeOK', IntactInv'
  PROVE  Live' = Held'
<1>1. 0 \in Cores
  BY BreakpointsAssumption DEF Cores
<1>2. Held' \subseteq AllBreakpoints
  BY DEF Held, SlotsTypeOK, Objects
<1> QED BY <1>1, <1>2 DEF Live, IntactInv, CoresDone

(* Every step is one of the table's, or leaves it alone.                   *)
LEMMA StepImplements ==
  ASSUME SlotsTypeOK, SlotsTypeOK', BreakpointsInv, [SlotsNext]_slotVars
  PROVE  [Table!Next]_<<Held, Live, failed = 0>>
<1>1. CASE failed' # 0
  BY <1>1 DEF Table!Next, Table!Fault
<1>2. CASE failed' = 0
  <2>1. failed = 0 /\ failed' = failed
    BY <1>2, FaultsCounted DEF SlotsTypeOK
  <2>2. IntactInv /\ IntactInv'
    BY <2>1, IntactNext DEF BreakpointsInv
  <2>3. Live = Held /\ Live' = Held'
    BY <2>2, LiveIsHeld, LiveIsHeldNext
  <2>4. CASE Held' = Held
    BY <2>1, <2>3, <2>4
  <2>5. CASE RequestOK /\ Held' = Wanted /\ current.bp \in AllBreakpoints
    <3>1. CASE call = "create"
      <4>1. Table!Add(current.bp)
        BY <2>1, <2>2, <2>3, <2>5, <3>1
           DEF Table!Add, Wanted, CarriedOut, IntactInv, CurrentObject
      <4> QED BY <2>5, <4>1 DEF Table!Next
    <3>2. CASE call = "delete"
      <4>1. current.bp \in Held
        BY <2>2, <3>2 DEF IntactInv, CurrentObject, Held
      <4>2. Table!Delete(current.bp)
        BY <2>1, <2>3, <2>5, <3>2, <4>1 DEF Table!Delete, Wanted, CarriedOut
      <4> QED BY <2>5, <4>2 DEF Table!Next
    <3> QED BY <2>5, <3>1, <3>2 DEF RequestOK, SlotsTypeOK
  <2>6. CASE RunStateChanges \/ CallerNext
    BY <2>4, <2>6 DEF RunStateChanges, CallerNext, Create, Delete, Held
  <2>7. CASE RequestOK
    <3>1. current.bp \in AllBreakpoints
      BY DEF SlotsTypeOK, Objects
    <3>2. CASE IsLastCore(core)
      <4>1. Held' = Wanted
        BY <2>2, <2>7, <3>2, WantedIsHeld DEF RequestOK, NextCore
      <4> QED BY <2>5, <2>7, <3>1, <4>1
    <3>3. CASE ~IsLastCore(core)
      BY <2>4, <2>7, <3>3 DEF RequestOK, NextCore, Held
    <3> QED BY <3>2, <3>3
  <2>8. CASE UnexpectedReply
    BY <2>1, <2>2, <2>4, <2>8, ReplyRetried DEF Held
  <2>9. CASE RequestRefused \/ RequestThrows
    BY <2>1, <2>9 DEF RequestRefused, RequestThrows, Fault, SlotsTypeOK
  <2>10. CASE UNCHANGED slotVars
    BY <2>4, <2>10 DEF slotVars, Held
  <2> QED BY <2>6, <2>7, <2>8, <2>9, <2>10 DEF SlotsNext, LoopNext
<1> QED BY <1>1, <1>2

(* Each call that returns has taken effect on the whole target, at once,   *)
(* as long as the server carries every request out.                        *)
THEOREM CallsImplementTable == SlotsSpec => ImplementsTable
<1>1. ASSUME SlotsInit PROVE Table!Init
  <2>1. 0 \in Cores
    BY BreakpointsAssumption DEF Cores
  <2>2. Held = {}
    BY <1>1 DEF SlotsInit, Held
  <2>3. Live = {}
    BY <1>1, <2>1 DEF SlotsInit, Live
  <2>4. (failed = 0) = TRUE
    BY <1>1 DEF SlotsInit
  <2> QED BY <2>2, <2>3, <2>4 DEF Table!Init
<1>2. SlotsTypeOK /\ SlotsTypeOK' /\ BreakpointsInv /\ [SlotsNext]_slotVars
        => [Table!Next]_<<Held, Live, failed = 0>>
  BY StepImplements
<1> QED BY <1>1, <1>2, Invariance, PTL DEF SlotsSpec, ImplementsTable, Table!Spec

-----------------------------------------------------------------------------
(* The slots, whatever the server answers.                                 *)

UsedOf(used) == {i \in DOMAIN used : used[i]}

(* The call under way has had an "OK": its slot is as the call leaves it.  *)
Marked ==
  call # "none" /\ slots[current.bp.kind][current.slot] = (call = "create")

(* The slots in use, but for what the call under way has changed.          *)
UsedBefore(k) ==
  IF k = current.bp.kind /\ Marked
  THEN IF call = "create" THEN Cardinality(Used(k)) - 1 ELSE Cardinality(Used(k)) + 1
  ELSE Cardinality(Used(k))

(* The object of a create is a new one, that of a delete is the engine's,  *)
(* and no breakpoint has two objects.                                      *)
OneObjectEach ==
  /\ IsFiniteSet(objects)
  /\ \A o, p \in objects : o.bp = p.bp => o = p
  /\ call = "create" => current.bp \notin Held
  /\ call = "delete" => current \in objects
  /\ call # "none" => current.slot \in DOMAIN slots[current.bp.kind]

(* Up to the faults, the slots in use are as many as the objects.          *)
Accounted ==
  \A k \in Kinds : LET held == Cardinality(ObjectsOf(k)) IN
    UsedBefore(k) <= held + failed /\ held <= UsedBefore(k) + failed

AccountsInv == OneObjectEach /\ Accounted /\ SlotsBounded

(* Growing a vector uses no more of it, and happens only when it is full.  *)
LEMMA GrownUses ==
  ASSUME NEW used \in Seq(BOOLEAN)
  PROVE  /\ UsedOf(Grown(used)) = UsedOf(used)
         /\ Len(Grown(used)) = Len(used)
              \/ (Len(Grown(used)) = Len(used) + 1 /\ UsedOf(used) = 1 .. Len(used))
<1>1. CASE FreeSlots(used) = {}
  <2>1. /\ Len(used) \in Nat /\ DOMAIN used = 1 .. Len(used)
        /\ Grown(used) = Append(used, FALSE)
        /\ DOMAIN Append(used, FALSE) = 1 .. Len(used) + 1
        /\ Len(Append(used, FALSE)) = Len(used) + 1
        /\ Append(used, FALSE)[Len(used) + 1] = FALSE
        /\ \A i \in 1 .. Len(used) : Append(used, FALSE)[i] = used[i]
    BY <1>1 DEF Grown
  <2>2. \A i \in DOMAIN used : used[i]
    BY <1>1 DEF FreeSlots
  <2>3. UsedOf(used) = 1 .. Len(used)
    BY <2>1, <2>2 DEF UsedOf
  <2>4. \A i \in 1 .. Len(used) + 1 : Append(used, FALSE)[i] <=> i \in 1 .. Len(used)
    BY <2>1, <2>2
  <2>5. UsedOf(Grown(used)) = 1 .. Len(used)
    BY <2>1, <2>4 DEF UsedOf
  <2> QED BY <2>1, <2>3, <2>5
<1>2. CASE FreeSlots(used) # {}
  BY <1>2 DEF Grown
<1> QED BY <1>1, <1>2

(* Marking a slot adds it to those in use or takes it away.                *)
LEMMA MarkedUses ==
  ASSUME NEW used \in Seq(BOOLEAN), NEW i \in DOMAIN used
  PROVE  /\ UsedOf(MarkSlot(used, i)) =
              IF call = "create" THEN UsedOf(used) \cup {i} ELSE UsedOf(used) \ {i}
         /\ Len(MarkSlot(used, i)) = Len(used)
<1>1. i \in Nat /\ DOMAIN used = 1 .. Len(used) /\ Len(used) \in Nat
  OBVIOUS
<1>2. /\ MarkSlot(used, i) \in Seq(BOOLEAN)
      /\ DOMAIN MarkSlot(used, i) = DOMAIN used
      /\ MarkSlot(used, i)[i] = (call = "create")
      /\ \A j \in DOMAIN used : j # i => MarkSlot(used, i)[j] = used[j]
  BY <1>1, SlotMarked
<1>3. Len(MarkSlot(used, i)) = Len(used)
  BY <1>1, <1>2, LenProperties
<1>4. CASE call = "create"
  BY <1>2, <1>4 DEF UsedOf
<1>5. CASE call # "create"
  BY <1>2, <1>5 DEF UsedOf
<1> QED BY <1>3, <1>4, <1>5

(* The slots in use are as many as a vector has at most.                   *)
LEMMA UsedCounted ==
  ASSUME NEW used \in Seq(BOOLEAN)
  PROVE  /\ IsFiniteSet(UsedOf(used)) /\ Cardinality(UsedOf(used)) \in Nat
         /\ UsedOf(used) = 1 .. Len(used) => Cardinality(UsedOf(used)) = Len(used)
<1>1. Len(used) \in Nat /\ UsedOf(used) \in SUBSET (1 .. Len(used))
  BY DEF UsedOf
<1>2. IsFiniteSet(1 .. Len(used)) /\ Cardinality(1 .. Len(used)) = Len(used)
  <2>1. /\ 1 \in Int /\ Len(used) \in Int
        /\ (IF 1 > Len(used) THEN 0 ELSE Len(used) - 1 + 1) = Len(used)
    BY <1>1
  <2> HIDE DEF UsedOf
  <2> QED BY <2>1, FS_Interval
<1> QED BY <1>1, <1>2, FS_Subset, FS_CardinalityType

(* Objects of one kind without twins have as many places, and fewer if one *)
(* place is free.                                                          *)
LEMMA PlacesFree ==
  ASSUME SlotsTypeOK, OneObjectEach, NEW bp \in AllBreakpoints, bp \notin Held
  PROVE  Cardinality(ObjectsOf(bp.kind)) + 1 <= Cardinality(Places)
<1> DEFINE O == ObjectsOf(bp.kind)
           P == Places \ {bp.place}
           f == [o \in O |-> o.bp.place]
<1>1. /\ IsFiniteSet(P) /\ Cardinality(P) = Cardinality(Places) - 1
      /\ Cardinality(Places) \in Nat
  BY BreakpointsAssumption, FS_RemoveElement, FS_CardinalityType DEF AllBreakpoints
<1>2. \A o \in O : o \in objects /\ o.bp \in AllBreakpoints /\ o.bp.kind = bp.kind /\ o.bp # bp
  BY DEF ObjectsOf, SlotsTypeOK, Objects, Held
<1>3. \A b \in AllBreakpoints : b.kind = bp.kind /\ b.place = bp.place => b = bp
  BY DEF AllBreakpoints
<1>4. f \in [O -> P]
  BY <1>2, <1>3 DEF AllBreakpoints
<1>5. ASSUME NEW o \in O, NEW p \in O, f[o] = f[p] PROVE o = p
  <2>1. o.bp.place = p.bp.place
    BY <1>5
  <2>2. o.bp = p.bp
    BY <1>2, <2>1 DEF AllBreakpoints
  <2> QED BY <1>2, <2>2 DEF OneObjectEach
<1>6. f \in Injection(O, P)
  BY <1>4, <1>5 DEF Injection, IsInjective
<1>7. Cardinality(O) <= Cardinality(P) /\ Cardinality(O) \in Nat
  <2> HIDE DEF O, P, f
  <2>1. IsFiniteSet(O) /\ Cardinality(O) <= Cardinality(P)
    BY <1>1, <1>6, FS_Injection
  <2> QED BY <2>1, FS_CardinalityType
<1> QED BY <1>1, <1>7

(* What the accounts are about, for one kind.                              *)
LEMMA Counted ==
  ASSUME SlotsTypeOK, OneObjectEach, NEW k \in Kinds
  PROVE  /\ slots[k] \in Seq(BOOLEAN) /\ Used(k) = UsedOf(slots[k])
         /\ Cardinality(Used(k)) \in Nat
         /\ IsFiniteSet(ObjectsOf(k)) /\ Cardinality(ObjectsOf(k)) \in Nat
         /\ failed \in Nat /\ UsedBefore(k) \in Int
<1>1. slots[k] \in Seq(BOOLEAN) /\ Used(k) = UsedOf(slots[k]) /\ failed \in Nat
  BY BreakpointsAssumption DEF SlotsTypeOK, Used, UsedOf
<1>2. Cardinality(Used(k)) \in Nat
  BY <1>1, UsedCounted
<1>3. ObjectsOf(k) \in SUBSET objects
  BY DEF ObjectsOf
<1>4. IsFiniteSet(ObjectsOf(k)) /\ Cardinality(ObjectsOf(k)) \in Nat
  BY <1>3, FS_Subset, FS_CardinalityType DEF OneObjectEach
<1> QED BY <1>1, <1>2, <1>4 DEF UsedBefore

(* A call that starts has marked nothing, and grows a vector only when it  *)
(* is full of breakpoints held or of slots lost.                           *)
LEMMA CreateAccounts ==
  ASSUME SlotsTypeOK, AccountsInv, NEW bp \in AllBreakpoints, Create(bp)
  PROVE  AccountsInv'
<1> DEFINE used == slots[bp.kind]
<1>1. bp.kind \in Kinds /\ used \in Seq(BOOLEAN)
  BY DEF SlotsTypeOK, AllBreakpoints
<1>2. /\ UNCHANGED <<objects, failed>> /\ Held' = Held /\ call = "none" /\ bp \notin Held
      /\ slots'[bp.kind] = Grown(used)
      /\ \A k \in Kinds : k # bp.kind => slots'[k] = slots[k]
      /\ \A k \in Kinds : ObjectsOf(k)' = ObjectsOf(k)
  BY <1>1 DEF Create, Held, SlotsTypeOK, ObjectsOf
<1>3. /\ NewSlot(used) \in DOMAIN Grown(used)
      /\ Grown(used)[NewSlot(used)] = FALSE
      /\ UsedOf(Grown(used)) = UsedOf(used)
      /\ Len(Grown(used)) = Len(used)
           \/ (Len(Grown(used)) = Len(used) + 1 /\ UsedOf(used) = 1 .. Len(used))
  BY <1>1, FreshSlot, GrownUses
<1>4. \/ call' = "none" /\ UNCHANGED current
      \/ call' = "create" /\ current'.bp = bp /\ current'.slot = NewSlot(used)
  BY <1>2 DEF Create
<1>5. OneObjectEach'
  BY <1>2, <1>3, <1>4 DEF AccountsInv, OneObjectEach
<1>6. ~Marked /\ ~Marked'
  BY <1>2, <1>3, <1>4 DEF Marked
<1>7. ASSUME NEW k \in Kinds PROVE Used(k)' = Used(k)
  <2>1. Used(k)' = UsedOf(slots'[k]) /\ Used(k) = UsedOf(slots[k])
    BY DEF Used, UsedOf
  <2> QED BY <1>2, <1>3, <2>1
<1>8. ASSUME NEW k \in Kinds PROVE UsedBefore(k)' = UsedBefore(k)
  BY <1>6, <1>7 DEF UsedBefore
<1>9. Accounted'
  BY <1>2, <1>8 DEF AccountsInv, Accounted
<1>10. ASSUME NEW k \in Kinds PROVE Len(slots'[k]) <= Cardinality(Places) + failed'
  <2>1. Len(slots[k]) <= Cardinality(Places) + failed
    BY DEF AccountsInv, SlotsBounded
  <2>2. CASE slots'[k] = slots[k]
    BY <1>2, <2>1, <2>2
  <2>3. CASE k = bp.kind /\ Len(Grown(used)) = Len(used)
    BY <1>2, <2>1, <2>3
  <2>4. CASE k = bp.kind /\ Len(Grown(used)) = Len(used) + 1 /\ UsedOf(used) = 1 .. Len(used)
    <3>1. Cardinality(Used(k)) = Len(used)
      BY <1>1, <2>4, UsedCounted, Counted DEF AccountsInv
    <3>2. Cardinality(Used(k)) <= Cardinality(ObjectsOf(k)) + failed
      BY <1>6 DEF AccountsInv, Accounted, UsedBefore
    <3>3. Cardinality(ObjectsOf(k)) + 1 <= Cardinality(Places)
      BY <1>2, <2>4, PlacesFree DEF AccountsInv
    <3>4. /\ Cardinality(ObjectsOf(k)) \in Nat /\ failed \in Nat /\ Len(used) \in Nat
          /\ Cardinality(Places) \in Nat
      BY <1>1, Counted, BreakpointsAssumption, FS_CardinalityType DEF AccountsInv
    <3>5. Len(slots'[k]) = Len(used) + 1 /\ failed' = failed
      BY <1>2, <2>4
    <3> HIDE DEF used
    <3> QED BY <3>1, <3>2, <3>3, <3>4, <3>5
  <2> QED BY <1>2, <1>3, <2>2, <2>3, <2>4
<1>11. SlotsBounded'
  BY <1>10 DEF SlotsBounded
<1> QED BY <1>5, <1>9, <1>11 DEF AccountsInv

(* A breakpoint is being deleted.                                          *)
LEMMA DeleteAccounts ==
  ASSUME SlotsTypeOK, AccountsInv, NEW o \in objects, Delete(o)
  PROVE  AccountsInv'
<1>1. /\ UNCHANGED <<slots, objects, failed>> /\ call = "none" /\ call' = "delete" /\ current' = o
      /\ Exists(o)
  BY DEF Delete
<1>2. OneObjectEach'
  BY <1>1 DEF AccountsInv, OneObjectEach, Exists
<1>3. ~Marked /\ ~Marked'
  BY <1>1 DEF Marked, Exists
<1>4. ASSUME NEW k \in Kinds PROVE UsedBefore(k)' = UsedBefore(k) /\ ObjectsOf(k)' = ObjectsOf(k)
  BY <1>1, <1>3 DEF UsedBefore, Used, ObjectsOf
<1>5. Accounted'
  BY <1>1, <1>4 DEF AccountsInv, Accounted
<1>6. SlotsBounded'
  BY <1>1 DEF AccountsInv, SlotsBounded
<1> QED BY <1>2, <1>5, <1>6 DEF AccountsInv

(* The call that returns adds its object or takes it away.                 *)
LEMMA ReturnCounts ==
  ASSUME SlotsTypeOK, OneObjectEach, call # "none", call' = "none",
         objects' = IF call = "create" THEN objects \cup {current} ELSE objects \ {current}
  PROVE  /\ OneObjectEach'
         /\ \A k \in Kinds : Cardinality(ObjectsOf(k)') =
              IF k # current.bp.kind THEN Cardinality(ObjectsOf(k))
              ELSE IF call = "create" THEN Cardinality(ObjectsOf(k)) + 1
              ELSE Cardinality(ObjectsOf(k)) - 1
<1>1. CASE call = "create"
  <2>1. objects' = objects \cup {current} /\ current \notin objects
    BY <1>1 DEF OneObjectEach, Held
  <2>2. IsFiniteSet(objects')
    BY <2>1, FS_AddElement DEF OneObjectEach
  <2>3. OneObjectEach'
    BY <1>1, <2>1, <2>2 DEF OneObjectEach, Held
  <2>4. ASSUME NEW k \in Kinds
        PROVE  Cardinality(ObjectsOf(k)') =
                 IF k # current.bp.kind THEN Cardinality(ObjectsOf(k))
                 ELSE Cardinality(ObjectsOf(k)) + 1
    <3>1. ObjectsOf(k)' = IF k # current.bp.kind THEN ObjectsOf(k) ELSE ObjectsOf(k) \cup {current}
      BY <2>1 DEF ObjectsOf
    <3>2. current \notin ObjectsOf(k) /\ IsFiniteSet(ObjectsOf(k))
      BY <2>1, Counted DEF ObjectsOf
    <3> QED BY <3>1, <3>2, FS_AddElement
  <2> QED BY <1>1, <2>3, <2>4
<1>2. CASE call = "delete"
  <2>1. objects' = objects \ {current} /\ current \in objects
    BY <1>2 DEF OneObjectEach
  <2>2. IsFiniteSet(objects')
    BY <2>1, FS_RemoveElement DEF OneObjectEach
  <2>3. OneObjectEach'
    BY <2>1, <2>2 DEF OneObjectEach
  <2>4. ASSUME NEW k \in Kinds
        PROVE  Cardinality(ObjectsOf(k)') =
                 IF k # current.bp.kind THEN Cardinality(ObjectsOf(k))
                 ELSE Cardinality(ObjectsOf(k)) - 1
    <3>1. ObjectsOf(k)' = IF k # current.bp.kind THEN ObjectsOf(k) ELSE ObjectsOf(k) \ {current}
      BY <2>1 DEF ObjectsOf
    <3>2. /\ k = current.bp.kind => current \in ObjectsOf(k)
          /\ IsFiniteSet(ObjectsOf(k))
      BY <2>1, Counted DEF ObjectsOf
    <3> QED BY <3>1, <3>2, FS_RemoveElement
  <2> QED BY <1>2, <2>3, <2>4
<1> QED BY <1>1, <1>2 DEF SlotsTypeOK

(* The first "OK" changes one slot, a later one none.                      *)
LEMMA MarkCounts ==
  ASSUME SlotsTypeOK, OneObjectEach, RequestOK
  PROVE  /\ \A k \in Kinds : Len(slots'[k]) = Len(slots[k])
         /\ current.slot \in DOMAIN slots'[current.bp.kind]
         /\ slots'[current.bp.kind][current.slot] = (call = "create")
         /\ \A k \in Kinds : Cardinality(Used(k)') =
              IF k # current.bp.kind THEN UsedBefore(k)
              ELSE IF call = "create" THEN UsedBefore(k) + 1
              ELSE UsedBefore(k) - 1
<1> DEFINE c == current.bp.kind
           i == current.slot
<1>1. /\ c \in Kinds /\ slots[c] \in Seq(BOOLEAN) /\ i \in DOMAIN slots[c] /\ i \in Nat
      /\ call \in {"create", "delete"}
  BY DEF SlotsTypeOK, Objects, AllBreakpoints, RequestOK, OneObjectEach
<1>2. /\ slots'[c] = MarkSlot(slots[c], i)
      /\ \A k \in Kinds : k # c => slots'[k] = slots[k]
  BY <1>1 DEF RequestOK, SlotsTypeOK
<1>3. /\ MarkSlot(slots[c], i)[i] = (call = "create")
      /\ DOMAIN MarkSlot(slots[c], i) = DOMAIN slots[c]
  <2> HIDE DEF c, i
  <2> QED BY <1>1, SlotMarked
<1>4. /\ UsedOf(MarkSlot(slots[c], i)) =
           IF call = "create" THEN UsedOf(slots[c]) \cup {i} ELSE UsedOf(slots[c]) \ {i}
      /\ Len(MarkSlot(slots[c], i)) = Len(slots[c])
  <2> HIDE DEF c, i
  <2> QED BY <1>1, MarkedUses
<1>5. IsFiniteSet(UsedOf(slots[c])) /\ Cardinality(UsedOf(slots[c])) \in Nat
  BY <1>1, UsedCounted
<1>6. i \in UsedOf(slots[c]) <=> slots[c][i] = TRUE
  BY <1>1 DEF UsedOf
<1>7. Cardinality(UsedOf(slots'[c])) =
        IF call = "create" THEN UsedBefore(c) + 1 ELSE UsedBefore(c) - 1
  <2>1. UsedBefore(c) =
          IF slots[c][i] = (call = "create")
          THEN IF call = "create" THEN Cardinality(UsedOf(slots[c])) - 1
                                  ELSE Cardinality(UsedOf(slots[c])) + 1
          ELSE Cardinality(UsedOf(slots[c]))
    BY <1>1 DEF UsedBefore, Marked, Used, UsedOf
  <2> DEFINE before == UsedOf(slots[c])
  <2>2. CASE call = "create"
    <3>1. UsedOf(slots'[c]) = before \cup {i}
      BY <1>2, <1>4, <2>2
    <3>2. slots[c][i] = (call = "create") <=> i \in before
      BY <1>6, <2>2
    <3>3. UsedBefore(c) = IF i \in before THEN Cardinality(before) - 1 ELSE Cardinality(before)
      BY <2>1, <2>2, <3>2
    <3>4. Cardinality(before \cup {i}) =
            IF i \in before THEN Cardinality(before) ELSE Cardinality(before) + 1
      <4> HIDE DEF before, i
      <4> QED BY <1>5, FS_AddElement DEF before
    <3> HIDE DEF before, i, c
    <3> QED BY <1>5, <2>2, <3>1, <3>3, <3>4 DEF before
  <2>3. CASE call = "delete"
    <3>1. UsedOf(slots'[c]) = before \ {i}
      BY <1>2, <1>4, <2>3
    <3>2. slots[c][i] \in BOOLEAN
      BY <1>1
    <3>3. slots[c][i] = (call = "create") <=> i \notin before
      BY <1>6, <2>3, <3>2
    <3>4. UsedBefore(c) = IF i \in before THEN Cardinality(before) ELSE Cardinality(before) + 1
      BY <2>1, <2>3, <3>3
    <3>5. Cardinality(before \ {i}) =
            IF i \in before THEN Cardinality(before) - 1 ELSE Cardinality(before)
      <4> HIDE DEF before, i
      <4> QED BY <1>5, FS_RemoveElement DEF before
    <3> HIDE DEF before, i, c
    <3> QED BY <1>5, <2>3, <3>1, <3>4, <3>5 DEF before
  <2> QED BY <1>1, <2>2, <2>3
<1>8. \A k \in Kinds : Used(k)' = UsedOf(slots'[k]) /\ Used(k) = UsedOf(slots[k])
  BY DEF Used, UsedOf
<1>9. \A k \in Kinds : k # c => Cardinality(Used(k)') = UsedBefore(k)
  BY <1>2, <1>8 DEF UsedBefore
<1>10. \A k \in Kinds : Len(slots'[k]) = Len(slots[k])
  BY <1>1, <1>2, <1>4
<1> QED BY <1>1, <1>2, <1>3, <1>7, <1>8, <1>9, <1>10

(* A request succeeds.                                                     *)
LEMMA RequestOKAccounts ==
  ASSUME SlotsTypeOK, AccountsInv, RequestOK
  PROVE  AccountsInv'
<1>1. /\ UNCHANGED <<current, failed>> /\ call # "none" /\ NextCore
      /\ call \in {"create", "delete"} /\ current.bp.kind \in Kinds
  BY DEF RequestOK, SlotsTypeOK, Objects, AllBreakpoints
<1>2. /\ \A k \in Kinds : Len(slots'[k]) = Len(slots[k])
      /\ current.slot \in DOMAIN slots'[current.bp.kind]
      /\ slots'[current.bp.kind][current.slot] = (call = "create")
      /\ \A k \in Kinds : Cardinality(Used(k)') =
           IF k # current.bp.kind THEN UsedBefore(k)
           ELSE IF call = "create" THEN UsedBefore(k) + 1
           ELSE UsedBefore(k) - 1
  BY MarkCounts DEF AccountsInv
<1>3. SlotsBounded'
  BY <1>1, <1>2 DEF AccountsInv, SlotsBounded
<1>4. \A k \in Kinds : /\ Cardinality(ObjectsOf(k)) \in Nat /\ failed \in Nat /\ UsedBefore(k) \in Int
                       /\ UsedBefore(k) <= Cardinality(ObjectsOf(k)) + failed
                       /\ Cardinality(ObjectsOf(k)) <= UsedBefore(k) + failed
  BY Counted DEF AccountsInv, Accounted
<1>5. CASE UNCHANGED <<call, objects>>
  <2>1. OneObjectEach'
    BY <1>1, <1>2, <1>5 DEF AccountsInv, OneObjectEach, Held
  <2>2. Marked'
    BY <1>1, <1>2, <1>5 DEF Marked
  <2>3. ASSUME NEW k \in Kinds
        PROVE  UsedBefore(k)' = UsedBefore(k) /\ ObjectsOf(k)' = ObjectsOf(k)
    <3>1. current' = current /\ call' = call /\ ObjectsOf(k)' = ObjectsOf(k)
      BY <1>1, <1>5 DEF ObjectsOf
    <3>2. CASE k = current.bp.kind
      <4>1. k = current'.bp.kind /\ Marked'
        BY <2>2, <3>1, <3>2
      <4>2. UsedBefore(k)' = IF call' = "create" THEN Cardinality(Used(k)') - 1
                             ELSE Cardinality(Used(k)') + 1
        BY <4>1 DEF UsedBefore
      <4>3. Cardinality(Used(k)') = IF call = "create" THEN UsedBefore(k) + 1 ELSE UsedBefore(k) - 1
        BY <1>2, <3>2
      <4>4. UsedBefore(k) \in Int
        BY <1>4
      <4> QED BY <3>1, <4>2, <4>3, <4>4
    <3>3. CASE k # current.bp.kind
      <4>1. k # current'.bp.kind
        BY <3>1, <3>3
      <4>2. UsedBefore(k)' = Cardinality(Used(k)')
        BY <4>1 DEF UsedBefore
      <4> QED BY <1>2, <3>1, <3>3, <4>2
    <3> QED BY <3>2, <3>3
  <2>4. Accounted'
    BY <1>1, <1>4, <2>3 DEF Accounted
  <2> QED BY <1>3, <2>1, <2>4 DEF AccountsInv
<1>6. CASE call' = "none" /\
           objects' = IF call = "create" THEN objects \cup {current} ELSE objects \ {current}
  <2>1. /\ OneObjectEach'
        /\ \A k \in Kinds : Cardinality(ObjectsOf(k)') =
             IF k # current.bp.kind THEN Cardinality(ObjectsOf(k))
             ELSE IF call = "create" THEN Cardinality(ObjectsOf(k)) + 1
             ELSE Cardinality(ObjectsOf(k)) - 1
    BY <1>1, <1>6, ReturnCounts DEF AccountsInv
  <2>2. \A k \in Kinds : UsedBefore(k)' = Cardinality(Used(k)')
    BY <1>6 DEF UsedBefore, Marked
  <2>3. Accounted'
    BY SMTT(60), <1>1, <1>2, <1>4, <2>1, <2>2 DEF Accounted
  <2> QED BY <1>3, <2>1, <2>3 DEF AccountsInv
<1> QED BY <1>1, <1>5, <1>6 DEF NextCore

(* A request that is not carried out costs a slot at most.                 *)
LEMMA FaultAccounts ==
  ASSUME SlotsTypeOK, AccountsInv, call # "none", failed' = failed + 1, UNCHANGED <<slots, current>>,
         NextCore \/ (call' = "none" /\ UNCHANGED objects)
  PROVE  AccountsInv'
<1>1. call \in {"create", "delete"} /\ current.bp.kind \in Kinds
  BY DEF SlotsTypeOK, Objects, AllBreakpoints
<1>2. \A k \in Kinds : /\ Cardinality(ObjectsOf(k)) \in Nat /\ failed \in Nat /\ UsedBefore(k) \in Int
                       /\ Cardinality(Used(k)) \in Nat
                       /\ UsedBefore(k) <= Cardinality(ObjectsOf(k)) + failed
                       /\ Cardinality(ObjectsOf(k)) <= UsedBefore(k) + failed
  BY Counted DEF AccountsInv, Accounted
<1>3. \A k \in Kinds : /\ slots[k] \in Seq(BOOLEAN) /\ Len(slots[k]) \in Nat
                       /\ Cardinality(Places) \in Nat
  BY BreakpointsAssumption, FS_CardinalityType DEF SlotsTypeOK
<1>4. SlotsBounded'
  BY <1>2, <1>3 DEF AccountsInv, SlotsBounded
<1>5. \A k \in Kinds : Used(k)' = Used(k)
  BY DEF Used
<1>6. CASE UNCHANGED <<call, objects>>
  <2>1. OneObjectEach'
    BY <1>6 DEF AccountsInv, OneObjectEach, Held
  <2>2. \A k \in Kinds : UsedBefore(k)' = UsedBefore(k) /\ ObjectsOf(k)' = ObjectsOf(k)
    BY <1>5, <1>6 DEF UsedBefore, ObjectsOf, Marked
  <2>3. Accounted'
    BY <1>2, <2>2 DEF Accounted
  <2> QED BY <1>4, <2>1, <2>3 DEF AccountsInv
<1>7. CASE call' = "none"
  <2>1. \A k \in Kinds : UsedBefore(k)' = Cardinality(Used(k))
    BY <1>5, <1>7 DEF UsedBefore, Marked
  <2>2. \A k \in Kinds :
          Cardinality(Used(k)) = UsedBefore(k)
            \/ /\ k = current.bp.kind
               /\ Cardinality(Used(k)) = IF call = "create" THEN UsedBefore(k) + 1 ELSE UsedBefore(k) - 1
    BY <1>2 DEF UsedBefore
  <2>3. CASE UNCHANGED objects
    <3>1. OneObjectEach'
      BY <1>7, <2>3 DEF AccountsInv, OneObjectEach
    <3>2. \A k \in Kinds : ObjectsOf(k)' = ObjectsOf(k)
      BY <2>3 DEF ObjectsOf
    <3>3. Accounted'
      BY <1>2, <2>1, <2>2, <3>2 DEF Accounted
    <3> QED BY <1>4, <3>1, <3>3 DEF AccountsInv
  <2>4. CASE objects' = IF call = "create" THEN objects \cup {current} ELSE objects \ {current}
    <3>1. /\ OneObjectEach'
          /\ \A k \in Kinds : Cardinality(ObjectsOf(k)') =
               IF k # current.bp.kind THEN Cardinality(ObjectsOf(k))
               ELSE IF call = "create" THEN Cardinality(ObjectsOf(k)) + 1
               ELSE Cardinality(ObjectsOf(k)) - 1
      BY <1>7, <2>4, ReturnCounts DEF AccountsInv
    <3>2. Accounted'
      BY <1>1, <1>2, <2>1, <2>2, <3>1 DEF Accounted
    <3> QED BY <1>4, <3>1, <3>2 DEF AccountsInv
  <2> QED BY <2>3, <2>4 DEF NextCore
<1> QED BY <1>6, <1>7 DEF NextCore

(* A step that leaves slots, objects and the call alone.                   *)
LEMMA AccountsFrame ==
  ASSUME AccountsInv, UNCHANGED <<slots, objects, call, current, failed>>
  PROVE  AccountsInv'
<1>1. \A k \in Kinds : UsedBefore(k)' = UsedBefore(k) /\ ObjectsOf(k)' = ObjectsOf(k)
  BY DEF UsedBefore, Used, Marked, ObjectsOf
<1>2. OneObjectEach' /\ SlotsBounded'
  BY DEF AccountsInv, OneObjectEach, Held, SlotsBounded
<1> QED BY <1>1, <1>2 DEF AccountsInv, Accounted

(* Every step keeps the accounts.                                          *)
LEMMA AccountsNext == SlotsTypeOK /\ AccountsInv /\ [SlotsNext]_slotVars => AccountsInv'
<1> SUFFICES ASSUME SlotsTypeOK, AccountsInv, [SlotsNext]_slotVars PROVE AccountsInv'
  OBVIOUS
<1>1. CASE RunStateChanges \/ UNCHANGED slotVars
  BY <1>1, AccountsFrame DEF RunStateChanges, slotVars
<1>2. CASE CallerNext
  BY <1>2, CreateAccounts, DeleteAccounts DEF CallerNext
<1>3. CASE RequestOK
  BY <1>3, RequestOKAccounts
<1>4. CASE RequestRefused \/ RequestThrows
  BY <1>4, FaultAccounts DEF RequestRefused, RequestThrows, Fault
<1>5. CASE UnexpectedReply
  <2>1. CASE IsRetryAllowed(retry + 1)
    <3>1. retry + 1 # MaxTries
      BY <2>1, BreakpointsAssumption DEF IsRetryAllowed
    <3> QED BY <1>5, <2>1, <3>1, AccountsFrame DEF UnexpectedReply
  <2>2. CASE ~IsRetryAllowed(retry + 1)
    <3>1. retry + 1 = MaxTries
      BY <2>2, BreakpointsAssumption DEF IsRetryAllowed, SlotsTypeOK
    <3> QED BY <1>5, <2>2, <3>1, FaultAccounts DEF UnexpectedReply, Fault
  <2> QED BY <2>1, <2>2
<1> QED BY <1>1, <1>2, <1>3, <1>4, <1>5 DEF SlotsNext, LoopNext

(* Whatever requests the server does not carry out, each costs one slot at *)
(* most, and the vectors of slots grow no longer than that.                *)
THEOREM SlotsLost == SlotsSpec => []SlotsKept
<1>1. SlotsInit => AccountsInv
  <2> SUFFICES ASSUME SlotsInit PROVE AccountsInv
    OBVIOUS
  <2>1. OneObjectEach
    BY FS_EmptySet DEF SlotsInit, OneObjectEach
  <2>2. ASSUME NEW k \in Kinds
        PROVE  /\ UsedBefore(k) = 0 /\ Cardinality(ObjectsOf(k)) = 0 /\ Len(slots[k]) = 0
    <3>1. ObjectsOf(k) = {} /\ slots[k] = <<>>
      BY DEF SlotsInit, ObjectsOf
    <3>2. Used(k) = {}
      BY <3>1 DEF Used
    <3> QED BY <3>1, <3>2, FS_EmptySet DEF SlotsInit, UsedBefore, Marked
  <2>3. Cardinality(Places) \in Nat
    BY BreakpointsAssumption, FS_CardinalityType
  <2> QED BY <2>1, <2>2, <2>3 DEF SlotsInit, AccountsInv, Accounted, SlotsBounded
<1>2. SlotsTypeOK /\ AccountsInv => SlotsKept
  BY DEF AccountsInv, Accounted, UsedBefore, Marked, SlotsKept, SlotsAccounted
<1> QED BY <1>1, <1>2, AccountsNext, TypeCorrect, PTL DEF SlotsSpec

=============================================================================
