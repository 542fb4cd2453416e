----------------------------- MODULE Breakpoints -----------------------------
(***************************************************************************)
(* The breakpoints of AsynchronousGdbSrvController.  Two vectors of slots, *)
(* one for code and one for data breakpoints, give each breakpoint its     *)
(* number; a request per core, tried again after an unexpected reply, sets *)
(* or clears it on the target.  The engine holds an object, a breakpoint   *)
(* with its number, for each one it has added.  A place is an address, for *)
(* a data breakpoint with the access width and type; the engine adds no    *)
(* breakpoint that it holds.  Slots are numbered from 1, in the code from 0*)
(***************************************************************************)
EXTENDS Naturals, Sequences, FiniteSets

CONSTANTS
  Kinds,      (* The vectors of slots: code and data.                      *)
  Places,     (* The places where a breakpoint may be set.                 *)
  NumCores,   (* GetNumberOfRspConnections.                                *)
  MaxTries,   (* MAX_PACKETS_ATTEMPTS.                                     *)
  MaxFailed   (* Bound on the requests that the server does not carry out. *)

ASSUME BreakpointsAssumption ==
  /\ NumCores \in Nat \ {0}
  /\ MaxTries \in Nat \ {0}
  /\ MaxFailed \in Nat
  /\ IsFiniteSet(Places)

Cores == 0 .. NumCores - 1
AllBreakpoints == [kind : Kinds, place : Places]
Objects == [bp : AllBreakpoints, slot : Nat \ {0}]

VARIABLES
  slots,     (* m_breakpointSlots and m_dataBreakpointSlots.               *)
  objects,   (* The breakpoint objects that the engine holds.              *)
  armed,     (* The breakpoints set on the target, by core.                *)
  running,   (* An asynchronous command is in progress.                    *)
  call,      (* The call under way: "none", "create" or "delete".          *)
  current,   (* The object of that call, or of the last one.               *)
  core,      (* The core its loop has reached.                             *)
  retry,     (* retryCounter, the unexpected replies from that core.       *)
  failed     (* Requests that have not been carried out.                   *)

slotVars == <<slots, objects, armed, running, call, current, core, retry, failed>>

Held == {o.bp : o \in objects}

(* Every variable has its type.                                            *)
SlotsTypeOK ==
  /\ slots \in [Kinds -> Seq(BOOLEAN)]
  /\ objects \subseteq Objects
  /\ armed \in [Cores -> SUBSET AllBreakpoints]
  /\ running \in BOOLEAN
  /\ call \in {"none", "create", "delete"}
  /\ current \in Objects
  /\ core \in Cores
  /\ retry \in 0 .. MaxTries - 1
  /\ failed \in 0 .. MaxFailed

SlotsInit ==
  /\ slots = [k \in Kinds |-> <<>>]
  /\ objects = {}
  /\ armed = [c \in Cores |-> {}]
  /\ running = FALSE
  /\ call = "none"
  /\ current \in [bp : AllBreakpoints, slot : {1}]
  /\ core = 0 /\ retry = 0
  /\ failed = 0

-----------------------------------------------------------------------------
(* The target is resumed and stops again, as LiveServer tells.             *)
RunStateChanges ==
  /\ call = "none"
  /\ running' = ~running
  /\ UNCHANGED <<slots, objects, armed, call, current, core, retry, failed>>

(* The first slot not in use, or a new one behind them all.                *)
FreeSlots(used) == {i \in DOMAIN used : ~used[i]}
NewSlot(used) ==
  IF FreeSlots(used) = {}
  THEN Len(used) + 1
  ELSE CHOOSE i \in FreeSlots(used) : \A j \in FreeSlots(used) : i <= j

(* A new slot is pushed before the request is sent, and not in use yet.  A *)
(* definition named "...Wrong" is a plausible bug in the definition that   *)
(* follows it; no specification uses it.                                   *)
GrownWrong(used) == Append(used, FALSE)
Grown(used) == IF FreeSlots(used) = {} THEN Append(used, FALSE) ELSE used

(* CreateCodeBreakpoint and CreateDataBreakpoint up to their loops; while a*)
(* command is in progress the first request throws.                        *)
Create(bp) ==
  /\ call = "none" /\ bp \notin Held
  /\ slots' = [slots EXCEPT ![bp.kind] = Grown(@)]
  /\ IF running
     THEN UNCHANGED <<call, current, core, retry>>
     ELSE /\ call' = "create"
          /\ current' = [bp |-> bp, slot |-> NewSlot(slots[bp.kind])]
          /\ core' = 0 /\ retry' = 0
  /\ UNCHANGED <<objects, armed, running, failed>>

(* A breakpoint whose slot is not in use does not exist for these calls.   *)
Exists(o) == o.slot \in DOMAIN slots[o.bp.kind] /\ slots[o.bp.kind][o.slot]

(* DeleteCodeBreakpoint and DeleteDataBreakpoint up to their loops; they   *)
(* throw when the slot is not in use or a command is in progress.          *)
Delete(o) ==
  /\ call = "none" /\ o \in objects
  /\ Exists(o) /\ ~running
  /\ call' = "delete"
  /\ current' = o
  /\ core' = 0 /\ retry' = 0
  /\ UNCHANGED <<slots, objects, armed, running, failed>>

-----------------------------------------------------------------------------
(* The loop over the cores.                                                *)

(* The request is Z with a create and z with a delete.                     *)
CarriedOutWrong(set, bp) == set \cup {bp}
CarriedOut(set, bp) == IF call = "create" THEN set \cup {bp} ELSE set \ {bp}

(* IS_RETRY_ALLOWED.                                                       *)
IsRetryAllowedWrong(count) == count < MaxTries - 1
IsRetryAllowed(count) == count < MaxTries

IsLastCore(c) == c + 1 = NumCores

(* The call returns once every core has been asked, whatever it answered.  *)
NextCore ==
  /\ retry' = 0
  /\ IF IsLastCore(core)
     THEN /\ call' = "none"
          /\ core' = 0
          /\ objects' = IF call = "create"
                        THEN objects \cup {current}
                        ELSE objects \ {current}
     ELSE /\ core' = core + 1
          /\ UNCHANGED <<call, objects>>

(* A request was not carried out, one more of a bounded number.            *)
Fault == failed < MaxFailed /\ failed' = failed + 1

(* The server may have carried the request out or not.                     *)
PerhapsCarriedOut ==
  \/ armed' = [armed EXCEPT ![core] = CarriedOut(@, current.bp)]
  \/ UNCHANGED armed

(* The reply "OK": the slot is in use after a create, free after a delete. *)
MarkSlot(used, i) == [used EXCEPT ![i] = (call = "create")]

RequestOK ==
  /\ call # "none"
  /\ armed' = [armed EXCEPT ![core] = CarriedOut(@, current.bp)]
  /\ slots' = [slots EXCEPT ![current.bp.kind] = MarkSlot(@, current.slot)]
  /\ NextCore
  /\ UNCHANGED <<running, current, failed>>

(* An error reply: the exception is built and never thrown.                *)
RequestRefused ==
  /\ call # "none"
  /\ Fault
  /\ NextCore
  /\ UNCHANGED <<slots, armed, running, current>>

(* IS_BAD_REPLY: an empty packet or a stop reply, of a server that does not*)
(* know the request or has something else to say.                          *)
UnexpectedReply ==
  /\ call # "none"
  /\ IF retry + 1 = MaxTries THEN Fault ELSE UNCHANGED failed
  /\ PerhapsCarriedOut
  /\ IF IsRetryAllowed(retry + 1)
     THEN /\ retry' = retry + 1
          /\ UNCHANGED <<call, core, objects>>
     ELSE NextCore
  /\ UNCHANGED <<slots, running, current>>

(* No reply: the link throws out of the loop.  The engine gets no object of*)
(* a create, and keeps the one that it wanted to delete.                   *)
RequestThrows ==
  /\ call # "none"
  /\ Fault
  /\ PerhapsCarriedOut
  /\ call' = "none"
  /\ core' = 0 /\ retry' = 0
  /\ UNCHANGED <<slots, objects, running, current>>

-----------------------------------------------------------------------------
CallerNext ==
  \/ \E bp \in AllBreakpoints : Create(bp)
  \/ \E o \in objects : Delete(o)
LoopNext == RequestOK \/ RequestRefused \/ UnexpectedReply \/ RequestThrows
SlotsNext == RunStateChanges \/ CallerNext \/ LoopNext

SlotsSpec == SlotsInit /\ [][SlotsNext]_slotVars

-----------------------------------------------------------------------------
Used(kind) == {i \in DOMAIN slots[kind] : slots[kind][i]}
ObjectsOf(kind) == {o \in objects : o.bp.kind = kind}

(* Two objects share no slot, unless a request was not carried out: a      *)
(* number stands for one breakpoint.                                       *)
SlotsDistinct ==
  failed = 0 =>
    \A o, p \in objects : o.bp.kind = p.bp.kind /\ o.slot = p.slot => o = p

(* Between two calls every core of the target stops at the breakpoints that*)
(* the engine holds, and at no other.  Unexpected replies do not disturb   *)
(* this unless there are MaxTries in a row.                                *)
HeldArmed == failed = 0 /\ call = "none" => \A c \in Cores : armed[c] = Held

(* While all requests are carried out, breakpoints and slots are the ones  *)
(* the engine holds.                                                       *)
BreakpointsIntact == SlotsDistinct /\ HeldArmed

(* Each request that is not carried out costs at most one slot: that many  *)
(* slots are in use without an object, or objects are without a slot.      *)
SlotsAccounted ==
  call = "none" => \A k \in Kinds :
    LET used == Cardinality(Used(k))
        held == Cardinality(ObjectsOf(k))
    IN  used <= held + failed /\ held <= used + failed

(* The vectors grow no longer than the breakpoints held at a time and the  *)
(* slots lost make them.                                                   *)
SlotsBounded == \A k \in Kinds : Len(slots[k]) <= Cardinality(Places) + failed

(* The vectors of slots, whatever fails.                                   *)
SlotsKept == SlotsTypeOK /\ SlotsAccounted /\ SlotsBounded

-----------------------------------------------------------------------------
(* The breakpoints that stop the target between two calls; during a call,  *)
(* those that stopped it before.                                           *)
Live ==
  IF call = "none"
  THEN {bp \in AllBreakpoints : \A c \in Cores : bp \in armed[c]}
  ELSE Held

Table == INSTANCE BreakpointTable WITH
  Breakpoints <- AllBreakpoints, held <- Held, live <- Live, intact <- failed = 0

(* Each call that returns has taken effect on the whole target, at once,   *)
(* until a request is not carried out.                                     *)
ImplementsTable == Table!Spec

=============================================================================
