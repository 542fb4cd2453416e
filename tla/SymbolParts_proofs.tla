-------------------------- MODULE SymbolParts_proofs --------------------------
(***************************************************************************)
(* Proofs about parts of SymBuilder.  However the services of a target     *)
(* change and its modules come and go, the manager's tables are those of   *)
(* the services there are, and the debugger finds what a script created.   *)
(* Whatever a script does to the variables of a function and their live    *)
(* ranges, the debugger's answers are current, the ranges nested, the      *)
(* parameters in order and the iterations whole.  Whatever function is     *)
(* disassembled, the ranges that are computed for its parameters are those *)
(* that its blocks bring.  SymbolTypes_proofs proves what the tree of      *)
(* symbols keeps to; the end carries it over to its part, and proves how   *)
(* the fields of a class or an enum are laid out.                          *)
(***************************************************************************)
EXTENDS SymbolParts, SequenceTheorems, FiniteSetTheorems, WellFoundedInduction, TLAPS

-----------------------------------------------------------------------------
(* The manager: the inductive invariant.                                   *)

(* What the variables of the manager are functions of.                     *)
ManagerTypes ==
  /\ DOMAIN container = Manager!Services
  /\ DOMAIN manager = {"there", "cached", "registers", "whole", "convention"}
  /\ DOMAIN manager.cached = Manager!Pointers
  /\ DOMAIN provider = {"there", "manager", "kernel"}
  /\ faults \in Nat

(* The provider stands behind the manager, unless a registration failed,   *)
(* and knows what kind of target it is.                                    *)
ProviderInv ==
  /\ provider.manager => provider.there
  /\ provider.there => provider.manager /\ manager.there /\ provider.kernel = Manager!IsKernel
  /\ faults = 0 /\ manager.there => provider.there

(* The symbol sets are those that scripts created, each for the load of its*)
(* module that it was created for.                                         *)
SetsInv ==
  /\ \A r \in created :
       /\ r.process \in DOMAIN tracked /\ r.module \in DOMAIN tracked[r.process]
       /\ tracked[r.process][r.module].load = r.load
  /\ \A k \in DOMAIN tracked : \A m \in DOMAIN tracked[k] :
       [process |-> k, module |-> m, load |-> tracked[k][m].load] \in created
  /\ created # {} => manager.there

ManagerInv == ManagerTypes /\ Manager!TablesFollow /\ ProviderInv /\ SetsInv

(* The services there are.                                                 *)
LEMMA ServiceNames ==
  /\ Manager!Services = {"process", "module", "arch", "platform", "machine"}
  /\ Manager!Pointers = {"process", "module", "arch", "platform"}
BY DEF Manager!Services, Manager!Pointers, Manager!Contents

-----------------------------------------------------------------------------
(* Its steps keep the invariant.                                           *)

(* A manager that is put into the container has the services it has.       *)
LEMMA ManagerMade ==
  LET m == Manager!InitializeServices
  IN ManagerTypes =>
       /\ DOMAIN m = {"there", "cached", "registers", "whole", "convention"}
       /\ DOMAIN m.cached = Manager!Pointers /\ m.there
       /\ \A s \in Manager!Pointers : m.cached[s] = container[s]
       /\ container.arch # "none" =>
            /\ m.registers = container.arch /\ m.whole = (container.arch # "broken")
            /\ m.convention => container.arch = "amd64" /\ Manager!IsWindows(container.platform)
BY ServiceNames
DEF ManagerTypes, Manager!InitializeServices, Manager!InitArchBased, Manager!NoManager

(* It hears of the change of a service.                                    *)
LEMMA ServiceNoted ==
  ASSUME ManagerTypes, Manager!TablesFollow, manager.there, NEW s \in Manager!Pointers, NEW new,
         container' = [container EXCEPT ![s] = new],
         manager' = Manager!NotifyServiceChange(s, new)
  PROVE  /\ DOMAIN manager' = {"there", "cached", "registers", "whole", "convention"}
         /\ DOMAIN manager'.cached = Manager!Pointers /\ manager'.there
         /\ Manager!TablesFollow'
<1> DEFINE noted == [manager EXCEPT !.cached[s] = new]
<1>1. /\ DOMAIN noted = {"there", "cached", "registers", "whole", "convention"}
      /\ DOMAIN noted.cached = Manager!Pointers /\ noted.there
      /\ noted.cached[s] = new
      /\ \A t \in Manager!Pointers : t # s => noted.cached[t] = manager.cached[t]
      /\ noted.registers = manager.registers /\ noted.whole = manager.whole
      /\ noted.convention = manager.convention
  BY ServiceNames DEF ManagerTypes
<1>2. /\ \A t \in Manager!Pointers : noted.cached[t] = container'[t]
      /\ \A t \in Manager!Services : t # s => container'[t] = container[t]
      /\ container'[s] = new
  BY <1>1, ServiceNames DEF ManagerTypes, Manager!TablesFollow
<1>3. manager' = IF s \in {"arch", "platform"} /\ new # "none"
                 THEN Manager!InitArchBased(noted) ELSE noted
  BY DEF Manager!NotifyServiceChange
<1> HIDE DEF noted
<1>4. CASE s \in {"arch", "platform"} /\ new # "none"
  <2>1. /\ DOMAIN manager' = {"there", "cached", "registers", "whole", "convention"}
        /\ manager'.cached = noted.cached /\ manager'.there
        /\ manager'.registers = noted.cached.arch
        /\ manager'.whole = (noted.cached.arch # "broken")
        /\ manager'.convention = (noted.cached.arch = "amd64" /\ Manager!IsWindows(noted.cached.platform))
    BY <1>1, <1>3, <1>4 DEF Manager!InitArchBased
  <2>2. noted.cached.arch = container'.arch /\ noted.cached.platform = container'.platform
    BY <1>2, ServiceNames
  <2>3. \A t \in Manager!Pointers : manager'.cached[t] = container'[t]
    BY <1>2, <2>1
  <2>4. /\ manager'.registers = container'.arch /\ manager'.whole = (container'.arch # "broken")
        /\ manager'.convention =>
             container'.arch = "amd64" /\ Manager!IsWindows(container'.platform)
    BY <2>1, <2>2
  <2>5. Manager!TablesFollow'
    BY <2>3, <2>4 DEF Manager!TablesFollow, Manager!IsWindows
  <2> QED BY <1>1, <2>1, <2>5
<1>5. CASE ~(s \in {"arch", "platform"} /\ new # "none")
  <2>1. manager' = noted
    BY <1>3, <1>5
  <2>2. container'.arch # "none" =>
          /\ container'.arch = container.arch
          /\ container'.platform = container.platform \/ container'.platform = "none"
    BY <1>2, <1>5, ServiceNames
  <2> QED BY <1>1, <1>2, <2>1, <2>2, ServiceNames DEF Manager!TablesFollow, Manager!IsWindows
<1> QED BY <1>4, <1>5

(* A service comes, goes or is another.                                    *)
LEMMA ServiceChangesStep ==
  ASSUME ManagerInv, NEW s \in Manager!Services, Manager!ServiceChanges(s)
  PROVE  ManagerInv'
<1>1. PICK new : /\ container' = [container EXCEPT ![s] = new]
                 /\ manager' = IF manager.there /\ s \in Manager!Pointers
                               THEN Manager!NotifyServiceChange(s, new) ELSE manager
                 /\ provider' = IF provider.there /\ s = "machine"
                                THEN [provider EXCEPT !.kernel = (new = "debug")] ELSE provider
  BY DEF Manager!ServiceChanges
<1>2. UNCHANGED <<tracked, created, faults>>
  BY DEF Manager!ServiceChanges
<1>3. /\ DOMAIN manager' = {"there", "cached", "registers", "whole", "convention"}
      /\ DOMAIN manager'.cached = Manager!Pointers /\ manager'.there = manager.there
      /\ Manager!TablesFollow'
  <2>1. CASE manager.there /\ s \in Manager!Pointers
    <3>1. manager'.there /\ manager.there
      BY <1>1, <2>1, ServiceNoted DEF ManagerInv
    <3> QED BY <1>1, <2>1, <3>1, ServiceNoted DEF ManagerInv
  <2>2. CASE ~manager.there
    BY <1>1, <2>2 DEF ManagerInv, ManagerTypes, Manager!TablesFollow
  <2>3. CASE s \notin Manager!Pointers
    <3>1. manager' = manager /\ \A t \in Manager!Pointers : container'[t] = container[t]
      BY <1>1, <2>3, ServiceNames DEF ManagerInv, ManagerTypes
    <3>2. container'.arch = container.arch /\ container'.platform = container.platform
      BY <3>1, ServiceNames
    <3> QED BY <3>1, <3>2 DEF ManagerInv, ManagerTypes, Manager!TablesFollow
  <2> QED BY <2>1, <2>2, <2>3
<1>4. ManagerTypes'
  BY <1>1, <1>2, <1>3 DEF ManagerInv, ManagerTypes
<1>5. ProviderInv'
  <2> DEFINE debug == (new = "debug")
  <2>1. CASE provider.there /\ s = "machine"
    <3>1. provider' = [provider EXCEPT !.kernel = debug] /\ container'.machine = new
      BY <1>1, <2>1, ServiceNames DEF ManagerInv, ManagerTypes
    <3> HIDE DEF debug
    <3>2. /\ provider'.there = provider.there /\ provider'.manager = provider.manager
          /\ provider'.kernel = debug
      BY <3>1 DEF ManagerInv, ManagerTypes
    <3>3. provider'.kernel = Manager!IsKernel'
      BY <3>1, <3>2 DEF debug, Manager!IsKernel
    <3> QED BY <1>2, <1>3, <3>2, <3>3 DEF ManagerInv, ProviderInv
  <2>2. CASE ~provider.there
    BY <1>1, <1>2, <1>3, <2>2 DEF ManagerInv, ProviderInv
  <2>3. CASE s # "machine"
    <3>1. provider' = provider /\ container'.machine = container.machine
      BY <1>1, <2>3, ServiceNames DEF ManagerInv, ManagerTypes
    <3> QED BY <1>2, <1>3, <3>1 DEF ManagerInv, ProviderInv, Manager!IsKernel
  <2> QED BY <2>1, <2>2, <2>3
<1>6. SetsInv'
  BY <1>2, <1>3 DEF ManagerInv, SetsInv
<1> QED BY <1>3, <1>4, <1>5, <1>6 DEF ManagerInv

(* The manager is registered, or the provider is not.                      *)
LEMMA InjectionFailsStep ==
  ASSUME ManagerInv, Manager!InjectionFails
  PROVE  ManagerInv'
<1>1. /\ ~manager.there /\ faults' = faults + 1 /\ faults \in Nat
      /\ manager' = manager \/ manager' = Manager!InitializeServices
      /\ UNCHANGED <<container, provider, tracked, created>>
  BY DEF Manager!InjectionFails, ManagerInv, ManagerTypes
<1>2. created = {} /\ ~provider.there /\ faults' # 0
  BY <1>1 DEF ManagerInv, SetsInv, ProviderInv
<1>3. /\ DOMAIN manager' = {"there", "cached", "registers", "whole", "convention"}
      /\ DOMAIN manager'.cached = Manager!Pointers /\ Manager!TablesFollow'
  <2>1. CASE manager' = manager
    BY <1>1, <2>1 DEF ManagerInv, ManagerTypes, Manager!TablesFollow
  <2>2. CASE manager' = Manager!InitializeServices
    BY <1>1, <2>2, ManagerMade DEF ManagerInv, Manager!TablesFollow
  <2> QED BY <1>1, <2>1, <2>2
<1>4. ManagerTypes' /\ ProviderInv' /\ SetsInv'
  BY <1>1, <1>2, <1>3 DEF ManagerInv, ManagerTypes, ProviderInv, SetsInv
<1> QED BY <1>3, <1>4 DEF ManagerInv

(* A call of a script has manager and provider put into the container.     *)
LEMMA ManagerGot ==
  ASSUME ManagerInv, Manager!GetSymbolBuilderManager, UNCHANGED <<container, faults>>
  PROVE  ManagerTypes' /\ Manager!TablesFollow' /\ ProviderInv' /\ manager'.there
<1>1. CASE manager.there /\ UNCHANGED <<manager, provider>>
  BY <1>1 DEF ManagerInv, ManagerTypes, Manager!TablesFollow, ProviderInv, Manager!IsKernel
<1>2. CASE manager' = Manager!InitializeServices /\ provider' = Manager!Provider
  <2> DEFINE debug == Manager!IsKernel
  <2>1. /\ DOMAIN manager' = {"there", "cached", "registers", "whole", "convention"}
        /\ DOMAIN manager'.cached = Manager!Pointers /\ Manager!TablesFollow' /\ manager'.there
    BY <1>2, ManagerMade DEF ManagerInv, Manager!TablesFollow
  <2>2. provider' = [there |-> TRUE, manager |-> TRUE, kernel |-> debug]
    BY <1>2 DEF Manager!Provider
  <2>3. debug = Manager!IsKernel'
    BY DEF Manager!IsKernel
  <2> HIDE DEF debug
  <2>4. /\ DOMAIN provider' = {"there", "manager", "kernel"}
        /\ provider'.there /\ provider'.manager /\ provider'.kernel = debug
    BY <2>2
  <2> QED BY <2>1, <2>3, <2>4 DEF ManagerInv, ManagerTypes, ProviderInv
<1> QED BY <1>1, <1>2 DEF Manager!GetSymbolBuilderManager, Manager!Injects

(* A process that comes to be tracked keeps its symbol sets.               *)
LEMMA ProcessTracked ==
  ASSUME SetsInv, NEW key, tracked' = Manager!TrackProcessForKey(key, Manager!Tracked(key)),
         UNCHANGED created, manager.there => manager'.there
  PROVE  SetsInv'
<1>1. /\ DOMAIN tracked' = DOMAIN tracked \cup {key}
      /\ \A k \in DOMAIN tracked : tracked'[k] = tracked[k]
      /\ key \notin DOMAIN tracked => DOMAIN tracked'[key] = {}
  BY DEF Manager!TrackProcessForKey, Manager!Tracked
<1> QED BY <1>1 DEF SetsInv

(* A script gets the symbols of a module.                                  *)
LEMMA GetSymbolBuilderSymbolsStep ==
  ASSUME ManagerInv, NEW p, NEW m, Manager!GetSymbolBuilderSymbols(p, m)
  PROVE  ManagerInv'
<1>1. /\ Manager!GetSymbolBuilderManager /\ UNCHANGED <<container, faults, created>>
      /\ \E key : tracked' = Manager!TrackProcessForKey(key, Manager!Tracked(key))
  BY DEF Manager!GetSymbolBuilderSymbols
<1>2. SetsInv'
  BY <1>1, ManagerGot, ProcessTracked DEF ManagerInv
<1> QED BY <1>1, <1>2, ManagerGot DEF ManagerInv

(* A script creates symbols for a module.                                  *)
LEMMA CreateSymbolsStep ==
  ASSUME ManagerInv, NEW p, NEW m, Manager!CreateSymbols(p, m)
  PROVE  ManagerInv'
<1> DEFINE key == Manager!ProcessKey(p, Manager!IsKernel)
           sets == Manager!Tracked(key)
           new == [load |-> loaded[key][m]]
           more == [k \in DOMAIN sets \cup {m} |-> IF k = m THEN new ELSE sets[k]]
           r == [process |-> key, module |-> m, load |-> loaded[key][m]]
<1>1. /\ Manager!GetSymbolBuilderManager /\ UNCHANGED <<container, faults>>
      /\ \/ tracked' = Manager!TrackProcessForKey(key, sets) /\ UNCHANGED created
         \/ /\ m \notin DOMAIN sets
            /\ tracked' = Manager!TrackProcessForKey(key, more) /\ created' = created \cup {r}
  BY DEF Manager!CreateSymbols
<1>2. SetsInv /\ manager'.there
  BY <1>1, ManagerGot DEF ManagerInv
<1>3. SetsInv'
  <2>1. CASE tracked' = Manager!TrackProcessForKey(key, sets) /\ UNCHANGED created
    BY <1>2, <2>1, ProcessTracked
  <2>2. CASE /\ m \notin DOMAIN sets
             /\ tracked' = Manager!TrackProcessForKey(key, more) /\ created' = created \cup {r}
    <3>1. r.process = key /\ r.module = m /\ r.load = loaded[key][m]
      OBVIOUS
    <3>2. DOMAIN more = DOMAIN sets \cup {m} /\ more[m].load = loaded[key][m]
          /\ \A k \in DOMAIN sets : more[k] = sets[k]
      BY <2>2
    <3>3. key \in DOMAIN tracked => sets = tracked[key]
      BY DEF Manager!Tracked
    <3>4. key \notin DOMAIN tracked => DOMAIN sets = {}
      BY DEF Manager!Tracked
    <3> HIDE DEF key, sets, more, r
    <3>5. /\ DOMAIN tracked' = DOMAIN tracked \cup {key} /\ tracked'[key] = more
          /\ \A k \in DOMAIN tracked : k # key => tracked'[k] = tracked[k]
      BY <2>2 DEF Manager!TrackProcessForKey
    <3>6. ASSUME NEW q \in created'
          PROVE  /\ q.process \in DOMAIN tracked' /\ q.module \in DOMAIN tracked'[q.process]
                 /\ tracked'[q.process][q.module].load = q.load
      <4>1. CASE q = r
        BY <3>1, <3>2, <3>5, <4>1
      <4>2. CASE q \in created
        BY <1>2, <2>2, <3>2, <3>3, <3>5, <4>2 DEF SetsInv
      <4> QED BY <2>2, <4>1, <4>2
    <3>7. ASSUME NEW k \in DOMAIN tracked', NEW n \in DOMAIN tracked'[k]
          PROVE  [process |-> k, module |-> n, load |-> tracked'[k][n].load] \in created'
      <4>1. CASE k # key
        BY <1>2, <2>2, <3>5, <4>1 DEF SetsInv
      <4>2. CASE k = key /\ n = m
        BY <2>2, <3>2, <3>5, <4>2 DEF r, key
      <4>3. CASE k = key /\ n \in DOMAIN sets
        <5>1. key \in DOMAIN tracked /\ sets = tracked[key] /\ tracked'[key][n] = tracked[key][n]
          BY <2>2, <3>2, <3>3, <3>4, <3>5, <4>3
        <5> QED BY <1>2, <2>2, <4>3, <5>1 DEF SetsInv
      <4> QED BY <3>2, <3>5, <4>1, <4>2, <4>3
    <3> QED BY <1>2, <3>6, <3>7 DEF SetsInv
  <2> QED BY <1>1, <2>1, <2>2
<1> QED BY <1>1, <1>3, ManagerGot DEF ManagerInv

(* The debugger looks for the symbols of a module.                         *)
LEMMA LocateSymbolsStep ==
  ASSUME ManagerInv, NEW p, NEW m, Manager!LocateSymbolsForImage(p, m)
  PROVE  ManagerInv'
<1>1. /\ UNCHANGED <<container, manager, provider, created, faults>>
      /\ \E key : tracked' = Manager!TrackProcessForKey(key, Manager!Tracked(key))
  BY DEF Manager!LocateSymbolsForImage
<1>2. SetsInv'
  BY <1>1, ProcessTracked DEF ManagerInv
<1> QED BY <1>1, <1>2
        DEF ManagerInv, ManagerTypes, Manager!TablesFollow, ProviderInv, Manager!IsKernel

(* A step that changes none of what the invariant is about keeps it.       *)
LEMMA ManagerUnchanged ==
  ASSUME ManagerInv, UNCHANGED <<container, manager, provider, tracked, created, faults>>
  PROVE  ManagerInv'
BY DEF ManagerInv, ManagerTypes, Manager!TablesFollow, ProviderInv, SetsInv, Manager!IsKernel

(* Every step of the parts keeps the invariant.                            *)
LEMMA ManagerStep ==
  ASSUME ManagerInv, [PartsNext]_<<part, typeVars, fieldVars, functionVars, rangeVars, managerVars>>
  PROVE  ManagerInv'
<1>1. UNCHANGED managerVars => ManagerInv'
  BY ManagerUnchanged DEF managerVars
<1>2. Manager!Next => ManagerInv'
  <2>1. \A p, m : Manager!ModuleComesOrGoes(p, m) =>
          UNCHANGED <<container, manager, provider, tracked, created, faults>>
    BY DEF Manager!ModuleComesOrGoes
  <2> QED BY <2>1, ServiceChangesStep, InjectionFailsStep, GetSymbolBuilderSymbolsStep,
             CreateSymbolsStep, LocateSymbolsStep, ManagerUnchanged DEF Manager!Next
<1> QED BY <1>1, <1>2 DEF PartsNext

(* No manager is there initially.                                          *)
LEMMA ManagerInit ==
  ASSUME PartsInit
  PROVE  ManagerInv
<1>1. PICK services : Manager!Start(services) /\ DOMAIN services = Manager!Services
  BY DEF PartsInit, Manager!Init
<1>2. /\ container = services /\ manager = Manager!NoManager
      /\ provider = [there |-> FALSE, manager |-> FALSE, kernel |-> FALSE]
      /\ tracked = <<>> /\ created = {} /\ faults = 0
  BY <1>1 DEF Manager!Start
<1> QED BY <1>1, <1>2
        DEF ManagerInv, ManagerTypes, Manager!TablesFollow, ProviderInv, SetsInv, Manager!NoManager

(* What the invariant says of what the debugger finds.                     *)
LEMMA ManagerPromised ==
  ASSUME ManagerInv
  PROVE  Manager!ManagerFollows
<1>1. ASSUME NEW p \in Processes, NEW m \in Modules, NEW key,
             key = Manager!ProcessKey(p, Manager!IsKernel)
      PROVE  /\ Manager!Located(p, m) # 0 =>
                  [process |-> key, module |-> m, load |-> Manager!Located(p, m)] \in created
             /\ faults = 0 /\ [process |-> key, module |-> m, load |-> loaded[key][m]] \in created
                  => Manager!Located(p, m) = loaded[key][m]
  <2>1. provider.there => Manager!ProcessKey(p, provider.kernel) = key
    BY <1>1 DEF ManagerInv, ProviderInv
  <2>2. ASSUME Manager!Located(p, m) # 0
        PROVE  [process |-> key, module |-> m, load |-> Manager!Located(p, m)] \in created
    <3>1. provider.there /\ m \in DOMAIN Manager!Tracked(key)
          /\ Manager!Located(p, m) = Manager!Tracked(key)[m].load
      BY <2>1, <2>2 DEF Manager!Located, ManagerInv, ProviderInv
    <3>2. key \in DOMAIN tracked /\ Manager!Tracked(key) = tracked[key]
      BY <3>1 DEF Manager!Tracked
    <3> QED BY <3>1, <3>2 DEF ManagerInv, SetsInv
  <2>3. ASSUME faults = 0, [process |-> key, module |-> m, load |-> loaded[key][m]] \in created
        PROVE  Manager!Located(p, m) = loaded[key][m]
    <3>1. provider.manager /\ provider.there
      BY <2>3 DEF ManagerInv, ProviderInv, SetsInv
    <3>2. key \in DOMAIN tracked /\ m \in DOMAIN tracked[key] /\ tracked[key][m].load = loaded[key][m]
      BY <2>3 DEF ManagerInv, SetsInv
    <3> QED BY <2>1, <3>1, <3>2 DEF Manager!Located, Manager!Tracked
  <2> QED BY <2>2, <2>3
<1>2. ASSUME NEW p \in Processes, NEW m \in Modules, NEW key, NEW load, NEW loadsOf,
             key = Manager!ProcessKey(p, Manager!IsKernel), load = loaded[key][m], load # 0,
             loadsOf = {r.load : r \in {c \in created : c.process = key /\ c.module = m}},
             loadsOf \subseteq {load}
      PROVE  /\ Manager!Located(p, m) \in {0} \cup loadsOf
             /\ faults = 0 /\ loadsOf # {} => Manager!Located(p, m) = load
  <2> DEFINE record(l) == [process |-> key, module |-> m, load |-> l]
  <2>1. ASSUME Manager!Located(p, m) # 0 PROVE Manager!Located(p, m) \in loadsOf
    <3>1. record(Manager!Located(p, m)) \in {c \in created : c.process = key /\ c.module = m}
      BY <1>1, <1>2, <2>1
    <3>2. record(Manager!Located(p, m)).load = Manager!Located(p, m)
      OBVIOUS
    <3> QED BY <1>2, <3>1, <3>2
  <2>2. ASSUME faults = 0, loadsOf # {}
        PROVE  Manager!Located(p, m) = load
    <3>1. PICK c \in created : c.process = key /\ c.module = m /\ c.load = load
      BY <1>2, <2>2
    <3>2. /\ key \in DOMAIN tracked /\ m \in DOMAIN tracked[key]
          /\ tracked[key][m].load = load
      BY <3>1 DEF ManagerInv, SetsInv
    <3>3. record(load) \in created
      BY <3>2 DEF ManagerInv, SetsInv
    <3> QED BY <1>1, <1>2, <2>2, <3>3
  <2> QED BY <2>1, <2>2
<1>3. Manager!CreatedFound
  BY <1>2 DEF Manager!CreatedFound
<1> QED BY <1>3 DEF ManagerInv, Manager!ManagerFollows

(* The manager's tables are those of the services that the target has at   *)
(* any time, and the debugger finds for a module what a script created for *)
(* it and nothing else, if none created symbols for an earlier one of its  *)
(* process and key: for any processes and modules, however often services  *)
(* change, modules come and go and scripts call.                           *)
THEOREM ManagersFollow == PartsSpec => []ManagerFollows
<1>1. PartsInit => ManagerInv
  BY ManagerInit
<1>2. ManagerInv /\ [PartsNext]_<<part, typeVars, fieldVars, functionVars, rangeVars, managerVars>>
        => ManagerInv'
  BY ManagerStep
<1>3. ManagerInv => ManagerFollows
  BY ManagerPromised DEF ManagerFollows
<1> QED BY <1>1, <1>2, <1>3, PTL DEF PartsSpec

-----------------------------------------------------------------------------
(* The variables of a function.                                            *)

(* What the sizes and the bounds are.                                      *)
LEMMA FunctionNumbers ==
  /\ Base \in Nat /\ FunctionSize \in Nat /\ RangeSizes \subseteq 0 .. Span - 1 /\ Span \in Nat
  /\ Base + FunctionSize < Span
  /\ MaxVariables \in Nat /\ MaxRanges \in Nat /\ MaxCalls \in Nat
BY SymbolPartsAssumption

(* Sets are counted as in the modules of theorems.                         *)
LEMMA SameCardinality ==
  ASSUME NEW S
  PROVE  Function!Cardinality(S) = Cardinality(S)
BY DEF Function!Cardinality, Cardinality

(* A set of numbers that is not empty has a least one.                     *)
LEMMA Smallest ==
  ASSUME NEW T, T \subseteq Nat, T # {}
  PROVE  \E x \in T : \A y \in T : x <= y
<1> DEFINE R == OpToRel(<, Nat)
<1>1. IsWellFoundedOn(R, Nat)
  BY NatLessThanWellFounded
<1>2. \A x, y \in Nat : <<y, x>> \in R <=> y < x
  BY DEF OpToRel
<1> HIDE DEF R
<1>3. PICK x \in T : \A y \in T : ~ (<<y, x>> \in R)
  BY <1>1, WFMin
<1>4. x \in Nat /\ \A y \in T : y \in Nat /\ ~(y < x)
  BY <1>2, <1>3
<1>5. \A y \in T : x <= y
  BY <1>4
<1> QED BY <1>5

(* Induction up to a number.                                               *)
LEMMA UpTo ==
  ASSUME NEW n \in Nat, NEW S, 0 \in S, \A k \in 1 .. n : k - 1 \in S => k \in S
  PROVE  \A k \in 0 .. n : k \in S
<1> DEFINE T == {k \in 0 .. n : k \notin S}
<1>1. SUFFICES ASSUME T # {} PROVE FALSE
  OBVIOUS
<1>2. T \subseteq Nat
  OBVIOUS
<1> HIDE DEF T
<1>3. PICK t \in T : \A u \in T : t <= u
  BY <1>1, <1>2, Smallest
<1>4. t \in 1 .. n /\ t \notin S /\ t - 1 \in 0 .. n /\ ~(t <= t - 1)
  BY <1>3 DEF T
<1>5. t - 1 \in S
  BY <1>3, <1>4 DEF T
<1> QED BY <1>4, <1>5

(* The least number of one.                                                *)
LEMMA MinOfOne ==
  ASSUME NEW i \in Nat
  PROVE  Function!Min({i}) = i
<1>1. \A x \in {i} : x = i
  OBVIOUS
<1>2. \E x \in {i} : \A y \in {i} : x =< y
  OBVIOUS
<1> QED BY <1>1, <1>2 DEF Function!Min

(* A sequence without one of its elements.                                 *)
LEMMA Removed ==
  ASSUME NEW S, NEW s \in Seq(S), NEW i \in 1 .. Len(s)
  PROVE  LET t == Function!RemoveAt(s, i)
         IN /\ t \in Seq(S) /\ Len(t) = Len(s) - 1
            /\ \A j \in 1 .. Len(s) - 1 : t[j] = IF j < i THEN s[j] ELSE s[j + 1]
<1>1. Len(s) \in Nat /\ i \in 1 .. Len(s) /\ \A j \in 1 .. Len(s) : s[j] \in S
  BY LenProperties, ElementOfSeq
<1> DEFINE f == SubSeq(s, 1, i - 1)
           g == SubSeq(s, i + 1, Len(s))
<1>2. /\ f \in Seq(S) /\ Len(f) = i - 1 /\ \A j \in 1 .. i - 1 : f[j] = s[j]
  BY <1>1, SubSeqProperties
<1>3. /\ g \in Seq(S) /\ Len(g) = Len(s) - i /\ \A j \in 1 .. Len(s) - i : g[j] = s[i + j]
  BY <1>1, SubSeqProperties
<1> HIDE DEF f, g
<1>4. /\ f \o g \in Seq(S) /\ Len(f \o g) = Len(s) - 1
      /\ \A j \in 1 .. Len(s) - 1 : (f \o g)[j] = IF j <= i - 1 THEN f[j] ELSE g[j - (i - 1)]
  <2>1. /\ f \o g \in Seq(S) /\ Len(f \o g) = Len(f) + Len(g)
        /\ \A j \in 1 .. Len(f) + Len(g) :
             (f \o g)[j] = IF j <= Len(f) THEN f[j] ELSE g[j - Len(f)]
    BY <1>2, <1>3, ConcatProperties
  <2>2. Len(f) + Len(g) = Len(s) - 1
    BY <1>1, <1>2, <1>3
  <2> QED BY <1>2, <2>1, <2>2
<1>5. ASSUME NEW j \in 1 .. Len(s) - 1
      PROVE  (f \o g)[j] = IF j < i THEN s[j] ELSE s[j + 1]
  <2>1. CASE j < i
    BY <1>1, <1>2, <1>4, <2>1
  <2>2. CASE ~(j < i)
    <3>1. j - (i - 1) \in 1 .. Len(s) - i /\ i + (j - (i - 1)) = j + 1 /\ ~(j <= i - 1)
      BY <1>1, <2>2
    <3> QED BY <1>3, <1>4, <2>2, <3>1
  <2> QED BY <2>1, <2>2
<1> QED BY <1>4, <1>5 DEF Function!RemoveAt, f, g

(* A sequence with an element more.                                        *)
LEMMA Inserted ==
  ASSUME NEW S, NEW s \in Seq(S), NEW i \in 1 .. Len(s) + 1, NEW e \in S
  PROVE  LET t == Function!InsertAt(s, i, e)
         IN /\ t \in Seq(S) /\ Len(t) = Len(s) + 1
            /\ \A j \in 1 .. Len(s) + 1 :
                 t[j] = IF j < i THEN s[j] ELSE IF j = i THEN e ELSE s[j - 1]
<1>1. Len(s) \in Nat /\ i \in 1 .. Len(s) + 1 /\ \A j \in 1 .. Len(s) : s[j] \in S
  BY LenProperties, ElementOfSeq
<1> DEFINE f == SubSeq(s, 1, i - 1)
           g == SubSeq(s, i, Len(s))
           m == <<e>>
<1>2. /\ f \in Seq(S) /\ Len(f) = i - 1 /\ \A j \in 1 .. i - 1 : f[j] = s[j]
  BY <1>1, SubSeqProperties
<1>3. /\ g \in Seq(S) /\ Len(g) = Len(s) - i + 1
      /\ \A j \in 1 .. Len(s) - i + 1 : g[j] = s[i + j - 1]
  BY <1>1, SubSeqProperties
<1>4. m \in Seq(S) /\ Len(m) = 1 /\ m[1] = e
  OBVIOUS
<1> HIDE DEF f, g, m
<1> DEFINE h == f \o m
<1>5. /\ h \in Seq(S) /\ Len(h) = i
      /\ \A j \in 1 .. i : h[j] = IF j <= i - 1 THEN f[j] ELSE m[j - (i - 1)]
  <2>1. /\ h \in Seq(S) /\ Len(h) = Len(f) + Len(m)
        /\ \A j \in 1 .. Len(f) + Len(m) : h[j] = IF j <= Len(f) THEN f[j] ELSE m[j - Len(f)]
    BY <1>2, <1>4, ConcatProperties
  <2>2. Len(f) + Len(m) = i
    BY <1>1, <1>2, <1>4
  <2> QED BY <1>2, <2>1, <2>2
<1>6. h[i] = e /\ \A j \in 1 .. i - 1 : h[j] = s[j]
  BY <1>1, <1>2, <1>4, <1>5
<1> HIDE DEF h
<1>7. /\ h \o g \in Seq(S) /\ Len(h \o g) = Len(s) + 1
      /\ \A j \in 1 .. Len(s) + 1 : (h \o g)[j] = IF j <= i THEN h[j] ELSE g[j - i]
  <2>1. /\ h \o g \in Seq(S) /\ Len(h \o g) = Len(h) + Len(g)
        /\ \A j \in 1 .. Len(h) + Len(g) :
             (h \o g)[j] = IF j <= Len(h) THEN h[j] ELSE g[j - Len(h)]
    BY <1>3, <1>5, ConcatProperties
  <2>2. Len(h) + Len(g) = Len(s) + 1
    BY <1>1, <1>3, <1>5
  <2> QED BY <1>5, <2>1, <2>2
<1>8. ASSUME NEW j \in 1 .. Len(s) + 1
      PROVE  (h \o g)[j] = IF j < i THEN s[j] ELSE IF j = i THEN e ELSE s[j - 1]
  <2>1. CASE j < i
    BY SMTT(60), <1>1, <1>6, <1>7, <2>1
  <2>2. CASE j = i
    BY <1>1, <1>6, <1>7, <2>2
  <2>3. CASE j > i
    <3>1. j - i \in 1 .. Len(s) - i + 1 /\ i + (j - i) - 1 = j - 1 /\ ~(j <= i)
      BY <1>1, <2>3
    <3> QED BY <1>3, <1>7, <2>3, <3>1
  <2>4. j < i \/ j = i \/ j > i
    BY <1>1
  <2> QED BY <2>1, <2>2, <2>3, <2>4
<1>9. Function!InsertAt(s, i, e) = h \o g
  BY DEF Function!InsertAt, f, g, h, m
<1> QED BY <1>7, <1>8, <1>9

(* The types of the parameters, one child after the other.                 *)
TypesStep(kids, vs, n, was) ==
  IF Function!IsParameter(vs[kids[n]]) THEN Append(was, vs[kids[n]].type) ELSE was
IsTypes(ts, kids, vs, n) ==
  ts[0] = <<>> /\ \A k \in 1 .. n : ts[k] = TypesStep(kids, vs, k, ts[k - 1])

(* They are the last of a sequence of lists, one for each child.           *)
LEMMA TypesOfParameters ==
  ASSUME NEW kids, Len(kids) \in Nat, NEW vs
  PROVE  \E ts : /\ IsTypes(ts, kids, vs, Len(kids))
                 /\ Function!ParameterTypes(kids, vs) = ts[Len(kids)]
<1> DEFINE N == Len(kids)
           S == {n \in 0 .. N : \E ts : ts = [k \in 0 .. N |-> ts[k]] /\ IsTypes(ts, kids, vs, n)}
<1>1. 0 \in S
  <2> DEFINE ts == [k \in 0 .. N |-> <<>>]
  <2>1. ts = [k \in 0 .. N |-> ts[k]] /\ IsTypes(ts, kids, vs, 0)
    BY DEF IsTypes
  <2> QED BY <2>1
<1>2. ASSUME NEW n \in 1 .. N, n - 1 \in S PROVE n \in S
  <2>1. PICK ts : ts = [k \in 0 .. N |-> ts[k]] /\ IsTypes(ts, kids, vs, n - 1)
    BY <1>2
  <2> DEFINE next == [k \in 0 .. N |-> IF k = n THEN TypesStep(kids, vs, n, ts[n - 1]) ELSE ts[k]]
  <2>2. /\ next[0] = ts[0] /\ next[n] = TypesStep(kids, vs, n, ts[n - 1])
        /\ next[n - 1] = ts[n - 1]
    OBVIOUS
  <2>3. ASSUME NEW k \in 1 .. n PROVE next[k] = TypesStep(kids, vs, k, next[k - 1])
    <3>1. CASE k = n
      BY <2>2, <3>1
    <3>2. CASE k # n
      <4>1. k \in 1 .. n - 1 /\ k - 1 # n /\ k \in 0 .. N /\ k - 1 \in 0 .. N
        BY <3>2
      <4>2. next[k] = ts[k] /\ next[k - 1] = ts[k - 1]
        BY <3>2, <4>1
      <4> QED BY <2>1, <4>1, <4>2 DEF IsTypes
    <3> QED BY <3>1, <3>2
  <2>4. next = [k \in 0 .. N |-> next[k]]
    OBVIOUS
  <2> HIDE DEF next
  <2>5. IsTypes(next, kids, vs, n)
    BY <2>1, <2>2, <2>3 DEF IsTypes
  <2> QED BY <2>4, <2>5
<1> HIDE DEF S
<1>3. N \in S
  <2>1. \A k \in 0 .. N : k \in S
    BY <1>1, <1>2, UpTo
  <2> QED BY <2>1
<1>4. PICK ts : ts = [k \in 0 .. N |-> ts[k]] /\ IsTypes(ts, kids, vs, N)
  BY <1>3 DEF S
<1> DEFINE Body(f) == [n \in 0 .. N |->
                         IF n = 0 THEN <<>>
                         ELSE IF Function!IsParameter(vs[kids[n]])
                         THEN Append(f[n - 1], vs[kids[n]].type)
                         ELSE f[n - 1]]
<1>5. ts = Body(ts)
  <2>1. ASSUME NEW n \in 0 .. N PROVE ts[n] = Body(ts)[n]
    <3>1. CASE n = 0
      BY <1>4, <3>1 DEF IsTypes
    <3>2. CASE n # 0
      <4>1. n \in 1 .. N
        BY <3>2
      <4>2. ts[n] = TypesStep(kids, vs, n, ts[n - 1])
        BY <1>4, <4>1 DEF IsTypes
      <4> QED BY <3>2, <4>2 DEF TypesStep
    <3> QED BY <3>1, <3>2
  <2>2. Body(ts) = [n \in 0 .. N |-> Body(ts)[n]]
    OBVIOUS
  <2> HIDE DEF Body
  <2> QED BY <1>4, <2>1, <2>2
<1> DEFINE the == CHOOSE f : f = Body(f)
<1>6. the = Body(the)
  <2> HIDE DEF Body
  <2> QED BY <1>5
<1>7. Function!ParameterTypes(kids, vs) = the[N]
  BY DEF Function!ParameterTypes
<1> HIDE DEF the
<1>8. ASSUME NEW k \in 0 .. N
      PROVE  the[k] = IF k = 0 THEN <<>> ELSE TypesStep(kids, vs, k, the[k - 1])
  <2>1. Body(the)[k] = IF k = 0 THEN <<>> ELSE TypesStep(kids, vs, k, the[k - 1])
    BY DEF TypesStep
  <2> QED BY <1>6, <2>1
<1>9. IsTypes(the, kids, vs, N)
  BY <1>8 DEF IsTypes
<1> QED BY <1>7, <1>9

(* They are types, if the children are variables.                          *)
LEMMA TypesTyped ==
  ASSUME NEW kids, Len(kids) \in Nat, NEW vs,
         \A i \in 1 .. Len(kids) : vs[kids[i]].type \in Types
  PROVE  Function!ParameterTypes(kids, vs) \in Seq(Types)
<1> DEFINE N == Len(kids)
<1>1. PICK ts : IsTypes(ts, kids, vs, N) /\ Function!ParameterTypes(kids, vs) = ts[N]
  BY TypesOfParameters
<1> DEFINE S == {n \in 0 .. N : ts[n] \in Seq(Types)}
<1>2. 0 \in S
  <2>1. <<>> \in Seq(Types)
    BY EmptySeq
  <2>2. ts[0] \in Seq(Types)
    BY <1>1, <2>1, Zenon DEF IsTypes
  <2> QED BY <2>2
<1>3. ASSUME NEW k \in 1 .. N, k - 1 \in S PROVE k \in S
  <2>1. ts[k - 1] \in Seq(Types) /\ ts[k] = TypesStep(kids, vs, k, ts[k - 1])
    BY <1>1, <1>3 DEF IsTypes
  <2>2. vs[kids[k]].type \in Types
    OBVIOUS
  <2>3. Append(ts[k - 1], vs[kids[k]].type) \in Seq(Types)
    BY <2>1, <2>2, AppendProperties
  <2>4. ts[k] \in Seq(Types)
    BY <2>1, <2>3, Zenon DEF TypesStep
  <2> QED BY <2>4
<1> HIDE DEF S
<1>4. N \in S
  <2>1. \A k \in 0 .. N : k \in S
    BY <1>2, <1>3, UpTo
  <2> QED BY <2>1
<1> QED BY <1>1, <1>4 DEF S

(* They depend on the kinds and types of the children only.                *)
LEMMA TypesSame ==
  ASSUME NEW kids, Len(kids) \in Nat, NEW vs, NEW ws,
         \A i \in 1 .. Len(kids) :
           /\ Function!IsParameter(ws[kids[i]]) <=> Function!IsParameter(vs[kids[i]])
           /\ ws[kids[i]].type = vs[kids[i]].type
  PROVE  Function!ParameterTypes(kids, ws) = Function!ParameterTypes(kids, vs)
<1> DEFINE N == Len(kids)
<1>1. PICK ts : IsTypes(ts, kids, vs, N) /\ Function!ParameterTypes(kids, vs) = ts[N]
  BY TypesOfParameters
<1>2. PICK us : IsTypes(us, kids, ws, N) /\ Function!ParameterTypes(kids, ws) = us[N]
  BY TypesOfParameters
<1> DEFINE S == {n \in 0 .. N : us[n] = ts[n]}
<1>3. 0 \in S
  BY <1>1, <1>2 DEF IsTypes
<1>4. ASSUME NEW k \in 1 .. N, k - 1 \in S PROVE k \in S
  <2>1. /\ us[k - 1] = ts[k - 1] /\ ts[k] = TypesStep(kids, vs, k, ts[k - 1])
        /\ us[k] = TypesStep(kids, ws, k, us[k - 1])
    BY <1>1, <1>2, <1>4 DEF IsTypes
  <2> QED BY <2>1 DEF TypesStep
<1> HIDE DEF S
<1>5. N \in S
  <2>1. \A k \in 0 .. N : k \in S
    BY <1>3, <1>4, UpTo
  <2> QED BY <2>1
<1> QED BY <1>1, <1>2, <1>5 DEF S

RangeRecords ==
  [id : Nat, offset : Function!RangeOffsets, size : RangeSizes \cup {FunctionSize},
   loc : Function!Locations]
VariableRecords ==
  [kind : {"parameter", "local"}, type : Types, curId : Nat, ranges : Seq(RangeRecords),
   alive : BOOLEAN]

(* Two ranges overlap only when one contains the other.                    *)
Nested(r, s) ==
  Function!Overlap(r, s) =>
    \E pair \in {<<r, s>>, <<s, r>>} :
      /\ Function!Ranges!RangeStart(pair[1]) < Function!Ranges!RangeStart(pair[2])
      /\ Function!Ranges!RangeEnd(pair[2]) <= Function!Ranges!RangeEnd(pair[1])

RangesInv(list, curId) ==
  /\ \A i \in 1 .. Len(list) : list[i].id <= curId
  /\ \A i, j \in 1 .. Len(list) : i # j => list[i].id # list[j].id /\ Nested(list[i], list[j])

(* Where a range starts and ends.                                          *)
LEMMA EndsOf ==
  ASSUME NEW r \in RangeRecords
  PROVE  Function!Ranges!RangeStart(r) \in Int /\ Function!Ranges!RangeEnd(r) \in Int
<1>1. r.offset \in Int /\ r.size \in Int
  <2>1. r.offset \in 0 .. FunctionSize /\ r.size \in RangeSizes \cup {FunctionSize}
    BY DEF RangeRecords, Function!RangeOffsets
  <2>2. RangeSizes \subseteq Int /\ FunctionSize \in Int
    BY FunctionNumbers
  <2>3. r.offset \in Int
    BY <2>1, <2>2
  <2>4. r.size \in Int
    BY <2>1, <2>2, Zenon
  <2> QED BY <2>3, <2>4
<1>2. \A n \in Int : n % Span \in Int
  BY FunctionNumbers
<1> QED BY <1>1, <1>2, FunctionNumbers
  DEF Function!Ranges!RangeStart, Function!Ranges!RangeEnd, Function!Ranges!Wrapped

(* A range that neither begins nor ends in another does not overlap it, or *)
(* contains it.                                                            *)
LEMMA NotMetNested ==
  ASSUME NEW r \in RangeRecords, NEW s \in RangeRecords, ~Function!Ranges!MeetsOther(r, s)
  PROVE  Nested(r, s) /\ Nested(s, r)
<1> DEFINE a == Function!Ranges!RangeStart(r)
           b == Function!Ranges!RangeEnd(r)
           c == Function!Ranges!RangeStart(s)
           d == Function!Ranges!RangeEnd(s)
<1>1. a \in Int /\ b \in Int /\ c \in Int /\ d \in Int
  BY EndsOf
<1>2. ~(c <= a /\ a < d) /\ ~(c <= b /\ b < d)
  BY DEF Function!Ranges!MeetsOther, Function!Ranges!Within
<1>3. ASSUME NEW now \in 0 .. Span - 1, a <= now /\ now < b, c <= now /\ now < d
      PROVE  a < c /\ d <= b
  <2>1. now \in Int
    BY FunctionNumbers
  <2> HIDE DEF a, b, c, d
  <2> QED BY <1>1, <1>2, <1>3, <2>1
<1>4. Function!Overlap(r, s) \/ Function!Overlap(s, r) => a < c /\ d <= b
  BY <1>3 DEF Function!Overlap, Function!Ranges!Within
<1> QED BY <1>4 DEF Nested

(* What overlaps depends on where ranges start and end.                    *)
LEMMA NestedSame ==
  ASSUME NEW r, NEW s, NEW t, Nested(r, s), t.offset = r.offset, t.size = r.size
  PROVE  Nested(t, s)
<1>1. /\ Function!Ranges!RangeStart(t) = Function!Ranges!RangeStart(r)
      /\ Function!Ranges!RangeEnd(t) = Function!Ranges!RangeEnd(r)
  BY DEF Function!Ranges!RangeStart, Function!Ranges!RangeEnd
<1>2. Function!Overlap(t, s) => Function!Overlap(r, s)
  BY <1>1 DEF Function!Overlap, Function!Ranges!Within
<1> QED BY <1>1, <1>2 DEF Nested

(* Whether one contains the other is the same either way.                  *)
LEMMA NestedSymmetric ==
  ASSUME NEW r, NEW s, Nested(r, s)
  PROVE  Nested(s, r)
BY DEF Nested, Function!Overlap

(* A range more.                                                           *)
LEMMA RangeAdded ==
  ASSUME NEW list \in Seq(RangeRecords), NEW curId \in Nat, RangesInv(list, curId),
         NEW new \in RangeRecords, new.id = curId + 1,
         Function!Ranges!ValidateLiveRange(list, new, FunctionSize)
  PROVE  Append(list, new) \in Seq(RangeRecords) /\ RangesInv(Append(list, new), new.id)
<1> DEFINE more == Append(list, new)
<1>1. /\ more \in Seq(RangeRecords) /\ Len(more) = Len(list) + 1
      /\ \A i \in 1 .. Len(list) : more[i] = list[i]
      /\ more[Len(list) + 1] = new
  BY AppendProperties
<1>2. Len(list) \in Nat /\ DOMAIN list = 1 .. Len(list)
      /\ \A i \in 1 .. Len(list) : list[i] \in RangeRecords
  BY LenProperties, ElementOfSeq
<1> HIDE DEF more
<1>3. ASSUME NEW i \in 1 .. Len(list)
      PROVE  /\ list[i].id # new.id /\ list[i].id <= new.id
             /\ Nested(list[i], new) /\ Nested(new, list[i])
  <2>1. list[i].id # new.id /\ list[i].id <= new.id
    <3>1. list[i].id \in Nat /\ list[i].id <= curId
      BY <1>2 DEF RangesInv, RangeRecords
    <3> QED BY <3>1
  <2>2. ~Function!Ranges!MeetsOther(new, list[i])
    BY <1>2, <2>1 DEF Function!Ranges!ValidateLiveRange
  <2> QED BY <1>2, <2>1, <2>2, NotMetNested
<1>4. new.id <= new.id
  BY DEF RangeRecords
<1>5. ASSUME NEW i \in 1 .. Len(more) PROVE more[i].id <= new.id
  <2>1. i \in 1 .. Len(list) \/ i = Len(list) + 1
    BY <1>1, <1>2
  <2> QED BY <1>1, <1>3, <1>4, <2>1
<1>6. ASSUME NEW i \in 1 .. Len(more), NEW j \in 1 .. Len(more), i # j
      PROVE  more[i].id # more[j].id /\ Nested(more[i], more[j])
  <2>1. /\ i \in 1 .. Len(list) \/ i = Len(list) + 1
        /\ j \in 1 .. Len(list) \/ j = Len(list) + 1
    BY <1>1, <1>2
  <2> QED BY <1>1, <1>3, <1>6, <2>1 DEF RangesInv
<1> QED BY <1>1, <1>5, <1>6 DEF RangesInv, more

(* A range set anew.                                                       *)
LEMMA RangeSet ==
  ASSUME NEW list \in Seq(RangeRecords), NEW curId \in Nat, RangesInv(list, curId),
         NEW i \in 1 .. Len(list), NEW new \in RangeRecords, new.id = list[i].id,
         \/ new.offset = list[i].offset /\ new.size = list[i].size
         \/ Function!Ranges!ValidateLiveRange(list, new, FunctionSize)
  PROVE  /\ [list EXCEPT ![i] = new] \in Seq(RangeRecords)
         /\ Len([list EXCEPT ![i] = new]) = Len(list)
         /\ RangesInv([list EXCEPT ![i] = new], curId)
         /\ \A j \in 1 .. Len(list) : [list EXCEPT ![i] = new][j].id = list[j].id
<1> DEFINE next == [list EXCEPT ![i] = new]
<1>1. /\ next \in Seq(RangeRecords) /\ Len(next) = Len(list)
      /\ \A j \in 1 .. Len(list) : next[j] = IF j = i THEN new ELSE list[j]
  BY ExceptSeq
<1>2. Len(list) \in Nat /\ DOMAIN list = 1 .. Len(list)
      /\ \A j \in 1 .. Len(list) : list[j] \in RangeRecords
  BY LenProperties, ElementOfSeq
<1> HIDE DEF next
<1>3. ASSUME NEW j \in 1 .. Len(list), j # i
      PROVE  Nested(list[j], new) /\ Nested(new, list[j])
  <2>1. list[j].id # new.id /\ Nested(list[i], list[j])
    BY <1>3 DEF RangesInv
  <2>2. CASE new.offset = list[i].offset /\ new.size = list[i].size
    BY <2>1, <2>2, NestedSame, NestedSymmetric
  <2>3. CASE Function!Ranges!ValidateLiveRange(list, new, FunctionSize)
    <3>1. ~Function!Ranges!MeetsOther(new, list[j])
      BY <1>2, <2>1, <2>3 DEF Function!Ranges!ValidateLiveRange
    <3> QED BY <1>2, <3>1, NotMetNested
  <2> QED BY <2>2, <2>3
<1>4. \A j \in 1 .. Len(list) : next[j].id = list[j].id
  BY <1>1
<1>5. RangesInv(next, curId)
  <2>1. ASSUME NEW j \in 1 .. Len(next), NEW k \in 1 .. Len(next), j # k
        PROVE  next[j].id # next[k].id /\ Nested(next[j], next[k])
    <3>1. j \in 1 .. Len(list) /\ k \in 1 .. Len(list)
      BY <1>1
    <3> QED BY <1>1, <1>3, <1>4, <2>1, <3>1 DEF RangesInv
  <2> QED BY <1>1, <1>4, <2>1 DEF RangesInv
<1> QED BY <1>1, <1>4, <1>5 DEF next

(* A range less.                                                           *)
LEMMA RangeDeleted ==
  ASSUME NEW list \in Seq(RangeRecords), NEW curId \in Nat, RangesInv(list, curId),
         NEW i \in 1 .. Len(list)
  PROVE  /\ Function!RemoveAt(list, i) \in Seq(RangeRecords)
         /\ RangesInv(Function!RemoveAt(list, i), curId)
<1> DEFINE next == Function!RemoveAt(list, i)
<1>1. /\ next \in Seq(RangeRecords) /\ Len(next) = Len(list) - 1
      /\ \A j \in 1 .. Len(list) - 1 : next[j] = IF j < i THEN list[j] ELSE list[j + 1]
  BY Removed
<1>2. Len(list) \in Nat
  BY LenProperties
<1> HIDE DEF next
<1> DEFINE was(j) == IF j < i THEN j ELSE j + 1
<1>3. \A j \in 1 .. Len(next) : was(j) \in 1 .. Len(list) /\ next[j] = list[was(j)]
  BY <1>1, <1>2
<1>4. \A j, k \in 1 .. Len(next) : j # k => was(j) # was(k)
  BY <1>1, <1>2
<1> HIDE DEF was
<1>5. RangesInv(next, curId)
  <2>1. \A j \in 1 .. Len(next) : next[j].id <= curId
    BY <1>3 DEF RangesInv
  <2>2. ASSUME NEW j \in 1 .. Len(next), NEW k \in 1 .. Len(next), j # k
        PROVE  next[j].id # next[k].id /\ Nested(next[j], next[k])
    <3>1. was(j) \in 1 .. Len(list) /\ was(k) \in 1 .. Len(list) /\ was(j) # was(k)
      BY <1>3, <1>4, <2>2
    <3>2. next[j] = list[was(j)] /\ next[k] = list[was(k)]
      BY <1>3
    <3> QED BY <3>1, <3>2 DEF RangesInv
  <2> QED BY <2>1, <2>2 DEF RangesInv
<1> QED BY <1>1, <1>5 DEF next

(* The inductive invariant.                                                *)
VariablesInv ==
  /\ variables \in Seq(VariableRecords)
  /\ \A v \in DOMAIN variables : RangesInv(variables[v].ranges, variables[v].curId)

ChildrenInv ==
  /\ children \in Seq(DOMAIN variables)
  /\ Function!ToSet(children) = Function!Alive /\ Function!IsInjective(children)

TypeInv == functionType = Function!GetFunctionType(returnType, children, variables)

(* An iteration has yielded what comes before its position.                *)
ReadingInv ==
  /\ reading \in [of : DOMAIN variables \cup {0}, cur : Nat, yielded : SUBSET Nat,
                  shifted : BOOLEAN]
  /\ reading.of # 0 /\ ~reading.shifted =>
       LET list == variables[reading.of].ranges
       IN reading.cur <= Len(list) /\ \A i \in 1 .. reading.cur : list[i].id \in reading.yielded

(* Answers are about the function or about a variable.                     *)
SeenInv == \A kept \in seen : kept.of \in DOMAIN variables \cup {0}

FunctionInv ==
  /\ VariablesInv /\ ChildrenInv /\ returnType \in Types /\ ReadingInv /\ SeenInv
  /\ missed \subseteq DOMAIN variables /\ calls \in 0 .. MaxCalls
  /\ Function!AnswersCurrent

(* The fields of a variable.                                               *)
LEMMA FieldsOf ==
  ASSUME VariablesInv, NEW v \in DOMAIN variables
  PROVE  /\ v \in Nat /\ v # 0 /\ DOMAIN variables = 1 .. Len(variables)
         /\ variables[v] \in VariableRecords
         /\ variables[v].ranges \in Seq(RangeRecords) /\ variables[v].curId \in Nat
         /\ variables[v].type \in Types /\ Len(variables[v].ranges) \in Nat
         /\ DOMAIN variables[v].ranges = 1 .. Len(variables[v].ranges)
         /\ RangesInv(variables[v].ranges, variables[v].curId)
<1>1. DOMAIN variables = 1 .. Len(variables) /\ Len(variables) \in Nat
  BY LenProperties DEF VariablesInv
<1>2. variables[v] \in VariableRecords
  BY <1>1, ElementOfSeq DEF VariablesInv
<1>3. /\ variables[v].ranges \in Seq(RangeRecords) /\ variables[v].curId \in Nat
      /\ variables[v].type \in Types
  BY <1>2 DEF VariableRecords
<1>4. /\ Len(variables[v].ranges) \in Nat
      /\ DOMAIN variables[v].ranges = 1 .. Len(variables[v].ranges)
  BY <1>3, LenProperties
<1> QED BY <1>1, <1>2, <1>3, <1>4 DEF VariablesInv

(* One variable changes.                                                   *)
LEMMA VariableChanges ==
  ASSUME VariablesInv, NEW v \in DOMAIN variables, NEW x \in VariableRecords,
         RangesInv(x.ranges, x.curId), variables' = [variables EXCEPT ![v] = x]
  PROVE  /\ VariablesInv' /\ DOMAIN variables' = DOMAIN variables /\ variables'[v] = x
         /\ \A w \in DOMAIN variables : w # v => variables'[w] = variables[w]
<1>1. v \in 1 .. Len(variables) /\ DOMAIN variables = 1 .. Len(variables)
  BY FieldsOf
<1>2. /\ variables' \in Seq(VariableRecords) /\ Len(variables') = Len(variables)
      /\ \A w \in 1 .. Len(variables) : variables'[w] = IF w = v THEN x ELSE variables[w]
  BY <1>1, ExceptSeq DEF VariablesInv
<1>3. DOMAIN variables' = DOMAIN variables
  BY <1>1, <1>2, LenProperties
<1>4. /\ variables'[v] = x
      /\ \A w \in DOMAIN variables : w # v => variables'[w] = variables[w]
  BY <1>1, <1>2
<1>5. ASSUME NEW w \in DOMAIN variables'
      PROVE  RangesInv(variables'[w].ranges, variables'[w].curId)
  <2>1. w \in DOMAIN variables
    BY <1>3
  <2> QED BY <1>4, <2>1 DEF VariablesInv
<1>6. \A w \in DOMAIN variables' :
        RangesInv(variables'[w].ranges, variables'[w].curId) <=>
        RangesInv(variables[w].ranges, variables[w].curId)'
  BY DEF RangesInv, Nested, Function!Overlap
<1> QED BY <1>2, <1>3, <1>4, <1>5, <1>6 DEF VariablesInv

(* The same children are alive.                                            *)
LEMMA ChildrenKept ==
  ASSUME ChildrenInv, UNCHANGED children, DOMAIN variables' = DOMAIN variables,
         \A v \in DOMAIN variables : variables'[v].alive <=> variables[v].alive
  PROVE  ChildrenInv' /\ Function!Alive' = Function!Alive
<1>1. Function!Alive' = Function!Alive
  BY Zenon DEF Function!Alive
<1> QED BY <1>1 DEF ChildrenInv, Function!ToSet, Function!IsInjective

(* The type is one of the children's types.                                *)
LEMMA FunctionTypeKept ==
  ASSUME VariablesInv, ChildrenInv, TypeInv, UNCHANGED <<children, returnType, functionType>>,
         DOMAIN variables' = DOMAIN variables,
         \A v \in DOMAIN variables :
           /\ variables'[v].type = variables[v].type
           /\ Function!IsParameter(variables'[v]) <=> Function!IsParameter(variables[v])
  PROVE  TypeInv'
<1>1. Len(children) \in Nat /\ \A i \in 1 .. Len(children) : children[i] \in DOMAIN variables
  BY LenProperties, ElementOfSeq DEF ChildrenInv
<1>2. Function!ParameterTypes(children, variables') = Function!ParameterTypes(children, variables)
  BY <1>1, TypesSame
<1> QED BY <1>2 DEF TypeInv, Function!GetFunctionType

(* What is iterated over only grows.                                       *)
LEMMA ReadingKept ==
  ASSUME ReadingInv, UNCHANGED reading, DOMAIN variables \subseteq DOMAIN variables',
         \A v \in DOMAIN variables :
           /\ Len(variables[v].ranges) \in Nat /\ Len(variables'[v].ranges) \in Nat
           /\ Len(variables[v].ranges) <= Len(variables'[v].ranges)
           /\ \A i \in 1 .. Len(variables[v].ranges) :
                variables'[v].ranges[i].id = variables[v].ranges[i].id
  PROVE  ReadingInv'
<1>1. reading.of \in DOMAIN variables \cup {0} /\ reading.cur \in Nat
  BY DEF ReadingInv
<1>2. ASSUME reading.of # 0, ~reading.shifted
      PROVE  LET list == variables'[reading.of].ranges
             IN /\ reading.cur <= Len(list)
                /\ \A i \in 1 .. reading.cur : list[i].id \in reading.yielded
  BY <1>1, <1>2 DEF ReadingInv
<1> QED BY <1>2 DEF ReadingInv

(* After a change the debugger keeps nothing.                              *)
LEMMA AnswersForgotten ==
  ASSUME Function!InvalidateExternalCaches, TypeInv'
  PROVE  Function!AnswersCurrent' /\ SeenInv' /\ missed' = {}
BY DEF Function!InvalidateExternalCaches, Function!AnswersCurrent, SeenInv, TypeInv

(* A variable whose live ranges change remains what it was otherwise.      *)
LEMMA RangesChange ==
  ASSUME FunctionInv, NEW v \in DOMAIN variables,
         NEW list \in Seq(RangeRecords), NEW curId \in Nat, RangesInv(list, curId),
         variables' = [variables EXCEPT ![v].curId = curId, ![v].ranges = list],
         UNCHANGED <<children, returnType, functionType>>
  PROVE  /\ VariablesInv' /\ ChildrenInv' /\ Function!Alive' = Function!Alive
         /\ returnType' \in Types /\ TypeInv'
         /\ DOMAIN variables' = DOMAIN variables
         /\ variables'[v].ranges = list
         /\ \A w \in DOMAIN variables : w # v => variables'[w] = variables[w]
<1> DEFINE x == [variables[v] EXCEPT !.curId = curId, !.ranges = list]
<1>1. variables' = [variables EXCEPT ![v] = x]
  OBVIOUS
<1>2. /\ x \in VariableRecords /\ x.ranges = list /\ x.curId = curId
      /\ x.type = variables[v].type /\ x.alive = variables[v].alive /\ x.kind = variables[v].kind
  BY FieldsOf DEF VariableRecords, FunctionInv
<1> HIDE DEF x
<1>3. /\ VariablesInv' /\ DOMAIN variables' = DOMAIN variables /\ variables'[v] = x
      /\ \A w \in DOMAIN variables : w # v => variables'[w] = variables[w]
  BY <1>1, <1>2, VariableChanges DEF FunctionInv
<1>4. \A w \in DOMAIN variables :
        /\ variables'[w].alive = variables[w].alive /\ variables'[w].type = variables[w].type
        /\ variables'[w].kind = variables[w].kind
  BY <1>2, <1>3
<1>5. ChildrenInv' /\ Function!Alive' = Function!Alive
  BY <1>3, <1>4, ChildrenKept DEF FunctionInv
<1>6. \A w \in DOMAIN variables :
        Function!IsParameter(variables'[w]) <=> Function!IsParameter(variables[w])
  BY <1>4, Zenon DEF Function!IsParameter
<1>7. TypeInv'
  BY <1>3, <1>4, <1>6, FunctionTypeKept DEF FunctionInv, Function!AnswersCurrent, TypeInv
<1> QED BY <1>2, <1>3, <1>5, <1>7 DEF FunctionInv

(* The bound on the operations.                                            *)
LEMMA OperationsBound ==
  ASSUME FunctionInv, Function!Operates
  PROVE  calls' \in 0 .. MaxCalls
BY FunctionNumbers DEF FunctionInv, Function!Operates

(* A script adds a live range.                                             *)
LEMMA AddLiveRangeStep ==
  ASSUME FunctionInv, NEW v \in Function!Alive, NEW offset \in Function!RangeOffsets,
         NEW size \in RangeSizes,
         NEW loc \in Function!Locations, Function!AddLiveRange(v, offset, size, loc)
  PROVE  FunctionInv'
<1> DEFINE list == variables[v].ranges
           new == Function!LiveRange(offset, size, loc, variables[v].curId + 1)
<1>1. /\ Function!Operates /\ Function!Ranges!ValidateLiveRange(list, new, FunctionSize)
      /\ variables' = [variables EXCEPT ![v].curId = new.id, ![v].ranges = Append(list, new)]
      /\ Function!InvalidateExternalCaches
      /\ UNCHANGED <<children, returnType, functionType, reading>>
  BY DEF Function!AddLiveRange
<1>2. v \in DOMAIN variables
  BY DEF Function!Alive
<1>3. list \in Seq(RangeRecords) /\ variables[v].curId \in Nat /\ Len(list) \in Nat
      /\ RangesInv(list, variables[v].curId)
  BY <1>2, FieldsOf DEF FunctionInv
<1>4. new \in RangeRecords /\ new.id = variables[v].curId + 1 /\ new.id \in Nat
  BY <1>3 DEF Function!LiveRange, RangeRecords
<1> HIDE DEF list, new
<1> DEFINE more == Append(list, new)
<1>5. /\ more \in Seq(RangeRecords) /\ RangesInv(more, new.id)
      /\ Len(more) = Len(list) + 1 /\ \A i \in 1 .. Len(list) : more[i] = list[i]
  BY <1>1, <1>3, <1>4, RangeAdded, AppendProperties
<1> HIDE DEF more
<1>6. variables' = [variables EXCEPT ![v].curId = new.id, ![v].ranges = more]
  BY <1>1 DEF more
<1>7. /\ VariablesInv' /\ ChildrenInv' /\ Function!Alive' = Function!Alive
      /\ returnType' \in Types /\ TypeInv'
      /\ DOMAIN variables' = DOMAIN variables
      /\ variables'[v].ranges = more
      /\ \A w \in DOMAIN variables : w # v => variables'[w] = variables[w]
  BY <1>1, <1>2, <1>4, <1>5, <1>6, RangesChange
<1>8. ReadingInv'
  <2>1. ASSUME NEW w \in DOMAIN variables
        PROVE  /\ Len(variables[w].ranges) \in Nat /\ Len(variables'[w].ranges) \in Nat
               /\ Len(variables[w].ranges) <= Len(variables'[w].ranges)
               /\ \A i \in 1 .. Len(variables[w].ranges) :
                    variables'[w].ranges[i].id = variables[w].ranges[i].id
    <3>1. Len(variables[w].ranges) \in Nat
      BY FieldsOf DEF FunctionInv
    <3>2. CASE w = v
      BY <1>3, <1>5, <1>7, <3>1, <3>2 DEF list
    <3>3. CASE w # v
      BY <1>7, <3>1, <3>3
    <3> QED BY <3>2, <3>3
  <2> QED BY <1>1, <1>7, <2>1, ReadingKept DEF FunctionInv
<1>9. Function!AnswersCurrent' /\ SeenInv' /\ missed' = {} /\ calls' \in 0 .. MaxCalls
  BY <1>1, <1>7, AnswersForgotten, OperationsBound
<1> QED BY <1>7, <1>8, <1>9 DEF FunctionInv

(* The place of an id among the live ranges.                               *)
LEMMA PositionOf ==
  ASSUME FunctionInv, NEW v \in DOMAIN variables, NEW id \in Function!RangeIds(v)
  PROVE  /\ Function!Position(v, id) \in 1 .. Len(variables[v].ranges)
         /\ variables[v].ranges[Function!Position(v, id)].id = id
<1> DEFINE list == variables[v].ranges
           I == {j \in 1 .. Len(list) : list[j].id = id}
<1>1. list \in Seq(RangeRecords) /\ Len(list) \in Nat /\ DOMAIN list = 1 .. Len(list)
      /\ RangesInv(list, variables[v].curId)
  BY FieldsOf DEF FunctionInv
<1>2. PICK i \in 1 .. Len(list) : list[i].id = id
  BY <1>1 DEF Function!RangeIds
<1>3. I = {i}
  BY <1>1, <1>2 DEF RangesInv
<1>4. Function!Min({i}) = i
  BY <1>2, MinOfOne
<1> HIDE DEF I
<1>5. Function!SelectInSeq(list, LAMBDA r : r.id = id) = IF I # {} THEN Function!Min(I) ELSE 0
  BY DEF Function!SelectInSeq, I
<1>6. Function!Position(v, id) = i
  BY <1>3, <1>4, <1>5 DEF Function!Position
<1> QED BY <1>2, <1>6

(* A script sets where a live range is.                                    *)
LEMMA SetLiveRangeStep ==
  ASSUME FunctionInv, NEW v \in Function!Alive, NEW offset \in Function!RangeOffsets,
         NEW size \in RangeSizes,
         NEW loc \in Function!Locations, NEW id \in Function!RangeIds(v),
         Function!SetLiveRange(v, Function!LiveRange(offset, size, loc, id))
  PROVE  FunctionInv'
<1> DEFINE list == variables[v].ranges
           new == Function!LiveRange(offset, size, loc, id)
           i == Function!Position(v, id)
           set == [list EXCEPT ![i] = new]
<1>0. v \in DOMAIN variables
  BY DEF Function!Alive
<1>1. list \in Seq(RangeRecords) /\ variables[v].curId \in Nat /\ Len(list) \in Nat
      /\ DOMAIN list = 1 .. Len(list) /\ RangesInv(list, variables[v].curId)
  BY <1>0, FieldsOf DEF FunctionInv
<1>2. i \in 1 .. Len(list) /\ list[i].id = id /\ list[i] \in RangeRecords
  BY <1>0, <1>1, PositionOf, ElementOfSeq
<1>3. /\ new.id = id /\ new.offset = offset /\ new.size = size /\ new.loc = loc
      /\ new \in RangeRecords
  <2>1. id \in Nat
    BY <1>2 DEF RangeRecords
  <2> QED BY <2>1 DEF Function!LiveRange, RangeRecords
<1>4. /\ Function!Operates /\ Function!InvalidateExternalCaches
      /\ UNCHANGED <<children, returnType, functionType, reading>>
      /\ variables' = [variables EXCEPT ![v].ranges[i] = new]
      /\ \/ new = [list[i] EXCEPT !.loc = new.loc]
         \/ Function!Ranges!ValidateLiveRange(list, new, FunctionSize)
  BY <1>3, Zenon DEF Function!SetLiveRange
<1> HIDE DEF new, i, list
<1>5. \/ new.offset = list[i].offset /\ new.size = list[i].size
      \/ Function!Ranges!ValidateLiveRange(list, new, FunctionSize)
  BY <1>2, <1>4 DEF RangeRecords
<1>6. /\ set \in Seq(RangeRecords) /\ Len(set) = Len(list) /\ RangesInv(set, variables[v].curId)
      /\ \A j \in 1 .. Len(list) : set[j].id = list[j].id
  <2>1. new.id = list[i].id
    BY <1>2, <1>3
  <2>2. set \in Seq(RangeRecords)
    BY <1>1, <1>2, <1>3, <1>5, <2>1, RangeSet
  <2>3. Len(set) = Len(list)
    BY <1>1, <1>2, <1>3, <1>5, <2>1, RangeSet
  <2>4. RangesInv(set, variables[v].curId)
    BY <1>1, <1>2, <1>3, <1>5, <2>1, RangeSet
  <2> QED BY <1>1, <1>2, <1>3, <1>5, <2>1, <2>2, <2>3, <2>4, RangeSet
<1>7. variables' = [variables EXCEPT ![v].curId = variables[v].curId, ![v].ranges = set]
  <2>1. variables[v] \in VariableRecords
    BY <1>0, FieldsOf DEF FunctionInv
  <2>2. [variables[v] EXCEPT !.ranges = set] =
          [variables[v] EXCEPT !.curId = variables[v].curId, !.ranges = set]
    BY <2>1 DEF VariableRecords
  <2>3. variables' = [variables EXCEPT ![v] = [variables[v] EXCEPT !.ranges = set]]
    BY <1>4 DEF list
  <2> QED BY <2>2, <2>3
<1> HIDE DEF set
<1>8. /\ VariablesInv' /\ ChildrenInv' /\ Function!Alive' = Function!Alive
      /\ returnType' \in Types /\ TypeInv'
      /\ DOMAIN variables' = DOMAIN variables
      /\ variables'[v].ranges = set
      /\ \A w \in DOMAIN variables : w # v => variables'[w] = variables[w]
  BY <1>0, <1>1, <1>4, <1>6, <1>7, RangesChange
<1>9. ReadingInv'
  <2>1. ASSUME NEW w \in DOMAIN variables
        PROVE  /\ Len(variables[w].ranges) \in Nat /\ Len(variables'[w].ranges) \in Nat
               /\ Len(variables[w].ranges) <= Len(variables'[w].ranges)
               /\ \A j \in 1 .. Len(variables[w].ranges) :
                    variables'[w].ranges[j].id = variables[w].ranges[j].id
    <3>1. Len(variables[w].ranges) \in Nat
      BY FieldsOf DEF FunctionInv
    <3>2. CASE w = v
      BY <1>1, <1>6, <1>8, <3>1, <3>2 DEF list
    <3>3. CASE w # v
      BY <1>8, <3>1, <3>3
    <3> QED BY <3>2, <3>3
  <2> QED BY <1>4, <1>8, <2>1, ReadingKept DEF FunctionInv
<1>10. Function!AnswersCurrent' /\ SeenInv' /\ missed' = {} /\ calls' \in 0 .. MaxCalls
  BY <1>4, <1>8, AnswersForgotten, OperationsBound
<1> QED BY <1>8, <1>9, <1>10 DEF FunctionInv

(* Setting the live ranges of a variable leaves its counter of ids.        *)
LEMMA RangesOnly ==
  ASSUME FunctionInv, NEW v \in DOMAIN variables, NEW list
  PROVE  [variables EXCEPT ![v].ranges = list]
           = [variables EXCEPT ![v].curId = variables[v].curId, ![v].ranges = list]
<1>1. variables[v] \in VariableRecords
  BY FieldsOf DEF FunctionInv
<1>2. [variables[v] EXCEPT !.ranges = list] =
        [variables[v] EXCEPT !.curId = variables[v].curId, !.ranges = list]
  BY <1>1 DEF VariableRecords
<1> QED BY <1>2

(* A script deletes a live range.                                          *)
LEMMA DeleteLiveRangeStep ==
  ASSUME FunctionInv, NEW v \in Function!Alive, NEW id \in Function!RangeIds(v),
         Function!DeleteLiveRange(v, id)
  PROVE  FunctionInv'
<1> DEFINE list == variables[v].ranges
           i == Function!Position(v, id)
           less == Function!RemoveAt(list, i)
<1>1. v \in DOMAIN variables
  BY DEF Function!Alive
<1>2. list \in Seq(RangeRecords) /\ variables[v].curId \in Nat /\ Len(list) \in Nat
      /\ RangesInv(list, variables[v].curId)
  BY <1>1, FieldsOf DEF FunctionInv
<1>3. i \in 1 .. Len(list)
  BY <1>1, PositionOf
<1>4. /\ Function!Operates /\ Function!InvalidateExternalCaches
      /\ UNCHANGED <<children, returnType, functionType>>
      /\ variables' = [variables EXCEPT ![v].ranges = less]
      /\ reading' = IF reading.of = v /\ i <= reading.cur
                    THEN [reading EXCEPT !.shifted = TRUE] ELSE reading
  BY DEF Function!DeleteLiveRange
<1> HIDE DEF i, list
<1>5. /\ less \in Seq(RangeRecords) /\ Len(less) = Len(list) - 1
      /\ \A j \in 1 .. Len(list) - 1 : less[j] = IF j < i THEN list[j] ELSE list[j + 1]
  BY <1>2, <1>3, Removed
<1>6. RangesInv(less, variables[v].curId)
  BY <1>2, <1>3, RangeDeleted
<1> HIDE DEF less
<1>7. variables' = [variables EXCEPT ![v].curId = variables[v].curId, ![v].ranges = less]
  BY <1>1, <1>4, RangesOnly
<1>8. /\ VariablesInv' /\ ChildrenInv' /\ Function!Alive' = Function!Alive
      /\ returnType' \in Types /\ TypeInv'
      /\ DOMAIN variables' = DOMAIN variables
      /\ variables'[v].ranges = less
      /\ \A w \in DOMAIN variables : w # v => variables'[w] = variables[w]
  BY <1>1, <1>2, <1>4, <1>5, <1>6, <1>7, RangesChange
<1>9. /\ reading.of \in DOMAIN variables \cup {0} /\ reading.cur \in Nat
      /\ reading \in [of : DOMAIN variables \cup {0}, cur : Nat, yielded : SUBSET Nat,
                      shifted : BOOLEAN]
  BY DEF FunctionInv, ReadingInv
<1>10. /\ reading'.of = reading.of /\ reading'.cur = reading.cur
       /\ reading'.yielded = reading.yielded
       /\ ~reading'.shifted => ~reading.shifted /\ ~(reading.of = v /\ i <= reading.cur)
       /\ reading' \in [of : DOMAIN variables \cup {0}, cur : Nat, yielded : SUBSET Nat,
                        shifted : BOOLEAN]
  BY <1>4, <1>9
<1>11. ASSUME reading.of # 0, ~reading'.shifted
       PROVE  LET after == variables'[reading.of].ranges
              IN /\ reading.cur <= Len(after)
                 /\ \A j \in 1 .. reading.cur : after[j].id \in reading.yielded
  <2>1. LET before == variables[reading.of].ranges
        IN /\ reading.cur <= Len(before)
           /\ \A j \in 1 .. reading.cur : before[j].id \in reading.yielded
    BY <1>10, <1>11 DEF FunctionInv, ReadingInv
  <2>2. CASE reading.of = v
    <3>1. reading.cur < i
      BY <1>3, <1>9, <1>10, <1>11, <2>2, <1>2
    <3>2. reading.cur <= Len(less) /\ \A j \in 1 .. reading.cur : less[j] = list[j]
      BY SMTT(60), <1>2, <1>3, <1>5, <1>9, <3>1
    <3> QED BY <1>8, <2>1, <2>2, <3>2 DEF list
  <2>3. CASE reading.of # v
    BY <1>8, <1>9, <1>11, <2>1, <2>3
  <2> QED BY <2>2, <2>3
<1>12. ReadingInv'
  BY <1>8, <1>10, <1>11 DEF ReadingInv
<1>13. Function!AnswersCurrent' /\ SeenInv' /\ missed' = {} /\ calls' \in 0 .. MaxCalls
  BY <1>4, <1>8, AnswersForgotten, OperationsBound
<1> QED BY <1>8, <1>12, <1>13 DEF FunctionInv

(* Live ranges may go and come as long as the variables remain what they   *)
(* were otherwise.                                                         *)
LEMMA AllRangesChange ==
  ASSUME FunctionInv, UNCHANGED <<children, returnType, functionType>>,
         variables' \in Seq(VariableRecords), DOMAIN variables' = DOMAIN variables,
         \A v \in DOMAIN variables :
           /\ RangesInv(variables'[v].ranges, variables'[v].curId)
           /\ variables'[v].kind = variables[v].kind /\ variables'[v].type = variables[v].type
           /\ variables'[v].alive = variables[v].alive
  PROVE  /\ VariablesInv' /\ ChildrenInv' /\ Function!Alive' = Function!Alive
         /\ returnType' \in Types /\ TypeInv'
<1>1. \A w \in DOMAIN variables' :
        RangesInv(variables'[w].ranges, variables'[w].curId) <=>
        RangesInv(variables[w].ranges, variables[w].curId)'
  BY DEF RangesInv, Nested, Function!Overlap
<1>2. VariablesInv'
  BY <1>1 DEF VariablesInv
<1>3. ChildrenInv' /\ Function!Alive' = Function!Alive
  BY ChildrenKept DEF FunctionInv
<1>4. \A w \in DOMAIN variables :
        Function!IsParameter(variables'[w]) <=> Function!IsParameter(variables[w])
  BY Zenon DEF Function!IsParameter
<1>5. TypeInv'
  BY <1>4, FunctionTypeKept DEF FunctionInv, Function!AnswersCurrent, TypeInv
<1> QED BY <1>2, <1>3, <1>5 DEF FunctionInv

(* The parameters without their live ranges.                               *)
LEMMA Cleared ==
  ASSUME VariablesInv
  PROVE  LET vs == Function!InternalDeleteAllLiveRanges
         IN /\ vs \in Seq(VariableRecords) /\ Len(vs) = Len(variables)
            /\ DOMAIN vs = DOMAIN variables
            /\ \A v \in DOMAIN variables :
                 /\ RangesInv(vs[v].ranges, vs[v].curId)
                 /\ vs[v].kind = variables[v].kind /\ vs[v].type = variables[v].type
                 /\ vs[v].alive = variables[v].alive /\ vs[v].curId = variables[v].curId
                 /\ v \notin Function!Alive => vs[v] = variables[v]
<1> DEFINE vs == Function!InternalDeleteAllLiveRanges
           empty(v) == [variables[v] EXCEPT !.ranges = <<>>]
<1>1. DOMAIN variables = 1 .. Len(variables) /\ Len(variables) \in Nat
  BY LenProperties DEF VariablesInv
<1>2. ASSUME NEW v \in DOMAIN variables
      PROVE  /\ empty(v) \in VariableRecords /\ RangesInv(empty(v).ranges, empty(v).curId)
             /\ empty(v).kind = variables[v].kind /\ empty(v).type = variables[v].type
             /\ empty(v).alive = variables[v].alive /\ empty(v).curId = variables[v].curId
  <2>1. variables[v] \in VariableRecords
    BY FieldsOf
  <2>2. <<>> \in Seq(RangeRecords) /\ Len(<<>>) = 0
    BY EmptySeq
  <2>3. /\ empty(v) \in VariableRecords /\ empty(v).ranges = <<>>
        /\ empty(v).kind = variables[v].kind /\ empty(v).type = variables[v].type
        /\ empty(v).alive = variables[v].alive /\ empty(v).curId = variables[v].curId
    BY <2>1, <2>2 DEF VariableRecords
  <2> QED BY <2>2, <2>3 DEF RangesInv
<1> HIDE DEF empty
<1>3. vs = [v \in 1 .. Len(variables) |->
              IF Function!IsParameter(variables[v]) THEN empty(v) ELSE variables[v]]
  BY <1>1 DEF Function!InternalDeleteAllLiveRanges, empty
<1> HIDE DEF vs
<1>4. ASSUME NEW v \in DOMAIN variables
      PROVE  vs[v] = IF Function!IsParameter(variables[v]) THEN empty(v) ELSE variables[v]
  BY <1>1, <1>3
<1>5. ASSUME NEW v \in DOMAIN variables
      PROVE  /\ vs[v] \in VariableRecords /\ RangesInv(vs[v].ranges, vs[v].curId)
             /\ vs[v].kind = variables[v].kind /\ vs[v].type = variables[v].type
             /\ vs[v].alive = variables[v].alive /\ vs[v].curId = variables[v].curId
             /\ v \notin Function!Alive => vs[v] = variables[v]
  <2>1. CASE Function!IsParameter(variables[v])
    <3>1. vs[v] = empty(v) /\ v \in Function!Alive
      BY <1>4, <2>1 DEF Function!IsParameter, Function!Alive
    <3> QED BY <1>2, <3>1
  <2>2. CASE ~Function!IsParameter(variables[v])
    <3>1. vs[v] = variables[v]
      BY <1>4, <2>2
    <3> QED BY <3>1, FieldsOf
  <2> QED BY <2>1, <2>2
<1>6. DOMAIN vs = 1 .. Len(variables)
  BY <1>3
<1>7. vs \in Seq(VariableRecords) /\ Len(vs) = Len(variables)
  <2>1. vs \in [1 .. Len(variables) -> VariableRecords]
    BY <1>1, <1>3, <1>5, <1>6
  <2> QED BY <1>1, <2>1, SeqDef
<1> QED BY <1>1, <1>5, <1>6, <1>7 DEF vs

(* An iteration does not know after a propagation where it is.             *)
LEMMA ReadingShifted ==
  ASSUME ReadingInv, DOMAIN variables' = DOMAIN variables,
         reading' = IF reading.of # 0 THEN [reading EXCEPT !.shifted = TRUE] ELSE reading
  PROVE  ReadingInv'
<1>1. reading \in [of : DOMAIN variables \cup {0}, cur : Nat, yielded : SUBSET Nat,
                   shifted : BOOLEAN]
  BY DEF ReadingInv
<1>2. /\ reading' \in [of : DOMAIN variables \cup {0}, cur : Nat, yielded : SUBSET Nat,
                       shifted : BOOLEAN]
      /\ reading'.of # 0 => reading'.shifted
  BY <1>1
<1> QED BY <1>2 DEF ReadingInv

(* The live ranges of all parameters go away, and the debugger is not told.*)
LEMMA PropagateInVain ==
  ASSUME FunctionInv, Function!Operates,
         variables' = Function!InternalDeleteAllLiveRanges,
         missed' = missed \cup {v \in Function!Alive : variables[v].ranges # variables'[v].ranges},
         reading' = IF reading.of # 0 THEN [reading EXCEPT !.shifted = TRUE] ELSE reading,
         UNCHANGED <<seen, children, returnType, functionType>>
  PROVE  FunctionInv'
<1>1. VariablesInv
  BY DEF FunctionInv
<1> DEFINE vs == Function!InternalDeleteAllLiveRanges
<1>2. /\ vs \in Seq(VariableRecords) /\ DOMAIN vs = DOMAIN variables
      /\ \A v \in DOMAIN variables :
           /\ RangesInv(vs[v].ranges, vs[v].curId)
           /\ vs[v].kind = variables[v].kind /\ vs[v].type = variables[v].type
           /\ vs[v].alive = variables[v].alive
           /\ v \notin Function!Alive => vs[v] = variables[v]
  BY <1>1, Cleared
<1> HIDE DEF vs
<1>3. variables' = vs
  BY DEF vs
<1>4. /\ VariablesInv' /\ ChildrenInv' /\ Function!Alive' = Function!Alive
      /\ returnType' \in Types /\ TypeInv'
  BY <1>2, <1>3, AllRangesChange
<1>5. ReadingInv'
  BY <1>2, <1>3, ReadingShifted DEF FunctionInv
<1>6. SeenInv' /\ missed' \subseteq DOMAIN variables'
  BY <1>2, <1>3 DEF FunctionInv, SeenInv, Function!Alive
<1>7. ASSUME NEW kept \in seen'
      PROVE  \/ kept.of = 0 /\ kept = Function!TypeAnswer'
             \/ kept.of # 0 /\
                   (kept.of \in missed' \/ kept = Function!LocationAnswer(kept.of, kept.at)')
  <2>1. /\ kept \in seen /\ kept.of \in DOMAIN variables \cup {0}
        /\ \/ kept.of = 0 /\ kept = Function!TypeAnswer
           \/ kept.of # 0 /\
                 (kept.of \in missed \/ kept = Function!LocationAnswer(kept.of, kept.at))
    BY DEF FunctionInv, Function!AnswersCurrent, SeenInv
  <2>2. Function!TypeAnswer' = Function!TypeAnswer
    BY DEF Function!TypeAnswer
  <2>3. CASE kept.of # 0 /\ kept.of \notin missed'
    <3>1. kept.of \in DOMAIN variables /\ kept.of \notin missed
      BY <2>1, <2>3
    <3>2. variables'[kept.of].ranges = variables[kept.of].ranges
      BY <1>2, <1>3, <2>3, <3>1
    <3>3. kept = Function!LocationAnswer(kept.of, kept.at)
      BY <2>1, <2>3, <3>1
    <3>4. Function!LocationAnswer(kept.of, kept.at)' = Function!LocationAnswer(kept.of, kept.at)
      BY <3>2 DEF Function!LocationAnswer
    <3> QED BY <2>3, <3>3, <3>4
  <2> QED BY <2>1, <2>2, <2>3
<1>8. Function!AnswersCurrent'
  BY <1>4, <1>7 DEF Function!AnswersCurrent, TypeInv
<1>9. calls' \in 0 .. MaxCalls
  BY OperationsBound
<1> QED BY <1>4, <1>5, <1>6, <1>8, <1>9 DEF FunctionInv

(* The live range of one parameter is found, those of all others go.       *)
LEMMA PropagateFound ==
  ASSUME FunctionInv, Function!Operates, NEW v \in Function!Alive, NEW loc \in Function!Locations,
         variables' =
               [Function!InternalDeleteAllLiveRanges EXCEPT ![v] = Function!Found(v, loc)],
         reading' = IF reading.of # 0 THEN [reading EXCEPT !.shifted = TRUE] ELSE reading,
         Function!InvalidateExternalCaches, UNCHANGED <<children, returnType, functionType>>
  PROVE  FunctionInv'
<1>1. VariablesInv /\ v \in DOMAIN variables
  BY DEF FunctionInv, Function!Alive
<1> DEFINE vs == Function!InternalDeleteAllLiveRanges
           only == Function!LiveRange(0, FunctionSize, loc, variables[v].curId + 1)
           x == Function!Found(v, loc)
<1>2. /\ vs \in Seq(VariableRecords) /\ DOMAIN vs = DOMAIN variables /\ Len(vs) = Len(variables)
      /\ \A w \in DOMAIN variables :
           /\ RangesInv(vs[w].ranges, vs[w].curId)
           /\ vs[w].kind = variables[w].kind /\ vs[w].type = variables[w].type
           /\ vs[w].alive = variables[w].alive
  BY <1>1, Cleared
<1>3. variables[v] \in VariableRecords /\ variables[v].curId \in Nat
      /\ v \in 1 .. Len(variables) /\ DOMAIN variables = 1 .. Len(variables)
  BY <1>1, FieldsOf
<1>4. only \in RangeRecords /\ only.id = variables[v].curId + 1
  <2>1. 0 \in Function!RangeOffsets
    BY FunctionNumbers DEF Function!RangeOffsets
  <2> QED BY <1>3, <2>1 DEF Function!LiveRange, RangeRecords
<1> HIDE DEF only
<1>5. /\ <<only>> \in Seq(RangeRecords) /\ Len(<<only>>) = 1 /\ <<only>>[1] = only
  BY <1>4
<1>6. /\ x \in VariableRecords /\ x.ranges = <<only>> /\ x.curId = variables[v].curId + 1
      /\ x.kind = variables[v].kind /\ x.type = variables[v].type /\ x.alive = variables[v].alive
  <2>1. x = [variables[v] EXCEPT !.curId = @ + 1, !.ranges = <<only>>]
    BY DEF Function!Found, only
  <2>2. variables[v].curId + 1 \in Nat
    BY <1>3
  <2> HIDE DEF x
  <2>3. x \in VariableRecords
    BY <1>3, <1>5, <2>1, <2>2 DEF VariableRecords
  <2>4. x.ranges = <<only>>
    BY <1>3, <2>1 DEF VariableRecords
  <2>5. x.curId = variables[v].curId + 1
    BY <1>3, <2>1 DEF VariableRecords
  <2>6. x.kind = variables[v].kind /\ x.type = variables[v].type /\ x.alive = variables[v].alive
    BY <1>3, <2>1 DEF VariableRecords
  <2> QED BY <2>3, <2>4, <2>5, <2>6
<1> HIDE DEF x, vs
<1>7. RangesInv(x.ranges, x.curId)
  <2>1. only.id <= x.curId
    BY <1>3, <1>4, <1>6
  <2> QED BY <1>5, <1>6, <2>1 DEF RangesInv
<1>8. variables' = [vs EXCEPT ![v] = x]
  BY DEF vs, x
<1>9. /\ variables' \in Seq(VariableRecords) /\ Len(variables') = Len(variables)
      /\ \A w \in 1 .. Len(variables) : variables'[w] = IF w = v THEN x ELSE vs[w]
  <2>1. v \in 1 .. Len(vs)
    BY <1>2, <1>3
  <2> DEFINE ws == [vs EXCEPT ![v] = x]
  <2>2. ws \in Seq(VariableRecords) /\ Len(ws) = Len(vs)
        /\ \A w \in 1 .. Len(vs) : ws[w] = IF w = v THEN x ELSE vs[w]
    BY <1>2, <1>6, <2>1, ExceptSeq
  <2> QED BY <1>2, <1>8, <2>2
<1>10. DOMAIN variables' = DOMAIN variables
  BY <1>2, <1>8
<1>11. ASSUME NEW w \in DOMAIN variables
       PROVE  /\ RangesInv(variables'[w].ranges, variables'[w].curId)
              /\ variables'[w].kind = variables[w].kind /\ variables'[w].type = variables[w].type
              /\ variables'[w].alive = variables[w].alive
  <2>1. CASE w = v
    BY <1>3, <1>6, <1>7, <1>9, <2>1
  <2>2. CASE w # v
    BY <1>2, <1>3, <1>9, <2>2
  <2> QED BY <2>1, <2>2
<1>12. /\ VariablesInv' /\ ChildrenInv' /\ Function!Alive' = Function!Alive
       /\ returnType' \in Types /\ TypeInv'
  BY <1>9, <1>10, <1>11, AllRangesChange
<1>13. ReadingInv'
  BY <1>10, ReadingShifted DEF FunctionInv
<1>14. Function!AnswersCurrent' /\ SeenInv' /\ missed' = {} /\ calls' \in 0 .. MaxCalls
  BY <1>12, AnswersForgotten, OperationsBound
<1> QED BY <1>12, <1>13, <1>14 DEF FunctionInv

(* A propagation, whether it finds a live range or not.                    *)
LEMMA PropagateStep ==
  ASSUME FunctionInv, Function!Propagate
  PROVE  FunctionInv'
<1>1. /\ Function!Operates /\ UNCHANGED <<children, returnType, functionType>>
      /\ reading' = IF reading.of # 0 THEN [reading EXCEPT !.shifted = TRUE] ELSE reading
  BY DEF Function!Propagate
<1>2. CASE /\ variables' = Function!InternalDeleteAllLiveRanges
           /\ missed' = missed
                \cup {v \in Function!Alive : variables[v].ranges # variables'[v].ranges}
           /\ UNCHANGED seen
  BY <1>1, <1>2, PropagateInVain
<1>3. ASSUME NEW v \in Function!Alive, NEW loc \in Function!Locations,
             variables' =
               [Function!InternalDeleteAllLiveRanges EXCEPT ![v] = Function!Found(v, loc)],
             Function!InvalidateExternalCaches
      PROVE  FunctionInv'
  BY <1>1, <1>3, PropagateFound
<1> QED BY <1>2, <1>3 DEF Function!Propagate

(* Only an iteration goes on.                                              *)
LEMMA OnlyReading ==
  ASSUME FunctionInv, ReadingInv', calls' \in 0 .. MaxCalls,
         UNCHANGED <<children, variables, returnType, functionType, seen, missed>>
  PROVE  FunctionInv'
<1>1. Function!AnswersCurrent'
  BY
  DEF FunctionInv, Function!AnswersCurrent, Function!TypeAnswer,
      Function!LocationAnswer, Function!GetFunctionType
<1>2. VariablesInv'
  BY DEF FunctionInv, VariablesInv
<1>3. ChildrenInv'
  BY DEF FunctionInv, ChildrenInv, Function!Alive
<1>4. SeenInv'
  BY DEF FunctionInv, SeenInv
<1>5. returnType' \in Types /\ missed' \subseteq DOMAIN variables'
  BY DEF FunctionInv
<1> QED BY <1>1, <1>2, <1>3, <1>4, <1>5 DEF FunctionInv

(* A script begins to iterate.                                             *)
LEMMA BeginReadingStep ==
  ASSUME FunctionInv, NEW v \in Function!Alive, Function!BeginReading(v)
  PROVE  FunctionInv'
<1>1. v \in DOMAIN variables /\ UNCHANGED variables
  BY DEF Function!Alive, Function!BeginReading
<1>2. Len(variables[v].ranges) \in Nat
  BY <1>1, FieldsOf DEF FunctionInv
<1>3. reading' = [of |-> v, cur |-> 0, yielded |-> {}, shifted |-> FALSE]
  BY DEF Function!BeginReading, Function!NotReading
<1>4. ReadingInv'
  BY <1>1, <1>2, <1>3 DEF ReadingInv
<1>5. calls' \in 0 .. MaxCalls
  BY OperationsBound DEF Function!BeginReading
<1> QED BY <1>4, <1>5, OnlyReading DEF Function!BeginReading

(* It is given the next live range.                                        *)
LEMMA YieldStep ==
  ASSUME FunctionInv, Function!Yield
  PROVE  FunctionInv'
<1> DEFINE v == reading.of
           list == variables[v].ranges
<1>1. /\ v # 0 /\ reading.cur < Len(list) /\ UNCHANGED <<variables, calls>>
      /\ reading' = [reading EXCEPT !.cur = @ + 1,
                       !.yielded = @ \cup {list[reading.cur + 1].id}]
  BY DEF Function!Yield
<1>2. reading \in [of : DOMAIN variables \cup {0}, cur : Nat, yielded : SUBSET Nat,
                   shifted : BOOLEAN]
  BY DEF FunctionInv, ReadingInv
<1>3. v \in DOMAIN variables /\ reading.cur \in Nat
  BY <1>1, <1>2
<1>4. list \in Seq(RangeRecords) /\ Len(list) \in Nat
  BY <1>3, FieldsOf DEF FunctionInv
<1>5. reading.cur + 1 \in 1 .. Len(list)
  BY <1>1, <1>3, <1>4
<1>6. list[reading.cur + 1].id \in Nat
  <2>1. list[reading.cur + 1] \in RangeRecords
    BY <1>4, <1>5, ElementOfSeq
  <2> QED BY <2>1 DEF RangeRecords
<1>7. /\ reading'.of = v /\ reading'.cur = reading.cur + 1
      /\ reading'.yielded = reading.yielded \cup {list[reading.cur + 1].id}
      /\ reading'.shifted = reading.shifted
      /\ reading' \in [of : DOMAIN variables \cup {0}, cur : Nat, yielded : SUBSET Nat,
                       shifted : BOOLEAN]
  <2> DEFINE y == list[reading.cur + 1].id
             more == reading.yielded \cup {y}
  <2>1. y \in Nat /\ reading' = [reading EXCEPT !.cur = @ + 1, !.yielded = more]
    BY <1>1, <1>2, <1>6
  <2> HIDE DEF y
  <2>2. more \in SUBSET Nat /\ reading.cur + 1 \in Nat
    BY <1>2, <2>1
  <2> HIDE DEF more
  <2>3. /\ reading'.of = v /\ reading'.cur = reading.cur + 1 /\ reading'.yielded = more
        /\ reading'.shifted = reading.shifted
    BY <1>2, <2>1
  <2>4. reading' \in [of : DOMAIN variables \cup {0}, cur : Nat, yielded : SUBSET Nat,
                      shifted : BOOLEAN]
    BY <1>2, <2>1, <2>2
  <2> QED BY <2>3, <2>4 DEF more, y
<1>8. ASSUME ~reading.shifted
      PROVE  /\ reading.cur + 1 <= Len(list)
             /\ \A i \in 1 .. reading.cur + 1 : list[i].id \in reading'.yielded
  <2>1. \A i \in 1 .. reading.cur : list[i].id \in reading.yielded
    BY <1>1, <1>8 DEF FunctionInv, ReadingInv
  <2>2. \A i \in 1 .. reading.cur + 1 : i \in 1 .. reading.cur \/ i = reading.cur + 1
    BY SMTT(60), <1>3
  <2> HIDE DEF list, v
  <2> QED BY <1>5, <1>7, <2>1, <2>2
<1>9. ReadingInv'
  BY <1>1, <1>7, <1>8 DEF ReadingInv
<1>10. calls' \in 0 .. MaxCalls
  BY <1>1 DEF FunctionInv
<1> QED BY <1>9, <1>10, OnlyReading DEF Function!Yield

(* There are no more.                                                      *)
LEMMA EndReadingStep ==
  ASSUME FunctionInv, Function!EndReading
  PROVE  FunctionInv'
<1>1. ReadingInv'
  BY DEF Function!EndReading, Function!NotReading, ReadingInv
<1>2. calls' \in 0 .. MaxCalls
  BY DEF Function!EndReading, FunctionInv
<1> QED BY <1>1, <1>2, OnlyReading DEF Function!EndReading

(* The debugger asks and keeps the answer.                                 *)
LEMMA AskStep ==
  ASSUME FunctionInv, Function!Ask
  PROVE  FunctionInv'
<1>1. PICK new \in {Function!TypeAnswer}
                     \cup {Function!LocationAnswer(v, now) :
                             v \in Function!Alive, now \in 0 .. FunctionSize - 1} :
        seen' = {new}
  BY DEF Function!Ask
<1>2. UNCHANGED <<children, variables, returnType, functionType, missed, reading, calls>>
  BY DEF Function!Ask
<1>3. TypeInv'
  BY <1>2 DEF FunctionInv, Function!AnswersCurrent, TypeInv, Function!GetFunctionType
<1>4. /\ new.of \in DOMAIN variables \cup {0}
      /\ \/ new.of = 0 /\ new = Function!TypeAnswer
         \/ new.of # 0
               /\ new = Function!LocationAnswer(new.of, new.at)
  <2>1. CASE new = Function!TypeAnswer
    BY <2>1 DEF Function!TypeAnswer
  <2>2. ASSUME NEW v \in Function!Alive, NEW now \in 0 .. FunctionSize - 1,
               new = Function!LocationAnswer(v, now)
        PROVE  new.of \in DOMAIN variables /\ new.of # 0
               /\ new = Function!LocationAnswer(new.of, new.at)
    <3>1. v \in DOMAIN variables /\ v # 0
      BY FieldsOf DEF Function!Alive, FunctionInv
    <3>2. new.of = v /\ new.at = now
      BY <2>2 DEF Function!LocationAnswer
    <3> QED BY <2>2, <3>1, <3>2
  <2> QED BY <2>1, <2>2
<1>5. /\ Function!TypeAnswer' = Function!TypeAnswer
      /\ Function!LocationAnswer(new.of, new.at)' = Function!LocationAnswer(new.of, new.at)
  BY <1>2 DEF Function!TypeAnswer, Function!LocationAnswer
<1>6. Function!AnswersCurrent'
  BY <1>1, <1>3, <1>4, <1>5 DEF Function!AnswersCurrent, TypeInv
<1>7. SeenInv'
  BY <1>1, <1>2, <1>4 DEF SeenInv
<1>8. VariablesInv'
  BY <1>2 DEF FunctionInv, VariablesInv
<1>9. ChildrenInv'
  BY <1>2 DEF FunctionInv, ChildrenInv, Function!Alive
<1>10. ReadingInv'
  BY <1>2 DEF FunctionInv, ReadingInv
<1> QED BY <1>2, <1>6, <1>7, <1>8, <1>9, <1>10 DEF FunctionInv

(* At the start there is neither a child nor an iteration.                 *)
LEMMA FunctionInit ==
  ASSUME Function!Init
  PROVE  FunctionInv
<1>1. /\ children = <<>> /\ variables = <<>> /\ DOMAIN variables = {}
      /\ <<>> \in Seq(VariableRecords) /\ <<>> \in Seq({})
  BY EmptySeq DEF Function!Init
<1>2. VariablesInv
  BY <1>1 DEF VariablesInv
<1>3. ChildrenInv
  BY <1>1 DEF ChildrenInv, Function!ToSet, Function!IsInjective, Function!Alive
<1>4. ReadingInv
  BY DEF Function!Init, ReadingInv, Function!NotReading
<1>5. Function!AnswersCurrent /\ SeenInv
  BY DEF Function!Init, Function!AnswersCurrent, SeenInv
<1> QED BY <1>2, <1>3, <1>4, <1>5, FunctionNumbers DEF Function!Init, FunctionInv

(* Whoever changes a child has the function told, and the debugger.        *)
LEMMA Told ==
  ASSUME FunctionInv, Function!Operates, Function!NotifyDependentChange,
         Function!InvalidateExternalCaches
  PROVE  /\ Function!AnswersCurrent' /\ SeenInv' /\ missed' = {} /\ calls' \in 0 .. MaxCalls
<1>1. TypeInv'
  BY DEF Function!NotifyDependentChange, TypeInv
<1> QED BY <1>1, AnswersForgotten, OperationsBound

(* The result has another type.                                            *)
LEMMA SetReturnTypeStep ==
  ASSUME FunctionInv, NEW type \in Types, Function!SetReturnType(type)
  PROVE  FunctionInv'
<1>1. /\ returnType' = type /\ UNCHANGED <<children, variables, reading>>
  BY DEF Function!SetReturnType
<1>2. Function!AnswersCurrent' /\ SeenInv' /\ missed' = {} /\ calls' \in 0 .. MaxCalls
  BY Told DEF Function!SetReturnType
<1>3. VariablesInv'
  BY <1>1 DEF FunctionInv, VariablesInv
<1>4. ChildrenInv'
  BY <1>1 DEF FunctionInv, ChildrenInv, Function!Alive
<1>5. ReadingInv'
  BY <1>1 DEF FunctionInv, ReadingInv
<1> QED BY <1>1, <1>2, <1>3, <1>4, <1>5 DEF FunctionInv

(* A variable has another type.                                            *)
LEMMA SetTypeStep ==
  ASSUME FunctionInv, NEW v \in Function!Alive, NEW type \in Types, Function!SetType(v, type)
  PROVE  FunctionInv'
<1> DEFINE x == [variables[v] EXCEPT !.type = type]
<1>1. /\ variables' = [variables EXCEPT ![v] = x]
      /\ UNCHANGED <<children, returnType, reading>>
  BY DEF Function!SetType
<1>2. v \in DOMAIN variables /\ VariablesInv
  BY DEF Function!Alive, FunctionInv
<1>3. variables[v] \in VariableRecords /\ RangesInv(variables[v].ranges, variables[v].curId)
  BY <1>2, FieldsOf
<1>4. /\ x \in VariableRecords /\ x.ranges = variables[v].ranges /\ x.curId = variables[v].curId
      /\ x.alive = variables[v].alive
  BY <1>3 DEF VariableRecords
<1> HIDE DEF x
<1>5. /\ VariablesInv' /\ DOMAIN variables' = DOMAIN variables /\ variables'[v] = x
      /\ \A w \in DOMAIN variables : w # v => variables'[w] = variables[w]
  BY <1>1, <1>2, <1>3, <1>4, VariableChanges
<1>6. \A w \in DOMAIN variables :
        variables'[w].alive = variables[w].alive /\ variables'[w].ranges = variables[w].ranges
  BY <1>4, <1>5
<1>7. ChildrenInv'
  BY <1>1, <1>5, <1>6, ChildrenKept DEF FunctionInv
<1>8. ReadingInv'
  <2>1. \A w \in DOMAIN variables : Len(variables[w].ranges) \in Nat
    BY <1>2, FieldsOf
  <2> QED BY <1>1, <1>5, <1>6, <2>1, ReadingKept DEF FunctionInv
<1>9. Function!AnswersCurrent' /\ SeenInv' /\ missed' = {} /\ calls' \in 0 .. MaxCalls
  BY Told DEF Function!SetType
<1> QED BY <1>1, <1>5, <1>7, <1>8, <1>9 DEF FunctionInv

(* A new variable is the last child.                                       *)
LEMMA AddStep ==
  ASSUME FunctionInv, NEW kind \in {"parameter", "local"},
         NEW type \in Types, Function!Add(kind, type)
  PROVE  FunctionInv'
<1> DEFINE N == Len(variables)
           x == Function!NewVariable(kind, type)
<1>1. /\ variables' = Append(variables, x) /\ children' = Append(children, N + 1)
      /\ UNCHANGED <<returnType, reading>>
  BY DEF Function!Add
<1>2. /\ variables \in Seq(VariableRecords) /\ N \in Nat /\ DOMAIN variables = 1 .. N
      /\ children \in Seq(DOMAIN variables) /\ Len(children) \in Nat
      /\ DOMAIN children = 1 .. Len(children)
      /\ Function!ToSet(children) = Function!Alive /\ Function!IsInjective(children)
  BY LenProperties DEF FunctionInv, VariablesInv, ChildrenInv
<1>3. /\ x \in VariableRecords /\ x.ranges = <<>> /\ x.alive = TRUE
      /\ RangesInv(x.ranges, x.curId) /\ Len(x.ranges) = 0
  <2>1. <<>> \in Seq(RangeRecords) /\ Len(<<>>) = 0
    BY EmptySeq
  <2>2. x.ranges = <<>> /\ x.alive = TRUE
    BY DEF Function!NewVariable
  <2>3. x \in VariableRecords
    BY <2>1 DEF Function!NewVariable, VariableRecords
  <2> QED BY <2>1, <2>2, <2>3 DEF RangesInv
<1> HIDE DEF x
<1>4. /\ variables' \in Seq(VariableRecords) /\ Len(variables') = N + 1
      /\ \A w \in 1 .. N : variables'[w] = variables[w]
      /\ variables'[N + 1] = x
  BY <1>1, <1>2, <1>3, AppendProperties
<1>5. DOMAIN variables' = 1 .. N + 1
  BY <1>2, <1>4, LenProperties
<1>6. \A w \in DOMAIN variables' : w \in 1 .. N \/ w = N + 1
  BY <1>2, <1>5
<1>7. VariablesInv'
  <2>1. \A w \in DOMAIN variables' : RangesInv(variables'[w].ranges, variables'[w].curId)
    BY <1>2, <1>3, <1>4, <1>6 DEF FunctionInv, VariablesInv
  <2>2. \A w \in DOMAIN variables' :
          RangesInv(variables'[w].ranges, variables'[w].curId) <=>
          RangesInv(variables[w].ranges, variables[w].curId)'
    BY DEF RangesInv, Nested, Function!Overlap
  <2> QED BY <1>4, <2>1, <2>2 DEF VariablesInv
<1>8. Function!Alive' = Function!Alive \cup {N + 1}
  <2>1. Function!Alive' = {w \in DOMAIN variables' : variables'[w].alive}
    BY DEF Function!Alive
  <2>2. ASSUME NEW w
        PROVE  w \in Function!Alive' <=> w \in Function!Alive \/ w = N + 1
    <3>1. CASE w \in 1 .. N
      <4>1. w # N + 1 /\ w \in DOMAIN variables' /\ variables'[w] = variables[w]
        BY <1>2, <1>4, <1>5, <3>1
      <4> QED BY <1>2, <2>1, <3>1, <4>1 DEF Function!Alive
    <3>2. CASE w = N + 1
      <4>1. w \in DOMAIN variables' /\ variables'[w].alive
        BY <1>2, <1>3, <1>4, <1>5, <3>2
      <4> QED BY <2>1, <3>2, <4>1
    <3>3. CASE w \notin 1 .. N /\ w # N + 1
      <4>1. w \notin DOMAIN variables' /\ w \notin DOMAIN variables
        BY <1>2, <1>6, <3>3
      <4> QED BY <2>1, <3>3, <4>1 DEF Function!Alive
    <3> QED BY <3>1, <3>2, <3>3
  <2> QED BY <2>2
<1>9. ChildrenInv'
  <2> DEFINE L == Len(children)
  <2>1. children \in Seq(DOMAIN variables')
    <3>1. \A i \in 1 .. L : children[i] \in DOMAIN variables'
      BY <1>2, <1>5, ElementOfSeq
    <3>2. children = [i \in 1 .. L |-> children[i]]
      BY <1>2, LenProperties
    <3>3. children \in [1 .. L -> DOMAIN variables']
      BY <3>1, <3>2
    <3> QED BY <1>2, <3>3, SeqDef
  <2>2. /\ children' \in Seq(DOMAIN variables') /\ Len(children') = L + 1
        /\ \A i \in 1 .. L : children'[i] = children[i]
        /\ children'[L + 1] = N + 1
    <3>1. N + 1 \in DOMAIN variables'
      BY <1>2, <1>5
    <3> QED BY <1>1, <2>1, <3>1, AppendProperties
  <2>3. DOMAIN children' = 1 .. L + 1 /\ \A i \in 1 .. L + 1 : i \in 1 .. L \/ i = L + 1
    BY <1>2, <2>2, LenProperties
  <2>4. \A i \in 1 .. L : children[i] \in 1 .. N /\ children[i] # N + 1
    BY <1>2, ElementOfSeq
  <2>5. Function!ToSet(children') = Function!ToSet(children) \cup {N + 1}
    <3>1. \A i \in 1 .. L : i \in 1 .. L + 1
      BY <1>2
    <3>2. L + 1 \in 1 .. L + 1
      BY <1>2
    <3> QED BY <1>2, <2>2, <2>3, <3>1, <3>2 DEF Function!ToSet
  <2>6. Function!IsInjective(children')
    <3>1. ASSUME NEW i \in 1 .. L + 1, NEW j \in 1 .. L + 1, children'[i] = children'[j]
          PROVE  i = j
      BY <1>2, <2>2, <2>3, <2>4, <3>1 DEF Function!IsInjective
    <3> QED BY <2>3, <3>1 DEF Function!IsInjective
  <2> QED BY <1>2, <1>8, <2>2, <2>5, <2>6 DEF ChildrenInv
<1>10. ReadingInv'
  <2>1. ASSUME NEW w \in DOMAIN variables
        PROVE  Len(variables[w].ranges) \in Nat /\ variables'[w] = variables[w]
    BY <1>2, <1>4, FieldsOf DEF FunctionInv
  <2>2. DOMAIN variables \subseteq DOMAIN variables'
    BY <1>2, <1>5
  <2> QED BY <1>1, <2>1, <2>2, ReadingKept DEF FunctionInv
<1>11. Function!AnswersCurrent' /\ SeenInv' /\ missed' = {} /\ calls' \in 0 .. MaxCalls
  BY Told DEF Function!Add
<1> QED BY <1>1, <1>7, <1>9, <1>10, <1>11 DEF FunctionInv

(* A child has one place.                                                  *)
LEMMA ChildPlace ==
  ASSUME FunctionInv, NEW v \in Function!Alive
  PROVE  LET i == Function!ChildPosition(v) + 1
         IN i \in 1 .. Len(children) /\ children[i] = v
<1>1. /\ children \in Seq(DOMAIN variables) /\ DOMAIN children = 1 .. Len(children)
      /\ Function!ToSet(children) = Function!Alive /\ Function!IsInjective(children)
  BY LenProperties DEF FunctionInv, ChildrenInv
<1>2. PICK i \in 1 .. Len(children) : children[i] = v
  BY <1>1 DEF Function!ToSet
<1>3. \A j \in 1 .. Len(children) : children[j] = children[i] => j = i
  BY <1>1 DEF Function!IsInjective
<1> DEFINE I == {j \in 1 .. Len(children) : children[j] = v}
<1>4. Function!SelectInSeq(children, LAMBDA c : c = v) = i
  <2>1. I = {i}
    BY <1>2, <1>3
  <2>2. Function!Min({i}) = i
    BY <1>2, MinOfOne
  <2> HIDE DEF I
  <2>3. Function!SelectInSeq(children, LAMBDA c : c = v) = IF I # {} THEN Function!Min(I) ELSE 0
    BY DEF Function!SelectInSeq, I
  <2> QED BY <2>1, <2>2, <2>3
<1>5. Function!ChildPosition(v) + 1 = i
  BY <1>4 DEF Function!ChildPosition
<1> QED BY <1>2, <1>5

(* A child is deleted.                                                     *)
LEMMA DeleteStep ==
  ASSUME FunctionInv, NEW v \in Function!Alive, Function!Delete(v)
  PROVE  FunctionInv'
<1> DEFINE x == [variables[v] EXCEPT !.alive = FALSE]
           i == Function!ChildPosition(v) + 1
           N == Len(children)
<1>1. /\ variables' = [variables EXCEPT ![v] = x] /\ children' = Function!RemoveAt(children, i)
      /\ UNCHANGED <<returnType, reading>>
  BY DEF Function!Delete
<1>2. v \in DOMAIN variables /\ VariablesInv
  BY DEF Function!Alive, FunctionInv
<1>3. variables[v] \in VariableRecords /\ RangesInv(variables[v].ranges, variables[v].curId)
  BY <1>2, FieldsOf
<1>4. /\ x \in VariableRecords /\ x.ranges = variables[v].ranges /\ x.curId = variables[v].curId
      /\ x.alive = FALSE
  BY <1>3 DEF VariableRecords
<1>5. i \in 1 .. N /\ children[i] = v
  BY ChildPlace
<1> HIDE DEF x, i
<1>6. /\ VariablesInv' /\ DOMAIN variables' = DOMAIN variables /\ variables'[v] = x
      /\ \A w \in DOMAIN variables : w # v => variables'[w] = variables[w]
  BY <1>1, <1>2, <1>3, <1>4, VariableChanges
<1>7. Function!Alive' = Function!Alive \ {v}
  <2>1. Function!Alive' = {w \in DOMAIN variables : variables'[w].alive}
    BY <1>6 DEF Function!Alive
  <2>2. ASSUME NEW w \in DOMAIN variables
        PROVE  variables'[w].alive <=> variables[w].alive /\ w # v
    BY <1>4, <1>6
  <2> QED BY <2>1, <2>2, Zenon DEF Function!Alive
<1>8. /\ children \in Seq(DOMAIN variables) /\ N \in Nat /\ DOMAIN children = 1 .. N
      /\ Function!ToSet(children) = Function!Alive /\ Function!IsInjective(children)
  BY LenProperties DEF FunctionInv, ChildrenInv
<1> DEFINE was(j) == IF j < i THEN j ELSE j + 1
           now(j) == IF j < i THEN j ELSE j - 1
<1>9. /\ children' \in Seq(DOMAIN variables) /\ Len(children') = N - 1
      /\ \A j \in 1 .. N - 1 : children'[j] = children[was(j)]
  <2>1. /\ children' \in Seq(DOMAIN variables) /\ Len(children') = N - 1
        /\ \A j \in 1 .. N - 1 : children'[j] = IF j < i THEN children[j] ELSE children[j + 1]
    BY <1>1, <1>5, <1>8, Removed
  <2> QED BY SMTT(60), <2>1
<1>10. /\ \A j \in 1 .. N - 1 : was(j) \in 1 .. N /\ was(j) # i
       /\ \A j, k \in 1 .. N - 1 : was(j) = was(k) => j = k
       /\ \A j \in 1 .. N : j # i => now(j) \in 1 .. N - 1 /\ was(now(j)) = j
  BY <1>5, <1>8
<1>11. DOMAIN children' = 1 .. N - 1
  BY <1>9, LenProperties
<1> HIDE DEF was, now
<1>12. Function!ToSet(children') = Function!ToSet(children) \ {v}
  <2>1. ASSUME NEW j \in 1 .. N - 1
        PROVE  children'[j] \in Function!ToSet(children) /\ children'[j] # v
    BY <1>5, <1>8, <1>9, <1>10 DEF Function!ToSet, Function!IsInjective
  <2>2. ASSUME NEW j \in 1 .. N, children[j] # v
        PROVE  children[j] \in Function!ToSet(children')
    <3>1. now(j) \in 1 .. N - 1 /\ was(now(j)) = j
      BY <1>5, <1>10, <2>2
    <3> QED BY <1>9, <1>11, <3>1 DEF Function!ToSet
  <2>3. Function!ToSet(children') \subseteq Function!ToSet(children) \ {v}
    BY <1>11, <2>1 DEF Function!ToSet
  <2>4. Function!ToSet(children) \ {v} \subseteq Function!ToSet(children')
    BY <1>8, <2>2 DEF Function!ToSet
  <2> QED BY <2>3, <2>4
<1>13. Function!IsInjective(children')
  <2>1. ASSUME NEW j \in 1 .. N - 1, NEW k \in 1 .. N - 1, children'[j] = children'[k]
        PROVE  j = k
    <3>1. was(j) = was(k)
      BY <1>8, <1>9, <1>10, <2>1 DEF Function!IsInjective
    <3> QED BY <1>10, <3>1
  <2> QED BY <1>11, <2>1 DEF Function!IsInjective
<1>14. ChildrenInv'
  BY <1>6, <1>7, <1>8, <1>9, <1>12, <1>13 DEF ChildrenInv
<1>15. ReadingInv'
  <2>1. \A w \in DOMAIN variables :
          Len(variables[w].ranges) \in Nat /\ variables'[w].ranges = variables[w].ranges
    BY <1>2, <1>4, <1>6, FieldsOf
  <2> QED BY <1>1, <1>6, <2>1, ReadingKept DEF FunctionInv
<1>16. Function!AnswersCurrent' /\ SeenInv' /\ missed' = {} /\ calls' \in 0 .. MaxCalls
  BY Told DEF Function!Delete
<1> QED BY <1>1, <1>6, <1>14, <1>15, <1>16 DEF FunctionInv

(* An element of a sequence is moved.                                      *)
LEMMA ElementMoved ==
  ASSUME NEW S, NEW s \in Seq(S), Function!IsInjective(s),
         NEW i \in 1 .. Len(s), NEW k \in 1 .. Len(s),
         NEW e, e = s[i], NEW t, t = Function!InsertAt(Function!RemoveAt(s, i), k, e)
  PROVE  /\ t \in Seq(S) /\ Len(t) = Len(s)
         /\ Function!ToSet(t) = Function!ToSet(s) /\ Function!IsInjective(t)
         /\ t[k] = e
         /\ \A j \in 1 .. Len(s) :
              j # k => t[j] = LET l == IF j < k THEN j ELSE j - 1
                              IN IF l < i THEN s[l] ELSE s[l + 1]
<1> DEFINE N == Len(s)
           r == Function!RemoveAt(s, i)
<1>1. N \in Nat /\ DOMAIN s = 1 .. N /\ e \in S
  BY LenProperties, ElementOfSeq
<1>2. /\ r \in Seq(S) /\ Len(r) = N - 1
      /\ \A j \in 1 .. N - 1 : r[j] = IF j < i THEN s[j] ELSE s[j + 1]
  BY Removed
<1> HIDE DEF r
<1>3. /\ t \in Seq(S) /\ Len(t) = N
      /\ \A j \in 1 .. N : t[j] = IF j < k THEN r[j] ELSE IF j = k THEN e ELSE r[j - 1]
  <2>1. Len(r) + 1 = N /\ k \in 1 .. Len(r) + 1
    BY <1>1, <1>2
  <2>2. /\ t \in Seq(S) /\ Len(t) = Len(r) + 1
        /\ \A j \in 1 .. Len(r) + 1 : t[j] = IF j < k THEN r[j] ELSE IF j = k THEN e ELSE r[j - 1]
    <3> DEFINE u == Function!InsertAt(r, k, e)
    <3>1. /\ u \in Seq(S) /\ Len(u) = Len(r) + 1
          /\ \A j \in 1 .. Len(r) + 1 : u[j] = IF j < k THEN r[j] ELSE IF j = k THEN e ELSE r[j - 1]
      <4>1. r \in Seq(S) /\ k \in 1 .. Len(r) + 1 /\ e \in S
        BY <1>1, <1>2, <2>1
      <4> QED BY ONLY <4>1, Inserted
    <3>2. t = u
      BY DEF r
    <3> QED BY <3>1, <3>2
  <2> QED BY <2>1, <2>2
<1> DEFINE left(l) == IF l < i THEN l ELSE l + 1
           was(j) == IF j < k THEN left(j) ELSE IF j = k THEN i ELSE left(j - 1)
           now(l) == IF l = i THEN k
                    ELSE LET m == IF l < i THEN l ELSE l - 1 IN IF m < k THEN m ELSE m + 1
<1>4. \A j \in 1 .. N : t[j] = s[was(j)] /\ was(j) \in 1 .. N
  <2>1. ASSUME NEW j \in 1 .. N PROVE t[j] = s[was(j)] /\ was(j) \in 1 .. N
    <3>1. CASE j < k
      <4>1. j \in 1 .. N - 1
        BY <1>1, <3>1
      <4> QED BY <1>1, <1>2, <1>3, <3>1, <4>1
    <3>2. CASE j = k
      BY <1>1, <1>3, <3>2
    <3>3. CASE j > k
      <4>1. j - 1 \in 1 .. N - 1 /\ ~(j < k) /\ j # k
        BY <1>1, <3>3
      <4> QED BY <1>1, <1>2, <1>3, <4>1
    <3> QED BY <1>1, <3>1, <3>2, <3>3
  <2> QED BY <2>1
<1>5. \A j, l \in 1 .. N : was(j) = was(l) => j = l
  BY <1>1
<1>6. \A l \in 1 .. N : now(l) \in 1 .. N /\ was(now(l)) = l
  BY <1>1
<1>7. \A j \in 1 .. N : j # k => t[j] = LET l == IF j < k THEN j ELSE j - 1
                                        IN IF l < i THEN s[l] ELSE s[l + 1]
  BY <1>1, <1>4
<1>8. t[k] = e
  BY <1>1, <1>3
<1> HIDE DEF was, now
<1>9. DOMAIN t = 1 .. N
  BY <1>3, LenProperties
<1>10. Function!ToSet(t) = Function!ToSet(s)
  <2>1. \A j \in 1 .. N : t[j] \in Function!ToSet(s)
    BY <1>1, <1>4 DEF Function!ToSet
  <2>2. ASSUME NEW l \in 1 .. N PROVE s[l] \in Function!ToSet(t)
    <3>1. now(l) \in 1 .. N /\ t[now(l)] = s[l]
      BY <1>4, <1>6
    <3> QED BY <1>9, <3>1 DEF Function!ToSet
  <2>3. Function!ToSet(t) \subseteq Function!ToSet(s)
    BY <1>9, <2>1 DEF Function!ToSet
  <2>4. Function!ToSet(s) \subseteq Function!ToSet(t)
    BY <1>1, <2>2 DEF Function!ToSet
  <2> QED BY <2>3, <2>4
<1>11. Function!IsInjective(t)
  <2>1. ASSUME NEW j \in 1 .. N, NEW l \in 1 .. N, t[j] = t[l] PROVE j = l
    <3>1. was(j) = was(l)
      BY <1>1, <1>4, <2>1 DEF Function!IsInjective
    <3> QED BY <1>5, <3>1
  <2> QED BY <1>9, <2>1 DEF Function!IsInjective
<1> QED BY <1>3, <1>7, <1>8, <1>10, <1>11

(* A parameter is moved.                                                   *)
LEMMA NewPlace ==
  ASSUME FunctionInv, NEW pos
  PROVE  Function!IndexOfParameter(pos) \in 1 .. Len(children) + 1
<1>1. Len(children) \in Nat /\ DOMAIN children = 1 .. Len(children)
  BY LenProperties DEF FunctionInv, ChildrenInv
<1> DEFINE parameters == {i \in DOMAIN children : variables[children[i]].kind = "parameter"}
           reached == {i \in parameters : Function!Cardinality({j \in parameters : j < i}) = pos}
<1>2. reached # {} => (CHOOSE i \in reached : TRUE) \in 1 .. Len(children)
  <2>1. reached \subseteq 1 .. Len(children)
    BY <1>1
  <2>2. reached # {} => (CHOOSE i \in reached : TRUE) \in reached
    OBVIOUS
  <2> QED BY <2>1, <2>2
<1>3. Function!IndexOfParameter(pos) = IF reached = {} THEN Len(children) + 1
                                          ELSE CHOOSE i \in reached : TRUE
  BY DEF Function!IndexOfParameter
<1> HIDE DEF reached
<1> QED BY <1>1, <1>2, <1>3

(* It comes before another child.                                          *)
LEMMA MoveBeforeStep ==
  ASSUME FunctionInv, NEW v \in Function!Alive, NEW pos, Function!MoveBefore(v, pos)
  PROVE  FunctionInv'
<1> DEFINE N == Len(children)
           i == Function!ChildPosition(v) + 1
           new == Function!IndexOfParameter(pos)
           k == IF new > i THEN new - 1 ELSE new
<1>1. children' = Function!InsertAt(Function!RemoveAt(children, i), k, v)
  BY DEF Function!MoveBefore, Function!Moved
<1>2. i \in 1 .. N /\ children[i] = v
  BY ChildPlace
<1>3. new \in 1 .. N + 1
  BY NewPlace
<1>4. /\ children \in Seq(DOMAIN variables) /\ N \in Nat
      /\ Function!ToSet(children) = Function!Alive /\ Function!IsInjective(children)
  BY LenProperties DEF FunctionInv, ChildrenInv
<1> HIDE DEF i, new
<1>5. k \in 1 .. N
  BY <1>2, <1>3, <1>4
<1> HIDE DEF k
<1>6. /\ children' \in Seq(DOMAIN variables) /\ Function!ToSet(children') = Function!ToSet(children)
      /\ Function!IsInjective(children')
  BY <1>1, <1>2, <1>4, <1>5, ElementMoved
<1>7. UNCHANGED <<variables, returnType, reading>>
  BY DEF Function!MoveBefore
<1>8. ChildrenInv'
  BY <1>4, <1>6, <1>7 DEF ChildrenInv, Function!Alive
<1>9. VariablesInv' /\ ReadingInv'
  BY <1>7 DEF FunctionInv, VariablesInv, ReadingInv
<1>10. Function!AnswersCurrent' /\ SeenInv' /\ missed' = {} /\ calls' \in 0 .. MaxCalls
  BY Told DEF Function!MoveBefore
<1> QED BY <1>7, <1>8, <1>9, <1>10 DEF FunctionInv

(* Every operation keeps the invariant.                                    *)
LEMMA FunctionNext ==
  ASSUME FunctionInv, [Function!Next]_Function!vars
  PROVE  FunctionInv'
<1>1. CASE UNCHANGED Function!vars
  <2>1. UNCHANGED <<children, variables, returnType, functionType, seen, missed, reading, calls>>
    BY <1>1 DEF Function!vars
  <2>2. ReadingInv' /\ calls' \in 0 .. MaxCalls
    BY <2>1 DEF FunctionInv, ReadingInv
  <2> QED BY <2>1, <2>2, OnlyReading
<1>2. ASSUME NEW type \in Types, Function!Add("parameter", type) \/ Function!Add("local", type)
             \/ Function!SetReturnType(type)
      PROVE  FunctionInv'
  BY <1>2, AddStep, SetReturnTypeStep
<1>3. ASSUME NEW v \in Function!Alive, NEW type \in Types, Function!SetType(v, type)
      PROVE  FunctionInv'
  BY <1>3, SetTypeStep
<1>4. ASSUME NEW v \in Function!Alive, Function!Delete(v)
      PROVE  FunctionInv'
  BY <1>4, DeleteStep
<1>5. ASSUME NEW v \in Function!Alive, NEW pos, Function!MoveBefore(v, pos)
      PROVE  FunctionInv'
  BY <1>5, MoveBeforeStep
<1>6. ASSUME NEW v \in Function!Alive, NEW other \in Function!Alive,
             Function!MoveBeforeParameter(v, other)
      PROVE  FunctionInv'
  BY <1>6, MoveBeforeStep DEF Function!MoveBeforeParameter
<1>7. ASSUME NEW v \in Function!Alive, NEW offset \in Function!RangeOffsets,
             NEW size \in RangeSizes,
             NEW loc \in Function!Locations, Function!AddLiveRange(v, offset, size, loc)
      PROVE  FunctionInv'
  BY <1>7, AddLiveRangeStep
<1>8. ASSUME NEW v \in Function!Alive, NEW offset \in Function!RangeOffsets,
             NEW size \in RangeSizes,
             NEW loc \in Function!Locations, NEW id \in Function!RangeIds(v),
             Function!SetLiveRange(v, Function!LiveRange(offset, size, loc, id))
      PROVE  FunctionInv'
  BY <1>8, SetLiveRangeStep
<1>9. ASSUME NEW v \in Function!Alive, NEW id \in Function!RangeIds(v),
             Function!DeleteLiveRange(v, id)
      PROVE  FunctionInv'
  BY <1>9, DeleteLiveRangeStep
<1>10. ASSUME NEW v \in Function!Alive, Function!BeginReading(v)
       PROVE  FunctionInv'
  BY <1>10, BeginReadingStep
<1>11. CASE Function!Propagate
  BY <1>11, PropagateStep
<1>12. CASE Function!Yield
  BY <1>12, YieldStep
<1>13. CASE Function!EndReading
  BY <1>13, EndReadingStep
<1>14. CASE Function!Ask
  BY <1>14, AskStep
<1> QED
  BY <1>1, <1>2, <1>3, <1>4, <1>5, <1>6, <1>7, <1>8, <1>9, <1>10, <1>11, <1>12, <1>13, <1>14
  DEF Function!Next

(* What the invariant is for.                                              *)
LEMMA FunctionTyped ==
  ASSUME FunctionInv
  PROVE  Function!TypeOK
<1>1. Len(children) \in Nat /\ \A i \in 1 .. Len(children) : children[i] \in DOMAIN variables
  BY LenProperties, ElementOfSeq DEF FunctionInv, ChildrenInv
<1>2. \A i \in 1 .. Len(children) : variables[children[i]].type \in Types
  BY <1>1, FieldsOf DEF FunctionInv
<1>3. Function!ParameterTypes(children, variables) \in Seq(Types)
  BY <1>1, <1>2, TypesTyped
<1>4. functionType \in [result : Types, parameters : Seq(Types)]
  BY <1>3 DEF FunctionInv, Function!AnswersCurrent, Function!GetFunctionType
<1>5. variables \in Seq([kind : {"parameter", "local"}, type : Types, curId : Nat,
                         ranges : Seq([id : Nat, offset : Function!RangeOffsets,
                                       size : RangeSizes \cup {FunctionSize},
                                       loc : Function!Locations]),
                         alive : BOOLEAN])
  BY DEF FunctionInv, VariablesInv, VariableRecords, RangeRecords
<1>6. reading.of \in DOMAIN variables \cup {0}
  BY DEF FunctionInv, ReadingInv
<1> QED BY <1>4, <1>5, <1>6 DEF FunctionInv, ChildrenInv, Function!TypeOK

(* Live ranges are apart, but where one lies inside another, and are named.*)
LEMMA FunctionRanges ==
  ASSUME FunctionInv
  PROVE  Function!DisjointOutside /\ Function!RangesNamed
<1>1. ASSUME NEW v \in Function!Alive, NEW i \in DOMAIN variables[v].ranges
      PROVE  /\ variables[v].ranges[i].id <= variables[v].curId
             /\ Function!Position(v, variables[v].ranges[i].id) = i
  <2> DEFINE list == variables[v].ranges
             id == list[i].id
  <2>1. v \in DOMAIN variables
    BY DEF Function!Alive
  <2>2. DOMAIN list = 1 .. Len(list) /\ RangesInv(list, variables[v].curId)
    BY <2>1, FieldsOf DEF FunctionInv
  <2>3. id \in Function!RangeIds(v)
    BY DEF Function!RangeIds
  <2>4. Function!Position(v, id) \in 1 .. Len(list) /\ list[Function!Position(v, id)].id = id
    BY <2>1, <2>3, PositionOf
  <2> QED BY <2>2, <2>4 DEF RangesInv
<1>2. ASSUME NEW v \in Function!Alive, NEW i \in DOMAIN variables[v].ranges,
             NEW j \in DOMAIN variables[v].ranges, i # j
      PROVE  Nested(variables[v].ranges[i], variables[v].ranges[j])
  <2>1. v \in DOMAIN variables
    BY DEF Function!Alive
  <2>2. /\ DOMAIN variables[v].ranges = 1 .. Len(variables[v].ranges)
        /\ RangesInv(variables[v].ranges, variables[v].curId)
    BY <2>1, FieldsOf DEF FunctionInv
  <2> QED BY <1>2, <2>2 DEF RangesInv
<1>3. Function!RangesNamed
  BY <1>1 DEF Function!RangesNamed
<1>4. Function!DisjointOutside
  BY <1>2 DEF Function!DisjointOutside, Function!Inside, Nested
<1> QED BY <1>3, <1>4

(* An iteration ends only where it is at the end of the list.              *)
LEMMA IterationEnds ==
  ASSUME FunctionInv, Function!Next, reading.of # 0, reading'.of = 0, ~reading.shifted
  PROVE  Function!RangeIds(reading.of) \subseteq reading.yielded
<1>1. reading \in [of : DOMAIN variables \cup {0}, cur : Nat, yielded : SUBSET Nat,
                   shifted : BOOLEAN]
  BY DEF FunctionInv, ReadingInv
<1>2. \A v \in Function!Alive : v # 0
  BY FieldsOf DEF FunctionInv, Function!Alive
<1>3. ASSUME NEW v \in Function!Alive, Function!BeginReading(v) PROVE FALSE
  BY <1>3 DEF Function!BeginReading
<1>4. ASSUME NEW v, NEW id, Function!DeleteLiveRange(v, id) PROVE FALSE
  <2>1. reading' = reading \/ reading' = [reading EXCEPT !.shifted = TRUE]
    BY <1>4, Zenon DEF Function!DeleteLiveRange
  <2> QED BY <1>1, <2>1
<1>5. ASSUME Function!Propagate PROVE FALSE
  <2>1. reading' = reading \/ reading' = [reading EXCEPT !.shifted = TRUE]
    BY <1>5, Zenon DEF Function!Propagate
  <2> QED BY <1>1, <2>1
<1>6. ASSUME Function!Yield PROVE FALSE
  <2>1. reading'.of = reading.of
    BY <1>1, <1>6 DEF Function!Yield
  <2> QED BY <2>1
<1>7. ASSUME UNCHANGED reading PROVE FALSE
  BY <1>7
<1>8. Function!EndReading
  <2>1. ASSUME NEW type,
               \/ Function!Add("parameter", type) \/ Function!Add("local", type)
               \/ Function!SetReturnType(type)
        PROVE  FALSE
    BY <1>7, <2>1 DEF Function!Add, Function!SetReturnType
  <2>2. ASSUME NEW v, NEW type, Function!SetType(v, type) PROVE FALSE
    BY <1>7, <2>2 DEF Function!SetType
  <2>3. ASSUME NEW v, Function!Delete(v) PROVE FALSE
    BY <1>7, <2>3 DEF Function!Delete
  <2>4. ASSUME NEW v, NEW pos, Function!MoveBefore(v, pos) PROVE FALSE
    BY <1>7, <2>4 DEF Function!MoveBefore
  <2>5. ASSUME NEW v, NEW other, Function!MoveBeforeParameter(v, other) PROVE FALSE
    BY <2>4, <2>5 DEF Function!MoveBeforeParameter
  <2>6. ASSUME NEW v, NEW offset, NEW size, NEW loc,
               Function!AddLiveRange(v, offset, size, loc)
        PROVE  FALSE
    BY <1>7, <2>6 DEF Function!AddLiveRange
  <2>7. ASSUME NEW v, NEW new, Function!SetLiveRange(v, new) PROVE FALSE
    BY <1>7, <2>7 DEF Function!SetLiveRange
  <2>8. ~Function!Ask
    BY <1>7 DEF Function!Ask
  <2> QED BY <1>3, <1>4, <1>5, <1>6, <2>1, <2>2, <2>3, <2>4, <2>5, <2>6, <2>7, <2>8
    DEF Function!Next
<1> DEFINE list == variables[reading.of].ranges
<1>9. reading.of \in DOMAIN variables
  BY <1>1
<1>10. Len(list) \in Nat /\ DOMAIN list = 1 .. Len(list)
  BY <1>9, FieldsOf DEF FunctionInv
<1>11. Len(list) <= reading.cur /\ \A i \in 1 .. reading.cur : list[i].id \in reading.yielded
  BY <1>1, <1>8, <1>10 DEF Function!EndReading, FunctionInv, ReadingInv
<1>12. \A i \in DOMAIN list : list[i].id \in reading.yielded
  BY <1>1, <1>10, <1>11
<1> QED BY <1>12 DEF Function!RangeIds

(* Where only parameters come first, a parameter's place among them is its *)
(* place among all children.                                               *)
LEMMA PlaceAmongParameters ==
  ASSUME FunctionInv, NEW p \in Nat, p + 1 <= Len(children),
         \A i \in 1 .. p + 1 : variables[children[i]].kind = "parameter"
  PROVE  Function!IndexOfParameter(p) = p + 1
<1> DEFINE parameters == {i \in DOMAIN children : variables[children[i]].kind = "parameter"}
           before(i) == {j \in parameters : j < i}
           reached == {i \in parameters : Function!Cardinality(before(i)) = p}
<1>1. Len(children) \in Nat /\ DOMAIN children = 1 .. Len(children)
  BY LenProperties DEF FunctionInv, ChildrenInv
<1>2. \A i \in 1 .. p + 1 : i \in parameters
  BY <1>1
<1>3. parameters \subseteq 1 .. Len(children)
  BY <1>1
<1> HIDE DEF parameters
<1>4. ASSUME NEW i \in 1 .. p + 1
      PROVE  Cardinality(before(i)) = i - 1
  <2>1. before(i) = 1 .. i - 1
    <3>1. ASSUME NEW j PROVE j \in before(i) <=> j \in 1 .. i - 1
      <4>1. CASE j \in before(i)
        <5>1. j \in 1 .. Len(children) /\ j < i
          BY <1>3, <4>1
        <5> QED BY <1>1, <4>1, <5>1
      <4>2. CASE j \in 1 .. i - 1
        <5>1. j \in 1 .. p + 1 /\ j < i
          BY <4>2
        <5> QED BY <1>2, <4>2, <5>1
      <4>3. CASE j \notin before(i) /\ j \notin 1 .. i - 1
        BY <4>3
      <4> QED BY <4>1, <4>2, <4>3
    <3> QED BY <3>1
  <2>2. Cardinality(1 .. i - 1) = i - 1
    <3>1. Cardinality(1 .. i - 1) = IF 1 > i - 1 THEN 0 ELSE (i - 1) - 1 + 1
      BY FS_Interval
    <3> QED BY <3>1
  <2> QED BY <2>1, <2>2
<1>5. ASSUME NEW i \in parameters, i > p + 1
      PROVE  Cardinality(before(i)) # p
  <2>1. 1 .. p + 1 \in SUBSET before(i)
    BY <1>2, <1>3, <1>5
  <2>2. IsFiniteSet(before(i)) /\ Cardinality(before(i)) \in Nat
    <3>1. before(i) \in SUBSET (1 .. Len(children))
      BY <1>3
    <3>2. IsFiniteSet(1 .. Len(children))
      BY <1>1, FS_Interval
    <3> QED BY <3>2, <3>1, FS_Subset, FS_CardinalityType
  <2>3. Cardinality(1 .. p + 1) <= Cardinality(before(i))
    BY <2>1, <2>2, FS_Subset
  <2>4. Cardinality(1 .. p + 1) = p + 1
    <3>1. 1 \in Int /\ p + 1 \in Int
      OBVIOUS
    <3>2. Cardinality(1 .. p + 1) = IF 1 > p + 1 THEN 0 ELSE (p + 1) - 1 + 1
      BY ONLY <3>1, FS_Interval
    <3> QED BY <3>2
  <2> HIDE DEF before
  <2> QED BY <2>2, <2>3, <2>4
<1> HIDE DEF before
<1>6. \A i : Function!Cardinality(before(i)) = Cardinality(before(i))
  BY SameCardinality
<1>7. reached = {p + 1}
  <2>1. p + 1 \in reached
    BY <1>2, <1>4, <1>6
  <2>2. ASSUME NEW i \in reached PROVE i = p + 1
    <3>1. i \in parameters /\ i \in 1 .. Len(children) /\ Cardinality(before(i)) = p
      BY <1>3, <1>6
    <3>2. ~(i > p + 1)
      BY <1>5, <3>1
    <3>3. i \in 1 .. p + 1 => i - 1 = p
      BY <1>4, <3>1
    <3> QED BY <1>1, <3>1, <3>2, <3>3
  <2> QED BY <2>1, <2>2
<1> HIDE DEF reached
<1>8. Function!IndexOfParameter(p) = IF reached = {} THEN Len(children) + 1
                                          ELSE CHOOSE i \in reached : TRUE
  BY DEF Function!IndexOfParameter, reached, parameters, before
<1> QED BY <1>7, <1>8

(* A parameter comes right before the one it is moved before.              *)
LEMMA MovedRightBefore ==
  ASSUME FunctionInv, NEW v \in Function!Alive, NEW other \in Function!Alive, v # other,
         Function!MoveBeforeParameter(v, other),
         \A i \in 1 .. Function!ChildPosition(other) : variables[children[i]].kind = "parameter"
  PROVE  /\ Len(children') = Len(children)
         /\ \E i \in 1 .. Len(children') - 1 : children'[i] = v /\ children'[i + 1] = other
<1> DEFINE N == Len(children)
           p == Function!ChildPosition(other)
           i == Function!ChildPosition(v) + 1
           new == Function!IndexOfParameter(p)
           k == IF new > i THEN new - 1 ELSE new
<1>1. children' = Function!InsertAt(Function!RemoveAt(children, i), k, v)
  BY DEF Function!MoveBeforeParameter, Function!MoveBefore, Function!Moved
<1>2. i \in 1 .. N /\ children[i] = v
  BY ChildPlace
<1>3. p + 1 \in 1 .. N /\ children[p + 1] = other
  BY ChildPlace
<1>4. /\ children \in Seq(DOMAIN variables) /\ N \in Nat
      /\ Function!IsInjective(children)
  BY LenProperties DEF FunctionInv, ChildrenInv
<1>5. p \in Nat
  <2>1. p \in Int
    <3>1. Function!SelectInSeq(children, LAMBDA c : c = other) \in Int
      <4> DEFINE I == {j \in 1 .. N : children[j] = other}
      <4>1. PICK j \in 1 .. N : children[j] = other
        BY <1>3
      <4>2. I = {j}
        <5>1. DOMAIN children = 1 .. N
          BY <1>4, LenProperties
        <5> QED BY <1>4, <4>1, <5>1 DEF Function!IsInjective
      <4> HIDE DEF I
      <4>3. Function!SelectInSeq(children, LAMBDA c : c = other)
                  = IF I # {} THEN Function!Min(I) ELSE 0
        BY DEF Function!SelectInSeq, I
      <4>4. Function!Min({j}) = j
        BY <4>1, MinOfOne
      <4> QED BY <4>1, <4>2, <4>3, <4>4
    <3> QED BY <3>1 DEF Function!ChildPosition
  <2> HIDE DEF p
  <2> QED BY <1>3, <2>1
<1>6. \A j \in 1 .. p + 1 : variables[children[j]].kind = "parameter"
  <2>1. variables[other].kind = "parameter"
    BY DEF Function!MoveBeforeParameter
  <2> HIDE DEF p
  <2>2. \A j \in 1 .. p + 1 : j \in 1 .. p \/ j = p + 1
    BY <1>5
  <2> QED BY <1>3, <2>1, <2>2 DEF p
<1>7. new = p + 1
  <2>1. p + 1 <= N
    BY <1>3, <1>4
  <2> QED BY <1>5, <1>6, <2>1, PlaceAmongParameters
<1> HIDE DEF p, i, new
<1>8. i # p + 1
  BY <1>2, <1>3
<1>9. k = IF i < p + 1 THEN p ELSE p + 1
  BY <1>2, <1>4, <1>5, <1>7
<1> HIDE DEF k
<1>10. k \in 1 .. N - 1 /\ k + 1 \in 1 .. N /\ k \in 1 .. N
  BY <1>2, <1>3, <1>4, <1>5, <1>8, <1>9
<1>11. /\ Len(children') = N /\ children'[k] = v
       /\ \A j \in 1 .. N :
            j # k => children'[j] = LET l == IF j < k THEN j ELSE j - 1
                                    IN IF l < i THEN children[l] ELSE children[l + 1]
  <2> DEFINE S == DOMAIN variables
             t == children'
  <2>1. /\ children \in Seq(S) /\ i \in 1 .. Len(children) /\ k \in 1 .. Len(children)
        /\ v = children[i] /\ t = Function!InsertAt(Function!RemoveAt(children, i), k, v)
        /\ Function!IsInjective(children)
    BY <1>1, <1>2, <1>4, <1>10
  <2> HIDE DEF S, t
  <2>2. /\ Len(t) = Len(children) /\ t[k] = v
        /\ \A j \in 1 .. Len(children) :
             j # k => t[j] = LET l == IF j < k THEN j ELSE j - 1
                             IN IF l < i THEN children[l] ELSE children[l + 1]
    BY ONLY <2>1, ElementMoved
  <2> QED BY <2>2 DEF t
<1>12. children'[k + 1] = other
  <2>1. children'[k + 1] = IF k < i THEN children[k] ELSE children[k + 1]
    <3>1. k + 1 # k /\ ~(k + 1 < k) /\ (k + 1) - 1 = k
      BY <1>10
    <3> QED BY <1>10, <1>11, <3>1
  <2>2. CASE i < p + 1
    <3>1. k = p /\ ~(k < i) /\ k + 1 = p + 1
      BY <1>2, <1>4, <1>5, <1>9, <2>2
    <3> QED BY <1>3, <2>1, <3>1
  <2>3. CASE ~(i < p + 1)
    <3>1. k = p + 1 /\ k < i
      BY <1>2, <1>4, <1>5, <1>8, <1>9, <2>3
    <3> QED BY <1>3, <2>1, <3>1
  <2> QED BY <2>2, <2>3
<1> QED BY <1>10, <1>11, <1>12

(* The variables of the function are changed by their own part only.       *)
LEMMA FunctionPart ==
  /\ PartsInit => Function!Init
  /\ PartsNext => [Function!Next]_Function!vars
  /\ UNCHANGED functionVars => UNCHANGED Function!vars
<1>1. UNCHANGED functionVars => UNCHANGED Function!vars
  BY DEF functionVars, Function!vars
<1> QED BY <1>1 DEF PartsInit, PartsNext

(* What the invariant says of a step.                                      *)
LEMMA FunctionPromised ==
  ASSUME FunctionInv, [Function!Next]_Function!vars
  PROVE  /\ [\A v, other \in Function!Alive :
               /\ v # other /\ Function!MoveBeforeParameter(v, other)
               /\ \A i \in 1 .. Function!ChildPosition(other) :
                    variables[children[i]].kind = "parameter"
               => Len(children') = Len(children) /\
                  \E i \in 1 .. Len(children') - 1 :
                    children'[i] = v /\ children'[i + 1] = other]_Function!vars
         /\ [reading.of # 0 /\ reading'.of = 0 /\ ~reading.shifted
               => Function!RangeIds(reading.of) \subseteq reading.yielded]_Function!vars
<1>1. ASSUME NEW v \in Function!Alive, NEW other \in Function!Alive, v # other,
             Function!MoveBeforeParameter(v, other),
             \A i \in 1 .. Function!ChildPosition(other) :
               variables[children[i]].kind = "parameter"
      PROVE  /\ Len(children') = Len(children)
             /\ \E i \in 1 .. Len(children') - 1 : children'[i] = v /\ children'[i + 1] = other
  BY <1>1, MovedRightBefore
<1>2. ASSUME reading.of # 0, reading'.of = 0, ~reading.shifted
      PROVE  Function!RangeIds(reading.of) \subseteq reading.yielded
  <2>1. Function!Next
    BY <1>2 DEF Function!vars
  <2> QED BY <1>2, <2>1, IterationEnds
<1> QED BY <1>1, <1>2

(* The invariant holds.                                                    *)
LEMMA FunctionAlways == PartsSpec => []FunctionInv /\ [][Function!Next]_Function!vars
<1> DEFINE parts == <<part, typeVars, fieldVars, functionVars, rangeVars, managerVars>>
<1>1. PartsInit => FunctionInv
  BY FunctionInit, FunctionPart
<1>2. [PartsNext]_parts => [Function!Next]_Function!vars
  BY FunctionPart
<1>3. FunctionInv /\ [Function!Next]_Function!vars => FunctionInv'
  BY FunctionNext
<1> QED BY <1>1, <1>2, <1>3, PTL DEF PartsSpec

(* What the debugger keeps of a function is what it would be told now: the *)
(* type that its parameters in their order and its result have, and where  *)
(* its variables are, but for live ranges that a propagation took away:    *)
(* for any types, ranges and number of variables, whatever a script calls. *)
THEOREM AnswersAlwaysCurrent == PartsSpec => []AnswersCurrent
<1>1. FunctionInv => AnswersCurrent
  BY DEF FunctionInv, AnswersCurrent
<1> QED BY <1>1, FunctionAlways, PTL

(* Two live ranges of a variable do not overlap, unless one lies inside the*)
(* other and begins after it, which the code lets happen; an id names one  *)
(* live range for ever, whatever is added, set, deleted and propagated, and*)
(* wherever sums wrap around.                                              *)
THEOREM RangesAlwaysKept == PartsSpec => []RangesKept
<1>1. FunctionInv => RangesKept
  BY FunctionTyped, FunctionRanges DEF RangesKept, Function!RangesKept
<1> QED BY <1>1, FunctionAlways, PTL

(* A parameter that is moved before another one, with no local before that *)
(* one, comes right before it; an iteration over live ranges yields all    *)
(* there still are, unless one at or before its position was deleted.      *)
THEOREM ListsAlwaysFollow == PartsSpec => ListsFollow
<1>1. []FunctionInv /\ [][Function!Next]_Function!vars
        => Function!MovedBefore /\ Function!IterationWhole
  BY FunctionPromised, PTL DEF Function!MovedBefore, Function!IterationWhole
<1> QED BY <1>1, FunctionAlways, PTL DEF ListsFollow

-----------------------------------------------------------------------------
(* The ranges of a function's parameters: the inductive invariant.         *)

(* A sequence, of whatever elements.                                       *)
IsSeq(s) == Len(s) \in Nat /\ s = [i \in 1 .. Len(s) |-> s[i]]

(* Where the ranges that live in a block reach, and whether an instruction *)
(* is just marking those it kills.                                         *)
Walking(b) == phase = "walk" /\ b = entry.block
Cursor(b) == IF ~Walking(b) THEN b ELSE IF isReached THEN instr + 1 ELSE instr
Marking(b) == Walking(b) /\ isReached

(* A range is alive up to the cursor of its block, and goes on until an    *)
(* instruction kills it or its block ends; no instruction before the last  *)
(* one it reaches kills it.                                                *)
Killed(lr) == lr.start < lr.end /\ Builder!Kills(Builder!Code(lr.end - 1), lr.loc)
StateAt(b, cursor, marking, lr) ==
  \/ lr.state = "Live" /\ lr.end = cursor /\ ~Killed(lr)
  \/ lr.state = "MarkedForKill" /\ marking /\ lr.end = cursor /\ Killed(lr)
  \/ lr.state = "Dead" /\ Killed(lr)
  \/ lr.state = "LiveAtEndOfBlock" /\ lr.end = Builder!EndOf(b)
RangeAt(b, cursor, marking, lr) ==
  /\ lr = [start |-> lr.start, end |-> lr.end, loc |-> lr.loc, slot |-> lr.slot,
           state |-> lr.state]
  /\ lr.start \in b .. Builder!EndOf(b) /\ lr.end \in lr.start .. Builder!EndOf(b)
  /\ lr.loc # Builder!Lists!NoLocation
  /\ \A a \in lr.start .. lr.end - 2 : ~Builder!Kills(Builder!Code(a), lr.loc)
  /\ StateAt(b, cursor, marking, lr)

(* The ranges of a block, while it is walked up to the cursor.             *)
InfoAt(b, cursor, marking, info) ==
  /\ info = [count |-> info.count, slots |-> info.slots, ranges |-> info.ranges]
  /\ info.count \in 0 .. MaximumTraversalCount /\ info.slots \in Seq(Nat)
  /\ info.ranges = [p \in Builder!Params |-> info.ranges[p]]
  /\ \A p \in Builder!Params :
       /\ IsSeq(info.ranges[p])
       /\ \A i \in 1 .. Len(info.ranges[p]) : RangeAt(b, cursor, marking, info.ranges[p][i])

(* The function, the queue and where the traversal stands.                 *)
ProgramInv ==
  /\ Builder!IsFunction(program)
  /\ phase \in {"traverse", "carry", "walk", "create", "run", "failed"}
  /\ bbTrav \in Seq(Builder!Entries) /\ entry \in Builder!Entries
  /\ changedRanges \in BOOLEAN /\ isReached \in BOOLEAN
  /\ instr \in 1 .. Builder!CodeEnd /\ lastRange \in Nat \X Nat
  /\ window \in Seq(1 .. Builder!CodeEnd) /\ Len(window) <= 3
  /\ "ip" \in DOMAIN machine /\ machine.ip \in 1 .. Builder!CodeEnd /\ steps \in 0 .. MaxSteps
  /\ phase = "walk" =>
       /\ instr \in entry.block .. Builder!EndOf(entry.block)
       /\ isReached => instr < Builder!EndOf(entry.block)

(* Every block is at its cursor, which is its start when it is not walked. *)
BlocksInv ==
  /\ bbInfo = [b \in Builder!Starts |-> bbInfo[b]]
  /\ \A b \in Builder!Starts : InfoAt(b, Cursor(b), Marking(b), bbInfo[b])

-----------------------------------------------------------------------------
(* The live ranges as the lists have them: the last address of one, and    *)
(* whether it covers an address.                                           *)
SaidEnd(r) == r.offset + r.size
Covering(r, a) == r.offset < a /\ a <= SaidEnd(r)

(* The last of a list, when it ends before an address.                     *)
Adjoining(list, a) == list # <<>> /\ SaidEnd(list[Len(list)]) = a - 1

(* A list says nothing at or behind a limit; its ranges follow each other, *)
(* and none could be merged with the next.                                 *)
ListInv(list, limit) ==
  /\ IsSeq(list)
  /\ \A i \in 1 .. Len(list) :
       /\ list[i].offset \in Nat /\ list[i].size \in Nat \ {0} /\ SaidEnd(list[i]) < limit
       /\ list[i].loc # Builder!Lists!NoLocation
  /\ \A i, j \in 1 .. Len(list) : i < j => SaidEnd(list[i]) <= list[j].offset
  /\ \A i \in 1 .. Len(list) - 1 :
       SaidEnd(list[i]) = list[i + 1].offset => list[i].loc # list[i + 1].loc

(* What a list and a range under way say up to a limit.                    *)
Under(range, a) == range.start # 0 /\ range.start <= a /\ a < range.end

(* What is said is brought, and what is brought is said up to the limit.   *)
CoverInv(q, list, limit, range) ==
  /\ \A i \in 1 .. Len(list), a \in 1 .. Len(program.code) :
       Covering(list[i], a) => list[i].loc \in Builder!Brought(q, a)
  /\ \A a \in 1 .. limit - 1 :
       Builder!Brought(q, a) # {} =>
         (\E i \in 1 .. Len(list) : Covering(list[i], a)) \/ Under(range, a)

(* The range under way lies behind the list, could not be merged with its  *)
(* last one, says what is brought, and ends with a usable range of a       *)
(* block.                                                                  *)
OpenInv(q, list, range) ==
  /\ range.start \in 1 .. range.end - 1
  /\ range.loc # Builder!Lists!NoLocation
  /\ ListInv(list, range.start)
  /\ Adjoining(list, range.start) => list[Len(list)].loc # range.loc
  /\ \A a \in range.start .. range.end - 1 : range.loc \in Builder!Brought(q, a)
  /\ \E b \in Builder!Starts : \E i \in 1 .. Len(bbInfo[b].ranges[q]) :
       LET lr == bbInfo[b].ranges[q][i] IN
       Builder!IsUsable(bbInfo[b], lr) /\ lr.loc = range.loc /\ lr.end = range.end

(* With none under way, what comes next is not what the list ended with.   *)
ClosedInv ==
  Adjoining(liveRanges[at.param], at.instrp) =>
    /\ Builder!InBlock
    /\ \A lr \in Builder!Candidates : lr.loc # liveRanges[at.param][Len(liveRanges[at.param])].loc

(* How far the list of a parameter is made, and what is under way for it.  *)
Limit(q) ==
  IF phase = "run" \/ q < at.param THEN Builder!CodeEnd ELSE IF q = at.param THEN at.instrp ELSE 1
RangeOf(q) == IF q = at.param THEN at.range ELSE Builder!NoRange
CursorInv ==
  /\ at = [param |-> at.param, block |-> at.block, instrp |-> at.instrp, range |-> at.range]
  /\ at.range = [start |-> at.range.start, end |-> at.range.end, loc |-> at.range.loc]
  /\ at.param \in Builder!Params /\ at.block \in Builder!Starts
  /\ at.instrp \in at.block .. Builder!EndOf(at.block)
  /\ liveRanges = [p \in Builder!Params |-> liveRanges[p]]

(* The lists are those of the blocks as far as they are made; before that  *)
(* nothing is said.                                                        *)
CreateInv ==
  /\ CursorInv
  /\ \A q \in Builder!Params :
       /\ ListInv(liveRanges[q], Limit(q))
       /\ CoverInv(q, liveRanges[q], Limit(q), RangeOf(q))
  /\ phase = "create" /\ at.range.start # 0 =>
       /\ OpenInv(at.param, liveRanges[at.param], at.range)
       /\ at.range.end = at.instrp
  /\ phase = "create" /\ at.range.start = 0 => ClosedInv
  /\ phase = "run" => at.range.start = 0
  /\ phase \notin {"create", "run"} =>
       /\ at = [param |-> 1, block |-> 1, instrp |-> 1, range |-> Builder!NoRange]
       /\ liveRanges = [p \in Builder!Params |-> <<>>]

BuilderInv == ProgramInv /\ BlocksInv /\ CreateInv

(* What the constants of the builder are.                                  *)
LEMMA BuilderConstants ==
  /\ \A f \in Programs : Builder!IsFunction(f)
  /\ NumOrdinals \in 0 .. 2 /\ MaximumTraversalCount \in Nat \ {0}
  /\ Span \in Nat /\ MaxSteps \in Nat
BY SymbolPartsAssumption, SymbolPartsFunctions

-----------------------------------------------------------------------------
(* Sets of numbers and sequences.                                          *)

(* The least of a set of numbers.                                          *)
LEMMA LeastOf ==
  ASSUME NEW T, T \subseteq Nat, T # {}
  PROVE  Builder!Min(T) \in T /\ \A y \in T : Builder!Min(T) <= y
<1> DEFINE R == OpToRel(<, Nat)
<1>1. IsWellFoundedOn(R, Nat)
  BY NatLessThanWellFounded
<1>2. \A x, y \in Nat : <<y, x>> \in R <=> y < x
  BY DEF OpToRel
<1> HIDE DEF R
<1>3. PICK x \in T : \A y \in T : ~ (<<y, x>> \in R)
  BY <1>1, WFMin
<1>4. x \in Nat /\ \A y \in T : y \in Nat /\ ~(y < x)
  BY <1>2, <1>3
<1>5. \A y \in T : x <= y
  BY <1>4
<1> QED BY <1>3, <1>5 DEF Builder!Min

(* A block ends behind its start, where another one starts at the earliest.*)
LEMMA EndsOfBlocks ==
  ASSUME Builder!IsFunction(program), NEW b \in Builder!Starts
  PROVE  /\ b \in 1 .. Len(program.code) /\ Builder!EndOf(b) \in b + 1 .. Builder!CodeEnd
         /\ \A s \in Builder!Starts : s <= b \/ Builder!EndOf(b) <= s
         /\ Builder!EndOf(b) # Builder!CodeEnd => Builder!EndOf(b) \in Builder!Starts
         /\ {s \in Builder!Starts : s > b} = {} => Builder!EndOf(b) = Builder!CodeEnd
         /\ {s \in Builder!Starts : s > b} # {}
            => Builder!EndOf(b) = Builder!Min({s \in Builder!Starts : s > b})
<1> DEFINE T == {s \in Builder!Starts : s > b} \cup {Builder!CodeEnd}
<1>0. Builder!Starts \subseteq 1 .. Len(program.code) /\ Len(program.code) \in Nat
      /\ Builder!CodeEnd \in Nat
  BY DEF Builder!IsFunction, Builder!Starts, Builder!CodeEnd
<1>1. T \subseteq Nat /\ T # {}
  <2>1. Builder!Starts \subseteq Nat
    BY <1>0
  <2> QED BY <1>0, <2>1
<1>2. Builder!Min(T) \in T /\ \A y \in T : Builder!Min(T) <= y
  BY <1>1, LeastOf
<1>3. Builder!EndOf(b) = Builder!Min(T)
  BY DEF Builder!EndOf
<1>4. ASSUME {s \in Builder!Starts : s > b} # {}
             PROVE Builder!EndOf(b) = Builder!Min({s \in Builder!Starts : s > b})
  <2> DEFINE U == {s \in Builder!Starts : s > b}
  <2>a. U \subseteq Nat
    <3>1. Builder!Starts \subseteq Nat
      BY <1>0
    <3> QED BY ONLY <3>1
  <2>b. U # {}
    BY ONLY <1>4
  <2>0. U \subseteq Nat /\ U # {}
    BY <2>a, <2>b
  <2>1. Builder!Min(U) \in U /\ \A y \in U : Builder!Min(U) <= y
    BY <2>0, LeastOf
  <2>2. Builder!Min(T) \in U /\ Builder!Min(T) <= Builder!Min(U)
    <3>0. Builder!Min(U) \in 1 .. Len(program.code) /\ Builder!Min(U) \in T
      BY <1>0, <2>1
    <3>1. Builder!Min(U) \in T /\ Builder!Min(U) \in 1 .. Len(program.code)
          /\ Builder!Min(U) < Builder!CodeEnd
      BY <1>0, <3>0 DEF Builder!CodeEnd
    <3>2. Builder!Min(T) <= Builder!Min(U) /\ Builder!Min(T) \in Nat
      BY <1>1, <1>2, <3>1
    <3>3. Builder!Min(T) # Builder!CodeEnd
      BY <1>0, <3>1, <3>2
    <3> QED BY <1>2, <3>2, <3>3
  <2>3. Builder!Min(U) <= Builder!Min(T) /\ Builder!Min(U) \in Nat /\ Builder!Min(T) \in Nat
    BY <1>1, <1>2, <2>0, <2>1, <2>2
  <2>4. Builder!Min(U) = Builder!Min(T)
    BY <2>2, <2>3
  <2> QED BY <1>3, <2>4
<1>5. ASSUME {s \in Builder!Starts : s > b} = {} PROVE Builder!EndOf(b) = Builder!CodeEnd
  BY <1>2, <1>3, <1>5
<1>6. Builder!EndOf(b) \in T /\ \A y \in T : Builder!EndOf(b) <= y
  BY <1>2, <1>3
<1>7. b \in 1 .. Len(program.code)
  BY <1>0
<1>8. Builder!EndOf(b) \in b + 1 .. Builder!CodeEnd
  <2>1. Builder!EndOf(b) <= Builder!CodeEnd /\ Builder!EndOf(b) \in Nat /\ Builder!EndOf(b) > b
    BY <1>0, <1>1, <1>6, <1>7 DEF Builder!CodeEnd
  <2> QED BY <1>0, <1>7, <2>1
<1>9. \A s \in Builder!Starts : s <= b \/ Builder!EndOf(b) <= s
  BY <1>0, <1>6, <1>7
<1>10. Builder!EndOf(b) # Builder!CodeEnd => Builder!EndOf(b) \in Builder!Starts
  BY <1>6
<1> QED BY <1>4, <1>5, <1>7, <1>8, <1>9, <1>10

(* A function entered at its first address has it as its first block.      *)
LEMMA FirstBlock ==
  ASSUME Builder!IsFunction(program)
  PROVE  /\ Builder!Min(Builder!Starts) = 1 /\ 1 \in Builder!Starts /\ 1 \in Builder!Params
         /\ Builder!Params = 1 .. Len(program.kinds) /\ Len(program.kinds) \in Nat
         /\ Builder!CodeEnd \in Nat \ {0} /\ Builder!CodeEnd = Len(program.code) + 1
         /\ Builder!Starts \subseteq 1 .. Len(program.code)
         /\ Len(program.code) \in 1 .. Span - 1 /\ Len(program.code) \in Nat /\ Span \in Nat
<1>0. Len(program.code) \in 1 .. Span - 1 /\ Span \in Nat /\ Len(program.code) \in Nat
  BY BuilderConstants DEF Builder!IsFunction
<1>1. Builder!Starts \subseteq Nat /\ 1 \in Builder!Starts
      /\ Builder!Starts \subseteq 1 .. Len(program.code)
  BY <1>0 DEF Builder!IsFunction, Builder!Starts
<1>2. Builder!Min(Builder!Starts) \in Builder!Starts
      /\ \A y \in Builder!Starts : Builder!Min(Builder!Starts) <= y
  BY <1>1, LeastOf
<1>3. Builder!Min(Builder!Starts) = 1
  <2>1. Builder!Min(Builder!Starts) \in 1 .. Len(program.code) /\ Builder!Min(Builder!Starts) <= 1
    BY <1>1, <1>2
  <2> QED BY <1>0, <2>1
<1>4. Builder!Params = 1 .. Len(program.kinds) /\ Len(program.kinds) \in Nat /\ 1 \in Builder!Params
  BY EmptySeq, LenProperties DEF Builder!IsFunction, Builder!Params
<1> QED BY <1>0, <1>1, <1>3, <1>4 DEF Builder!CodeEnd

(* Sequences of whatever elements.                                         *)
LEMMA SeqOfElements ==
  ASSUME NEW s, IsSeq(s)
  PROVE  /\ DOMAIN s = 1 .. Len(s) /\ Len(s) \in Nat
         /\ s \in Seq({s[i] : i \in 1 .. Len(s)})
<1> DEFINE S == {s[i] : i \in 1 .. Len(s)}
<1>1. Len(s) \in Nat /\ s = [i \in 1 .. Len(s) |-> s[i]]
  BY DEF IsSeq
<1>2. \A i \in 1 .. Len(s) : s[i] \in S
  OBVIOUS
<1>3. s \in [1 .. Len(s) -> S]
  BY <1>1, <1>2
<1> QED BY <1>1, <1>3

(* A function on 1 .. n is a sequence of length n.                         *)
LEMMA ListedIsSeq ==
  ASSUME NEW n \in Nat, NEW f, f = [i \in 1 .. n |-> f[i]]
  PROVE  IsSeq(f) /\ Len(f) = n /\ DOMAIN f = 1 .. n
<1> DEFINE S == {f[i] : i \in 1 .. n}
<1>2. \A i \in 1 .. n : f[i] \in S
  OBVIOUS
<1>3. f \in [1 .. n -> S]
  BY <1>2
<1>4. f \in Seq(S) /\ Len(f) = n
  BY <1>3
<1> QED BY <1>4 DEF IsSeq

(* What Append and \o make of them.                                        *)
LEMMA AppendedSeq ==
  ASSUME NEW s, IsSeq(s), NEW e
  PROVE  /\ IsSeq(Append(s, e)) /\ Len(Append(s, e)) = Len(s) + 1
         /\ \A i \in 1 .. Len(s) : Append(s, e)[i] = s[i]
         /\ Append(s, e)[Len(s) + 1] = e
<1> DEFINE S == {s[i] : i \in 1 .. Len(s)} \cup {e}
<1>1. s \in Seq({s[i] : i \in 1 .. Len(s)}) /\ Len(s) \in Nat
  BY SeqOfElements
<1>2. s \in Seq(S)
  BY <1>1, SeqMonotonic
<1> HIDE DEF S
<1>3. e \in S
  BY DEF S
<1>4. /\ Append(s, e) \in Seq(S) /\ Len(Append(s, e)) = Len(s) + 1
      /\ \A i \in 1 .. Len(s) : Append(s, e)[i] = s[i]
      /\ Append(s, e)[Len(s) + 1] = e
  BY <1>2, <1>3
<1>5. Append(s, e) = [i \in 1 .. Len(Append(s, e)) |-> Append(s, e)[i]]
  BY <1>4, LenProperties
<1> QED BY <1>1, <1>4, <1>5 DEF IsSeq

LEMMA JoinedSeq ==
  ASSUME NEW s, IsSeq(s), NEW t, IsSeq(t)
  PROVE  /\ IsSeq(s \o t) /\ Len(s \o t) = Len(s) + Len(t)
         /\ \A i \in 1 .. Len(s) : (s \o t)[i] = s[i]
         /\ \A i \in Len(s) + 1 .. Len(s) + Len(t) : (s \o t)[i] = t[i - Len(s)]
<1> DEFINE S == {s[i] : i \in 1 .. Len(s)} \cup {t[i] : i \in 1 .. Len(t)}
<1>1. /\ s \in Seq({s[i] : i \in 1 .. Len(s)}) /\ Len(s) \in Nat
      /\ t \in Seq({t[i] : i \in 1 .. Len(t)}) /\ Len(t) \in Nat
  BY SeqOfElements
<1>2. s \in Seq(S) /\ t \in Seq(S)
  BY <1>1, SeqMonotonic
<1> HIDE DEF S
<1>3. /\ s \o t \in Seq(S) /\ Len(s \o t) = Len(s) + Len(t)
      /\ \A i \in 1 .. Len(s) + Len(t) :
           (s \o t)[i] = IF i <= Len(s) THEN s[i] ELSE t[i - Len(s)]
  BY <1>2, ConcatProperties
<1>4. IsSeq(s \o t)
  BY <1>3, LenProperties DEF IsSeq
<1> QED BY <1>1, <1>3, <1>4

-----------------------------------------------------------------------------
(* What an instruction makes of a location is none or one location each    *)
(* time.                                                                   *)

Locations(found) == IsSeq(found) /\ \A k \in DOMAIN found : found[k] # Builder!Lists!NoLocation

(* So it is for one move, for two, and for every instruction.              *)
LEMMA AliasIsLocation ==
  ASSUME NEW output, NEW input, NEW loc
  PROVE  Locations(Builder!CheckAddAlias(output, input, loc))
<1>1. Locations(<<>>)
  BY DEF Locations, IsSeq
<1>2. ASSUME NEW e, e # Builder!Lists!NoLocation PROVE Locations(<<e>>)
  BY <1>2 DEF Locations, IsSeq
<1>3. Builder!Relative(output.reg, loc.off - input.const) # Builder!Lists!NoLocation
  BY DEF Builder!Relative, Builder!Lists!NoLocation
<1> QED BY <1>1, <1>2, <1>3 DEF Builder!CheckAddAlias, Builder!Copy

LEMMA TwoMovesLocations ==
  ASSUME NEW first, NEW second, Locations(first), Locations(second),
         NEW found \in Builder!TwoMoves(first, second)
  PROVE  Locations(found)
<1>1. CASE found = first
  BY <1>1
<1>2. CASE found = first \o second
  <2>1. IsSeq(first) /\ IsSeq(second) /\ DOMAIN first = 1 .. Len(first)
        /\ DOMAIN second = 1 .. Len(second) /\ Len(first) \in Nat /\ Len(second) \in Nat
    BY SeqOfElements DEF Locations
  <2>2. /\ IsSeq(found) /\ Len(found) = Len(first) + Len(second)
        /\ \A i \in 1 .. Len(first) : found[i] = first[i]
        /\ \A i \in Len(first) + 1 .. Len(first) + Len(second) :
             found[i] = second[i - Len(first)]
    BY <1>2, <2>1, JoinedSeq
  <2>3. DOMAIN found = 1 .. Len(found)
    BY <2>2, SeqOfElements
  <2>4. ASSUME NEW k \in DOMAIN found PROVE found[k] # Builder!Lists!NoLocation
    <3>1. CASE k <= Len(first)
      BY <2>1, <2>2, <2>3, <3>1 DEF Locations
    <3>2. CASE ~(k <= Len(first))
      <4>1. k - Len(first) \in DOMAIN second /\ found[k] = second[k - Len(first)]
        BY <2>1, <2>2, <2>3, <3>2
      <4> QED BY <4>1 DEF Locations
    <3> QED BY <3>1, <3>2
  <2> QED BY <2>2, <2>4 DEF Locations
<1> QED BY <1>1, <1>2 DEF Builder!TwoMoves

LEMMA AliasesAreLocations ==
  ASSUME NEW ins, NEW a, NEW last, NEW loc, NEW found \in Builder!AliasesOf(ins, a, last, loc)
  PROVE  Locations(found)
<1>0. Locations(<<>>)
  BY DEF Locations, IsSeq
<1>1. \A output, input : Locations(Builder!CheckAddAlias(output, input, loc))
  BY AliasIsLocation
<1>2. \A o1, i1, o2, i2 :
        \A f \in Builder!TwoMoves(Builder!CheckAddAlias(o1, i1, loc),
          Builder!CheckAddAlias(o2, i2, loc)) : Locations(f)
  BY <1>1, TwoMovesLocations
<1> QED BY <1>0, <1>1, <1>2, Zenon DEF Builder!AliasesOf

-----------------------------------------------------------------------------
(* The traversal of the blocks.                                            *)

(* What holds of a range and of a block does not depend on the step.       *)
LEMMA SameRange ==
  ASSUME program' = program, NEW b, NEW cursor, NEW marking, NEW lr,
         RangeAt(b, cursor, marking, lr)
  PROVE  RangeAt(b, cursor, marking, lr)'
BY DEF RangeAt, StateAt, Killed, Builder!Code, Builder!EndOf, Builder!Starts, Builder!CodeEnd

LEMMA SameInfo ==
  ASSUME program' = program, NEW b, NEW cursor, NEW marking, NEW info,
         InfoAt(b, cursor, marking, info)
  PROVE  InfoAt(b, cursor, marking, info)'
<1>1. Builder!Params' = Builder!Params
  BY DEF Builder!Params
<1>2. \A lr : RangeAt(b, cursor, marking, lr) => RangeAt(b, cursor, marking, lr)'
  BY SameRange
<1> QED BY <1>1, <1>2 DEF InfoAt

(* A step that changes no block.                                           *)
LEMMA NoBlockStep ==
  ASSUME BlocksInv, program' = program, bbInfo' = bbInfo,
         \A b \in Builder!Starts : Cursor(b)' = Cursor(b) /\ Marking(b)' = Marking(b)
  PROVE  BlocksInv'
<1>1. Builder!Starts' = Builder!Starts
  BY DEF Builder!Starts
<1>2. \A b, cursor, marking, info :
        InfoAt(b, cursor, marking, info) => InfoAt(b, cursor, marking, info)'
  BY SameInfo
<1> QED BY <1>1, <1>2 DEF BlocksInv

(* A step that changes the block that is entered.                          *)
LEMMA BlockStep ==
  ASSUME BlocksInv, program' = program, NEW e \in Builder!Starts, NEW cursor, NEW marking, NEW new,
         bbInfo' = [bbInfo EXCEPT ![e] = new],
         cursor = Cursor(e)', marking = Marking(e)', InfoAt(e, cursor, marking, new),
         \A b \in Builder!Starts \ {e} : Cursor(b)' = Cursor(b) /\ Marking(b)' = Marking(b)
  PROVE  BlocksInv'
<1>1. Builder!Starts' = Builder!Starts
  BY DEF Builder!Starts
<1>2. \A b, c, m, info : InfoAt(b, c, m, info) => InfoAt(b, c, m, info)'
  BY SameInfo
<1>3. bbInfo' = [b \in Builder!Starts |-> bbInfo'[b]] /\ bbInfo'[e] = new
      /\ \A b \in Builder!Starts \ {e} : bbInfo'[b] = bbInfo[b]
  BY DEF BlocksInv
<1>4. \A b \in Builder!Starts \ {e} : InfoAt(b, Cursor(b), Marking(b), bbInfo[b])
  BY DEF BlocksInv
<1> QED BY <1>1, <1>2, <1>3, <1>4 DEF BlocksInv

(* Where the ranges of a block reach when it is walked, and when not.      *)
LEMMA CursorIs ==
  ASSUME NEW b
  PROVE  /\ phase # "walk" \/ b # entry.block => Cursor(b) = b /\ Marking(b) = FALSE
         /\ phase = "walk" /\ b = entry.block /\ isReached =>
              Cursor(b) = instr + 1 /\ Marking(b) = TRUE
         /\ phase = "walk" /\ b = entry.block /\ ~isReached =>
              Cursor(b) = instr /\ Marking(b) = FALSE
BY DEF Cursor, Marking, Walking

(* The ranges of a block changed one by one.                               *)
LEMMA MappedInfo ==
  ASSUME NEW b, NEW c1, NEW m1, NEW c2, NEW m2, NEW info, InfoAt(b, c1, m1, info), NEW ranges,
         ranges = [p \in Builder!Params |-> ranges[p]],
         \A p \in Builder!Params : ranges[p] = [i \in DOMAIN info.ranges[p] |-> ranges[p][i]],
         \A p \in Builder!Params : \A i \in 1 .. Len(info.ranges[p])
             : RangeAt(b, c2, m2, ranges[p][i])
  PROVE  InfoAt(b, c2, m2, [info EXCEPT !.ranges = ranges])
<1>1. [info EXCEPT !.ranges = ranges]
        = [count |-> info.count, slots |-> info.slots, ranges |-> ranges]
  BY DEF InfoAt
<1>2. ASSUME NEW p \in Builder!Params
      PROVE  /\ IsSeq(ranges[p])
             /\ \A i \in 1 .. Len(ranges[p]) : RangeAt(b, c2, m2, ranges[p][i])
  <2>1. DOMAIN info.ranges[p] = 1 .. Len(info.ranges[p]) /\ Len(info.ranges[p]) \in Nat
    BY SeqOfElements DEF InfoAt
  <2>2. IsSeq(ranges[p]) /\ Len(ranges[p]) = Len(info.ranges[p])
    BY <2>1, ListedIsSeq
  <2> QED BY <2>2
<1>3. info.count \in 0 .. MaximumTraversalCount /\ info.slots \in Seq(Nat)
  BY DEF InfoAt
<1> QED BY <1>1, <1>2, <1>3 DEF InfoAt

(* A step that changes the ranges of the block that is entered.            *)
LEMMA MappedBlock ==
  ASSUME BlocksInv, program' = program, NEW e \in Builder!Starts, NEW c, NEW m, NEW ranges,
         bbInfo' = [bbInfo EXCEPT ![e].ranges = ranges],
         c = Cursor(e)', m = Marking(e)',
         ranges = [p \in DOMAIN bbInfo[e].ranges |-> ranges[p]],
         \A p \in Builder!Params :
           ranges[p] = [i \in DOMAIN bbInfo[e].ranges[p] |-> ranges[p][i]],
         \A p \in Builder!Params : \A i \in 1 .. Len(bbInfo[e].ranges[p])
             : RangeAt(e, c, m, ranges[p][i]),
         \A b \in Builder!Starts \ {e} : Cursor(b)' = Cursor(b) /\ Marking(b)' = Marking(b)
  PROVE  BlocksInv'
<1> DEFINE new == [bbInfo[e] EXCEPT !.ranges = ranges]
<1>1. InfoAt(e, Cursor(e), Marking(e), bbInfo[e])
  BY DEF BlocksInv
<1>2. DOMAIN bbInfo[e].ranges = Builder!Params
  BY <1>1 DEF InfoAt
<1>3. InfoAt(e, c, m, new)
  BY <1>1, <1>2, MappedInfo
<1>4. bbInfo' = [bbInfo EXCEPT ![e] = new]
  OBVIOUS
<1> QED BY <1>3, <1>4, BlockStep

(* The steps of the traversal: an entry is taken off the queue.            *)
LEMMA TakesEntry ==
  ASSUME ProgramInv, BlocksInv, Builder!TakeEntry
  PROVE  ProgramInv' /\ BlocksInv'
<1>1. /\ phase = "traverse" /\ phase' = "carry" /\ bbTrav # <<>> /\ program' = program
      /\ entry' = Head(bbTrav) /\ bbTrav' = Tail(bbTrav) /\ bbInfo' = bbInfo
      /\ changedRanges' = FALSE /\ lastRange' = <<1, 0>>
      /\ UNCHANGED <<instr, isReached, window, machine, steps>>
  BY DEF Builder!TakeEntry, Builder!NoneYet
<1>2. Builder!Entries' = Builder!Entries /\ Builder!CodeEnd' = Builder!CodeEnd
  BY <1>1 DEF Builder!Entries, Builder!Starts, Builder!CodeEnd
<1>3. bbTrav \in Seq(Builder!Entries)
  BY DEF ProgramInv
<1>4. entry' \in Builder!Entries /\ bbTrav' \in Seq(Builder!Entries)
  BY <1>1, <1>3, HeadTailProperties
<1>5. ProgramInv'
  BY <1>1, <1>2, <1>4 DEF ProgramInv
<1>6. \A b \in Builder!Starts : Cursor(b)' = Cursor(b) /\ Marking(b)' = Marking(b)
  BY <1>1 DEF Cursor, Marking, Walking
<1> QED BY <1>1, <1>5, <1>6, NoBlockStep

(* Counts are numbers.                                                     *)
LEMMA CountIsNatural ==
  ASSUME NEW n \in Nat, NEW T, T \subseteq 1 .. n
  PROVE  Builder!Cardinality(T) \in Nat
<1>1. IsFiniteSet(1 .. n)
  BY FS_Interval
<1>2. IsFiniteSet(T)
  BY <1>1, FS_Subset
<1>3. Cardinality(T) = Builder!Cardinality(T)
  BY DEF Cardinality, Builder!Cardinality
<1> QED BY <1>2, <1>3, FS_CardinalityType

(* A location that is carried into a block enters it at its start.         *)
LEMMA CarriesOver ==
  ASSUME NEW b, NEW info, NEW p \in Builder!Params, NEW loc, InfoAt(b, b, FALSE, info),
         b \in Builder!Starts, Builder!IsFunction(program), loc # Builder!Lists!NoLocation
  PROVE  InfoAt(b, b, FALSE, Builder!Carried(info, b, p, loc))
<1> DEFINE same == Builder!Matching(info.ranges[p], b, loc)
           new == Builder!Carried(info, b, p, loc)
<1>a. info.slots \in Seq(Nat) /\ IsSeq(info.ranges[p])
      /\ info.ranges = [q \in Builder!Params |-> info.ranges[q]]
      /\ info = [count |-> info.count, slots |-> info.slots, ranges |-> info.ranges]
  BY Zenon DEF InfoAt
<1>b. Len(info.slots) \in Nat /\ DOMAIN info.slots = 1 .. Len(info.slots)
      /\ \A s \in 1 .. Len(info.slots) : info.slots[s] \in Nat
  BY <1>a
<1>1. IsSeq(info.ranges[p]) /\ info.slots \in Seq(Nat) /\ Len(info.slots) \in Nat
      /\ info = [count |-> info.count, slots |-> info.slots, ranges |-> info.ranges]
      /\ info.ranges = [q \in Builder!Params |-> info.ranges[q]]
  BY <1>a, <1>b
<1>2. CASE same # {}
  <2> DEFINE slots == [s \in DOMAIN info.slots |->
                         info.slots[s] + Builder!Cardinality({i \in same : info.ranges[p][i].slot
                             = s})]
  <2>1. new = [info EXCEPT !.slots = slots]
    BY <1>2 DEF Builder!Carried
  <2>2. \A s : Builder!Cardinality({i \in same : info.ranges[p][i].slot = s}) \in Nat
    <3>1. same \subseteq 1 .. Len(info.ranges[p]) /\ Len(info.ranges[p]) \in Nat
      BY <1>1, SeqOfElements DEF Builder!Matching
    <3> QED BY <3>1, CountIsNatural
  <2>3. slots \in Seq(Nat)
    <3>1. ASSUME NEW s \in 1 .. Len(info.slots) PROVE slots[s] \in Nat
      <4>1. slots[s] = info.slots[s] + Builder!Cardinality({i \in same : info.ranges[p][i].slot
              = s})
        BY <1>b
      <4> HIDE DEF slots, same
      <4>2. info.slots[s] \in Nat
        BY <1>b
      <4>3. ASSUME NEW n \in Nat, NEW k \in Nat PROVE n + k \in Nat
        OBVIOUS
      <4> QED BY <2>2, <4>1, <4>2, <4>3
    <3>2. slots = [s \in 1 .. Len(info.slots) |-> slots[s]]
      BY <1>b
    <3> HIDE DEF slots
    <3> QED BY <1>b, <3>1, <3>2
  <2> HIDE DEF slots, new
  <2>4. /\ new = [count |-> info.count, slots |-> slots, ranges |-> info.ranges]
    BY <1>1, <2>1
  <2>5. new.ranges = info.ranges /\ new.count = info.count /\ new.slots = slots
    BY <2>4
  <2>6. InfoAt(b, b, FALSE, new)
    BY <2>3, <2>4, <2>5 DEF InfoAt
  <2> QED BY <2>6 DEF new
<1>3. CASE same = {}
  <2> DEFINE lr == Builder!LiveRange(b, loc, Len(info.slots) + 1)
             ranges == [info.ranges EXCEPT ![p] = Append(@, lr)]
  <2>1. new = [count |-> info.count, slots |-> Append(info.slots, 1), ranges |-> ranges]
    BY <1>1, <1>3 DEF Builder!Carried
  <2>2. Append(info.slots, 1) \in Seq(Nat)
    BY <1>1
  <2>3. RangeAt(b, b, FALSE, lr)
    <3>1. /\ lr.start = b /\ lr.end = b /\ lr.loc = loc /\ lr.state = "Live"
          /\ lr = [start |-> lr.start, end |-> lr.end, loc |-> lr.loc, slot |-> lr.slot,
                   state |-> lr.state]
      BY DEF Builder!LiveRange
    <3>0. b \in 1 .. Len(program.code) /\ Builder!EndOf(b) \in b + 1 .. Builder!CodeEnd
          /\ Builder!CodeEnd \in Nat /\ Len(program.code) \in Nat
      BY EndsOfBlocks, FirstBlock
    <3>2. b \in Nat /\ Builder!EndOf(b) \in Nat /\ b < Builder!EndOf(b) /\ b .. b - 2 = {}
      BY <3>0
    <3>3. ~Killed(lr)
      BY <3>1, <3>2 DEF Killed
    <3> HIDE DEF lr
    <3> QED BY <3>1, <3>2, <3>3 DEF RangeAt, StateAt
  <2>4. /\ IsSeq(Append(info.ranges[p], lr))
        /\ \A i \in 1 .. Len(Append(info.ranges[p], lr)) :
             RangeAt(b, b, FALSE, Append(info.ranges[p], lr)[i])
    <3> HIDE DEF lr
    <3>1. /\ IsSeq(Append(info.ranges[p], lr))
          /\ Len(Append(info.ranges[p], lr)) = Len(info.ranges[p]) + 1
          /\ \A i \in 1 .. Len(info.ranges[p]) :
               Append(info.ranges[p], lr)[i] = info.ranges[p][i]
          /\ Append(info.ranges[p], lr)[Len(info.ranges[p]) + 1] = lr
      BY <1>1, AppendedSeq
    <3>2. \A i \in 1 .. Len(info.ranges[p]) : RangeAt(b, b, FALSE, info.ranges[p][i])
      BY DEF InfoAt
    <3>3. \A i \in 1 .. Len(info.ranges[p]) + 1 :
            i \in 1 .. Len(info.ranges[p]) \/ i = Len(info.ranges[p]) + 1
      BY <1>1, SeqOfElements
    <3> QED BY <2>3, <3>1, <3>2, <3>3
  <2> HIDE DEF lr, new, same
  <2>5. ranges = [q \in Builder!Params |-> ranges[q]] /\ ranges[p] = Append(info.ranges[p], lr)
        /\ \A q \in Builder!Params : q # p => ranges[q] = info.ranges[q]
    BY <1>1
  <2> HIDE DEF ranges
  <2>6. \A q \in Builder!Params :
          /\ IsSeq(ranges[q])
          /\ \A i \in 1 .. Len(ranges[q]) : RangeAt(b, b, FALSE, ranges[q][i])
    BY <2>4, <2>5 DEF InfoAt
  <2>7. info.count \in 0 .. MaximumTraversalCount
    BY DEF InfoAt
  <2>8. new.ranges = ranges /\ new.count = info.count /\ new.slots = Append(info.slots, 1)
    BY <2>1
  <2>9. InfoAt(b, b, FALSE, new)
    BY <2>1, <2>2, <2>5, <2>6, <2>7, <2>8 DEF InfoAt
  <2> QED BY <2>9 DEF new
<1> QED BY <1>2, <1>3

(* So the block stays as it should be.                                     *)
LEMMA CarriesLiveRange ==
  ASSUME ProgramInv, BlocksInv, Builder!CarryoverLiveRange
  PROVE  ProgramInv' /\ BlocksInv'
<1>1. PICK r \in Builder!Flowing :
        LET loc == bbInfo[entry.source].ranges[r[1]][r[2]].loc IN
        /\ bbInfo' = [bbInfo EXCEPT ![entry.block] = Builder!Carried(@, entry.block, r[1], loc)]
        /\ changedRanges' = (Builder!Matching(Builder!Block.ranges[r[1]], entry.block, loc) = {})
        /\ lastRange' = r
  BY ZenonT(60) DEF Builder!CarryoverLiveRange
<1>2. /\ phase = "carry" /\ phase' = "carry" /\ program' = program
      /\ UNCHANGED <<bbTrav, entry, instr, isReached, window, machine, steps>>
  BY DEF Builder!CarryoverLiveRange
<1> DEFINE from == bbInfo[entry.source]
           loc == from.ranges[r[1]][r[2]].loc
<1>3. entry.source # 0 /\ r \in Builder!RangesOf(from)
  BY DEF Builder!Flowing
<1>4. entry.block \in Builder!Starts /\ entry.source \in Builder!Starts
      /\ Builder!IsFunction(program)
  BY <1>3 DEF ProgramInv, Builder!Entries
<1>5. PICK p \in Builder!Params : r \in {p} \X DOMAIN from.ranges[p]
  BY <1>3 DEF Builder!RangesOf
<1>6. r[1] = p /\ r[2] \in DOMAIN from.ranges[p] /\ r = <<r[1], r[2]>>
  BY <1>5
<1>7. InfoAt(entry.source, Cursor(entry.source), Marking(entry.source), from)
  BY <1>4 DEF BlocksInv
<1>8. DOMAIN from.ranges[p] = 1 .. Len(from.ranges[p]) /\ Len(from.ranges[p]) \in Nat
  BY SMTT(60), <1>7, SeqOfElements DEF InfoAt
<1>9. loc # Builder!Lists!NoLocation
  BY ZenonT(60), <1>6, <1>7, <1>8 DEF InfoAt, RangeAt
<1>10. r \in Nat \X Nat
  <2>1. p \in Nat
    BY <1>4, FirstBlock
  <2>2. r[2] \in Nat
    BY <1>6, <1>8
  <2> QED BY <1>6, <2>1, <2>2
<1>11. Cursor(entry.block) = entry.block /\ Marking(entry.block) = FALSE
       /\ Cursor(entry.block)' = entry.block /\ Marking(entry.block)' = FALSE
  BY <1>2 DEF Cursor, Marking, Walking
<1>12. InfoAt(entry.block, entry.block, FALSE, bbInfo[entry.block])
  BY <1>4, <1>11 DEF BlocksInv
<1>13. InfoAt(entry.block, entry.block, FALSE,
              Builder!Carried(bbInfo[entry.block], entry.block, r[1], loc))
  BY <1>4, <1>6, <1>9, <1>12, CarriesOver
<1>14. \A b \in Builder!Starts \ {entry.block} : Cursor(b)' = Cursor(b) /\ Marking(b)' = Marking(b)
  BY <1>2 DEF Cursor, Marking, Walking
<1>15. BlocksInv'
  <2> DEFINE new == Builder!Carried(bbInfo[entry.block], entry.block, r[1], loc)
  <2>1. bbInfo' = [bbInfo EXCEPT ![entry.block] = new]
    BY <1>1
  <2> HIDE DEF new
  <2>2. InfoAt(entry.block, entry.block, FALSE, new)
    BY <1>13 DEF new
  <2> QED BY <1>2, <1>4, <1>11, <1>14, <2>1, <2>2, BlockStep
<1>16. ProgramInv'
  <2>1. Builder!Entries' = Builder!Entries /\ Builder!CodeEnd' = Builder!CodeEnd
    BY SMTT(60), <1>2 DEF Builder!Entries, Builder!Starts, Builder!CodeEnd
  <2>2. changedRanges' \in BOOLEAN /\ lastRange' \in Nat \X Nat
    BY <1>1, <1>10
  <2> QED BY <1>2, <2>1, <2>2 DEF ProgramInv
<1> QED BY <1>15, <1>16

(* A block is entered, and walked or not.                                  *)
LEMMA EntersBlock ==
  ASSUME ProgramInv, BlocksInv, Builder!TraverseBasicBlock
  PROVE  ProgramInv' /\ BlocksInv'
<1>1. /\ phase = "carry" /\ program' = program
      /\ UNCHANGED <<bbTrav, entry, changedRanges, lastRange, window, machine, steps>>
  BY DEF Builder!TraverseBasicBlock
<1>2. /\ entry.block \in Builder!Starts /\ Builder!IsFunction(program)
      /\ instr \in 1 .. Builder!CodeEnd /\ isReached \in BOOLEAN
  BY DEF ProgramInv, Builder!Entries
<1>3. Builder!Entries' = Builder!Entries /\ Builder!CodeEnd' = Builder!CodeEnd
      /\ Builder!EndOf(entry.block)' = Builder!EndOf(entry.block)
  BY <1>1 DEF Builder!Entries, Builder!Starts, Builder!CodeEnd, Builder!EndOf
<1>4. /\ entry.block \in 1 .. Builder!CodeEnd
         /\ entry.block \in entry.block .. Builder!EndOf(entry.block)
  <2>1. entry.block \in 1 .. Len(program.code)
        /\ Builder!EndOf(entry.block) \in entry.block + 1 .. Builder!CodeEnd
        /\ Builder!CodeEnd = Len(program.code) + 1 /\ Len(program.code) \in Nat
    BY <1>2, EndsOfBlocks, FirstBlock
  <2> QED BY <2>1
<1>5. Builder!Block = bbInfo[entry.block]
              /\ InfoAt(entry.block, entry.block, FALSE, bbInfo[entry.block])
  BY <1>1, <1>2 DEF BlocksInv, Builder!Block, Cursor, Marking, Walking
<1>6. CASE Builder!Block.count >= MaximumTraversalCount
  <2>1. phase' = "failed" /\ UNCHANGED <<bbInfo, instr, isReached>>
    BY <1>5, <1>6, BuilderConstants DEF Builder!TraverseBasicBlock, InfoAt
  <2>2. \A b \in Builder!Starts : Cursor(b)' = Cursor(b) /\ Marking(b)' = Marking(b)
    BY <1>1, <2>1 DEF Cursor, Marking, Walking
  <2>3. ProgramInv'
    BY <1>1, <1>2, <1>3, <2>1 DEF ProgramInv
  <2> QED BY <1>1, <2>1, <2>2, <2>3, NoBlockStep
<1>7. CASE Builder!Block.count < MaximumTraversalCount
  <2>1. /\ bbInfo' = [bbInfo EXCEPT ![entry.block].count = @ + 1]
        /\ IF Builder!Block.count = 0 \/ changedRanges
           THEN phase' = "walk" /\ instr' = entry.block /\ isReached' = FALSE
           ELSE phase' = "traverse" /\ UNCHANGED <<instr, isReached>>
    BY <1>5, <1>7, BuilderConstants DEF Builder!TraverseBasicBlock, InfoAt
  <2>2. ProgramInv'
    <3>1. CASE phase' = "walk" /\ instr' = entry.block /\ isReached' = FALSE
      BY <1>1, <1>2, <1>3, <1>4, <3>1 DEF ProgramInv
    <3>2. CASE phase' = "traverse" /\ instr' = instr /\ isReached' = isReached
      BY <1>1, <1>2, <1>3, <3>2 DEF ProgramInv
    <3> QED BY <2>1, <3>1, <3>2
  <2>3. /\ Cursor(entry.block)' = entry.block /\ Marking(entry.block)' = FALSE
        /\ \A b \in Builder!Starts \ {entry.block} : Cursor(b)' = Cursor(b)
           /\ Marking(b)' = Marking(b)
    <3>1. CASE phase' = "walk" /\ instr' = entry.block /\ isReached' = FALSE
      BY <1>1, <3>1 DEF Cursor, Marking, Walking
    <3>2. CASE phase' = "traverse"
      BY <1>1, <3>2 DEF Cursor, Marking, Walking
    <3> QED BY <2>1, <3>1, <3>2
  <2> DEFINE new == [bbInfo[entry.block] EXCEPT !.count = @ + 1]
  <2>4. InfoAt(entry.block, entry.block, FALSE, new)
    <3>1. /\ new.count = bbInfo[entry.block].count + 1 /\ new.slots = bbInfo[entry.block].slots
          /\ new.ranges = bbInfo[entry.block].ranges
          /\ new = [count |-> new.count, slots |-> new.slots, ranges |-> new.ranges]
      BY <1>5 DEF InfoAt
    <3>2. new.count \in 0 .. MaximumTraversalCount
      BY <1>5, <1>7, <3>1, BuilderConstants DEF InfoAt
    <3> HIDE DEF new
    <3> QED BY <1>5, <3>1, <3>2 DEF InfoAt
  <2>5. bbInfo' = [bbInfo EXCEPT ![entry.block] = new]
    BY <2>1
  <2> HIDE DEF new
  <2> QED BY <1>1, <1>2, <2>2, <2>3, <2>4, <2>5, BlockStep
<1>8. Builder!Block.count >= MaximumTraversalCount \/ Builder!Block.count < MaximumTraversalCount
  BY DEF Builder!TraverseBasicBlock
<1> QED BY <1>6, <1>7, <1>8

(* What holds while a block is walked.                                     *)
LEMMA WalksBlock ==
  ASSUME ProgramInv, BlocksInv, phase = "walk"
  PROVE  /\ entry.block \in Builder!Starts /\ Builder!IsFunction(program)
            /\ Builder!Block = bbInfo[entry.block]
         /\ entry.block \in Nat \ {0} /\ Builder!EndOf(entry.block) \in Nat
            /\ entry.block < Builder!EndOf(entry.block)
         /\ instr \in Nat /\ entry.block <= instr /\ instr <= Builder!EndOf(entry.block)
         /\ Builder!EndOf(entry.block) <= Builder!CodeEnd /\ Builder!CodeEnd \in Nat
         /\ isReached => instr < Builder!EndOf(entry.block)
         /\ DOMAIN Builder!Block.ranges = Builder!Params
            /\ Builder!Block.ranges = [p \in Builder!Params |-> Builder!Block.ranges[p]]
         /\ \A p \in Builder!Params :
              /\ DOMAIN Builder!Block.ranges[p] = 1 .. Len(Builder!Block.ranges[p])
              /\ IsSeq(Builder!Block.ranges[p]) /\ Len(Builder!Block.ranges[p]) \in Nat
         /\ \A p \in Builder!Params : \A i \in 1 .. Len(Builder!Block.ranges[p]) :
              RangeAt(entry.block, IF isReached THEN instr + 1 ELSE instr, isReached,
                      Builder!Block.ranges[p][i])
<1>1. /\ entry.block \in Builder!Starts /\ Builder!IsFunction(program)
         /\ Builder!Block = bbInfo[entry.block]
      /\ instr \in entry.block .. Builder!EndOf(entry.block)
      /\ isReached \in BOOLEAN /\ (isReached => instr < Builder!EndOf(entry.block))
  BY DEF ProgramInv, Builder!Entries, Builder!Block
<1>2. entry.block \in 1 .. Len(program.code)
      /\ Builder!EndOf(entry.block) \in entry.block + 1 .. Builder!CodeEnd
      /\ Builder!CodeEnd \in Nat /\ Len(program.code) \in Nat
  BY <1>1, EndsOfBlocks, FirstBlock
<1>3. /\ entry.block \in Nat \ {0} /\ Builder!EndOf(entry.block) \in Nat
         /\ entry.block < Builder!EndOf(entry.block)
      /\ Builder!EndOf(entry.block) <= Builder!CodeEnd
  BY <1>2
<1>4. InfoAt(entry.block, Cursor(entry.block), Marking(entry.block), Builder!Block)
  BY <1>1 DEF BlocksInv
<1>5. /\ Cursor(entry.block) = IF isReached THEN instr + 1 ELSE instr
      /\ Marking(entry.block) = isReached
  BY <1>1 DEF Cursor, Marking, Walking
<1>6. \A p \in Builder!Params : IsSeq(Builder!Block.ranges[p])
      /\ Len(Builder!Block.ranges[p]) \in Nat
                                /\ DOMAIN Builder!Block.ranges[p]
                                     = 1 .. Len(Builder!Block.ranges[p])
  BY <1>4, SeqOfElements DEF InfoAt
<1>7. DOMAIN Builder!Block.ranges = Builder!Params
      /\ Builder!Block.ranges = [p \in Builder!Params |-> Builder!Block.ranges[p]]
  BY <1>4 DEF InfoAt
<1>8. \A p \in Builder!Params : \A i \in 1 .. Len(Builder!Block.ranges[p]) :
        RangeAt(entry.block, IF isReached THEN instr + 1 ELSE instr, isReached,
          Builder!Block.ranges[p][i])
  BY <1>4, <1>5 DEF InfoAt
<1> QED BY <1>1, <1>3, <1>2, <1>6, <1>7, <1>8

(* A range that reaches to the end of the instruction is marked if that    *)
(* instruction kills it.                                                   *)
LEMMA ReachesRange ==
  ASSUME NEW lr, NEW b \in Nat, NEW n \in Nat, n = instr, b <= n, Builder!EndOf(b) \in Nat,
         n < Builder!EndOf(b),
         RangeAt(b, n, FALSE, lr)
  PROVE  RangeAt(b, n + 1, TRUE, Builder!Reached(lr))
<1>1. CASE lr.state # "Live"
  BY <1>1 DEF Builder!Reached, RangeAt, StateAt
<1>2. CASE lr.state = "Live"
  <2> DEFINE new == Builder!Reached(lr)
  <2>1. /\ lr = [start |-> lr.start, end |-> lr.end, loc |-> lr.loc, slot |-> lr.slot,
                 state |-> lr.state]
        /\ lr.start \in b .. Builder!EndOf(b) /\ lr.end = n /\ lr.start <= n
           /\ lr.loc # Builder!Lists!NoLocation
        /\ \A a \in lr.start .. n - 2 : ~Builder!Kills(Builder!Code(a), lr.loc)
        /\ lr.start < n => ~Builder!Kills(Builder!Code(n - 1), lr.loc)
    BY <1>2 DEF RangeAt, StateAt, Killed
  <2>2. /\ new.start = lr.start /\ new.end = n + 1 /\ new.loc = lr.loc
        /\ new = [start |-> new.start, end |-> new.end, loc |-> new.loc, slot |-> new.slot,
                  state |-> new.state]
        /\ new.state = IF Builder!Kills(Builder!Code(n), lr.loc) THEN "MarkedForKill" ELSE "Live"
    BY <1>2, <2>1 DEF Builder!Reached
  <2> HIDE DEF new
  <2>3. Killed(new) <=> Builder!Kills(Builder!Code(n), lr.loc)
    <3>1. new.end - 1 = n /\ new.start < new.end
      BY <2>1, <2>2
    <3> QED BY <2>2, <3>1 DEF Killed
  <2>4. \A a \in new.start .. new.end - 2 : ~Builder!Kills(Builder!Code(a), new.loc)
    <3> SUFFICES ASSUME NEW a \in lr.start .. n - 1 PROVE ~Builder!Kills(Builder!Code(a), lr.loc)
      BY <2>2
    <3>1. CASE a = n - 1
      BY <2>1, <3>1
    <3>2. CASE a # n - 1
      <4>1. a \in lr.start .. n - 2
        BY <2>1, <3>2
      <4> QED BY <2>1, <4>1
    <3> QED BY <3>1, <3>2
  <2>5. new.start \in b .. Builder!EndOf(b) /\ new.end \in new.start .. Builder!EndOf(b)
    BY <2>1, <2>2
  <2>6. RangeAt(b, n + 1, TRUE, new)
    BY <2>1, <2>2, <2>3, <2>4, <2>5 DEF RangeAt, StateAt
  <2> QED BY <2>6 DEF new
<1> QED BY <1>1, <1>2

(* So all ranges of the block reach there.                                 *)
LEMMA ReachesInstruction ==
  ASSUME ProgramInv, BlocksInv, Builder!ReachInstruction
  PROVE  ProgramInv' /\ BlocksInv'
<1>1. /\ phase = "walk" /\ phase' = "walk" /\ ~isReached /\ instr < Builder!EndOf(entry.block)
      /\ isReached' = TRUE /\ lastRange' = <<1, 0>> /\ program' = program
      /\ UNCHANGED <<bbTrav, entry, changedRanges, instr, window, machine, steps>>
  BY DEF Builder!ReachInstruction, Builder!NoneYet
<1> DEFINE ranges == [p \in DOMAIN bbInfo[entry.block].ranges |->
                       [i \in DOMAIN bbInfo[entry.block].ranges[p] |->
                          Builder!Reached(bbInfo[entry.block].ranges[p][i])]]
<1>2. bbInfo' = [bbInfo EXCEPT ![entry.block].ranges = ranges]
  BY DEF Builder!ReachInstruction, Builder!WithRanges
<1>3. ProgramInv'
  <2>1. Builder!Entries' = Builder!Entries /\ Builder!CodeEnd' = Builder!CodeEnd
        /\ Builder!EndOf(entry.block)' = Builder!EndOf(entry.block)
    BY <1>1 DEF Builder!Entries, Builder!Starts, Builder!CodeEnd, Builder!EndOf
  <2> QED BY <1>1, <2>1 DEF ProgramInv
<1>4. /\ Cursor(entry.block)' = instr + 1 /\ Marking(entry.block)' = TRUE
      /\ \A b \in Builder!Starts \ {entry.block} : Cursor(b)' = Cursor(b)
         /\ Marking(b)' = Marking(b)
  BY <1>1 DEF Cursor, Marking, Walking
<1>5. /\ entry.block \in Builder!Starts /\ Builder!Block = bbInfo[entry.block]
         /\ DOMAIN Builder!Block.ranges = Builder!Params
      /\ \A p \in Builder!Params : DOMAIN Builder!Block.ranges[p]
           = 1 .. Len(Builder!Block.ranges[p])
  BY <1>1, WalksBlock
<1>6. \A p \in Builder!Params : \A i \in 1 .. Len(Builder!Block.ranges[p]) :
        RangeAt(entry.block, instr + 1, TRUE, ranges[p][i])
  <2> SUFFICES ASSUME NEW p \in Builder!Params, NEW i \in 1 .. Len(Builder!Block.ranges[p])
               PROVE  RangeAt(entry.block, instr + 1, TRUE,
                      Builder!Reached(Builder!Block.ranges[p][i]))
    BY <1>5
  <2>1. /\ entry.block \in Nat /\ Builder!EndOf(entry.block) \in Nat /\ instr \in Nat
        /\ entry.block <= instr
        /\ RangeAt(entry.block, IF isReached THEN instr + 1 ELSE instr, isReached,
                   Builder!Block.ranges[p][i])
    BY <1>1, WalksBlock
  <2>2. RangeAt(entry.block, instr, FALSE, Builder!Block.ranges[p][i])
    <3>1. isReached = FALSE
      BY <1>1 DEF ProgramInv
    <3> QED BY <2>1, <3>1
  <2> QED BY <1>1, <2>1, <2>2, ReachesRange
<1>7. /\ ranges = [p \in DOMAIN bbInfo[entry.block].ranges |-> ranges[p]]
      /\ \A p \in Builder!Params :
           ranges[p] = [i \in DOMAIN bbInfo[entry.block].ranges[p] |-> ranges[p][i]]
  BY <1>5
<1> HIDE DEF ranges
<1> QED BY ZenonT(60), <1>1, <1>2, <1>3, <1>4, <1>5, <1>6, <1>7, MappedBlock

(* New ranges begin behind the instruction, alive and empty.               *)
LEMMA AddsAliases ==
  ASSUME ProgramInv, BlocksInv, Builder!AddAliases
  PROVE  ProgramInv' /\ BlocksInv'
<1>1. /\ phase = "walk" /\ phase' = "walk" /\ isReached /\ program' = program
      /\ UNCHANGED <<bbTrav, entry, changedRanges, instr, isReached, window, machine, steps>>
  BY SMTT(60) DEF Builder!AddAliases
<1>a. PICK r \in Builder!Aliased :
        /\ \E found \in Builder!Aliases(r) :
             bbInfo' = [bbInfo EXCEPT ![entry.block].ranges[r[1]] =
                         @ \o [k \in DOMAIN found |->
                                 Builder!LiveRange(instr + 1, found[k],
                                   Builder!Block.ranges[r[1]][r[2]].slot)]]
        /\ lastRange' = r
  BY ZenonT(60) DEF Builder!AddAliases
<1>b. PICK found \in Builder!Aliases(r) :
        bbInfo' = [bbInfo EXCEPT ![entry.block].ranges[r[1]] =
                    @ \o [k \in DOMAIN found |->
                            Builder!LiveRange(instr + 1, found[k],
                              Builder!Block.ranges[r[1]][r[2]].slot)]]
  BY ZenonT(60), <1>a
<1>2. lastRange' = r
  BY <1>a
<1>3. /\ entry.block \in Builder!Starts /\ Builder!Block = bbInfo[entry.block]
      /\ entry.block \in Nat /\ Builder!EndOf(entry.block) \in Nat /\ instr \in Nat
      /\ entry.block <= instr /\ instr < Builder!EndOf(entry.block) /\ isReached = TRUE
      /\ Builder!IsFunction(program)
      /\ DOMAIN Builder!Block.ranges = Builder!Params
         /\ Builder!Block.ranges = [p \in Builder!Params |-> Builder!Block.ranges[p]]
      /\ \A p \in Builder!Params :
           /\ DOMAIN Builder!Block.ranges[p] = 1 .. Len(Builder!Block.ranges[p])
           /\ IsSeq(Builder!Block.ranges[p]) /\ Len(Builder!Block.ranges[p]) \in Nat
  BY <1>1, WalksBlock DEF ProgramInv
<1>4. PICK p \in Builder!Params : r \in {p} \X DOMAIN Builder!Block.ranges[p]
  BY DEF Builder!Aliased, Builder!RangesOf
<1>5. r[1] = p /\ r[2] \in DOMAIN Builder!Block.ranges[p] /\ r = <<r[1], r[2]>>
  BY <1>4
<1>6. r \in Nat \X Nat
  <2>1. p \in Nat
    BY <1>3, FirstBlock
  <2>2. r[2] \in Nat
    BY <1>3, <1>5
  <2> QED BY <1>5, <2>1, <2>2
<1>7. ProgramInv'
  <2>1. Builder!Entries' = Builder!Entries /\ Builder!CodeEnd' = Builder!CodeEnd
        /\ Builder!EndOf(entry.block)' = Builder!EndOf(entry.block)
    BY <1>1 DEF Builder!Entries, Builder!Starts, Builder!CodeEnd, Builder!EndOf
  <2> QED BY <1>1, <1>2, <1>6, <2>1 DEF ProgramInv
<1>8. /\ Cursor(entry.block)' = instr + 1 /\ Marking(entry.block)' = TRUE
      /\ Cursor(entry.block) = instr + 1 /\ Marking(entry.block) = TRUE
      /\ \A b \in Builder!Starts \ {entry.block} : Cursor(b)' = Cursor(b)
         /\ Marking(b)' = Marking(b)
  BY <1>1, <1>3 DEF Cursor, Marking, Walking
<1> DEFINE new == [k \in DOMAIN found |->
                     Builder!LiveRange(instr + 1, found[k], Builder!Block.ranges[r[1]][r[2]].slot)]
           joined == Builder!Block.ranges[p] \o new
           ranges == [Builder!Block.ranges EXCEPT ![p] = joined]
           info == [Builder!Block EXCEPT !.ranges = ranges]
<1>9. IsSeq(new) /\ \A k \in 1 .. Len(new) : RangeAt(entry.block, instr + 1, TRUE, new[k])
  <2>1. IsSeq(found) /\ DOMAIN found = 1 .. Len(found) /\ Len(found) \in Nat
        /\ \A k \in 1 .. Len(found) : found[k] # Builder!Lists!NoLocation
    BY AliasesAreLocations, SeqOfElements DEF Builder!Aliases, Locations
  <2>2. ASSUME NEW k \in 1 .. Len(found) PROVE RangeAt(entry.block, instr + 1, TRUE, new[k])
    <3> DEFINE lr == new[k]
    <3>1. /\ lr.start = instr + 1 /\ lr.end = instr + 1 /\ lr.loc = found[k] /\ lr.state = "Live"
          /\ lr = [start |-> lr.start, end |-> lr.end, loc |-> lr.loc, slot |-> lr.slot,
                   state |-> lr.state]
      BY <2>1 DEF Builder!LiveRange
    <3> HIDE DEF new
    <3>2. ~Killed(lr)
      BY <1>3, <3>1 DEF Killed
    <3>3. instr + 1 \in entry.block .. Builder!EndOf(entry.block)
          /\ instr + 1 .. (instr + 1) - 2 = {}
          /\ instr + 1 \in instr + 1 .. Builder!EndOf(entry.block)
      BY <1>3
    <3> QED BY <2>1, <3>1, <3>2, <3>3 DEF RangeAt, StateAt
  <2>3. new = [k \in 1 .. Len(found) |-> new[k]]
    BY <2>1
  <2> HIDE DEF new
  <2>4. IsSeq(new) /\ Len(new) = Len(found)
    BY <2>1, <2>3, ListedIsSeq
  <2> QED BY <2>2, <2>4
<1>10. /\ IsSeq(joined)
       /\ \A i \in 1 .. Len(joined) : RangeAt(entry.block, instr + 1, TRUE, joined[i])
  <2> DEFINE old == Builder!Block.ranges[p]
  <2>1. \A i \in 1 .. Len(old) : RangeAt(entry.block, instr + 1, TRUE, old[i])
    BY <1>1, <1>3, WalksBlock
  <2> HIDE DEF new
  <2>2. IsSeq(old) /\ Len(old) \in Nat /\ Len(new) \in Nat
    BY <1>3, <1>9, SeqOfElements
  <2> HIDE DEF old
  <2>3. joined = old \o new
    BY DEF old
  <2> HIDE DEF joined
  <2>4. /\ IsSeq(joined) /\ Len(joined) = Len(old) + Len(new)
        /\ \A i \in 1 .. Len(old) : joined[i] = old[i]
        /\ \A i \in Len(old) + 1 .. Len(old) + Len(new) : joined[i] = new[i - Len(old)]
    BY <1>9, <2>2, <2>3, JoinedSeq
  <2>5. ASSUME NEW i \in 1 .. Len(joined)
        PROVE  RangeAt(entry.block, instr + 1, TRUE, joined[i])
    <3>1. CASE i <= Len(old)
      <4>1. i \in 1 .. Len(old)
        BY <2>2, <2>4, <3>1
      <4> QED BY <2>1, <2>4, <4>1
    <3>2. CASE ~(i <= Len(old))
      <4>1. i - Len(old) \in 1 .. Len(new) /\ joined[i] = new[i - Len(old)]
        BY <2>2, <2>4, <3>2
      <4> QED BY <1>9, <4>1
    <3> QED BY <3>1, <3>2
  <2> QED BY <2>4, <2>5
<1>11. bbInfo' = [bbInfo EXCEPT ![entry.block] = info]
  BY <1>b, <1>3, <1>5
<1>12. InfoAt(entry.block, instr + 1, TRUE, Builder!Block)
  BY <1>3, <1>8 DEF BlocksInv
<1> HIDE DEF new, joined
<1>13. info = [count |-> Builder!Block.count, slots |-> Builder!Block.slots, ranges |-> ranges]
  <2>1. Builder!Block
          = [count |-> Builder!Block.count, slots |-> Builder!Block.slots,
            ranges |-> Builder!Block.ranges]
    BY <1>12 DEF InfoAt
  <2> HIDE DEF ranges
  <2> QED BY <2>1
<1>14. /\ ranges = [q \in Builder!Params |-> ranges[q]] /\ ranges[p] = joined
       /\ \A q \in Builder!Params : q # p => ranges[q] = Builder!Block.ranges[q]
  BY <1>3
<1> HIDE DEF ranges, info
<1>15. InfoAt(entry.block, instr + 1, TRUE, info)
  <2>1. \A q \in Builder!Params :
          /\ IsSeq(ranges[q])
          /\ \A i \in 1 .. Len(ranges[q]) : RangeAt(entry.block, instr + 1, TRUE, ranges[q][i])
    BY <1>10, <1>12, <1>14 DEF InfoAt
  <2>2. Builder!Block.count \in 0 .. MaximumTraversalCount /\ Builder!Block.slots \in Seq(Nat)
    BY <1>12 DEF InfoAt
  <2> QED BY <1>13, <1>14, <2>1, <2>2 DEF InfoAt
<1> QED BY <1>1, <1>3, <1>7, <1>8, <1>11, <1>15, BlockStep

(* A range that was marked is dead.                                        *)
LEMMA SweepsRange ==
  ASSUME NEW b, NEW n, NEW lr, RangeAt(b, n, TRUE, lr)
  PROVE  RangeAt(b, n, FALSE, Builder!Swept(lr))
<1>1. CASE lr.state # "MarkedForKill"
  BY <1>1 DEF Builder!Swept, RangeAt, StateAt
<1>2. CASE lr.state = "MarkedForKill"
  <2> DEFINE new == Builder!Swept(lr)
  <2>1. /\ lr = [start |-> lr.start, end |-> lr.end, loc |-> lr.loc, slot |-> lr.slot,
                 state |-> lr.state]
        /\ Killed(lr)
    BY <1>2 DEF RangeAt, StateAt
  <2>2. /\ new.start = lr.start /\ new.end = lr.end /\ new.loc = lr.loc
        /\ new = [start |-> new.start, end |-> new.end, loc |-> new.loc, slot |-> new.slot,
                  state |-> new.state]
        /\ new.state = "Dead"
    BY <1>2, <2>1 DEF Builder!Swept
  <2> HIDE DEF new
  <2>3. Killed(new)
    BY <2>1, <2>2 DEF Killed
  <2>4. RangeAt(b, n, FALSE, new)
    BY <2>2, <2>3 DEF RangeAt, StateAt
  <2> QED BY <2>4 DEF new
<1> QED BY <1>1, <1>2

(* So none is marked when the next instruction is looked at.               *)
LEMMA EndsInstruction ==
  ASSUME ProgramInv, BlocksInv, Builder!EndInstruction
  PROVE  ProgramInv' /\ BlocksInv'
<1>1. /\ phase = "walk" /\ phase' = "walk" /\ isReached /\ instr' = instr + 1
      /\ isReached' = FALSE /\ program' = program
      /\ window' = Append(IF Len(window) < 3 THEN window ELSE Tail(window), instr)
      /\ UNCHANGED <<bbTrav, entry, changedRanges, lastRange, machine, steps>>
  BY DEF Builder!EndInstruction
<1> DEFINE ranges == [p \in DOMAIN bbInfo[entry.block].ranges |->
                       [i \in DOMAIN bbInfo[entry.block].ranges[p] |->
                          Builder!Swept(bbInfo[entry.block].ranges[p][i])]]
<1>2. bbInfo' = [bbInfo EXCEPT ![entry.block].ranges = ranges]
  BY DEF Builder!EndInstruction, Builder!WithRanges
<1>3. /\ entry.block \in Builder!Starts /\ Builder!Block = bbInfo[entry.block]
         /\ DOMAIN Builder!Block.ranges = Builder!Params
      /\ \A p \in Builder!Params : DOMAIN Builder!Block.ranges[p]
           = 1 .. Len(Builder!Block.ranges[p])
      /\ isReached = TRUE /\ instr \in Nat /\ Builder!EndOf(entry.block) \in Nat
         /\ instr < Builder!EndOf(entry.block)
      /\ entry.block \in Nat \ {0} /\ entry.block <= instr
      /\ Builder!EndOf(entry.block) <= Builder!CodeEnd /\ Builder!CodeEnd \in Nat
  BY <1>1, WalksBlock DEF ProgramInv
<1>4. ProgramInv'
  <2>1. Builder!Entries' = Builder!Entries /\ Builder!CodeEnd' = Builder!CodeEnd
        /\ Builder!EndOf(entry.block)' = Builder!EndOf(entry.block)
    BY <1>1 DEF Builder!Entries, Builder!Starts, Builder!CodeEnd, Builder!EndOf
  <2>2. instr' \in 1 .. Builder!CodeEnd /\ instr' \in entry.block .. Builder!EndOf(entry.block)
    BY <1>1, <1>3
  <2>3. window' \in Seq(1 .. Builder!CodeEnd) /\ Len(window') <= 3
    <3>1. window \in Seq(1 .. Builder!CodeEnd) /\ Len(window) <= 3 /\ instr \in 1 .. Builder!CodeEnd
          /\ Len(window) \in Nat
      BY DEF ProgramInv
    <3>2. CASE Len(window) < 3
      <4>1. window' = Append(window, instr)
        BY <1>1, <3>2
      <4> QED BY <3>1, <3>2, <4>1, AppendProperties
    <3>3. CASE ~(Len(window) < 3)
      <4>1. window' = Append(Tail(window), instr) /\ window # <<>>
        BY <1>1, <3>1, <3>3
      <4>2. Tail(window) \in Seq(1 .. Builder!CodeEnd) /\ Len(Tail(window)) = Len(window) - 1
        BY <3>1, <4>1, HeadTailProperties
      <4> QED BY <3>1, <3>3, <4>1, <4>2, AppendProperties
    <3> QED BY <3>2, <3>3
  <2> QED BY <1>1, <2>1, <2>2, <2>3 DEF ProgramInv
<1>5. /\ Cursor(entry.block)' = instr + 1 /\ Marking(entry.block)' = FALSE
      /\ \A b \in Builder!Starts \ {entry.block} : Cursor(b)' = Cursor(b)
         /\ Marking(b)' = Marking(b)
  BY <1>1 DEF Cursor, Marking, Walking
<1>6. \A p \in Builder!Params : \A i \in 1 .. Len(Builder!Block.ranges[p]) :
        RangeAt(entry.block, instr + 1, FALSE, ranges[p][i])
  <2> SUFFICES ASSUME NEW p \in Builder!Params, NEW i \in 1 .. Len(Builder!Block.ranges[p])
               PROVE  RangeAt(entry.block, instr + 1, FALSE,
                      Builder!Swept(Builder!Block.ranges[p][i]))
    BY <1>3
  <2>1. RangeAt(entry.block, IF isReached THEN instr + 1 ELSE instr, isReached,
        Builder!Block.ranges[p][i])
    BY <1>1, WalksBlock
  <2>2. RangeAt(entry.block, instr + 1, TRUE, Builder!Block.ranges[p][i])
    BY <1>3, <2>1
  <2> QED BY <2>2, SweepsRange
<1>7. /\ ranges = [p \in DOMAIN bbInfo[entry.block].ranges |-> ranges[p]]
      /\ \A p \in Builder!Params :
           ranges[p] = [i \in DOMAIN bbInfo[entry.block].ranges[p] |-> ranges[p][i]]
  BY <1>3
<1> HIDE DEF ranges
<1> QED BY ZenonT(60), <1>1, <1>2, <1>3, <1>4, <1>5, <1>6, <1>7, MappedBlock

(* A range that is alive at the end of its block ends there.               *)
LEMMA LeavesRange ==
  ASSUME NEW b, NEW lr, RangeAt(b, Builder!EndOf(b), FALSE, lr)
  PROVE  RangeAt(b, b, FALSE, Builder!AtEndOfBlock(lr))
<1>1. CASE lr.state # "Live"
  BY <1>1 DEF Builder!AtEndOfBlock, RangeAt, StateAt
<1>2. CASE lr.state = "Live"
  <2> DEFINE new == Builder!AtEndOfBlock(lr)
  <2>1. /\ lr = [start |-> lr.start, end |-> lr.end, loc |-> lr.loc, slot |-> lr.slot,
                 state |-> lr.state]
        /\ lr.end = Builder!EndOf(b)
    BY <1>2 DEF RangeAt, StateAt
  <2>2. /\ new.start = lr.start /\ new.end = lr.end /\ new.loc = lr.loc
        /\ new = [start |-> new.start, end |-> new.end, loc |-> new.loc, slot |-> new.slot,
                  state |-> new.state]
        /\ new.state = "LiveAtEndOfBlock"
    BY <1>2, <2>1 DEF Builder!AtEndOfBlock
  <2> HIDE DEF new
  <2>4. RangeAt(b, b, FALSE, new)
    BY <2>1, <2>2 DEF RangeAt, StateAt
  <2> QED BY <2>4 DEF new
<1> QED BY <1>1, <1>2

(* So none lives on when the block is left, and its flows lead to blocks.  *)
LEMMA EndsBlock ==
  ASSUME ProgramInv, BlocksInv, Builder!EndBlock
  PROVE  ProgramInv' /\ BlocksInv'
<1>1. /\ phase = "walk" /\ phase' = "traverse" /\ ~isReached /\ instr >= Builder!EndOf(entry.block)
      /\ program' = program /\ bbTrav' = bbTrav \o Builder!Outbound(entry.block)
      /\ UNCHANGED <<entry, changedRanges, instr, isReached, lastRange, window, machine, steps>>
  BY DEF Builder!EndBlock
<1> DEFINE ranges == [p \in DOMAIN bbInfo[entry.block].ranges |->
                       [i \in DOMAIN bbInfo[entry.block].ranges[p] |->
                          Builder!AtEndOfBlock(bbInfo[entry.block].ranges[p][i])]]
<1>2. bbInfo' = [bbInfo EXCEPT ![entry.block].ranges = ranges]
  BY DEF Builder!EndBlock, Builder!WithRanges
<1>3. /\ entry.block \in Builder!Starts /\ Builder!Block = bbInfo[entry.block]
         /\ DOMAIN Builder!Block.ranges = Builder!Params
      /\ \A p \in Builder!Params : DOMAIN Builder!Block.ranges[p]
           = 1 .. Len(Builder!Block.ranges[p])
      /\ isReached = FALSE /\ instr = Builder!EndOf(entry.block) /\ Builder!IsFunction(program)
      /\ Builder!EndOf(entry.block) \in Nat \ {0} /\ Builder!EndOf(entry.block) <= Builder!CodeEnd
         /\ Builder!CodeEnd \in Nat
  BY <1>1, WalksBlock DEF ProgramInv
<1>4. ProgramInv'
  <2>1. Builder!Entries' = Builder!Entries /\ Builder!CodeEnd' = Builder!CodeEnd
    BY <1>1 DEF Builder!Entries, Builder!Starts, Builder!CodeEnd
  <2>2. Builder!Outbound(entry.block) \in Seq(Builder!Entries)
    <3> DEFINE succ == program.succ[entry.block]
    <3>1. succ \in Seq(Builder!Starts)
      BY <1>3 DEF Builder!IsFunction, Builder!Starts
    <3>2. Len(succ) \in Nat /\ DOMAIN succ = 1 .. Len(succ)
          /\ \A k \in 1 .. Len(succ) : succ[k] \in Builder!Starts
      BY <3>1
    <3>3. Builder!EndOf(entry.block) - 1 \in 0 .. Builder!CodeEnd
      BY <1>3
    <3>4. Builder!Outbound(entry.block)
            = [k \in 1 .. Len(succ) |-> [block |-> succ[k], source |-> entry.block,
                                         address |-> Builder!EndOf(entry.block) - 1]]
      BY <3>2 DEF Builder!Outbound
    <3> HIDE DEF succ
    <3>5. \A k \in 1 .. Len(succ) :
            [block |-> succ[k], source |-> entry.block, address |-> Builder!EndOf(entry.block) - 1]
              \in Builder!Entries
      BY <1>3, <3>2, <3>3 DEF Builder!Entries
    <3>6. Builder!Outbound(entry.block) \in [1 .. Len(succ) -> Builder!Entries]
      BY <3>4, <3>5
    <3> QED BY <3>2, <3>6
  <2>3. bbTrav' \in Seq(Builder!Entries)
    BY <1>1, <2>2, ConcatProperties DEF ProgramInv
  <2> QED BY <1>1, <2>1, <2>3 DEF ProgramInv
<1>5. /\ Cursor(entry.block)' = entry.block /\ Marking(entry.block)' = FALSE
      /\ \A b \in Builder!Starts \ {entry.block} : Cursor(b)' = Cursor(b)
         /\ Marking(b)' = Marking(b)
  BY <1>1 DEF Cursor, Marking, Walking
<1>6. \A p \in Builder!Params : \A i \in 1 .. Len(Builder!Block.ranges[p]) :
        RangeAt(entry.block, entry.block, FALSE, ranges[p][i])
  <2> SUFFICES ASSUME NEW p \in Builder!Params, NEW i \in 1 .. Len(Builder!Block.ranges[p])
               PROVE  RangeAt(entry.block, entry.block, FALSE,
                      Builder!AtEndOfBlock(Builder!Block.ranges[p][i]))
    BY <1>3
  <2>1. RangeAt(entry.block, IF isReached THEN instr + 1 ELSE instr, isReached,
        Builder!Block.ranges[p][i])
    BY <1>1, WalksBlock
  <2>2. RangeAt(entry.block, Builder!EndOf(entry.block), FALSE, Builder!Block.ranges[p][i])
    BY <1>3, <2>1
  <2> QED BY <2>2, LeavesRange
<1>7. /\ ranges = [p \in DOMAIN bbInfo[entry.block].ranges |-> ranges[p]]
      /\ \A p \in Builder!Params :
           ranges[p] = [i \in DOMAIN bbInfo[entry.block].ranges[p] |-> ranges[p][i]]
  BY <1>3
<1> HIDE DEF ranges
<1> QED BY ZenonT(60), <1>1, <1>2, <1>3, <1>4, <1>5, <1>6, <1>7, MappedBlock

(* The traversal ends when the queue is empty.                             *)
LEMMA EndsTraversal ==
  ASSUME ProgramInv, BlocksInv, Builder!EndTraversal
  PROVE  ProgramInv' /\ BlocksInv'
<1>1. /\ phase = "traverse" /\ phase' = "create" /\ program' = program
      /\ UNCHANGED <<Builder!travVars, machine, steps>>
  BY DEF Builder!EndTraversal
<1>2. Builder!Entries' = Builder!Entries /\ Builder!CodeEnd' = Builder!CodeEnd
  BY <1>1 DEF Builder!Entries, Builder!Starts, Builder!CodeEnd
<1>3. ProgramInv'
  BY <1>1, <1>2 DEF ProgramInv, Builder!travVars
<1>4. \A b \in Builder!Starts : Cursor(b)' = Cursor(b) /\ Marking(b)' = Marking(b)
  BY <1>1 DEF Cursor, Marking, Walking
<1> QED BY <1>1, <1>3, <1>4, NoBlockStep DEF Builder!travVars

-----------------------------------------------------------------------------
(* The lists of live ranges.                                               *)

(* A list below one limit is one below a later limit; it says what it      *)
(* should up to there if no range of a block brings anything in between.   *)
LEMMA ListGrows ==
  ASSUME NEW list, NEW l1 \in Nat, NEW l2 \in Nat, l1 <= l2, ListInv(list, l1)
  PROVE  ListInv(list, l2)
<1>1. ASSUME NEW i \in 1 .. Len(list) PROVE SaidEnd(list[i]) < l2
  <2>1. list[i].offset \in Nat /\ list[i].size \in Nat /\ SaidEnd(list[i]) < l1
    BY DEF ListInv
  <2>2. SaidEnd(list[i]) \in Nat
    BY <2>1 DEF SaidEnd
  <2> QED BY <2>1, <2>2
<1> QED BY <1>1 DEF ListInv

LEMMA CoverGrows ==
  ASSUME NEW q, NEW list, NEW l1 \in Nat, NEW l2 \in Nat, NEW r1, NEW r2,
         CoverInv(q, list, l1, r1), \A a \in Nat : Under(r1, a) => Under(r2, a),
         \A a \in Nat : l1 <= a /\ a < l2 /\ Builder!Brought(q, a) # {} => Under(r2, a)
  PROVE  CoverInv(q, list, l2, r2)
<1>1. ASSUME NEW a \in 1 .. l2 - 1, Builder!Brought(q, a) # {}
      PROVE  (\E i \in 1 .. Len(list) : Covering(list[i], a)) \/ Under(r2, a)
  <2>1. a \in Nat /\ a < l2 /\ 1 <= a
    OBVIOUS
  <2>2. CASE a < l1
    <3>1. a \in 1 .. l1 - 1
      BY <2>1, <2>2
    <3> QED BY <1>1, <2>1, <3>1 DEF CoverInv
  <2>3. CASE l1 <= a
    BY <1>1, <2>1, <2>3
  <2> QED BY <2>1, <2>2, <2>3
<1> QED BY <1>1 DEF CoverInv

(* The range under way becomes one of the list: AddLiveRange refuses none. *)
Said(list, range) ==
  [id |-> Len(list) + 1, offset |-> range.start - 1, size |-> range.end - range.start,
   loc |-> range.loc]

(* AddLiveRange appends it, since it lies in the function and behind the   *)
(* others.                                                                 *)
LEMMA NeverRefused ==
  ASSUME Builder!IsFunction(program), NEW list, NEW range, range.start \in Nat, range.end \in Nat,
                 1 <= range.start, range.start < range.end, range.end <= Builder!CodeEnd,
                 ListInv(list, range.start)
  PROVE  Builder!Lists!AddLiveRange(list, Said(list, range), Len(program.code))
           = Append(list, Said(list, range))
<1> DEFINE new == Said(list, range)
           size == Len(program.code)
<1>1. /\ size \in Nat /\ Span \in Nat /\ size < Span /\ Builder!CodeEnd = size + 1
         /\ range.end <= size + 1
  BY FirstBlock
<1>2. /\ new.offset = range.start - 1 /\ new.size = range.end - range.start
  BY DEF Said
<1> HIDE DEF new, size
<1>3. ASSUME NEW n \in Nat, n < Span PROVE Builder!Lists!Wrapped(n) = n
  BY <1>1, <1>3 DEF Builder!Lists!Wrapped
<1>4. Builder!Lists!RangeStart(new) = range.start - 1 /\ Builder!Lists!RangeEnd(new) = range.end - 1
  <2>1. 0 + new.offset = range.start - 1 /\ 0 + new.offset + new.size = range.end - 1
        /\ range.start - 1 \in Nat /\ range.end - 1 \in Nat
        /\ range.start - 1 < Span /\ range.end - 1 < Span
    BY <1>1, <1>2
  <2> QED BY <1>3, <2>1 DEF Builder!Lists!RangeStart, Builder!Lists!RangeEnd
<1>5. Builder!Lists!InFunction(new, size)
  BY <1>1, <1>4 DEF Builder!Lists!InFunction
<1>6. ASSUME NEW i \in DOMAIN list PROVE ~Builder!Lists!MeetsOther(new, list[i])
  <2>1. i \in 1 .. Len(list)
    BY SeqOfElements DEF ListInv
  <2>2. /\ list[i].offset \in Nat /\ list[i].size \in Nat
        /\ list[i].offset + list[i].size < range.start
    BY <2>1 DEF ListInv, SaidEnd
  <2>3. Builder!Lists!RangeStart(list[i]) = list[i].offset
                /\ Builder!Lists!RangeEnd(list[i]) = list[i].offset + list[i].size
    <3>1. 0 + list[i].offset = list[i].offset
          /\ 0 + list[i].offset + list[i].size = list[i].offset + list[i].size
          /\ list[i].offset + list[i].size \in Nat
          /\ list[i].offset < Span /\ list[i].offset + list[i].size < Span
      BY <1>1, <2>2
    <3> QED BY <1>3, <2>2, <3>1 DEF Builder!Lists!RangeStart, Builder!Lists!RangeEnd
  <2> QED BY <1>4, <2>2, <2>3 DEF Builder!Lists!MeetsOther, Builder!Lists!Within
<1>7. Builder!Lists!ValidateLiveRange(list, new, size)
  BY <1>5, <1>6 DEF Builder!Lists!ValidateLiveRange
<1>8. Builder!Lists!AddLiveRange(list, new, size) = Append(list, new)
  BY <1>7 DEF Builder!Lists!AddLiveRange
<1> QED BY <1>8 DEF new, size

(* The longer list is in order, and none of it could be merged.            *)
LEMMA ListAdded ==
  ASSUME NEW list, NEW range, range.start \in Nat, range.end \in Nat,
         1 <= range.start, range.start < range.end, range.loc # Builder!Lists!NoLocation,
         ListInv(list, range.start),
         Adjoining(list, range.start) => list[Len(list)].loc # range.loc
  PROVE  LET all == Append(list, Said(list, range)) IN
         /\ ListInv(all, range.end)
         /\ Len(all) = Len(list) + 1 /\ Len(list) \in Nat /\ all # <<>>
         /\ \A i \in 1 .. Len(list) : all[i] = list[i]
         /\ all[Len(all)].loc = range.loc /\ SaidEnd(all[Len(all)]) = range.end - 1
         /\ \A a \in Nat : Covering(all[Len(all)], a) <=> range.start <= a /\ a < range.end
<1> DEFINE new == Said(list, range)
           all == Append(list, new)
           n == Len(list)
<1>1. /\ new.offset = range.start - 1 /\ new.size = range.end - range.start
      /\ new.loc = range.loc
  BY DEF Said
<1> HIDE DEF new
<1>2. /\ new.offset \in Nat /\ new.size \in Nat \ {0} /\ SaidEnd(new) = range.end - 1
      /\ SaidEnd(new) \in Nat /\ SaidEnd(new) < range.end
  BY <1>1 DEF SaidEnd
<1>3. /\ IsSeq(all) /\ Len(all) = n + 1 /\ n \in Nat /\ all[n + 1] = new
      /\ \A i \in 1 .. n : all[i] = list[i]
  <2>1. IsSeq(list)
    BY DEF ListInv
  <2> QED BY <2>1, AppendedSeq, SeqOfElements
<1> HIDE DEF all
<1>4. \A i \in 1 .. n :
        /\ list[i].offset \in Nat /\ list[i].size \in Nat \ {0} /\ SaidEnd(list[i]) \in Nat
        /\ SaidEnd(list[i]) < range.start /\ list[i].loc # Builder!Lists!NoLocation
  BY DEF ListInv, SaidEnd
<1>5. \A i \in 1 .. n + 1 : i \in 1 .. n \/ i = n + 1
  BY <1>3
<1>6. ASSUME NEW i \in 1 .. n + 1
      PROVE  /\ all[i].offset \in Nat /\ all[i].size \in Nat \ {0} /\ SaidEnd(all[i]) < range.end
             /\ all[i].loc # Builder!Lists!NoLocation
  <2>1. CASE i = n + 1
    BY <1>1, <1>2, <1>3, <2>1
  <2>2. CASE i \in 1 .. n
    <3>1. all[i] = list[i] /\ SaidEnd(list[i]) \in Nat /\ SaidEnd(list[i]) < range.start
      BY <1>3, <1>4, <2>2
    <3>2. SaidEnd(list[i]) < range.end
      BY <3>1
    <3> QED BY <1>4, <2>2, <3>1, <3>2
  <2> QED BY <1>5, <2>1, <2>2
<1>7. ASSUME NEW i \in 1 .. n + 1, NEW j \in 1 .. n + 1, i < j
      PROVE  SaidEnd(all[i]) <= all[j].offset
  <2>1. i \in 1 .. n
    BY <1>3, <1>7
  <2>2. CASE j = n + 1
    BY <1>1, <1>3, <1>4, <2>1, <2>2
  <2>3. CASE j \in 1 .. n
    BY <1>3, <1>7, <2>1, <2>3 DEF ListInv
  <2> QED BY <1>5, <2>2, <2>3
<1>8. ASSUME NEW i \in 1 .. n, SaidEnd(all[i]) = all[i + 1].offset
      PROVE  all[i].loc # all[i + 1].loc
  <2>1. CASE i = n
    <3>1. Adjoining(list, range.start)
      <4>1. list # <<>>
        BY <2>1
      <4>2. SaidEnd(list[n]) = range.start - 1
        BY <1>1, <1>3, <1>8, <2>1
      <4> QED BY <4>1, <4>2 DEF Adjoining
    <3> QED BY <1>1, <1>3, <2>1, <3>1
  <2>2. CASE i # n
    <3>1. i \in 1 .. n - 1 /\ i + 1 \in 1 .. n
      BY <1>3, <2>2
    <3> QED BY <1>3, <1>8, <3>1 DEF ListInv
  <2> QED BY <2>1, <2>2
<1>9. ListInv(all, range.end)
  <2>1. Len(all) - 1 = n
    BY <1>3
  <2> QED BY <1>3, <1>6, <1>7, <1>8, <2>1 DEF ListInv
<1>10. \A a \in Nat : Covering(all[n + 1], a) <=> range.start <= a /\ a < range.end
  BY SMTT(60), <1>1, <1>2, <1>3 DEF Covering
<1>11. all # <<>>
  BY <1>3
<1>12. ListInv(Append(list, new), range.end) /\ Append(list, new) = all
  BY <1>9 DEF all
<1> QED BY <1>1, <1>2, <1>3, <1>9, <1>10, <1>11 DEF all, new

(* What it says is what the shorter one and the range under way said.      *)
LEMMA CoverAdded ==
  ASSUME Builder!IsFunction(program), NEW q, NEW list, NEW limit, NEW range, NEW all,
                 CoverInv(q, list, limit, range),
                 Len(list) \in Nat, Len(all) = Len(list) + 1,
                 \A i \in 1 .. Len(list) : all[i] = list[i],
                 all[Len(all)].loc = range.loc,
                 \A a \in Nat : Covering(all[Len(all)], a) <=> range.start <= a /\ a < range.end,
                 limit \in Nat, range.start \in Nat, range.end \in Nat,
                 \A a \in range.start .. range.end - 1 : range.loc \in Builder!Brought(q, a)
  PROVE  CoverInv(q, all, limit, Builder!NoRange)
<1> DEFINE n == Len(list)
<1>1. Len(program.code) \in Nat
  BY FirstBlock
<1>2. ASSUME NEW i \in 1 .. n + 1, NEW a \in 1 .. Len(program.code), Covering(all[i], a)
      PROVE  all[i].loc \in Builder!Brought(q, a)
  <2>1. CASE i = n + 1
    <3>1. a \in Nat /\ a \in range.start .. range.end - 1
      BY <1>1, <1>2, <2>1
    <3> QED BY <2>1, <3>1
  <2>2. CASE i # n + 1
    <3>1. i \in 1 .. n
      BY <2>2
    <3> QED BY <1>2, <3>1 DEF CoverInv
  <2> QED BY <2>1, <2>2
<1>3. ASSUME NEW a \in 1 .. limit - 1, Builder!Brought(q, a) # {}
      PROVE  \E i \in 1 .. n + 1 : Covering(all[i], a)
  <2>1. CASE Under(range, a)
    <3>1. Covering(all[n + 1], a) /\ n + 1 \in 1 .. n + 1
      BY <2>1 DEF Under
    <3> QED BY <3>1
  <2>2. CASE \E i \in 1 .. n : Covering(list[i], a)
    <3>1. PICK i \in 1 .. n : Covering(list[i], a)
      BY <2>2
    <3>2. i \in 1 .. n + 1 /\ all[i] = list[i]
      OBVIOUS
    <3> QED BY <3>1, <3>2
  <2> QED BY <1>3, <2>1, <2>2 DEF CoverInv
<1> QED BY <1>2, <1>3 DEF CoverInv

-----------------------------------------------------------------------------
(* The ranges of the blocks, once they are not walked any more.            *)

(* Each is in its block.                                                   *)
LEMMA RangeOfBlock ==
  ASSUME ProgramInv, BlocksInv, phase # "walk", NEW b \in Builder!Starts, NEW p \in Builder!Params,
         NEW i \in 1 .. Len(bbInfo[b].ranges[p])
  PROVE  LET lr == bbInfo[b].ranges[p][i] IN
         /\ RangeAt(b, b, FALSE, lr)
         /\ b \in Nat \ {0} /\ Builder!EndOf(b) \in Nat /\ Builder!EndOf(b) <= Builder!CodeEnd
            /\ Builder!CodeEnd \in Nat
         /\ lr.start \in Nat /\ lr.end \in Nat /\ b <= lr.start /\ lr.end <= Builder!EndOf(b)
         /\ lr.loc # Builder!Lists!NoLocation
<1>1. InfoAt(b, b, FALSE, bbInfo[b])
  BY DEF BlocksInv, Cursor, Marking, Walking
<1>2. RangeAt(b, b, FALSE, bbInfo[b].ranges[p][i])
  BY <1>1 DEF InfoAt
<1>3. b \in 1 .. Len(program.code) /\ Builder!EndOf(b) \in b + 1 .. Builder!CodeEnd
      /\ Builder!CodeEnd \in Nat /\ Len(program.code) \in Nat
  BY EndsOfBlocks, FirstBlock DEF ProgramInv
<1>4. b \in Nat \ {0} /\ Builder!EndOf(b) \in Nat /\ Builder!EndOf(b) <= Builder!CodeEnd
      /\ Builder!CodeEnd \in Nat
  BY <1>3
<1> DEFINE lr == bbInfo[b].ranges[p][i]
<1>5. RangeAt(b, b, FALSE, lr)
  BY <1>2
<1> HIDE DEF lr
<1>6. lr.start \in b .. Builder!EndOf(b) /\ lr.end \in lr.start .. Builder!EndOf(b)
      /\ lr.loc # Builder!Lists!NoLocation
  BY <1>5 DEF RangeAt
<1>7. lr.start \in Nat /\ lr.end \in Nat /\ b <= lr.start /\ lr.end <= Builder!EndOf(b)
  BY <1>4, <1>6
<1> QED BY <1>4, <1>5, <1>6, <1>7 DEF lr

LEMMA IndexesOfBlock ==
  ASSUME BlocksInv, NEW b \in Builder!Starts, NEW p \in Builder!Params
  PROVE  DOMAIN bbInfo[b].ranges[p] = 1 .. Len(bbInfo[b].ranges[p])
         /\ Len(bbInfo[b].ranges[p]) \in Nat
BY SeqOfElements DEF BlocksInv, InfoAt

(* What is brought to an address is the location of a usable range there.  *)
LEMMA BroughtBy ==
  ASSUME ProgramInv, BlocksInv, phase # "walk", NEW p \in Builder!Params, NEW a \in Nat, NEW loc
  PROVE  loc \in Builder!Brought(p, a) <=>
           \E b \in Builder!Starts : \E i \in 1 .. Len(bbInfo[b].ranges[p]) :
             LET lr == bbInfo[b].ranges[p][i] IN
             Builder!IsUsable(bbInfo[b], lr) /\ lr.start <= a /\ a < lr.end /\ lr.loc = loc
<1>1. ASSUME NEW b \in Builder!Starts, NEW i \in 1 .. Len(bbInfo[b].ranges[p])
      PROVE  i \in Builder!Bringing(p, a, b) <=>
               LET lr == bbInfo[b].ranges[p][i] IN
               Builder!IsUsable(bbInfo[b], lr) /\ lr.start <= a /\ a < lr.end
  <2>1. bbInfo[b].ranges[p][i].start \in Nat /\ bbInfo[b].ranges[p][i].end \in Nat
    BY RangeOfBlock
  <2>2. i \in DOMAIN bbInfo[b].ranges[p]
    BY IndexesOfBlock
  <2> QED BY <2>1, <2>2 DEF Builder!Bringing, Builder!IsUsable
<1>2. \A b \in Builder!Starts : \A i \in Builder!Bringing(p, a, b) : i
        \in 1 .. Len(bbInfo[b].ranges[p])
  BY IndexesOfBlock DEF Builder!Bringing
<1>3. ASSUME loc \in Builder!Brought(p, a)
      PROVE  \E b \in Builder!Starts : \E i \in 1 .. Len(bbInfo[b].ranges[p]) :
               LET lr == bbInfo[b].ranges[p][i] IN
               Builder!IsUsable(bbInfo[b], lr) /\ lr.start <= a /\ a < lr.end /\ lr.loc = loc
  <2>1. PICK b \in Builder!Starts : loc
               \in {bbInfo[b].ranges[p][i].loc : i \in Builder!Bringing(p, a, b)}
    BY <1>3 DEF Builder!Brought
  <2>2. PICK i \in Builder!Bringing(p, a, b) : loc = bbInfo[b].ranges[p][i].loc
    BY SMTT(60), <2>1
  <2> QED BY <1>1, <1>2, <2>2
<1>4. ASSUME NEW b \in Builder!Starts, NEW i \in 1 .. Len(bbInfo[b].ranges[p]),
             Builder!IsUsable(bbInfo[b], bbInfo[b].ranges[p][i]), bbInfo[b].ranges[p][i].start <= a,
                     a < bbInfo[b].ranges[p][i].end
      PROVE  bbInfo[b].ranges[p][i].loc \in Builder!Brought(p, a)
  <2>1. i \in Builder!Bringing(p, a, b)
    BY <1>1, <1>4
  <2> QED BY <2>1 DEF Builder!Brought
<1> QED BY <1>3, <1>4

(* An address is in one block.                                             *)
LEMMA OneBlock ==
  ASSUME Builder!IsFunction(program), NEW b \in Builder!Starts, NEW c \in Builder!Starts,
         NEW a \in Nat,
                 b <= a, a < Builder!EndOf(b), c <= a, a < Builder!EndOf(c)
  PROVE  b = c
<1>1. /\ b \in 1 .. Len(program.code) /\ Builder!EndOf(b) \in b + 1 .. Builder!CodeEnd
      /\ c \in 1 .. Len(program.code) /\ Builder!EndOf(c) \in c + 1 .. Builder!CodeEnd
      /\ c <= b \/ Builder!EndOf(b) <= c
      /\ b <= c \/ Builder!EndOf(c) <= b
      /\ Builder!CodeEnd \in Nat /\ Len(program.code) \in Nat
  BY EndsOfBlocks, FirstBlock
<1> QED BY <1>1

(* The candidate is a usable range that goes on behind the cursor, and no  *)
(* other one starts before it.                                             *)
LEMMA CandidateIs ==
  ASSUME ProgramInv, BlocksInv, CursorInv, phase = "create", NEW lr \in Builder!Candidates
  PROVE  /\ \E i \in 1 .. Len(bbInfo[at.block].ranges[at.param]) :
              lr = bbInfo[at.block].ranges[at.param][i]
         /\ Builder!IsUsable(bbInfo[at.block], lr)
         /\ lr.start \in Nat /\ lr.end \in Nat /\ lr.start < lr.end /\ at.instrp < lr.end
         /\ lr.end <= Builder!EndOf(at.block) /\ at.block <= lr.start
            /\ lr.loc # Builder!Lists!NoLocation
         /\ RangeAt(at.block, at.block, FALSE, lr)
         /\ \A a \in lr.start .. lr.end - 1 : lr.loc \in Builder!Brought(at.param, a)
         /\ \A i \in 1 .. Len(bbInfo[at.block].ranges[at.param]) :
              LET other == bbInfo[at.block].ranges[at.param][i] IN
              Builder!IsUsable(bbInfo[at.block], other) /\ other.end > at.instrp =>
                lr.start <= other.start
<1> DEFINE info == bbInfo[at.block]
           ranges == info.ranges[at.param]
           after == {i \in DOMAIN ranges : Builder!IsUsable(info, ranges[i])
             /\ ranges[i].end > at.instrp}
           first == {i \in after : \A j \in after : ranges[i].start <= ranges[j].start}
           starts == {ranges[i].start : i \in after}
<1>1. at.block \in Builder!Starts /\ at.param \in Builder!Params /\ at.instrp \in Nat
  <2>1. at.block \in Builder!Starts /\ at.param \in Builder!Params
        /\ at.instrp \in at.block .. Builder!EndOf(at.block)
    BY DEF CursorInv
  <2>2. at.block \in 1 .. Len(program.code)
        /\ Builder!EndOf(at.block) \in at.block + 1 .. Builder!CodeEnd
        /\ Len(program.code) \in Nat /\ Builder!CodeEnd \in Nat
    BY <2>1, EndsOfBlocks, FirstBlock DEF ProgramInv
  <2> QED BY <2>1, <2>2
<1>2. DOMAIN ranges = 1 .. Len(ranges) /\ Len(ranges) \in Nat
  BY SMTT(60), <1>1, IndexesOfBlock
<1>3. \A i \in 1 .. Len(ranges) :
        /\ RangeAt(at.block, at.block, FALSE, ranges[i])
        /\ ranges[i].start \in Nat /\ ranges[i].end \in Nat /\ at.block <= ranges[i].start
        /\ ranges[i].end <= Builder!EndOf(at.block) /\ ranges[i].loc # Builder!Lists!NoLocation
  BY ZenonT(60), <1>1, RangeOfBlock
<1>4. after # {} /\ lr = ranges[Builder!Min(first)]
  BY DEF Builder!Candidates
<1>5. first # {}
  <2>1. starts \subseteq Nat /\ starts # {}
    BY ZenonT(60), <1>2, <1>3, <1>4
  <2>2. Builder!Min(starts) \in starts /\ \A y \in starts : Builder!Min(starts) <= y
    BY <2>1, LeastOf
  <2>3. PICK i \in after : ranges[i].start = Builder!Min(starts)
    BY <2>2
  <2>4. \A j \in after : ranges[i].start <= ranges[j].start
    BY <2>2, <2>3
  <2> QED BY ZenonT(60), <2>3, <2>4
<1>6. Builder!Min(first) \in first
  <2>1. first \subseteq Nat
    BY <1>2
  <2> HIDE DEF first
  <2> QED BY <1>5, <2>1, LeastOf
<1>7. PICK i \in first : lr = ranges[i]
  BY ZenonT(60), <1>4, <1>6
<1>8. /\ i \in 1 .. Len(ranges) /\ Builder!IsUsable(info, lr) /\ lr.end > at.instrp
      /\ \A j \in 1 .. Len(ranges) : Builder!IsUsable(info, ranges[j])
         /\ ranges[j].end > at.instrp =>
           lr.start <= ranges[j].start
  BY ZenonT(60), <1>2, <1>7
<1>9. /\ RangeAt(at.block, at.block, FALSE, lr)
      /\ lr.start \in Nat /\ lr.end \in Nat /\ at.block <= lr.start
      /\ lr.end <= Builder!EndOf(at.block) /\ lr.loc # Builder!Lists!NoLocation
  BY ZenonT(60), <1>3, <1>7, <1>8
<1>10. lr.start < lr.end /\ at.instrp < lr.end
  BY ZenonT(60), <1>1, <1>8, <1>9 DEF Builder!IsUsable
<1>11. ASSUME NEW a \in lr.start .. lr.end - 1 PROVE lr.loc \in Builder!Brought(at.param, a)
  <2>1. a \in Nat /\ lr.start <= a /\ a < lr.end
    BY <1>9
  <2> HIDE DEF first, after, starts
  <2> QED BY ZenonT(60), <1>1, <1>7, <1>8, <2>1, BroughtBy
<1> QED BY <1>7, <1>8, <1>9, <1>10, <1>11

(* What a block brings behind the cursor, a candidate begins to say.       *)
LEMMA NothingBefore ==
  ASSUME ProgramInv, BlocksInv, CursorInv, phase = "create", NEW a \in Nat,
         at.instrp <= a, a < Builder!EndOf(at.block), Builder!Brought(at.param, a) # {}
  PROVE  \E lr \in Builder!Candidates : lr.start <= a
<1>1. /\ at.block \in Builder!Starts /\ at.param \in Builder!Params
         /\ at.instrp \in at.block .. Builder!EndOf(at.block)
      /\ Builder!IsFunction(program)
  BY DEF CursorInv, ProgramInv
<1>0. at.block \in 1 .. Len(program.code)
      /\ Builder!EndOf(at.block) \in at.block + 1 .. Builder!CodeEnd
      /\ Len(program.code) \in Nat /\ Builder!CodeEnd \in Nat
  BY <1>1, EndsOfBlocks, FirstBlock
<1>2. at.instrp \in Nat /\ at.block <= a /\ Builder!EndOf(at.block) \in Nat
  BY <1>0, <1>1
<1>3. PICK b \in Builder!Starts : \E j \in 1 .. Len(bbInfo[b].ranges[at.param]) :
        LET lr == bbInfo[b].ranges[at.param][j] IN
        Builder!IsUsable(bbInfo[b], lr) /\ lr.start <= a /\ a < lr.end
  BY SMTT(60), <1>1, BroughtBy
<1>4. PICK j \in 1 .. Len(bbInfo[b].ranges[at.param]) :
        LET lr == bbInfo[b].ranges[at.param][j] IN
        Builder!IsUsable(bbInfo[b], lr) /\ lr.start <= a /\ a < lr.end
  BY <1>3
<1> DEFINE other == bbInfo[b].ranges[at.param][j]
<1>5. other.start \in Nat /\ other.end \in Nat /\ b <= other.start /\ other.end <= Builder!EndOf(b)
      /\ b \in Nat /\ Builder!EndOf(b) \in Nat
  BY <1>1, RangeOfBlock
<1>6. b <= a /\ a < Builder!EndOf(b)
  BY SMTT(60), <1>4, <1>5
<1>7. b = at.block
  BY <1>1, <1>2, <1>6, OneBlock
<1>8. other.end > at.instrp
  BY SMTT(60), <1>2, <1>4, <1>5
<1>9. Builder!Candidates # {}
  <2>1. j \in DOMAIN bbInfo[at.block].ranges[at.param]
    BY <1>1, <1>7, IndexesOfBlock
  <2> QED BY <1>4, <1>7, <1>8, <2>1 DEF Builder!Candidates
<1>10. PICK lr \in Builder!Candidates : TRUE
  BY SMTT(60), <1>9
<1>11. lr.start <= other.start /\ lr.start \in Nat
  BY <1>4, <1>7, <1>8, CandidateIs
<1> QED BY SMTT(60), <1>4, <1>5, <1>10, <1>11

-----------------------------------------------------------------------------
(* The creation of the lists.                                              *)

(* What the lists are about stays while they are made.                     *)
LEMMA SameCreation ==
  ASSUME program' = program, bbInfo' = bbInfo
  PROVE  /\ Builder!Starts' = Builder!Starts /\ Builder!CodeEnd' = Builder!CodeEnd
            /\ Builder!Params' = Builder!Params
         /\ \A b : Builder!EndOf(b)' = Builder!EndOf(b)
         /\ \A q, list, limit, range :
              CoverInv(q, list, limit, range) => CoverInv(q, list, limit, range)'
         /\ \A q, list, range : OpenInv(q, list, range) => OpenInv(q, list, range)'
         /\ \A list, limit : ListInv(list, limit)' = ListInv(list, limit)
<1>1. Builder!Starts' = Builder!Starts /\ Builder!CodeEnd' = Builder!CodeEnd
      /\ Builder!Params' = Builder!Params
  BY DEF Builder!Starts, Builder!CodeEnd, Builder!Params
<1>2. \A b : Builder!EndOf(b)' = Builder!EndOf(b)
  BY <1>1 DEF Builder!EndOf
<1>3. \A q, a : Builder!Brought(q, a)' = Builder!Brought(q, a)
  BY <1>1 DEF Builder!Brought, Builder!Bringing
<1>4. \A q, list, limit, range :
        CoverInv(q, list, limit, range) => CoverInv(q, list, limit, range)'
  BY <1>3 DEF CoverInv, Covering, SaidEnd, Under
<1>5. \A list, limit : ListInv(list, limit)' = ListInv(list, limit)
  BY SMTT(60) DEF ListInv, IsSeq, SaidEnd
<1>6. \A q, list, range : OpenInv(q, list, range) => OpenInv(q, list, range)'
  BY <1>1, <1>3, <1>5 DEF OpenInv, Adjoining, SaidEnd, Builder!IsUsable
<1> QED BY <1>1, <1>2, <1>4, <1>5, <1>6

(* So do the blocks and the rest of the traversal.                         *)
LEMMA KeepsTraversal ==
  ASSUME ProgramInv, BlocksInv, UNCHANGED <<program, Builder!travVars, machine, steps>>,
         phase \in {"create", "run"}, phase' \in {"create", "run"}
  PROVE  ProgramInv' /\ BlocksInv'
<1>1. Builder!Entries' = Builder!Entries /\ Builder!CodeEnd' = Builder!CodeEnd
  BY DEF Builder!Entries, Builder!Starts, Builder!CodeEnd
<1>2. ProgramInv'
  BY <1>1 DEF ProgramInv, Builder!travVars
<1>3. \A b \in Builder!Starts : Cursor(b)' = Cursor(b) /\ Marking(b)' = Marking(b)
  BY DEF Cursor, Marking, Walking
<1> QED BY <1>2, <1>3, NoBlockStep DEF Builder!travVars

(* The cursor is in the function.                                          *)
LEMMA CursorNumbers ==
  ASSUME ProgramInv, CursorInv
  PROVE  /\ at.block \in Builder!Starts /\ at.param \in Builder!Params
            /\ Builder!IsFunction(program)
         /\ at.block \in Nat \ {0} /\ Builder!EndOf(at.block) \in Nat /\ Builder!CodeEnd \in Nat
         /\ Builder!EndOf(at.block) <= Builder!CodeEnd /\ at.instrp \in Nat
         /\ at.block <= at.instrp /\ at.instrp <= Builder!EndOf(at.block)
<1>1. at.block \in Builder!Starts /\ at.param \in Builder!Params /\ Builder!IsFunction(program)
      /\ at.instrp \in at.block .. Builder!EndOf(at.block)
  BY DEF CursorInv, ProgramInv
<1>2. at.block \in 1 .. Len(program.code)
      /\ Builder!EndOf(at.block) \in at.block + 1 .. Builder!CodeEnd
      /\ Len(program.code) \in Nat /\ Builder!CodeEnd \in Nat
  BY <1>1, EndsOfBlocks, FirstBlock
<1> QED BY <1>1, <1>2

(* A step that goes on with the same parameter keeps the lists of the      *)
(* others.                                                                 *)
LEMMA SameParameter ==
  ASSUME ProgramInv, CreateInv, phase = "create", phase' = "create", program' = program,
         bbInfo' = bbInfo, NEW list, NEW now, at' = now, now.param = at.param,
         liveRanges' = [liveRanges EXCEPT ![at.param] = list],
         now = [param |-> now.param, block |-> now.block, instrp |-> now.instrp,
                range |-> now.range],
         now.range = [start |-> now.range.start, end |-> now.range.end, loc |-> now.range.loc],
         now.block \in Builder!Starts, now.instrp \in now.block .. Builder!EndOf(now.block),
         ListInv(list, now.instrp), CoverInv(at.param, list, now.instrp, now.range),
         now.range.start # 0 => OpenInv(at.param, list, now.range) /\ now.range.end = now.instrp,
         now.range.start = 0 => ClosedInv'
  PROVE  CreateInv'
<1> DEFINE p == at.param
<1>1. p \in Builder!Params /\ liveRanges = [q \in Builder!Params |-> liveRanges[q]]
  BY DEF CreateInv, CursorInv
<1>2. /\ liveRanges' = [q \in Builder!Params |-> liveRanges'[q]] /\ liveRanges'[p] = list
      /\ \A q \in Builder!Params : q # p => liveRanges'[q] = liveRanges[q]
  BY <1>1
<1>3. CursorInv'
  <2>1. Builder!Starts' = Builder!Starts /\ Builder!Params' = Builder!Params
        /\ Builder!EndOf(now.block)' = Builder!EndOf(now.block)
    BY SameCreation
  <2> QED BY <1>1, <1>2, <2>1 DEF CursorInv
<1>4. ASSUME NEW q \in Builder!Params
      PROVE  /\ ListInv(liveRanges'[q], Limit(q)')
             /\ CoverInv(q, liveRanges'[q], Limit(q)', RangeOf(q)')
  <2>1. CASE q = p
    <3>1. Limit(q)' = now.instrp /\ RangeOf(q)' = now.range
      <4>1. ~(q < p)
        BY SMTT(60), <1>1, <2>1, FirstBlock DEF ProgramInv
      <4> QED BY <2>1, <4>1 DEF Limit, RangeOf
    <3> QED BY <1>2, <2>1, <3>1
  <2>2. CASE q # p
    <3>1. Limit(q)' = Limit(q) /\ RangeOf(q)' = RangeOf(q)
      BY <2>2, SameCreation DEF Limit, RangeOf, Builder!NoRange
    <3> QED BY <1>2, <2>2, <3>1 DEF CreateInv
  <2> QED BY <2>1, <2>2
<1>5. \A q \in Builder!Params' : /\ ListInv(liveRanges[q], Limit(q))'
                                 /\ CoverInv(q, liveRanges[q], Limit(q), RangeOf(q))'
  BY <1>4, SameCreation
<1>6. now.range.start # 0 => OpenInv(at.param, liveRanges[at.param], at.range)'
  BY <1>2, SameCreation
<1> QED BY <1>3, <1>5, <1>6 DEF CreateInv

(* What the range under way becomes.                                       *)
LEMMA ClosesRange ==
  ASSUME ProgramInv, CreateInv, phase = "create", at.range.start # 0
  PROVE  LET list == liveRanges[at.param]
             all == Append(list, Said(list, at.range))
         IN /\ Builder!WithRange = [liveRanges EXCEPT ![at.param] = all]
            /\ ListInv(all, at.instrp)
            /\ CoverInv(at.param, all, at.instrp, Builder!NoRange)
            /\ all # <<>> /\ all[Len(all)].loc = at.range.loc
            /\ SaidEnd(all[Len(all)]) = at.instrp - 1
<1> DEFINE list == liveRanges[at.param]
           all == Append(list, Said(list, at.range))
<1>1. /\ OpenInv(at.param, list, at.range) /\ at.range.end = at.instrp /\ CursorInv
      /\ CoverInv(at.param, list, Limit(at.param), RangeOf(at.param))
  BY DEF CreateInv, CursorInv
<1>2. /\ at.param \in Builder!Params /\ Builder!IsFunction(program) /\ at.instrp \in Nat
         /\ at.instrp <= Builder!CodeEnd
      /\ Builder!CodeEnd \in Nat
  BY <1>1, CursorNumbers
<1>3. Limit(at.param) = at.instrp /\ RangeOf(at.param) = at.range
  <2>1. ~(at.param < at.param)
    BY <1>2, FirstBlock
  <2> QED BY <2>1 DEF Limit, RangeOf
<1>4. /\ at.range.start \in Nat /\ at.range.end \in Nat /\ 1 <= at.range.start
      /\ at.range.start < at.range.end /\ at.range.end <= Builder!CodeEnd
  BY <1>1, <1>2 DEF OpenInv
<1>5. /\ at.range.loc # Builder!Lists!NoLocation /\ ListInv(list, at.range.start)
      /\ Adjoining(list, at.range.start) => list[Len(list)].loc # at.range.loc
      /\ \A a \in at.range.start .. at.range.end - 1 : at.range.loc \in Builder!Brought(at.param, a)
  BY <1>1 DEF OpenInv
<1>6. Builder!Lists!AddLiveRange(list, Said(list, at.range), Len(program.code)) = all
  BY <1>2, <1>4, <1>5, NeverRefused
<1>7. Builder!WithRange = [liveRanges EXCEPT ![at.param] = all]
  BY <1>6 DEF Builder!WithRange, Said
<1>8. /\ ListInv(all, at.range.end)
      /\ Len(all) = Len(list) + 1 /\ Len(list) \in Nat /\ all # <<>>
      /\ \A i \in 1 .. Len(list) : all[i] = list[i]
      /\ all[Len(all)].loc = at.range.loc /\ SaidEnd(all[Len(all)]) = at.range.end - 1
      /\ \A a \in Nat : Covering(all[Len(all)], a) <=> at.range.start <= a /\ a < at.range.end
  BY <1>4, <1>5, ListAdded
<1> HIDE DEF all
<1>9. CoverInv(at.param, all, at.instrp, Builder!NoRange)
  BY <1>1, <1>2, <1>3, <1>4, <1>5, <1>8, CoverAdded
<1> QED BY <1>1, <1>7, <1>8, <1>9 DEF all

(* A range that goes on behind one with the same location does not begin   *)
(* before it: ranges of a block end where their location is killed.        *)
LEMMA EndTogether ==
  ASSUME ProgramInv, BlocksInv, CreateInv, phase = "create", at.range.start # 0,
         NEW lr \in Builder!Candidates, lr.start < at.range.start, lr.loc = at.range.loc
  PROVE  FALSE
<1>1. OpenInv(at.param, liveRanges[at.param], at.range) /\ at.range.end = at.instrp /\ CursorInv
  BY DEF CreateInv
<1>2. /\ at.block \in Builder!Starts /\ at.param \in Builder!Params /\ Builder!IsFunction(program)
      /\ at.block \in Nat \ {0} /\ Builder!EndOf(at.block) \in Nat /\ at.instrp \in Nat
  BY <1>1, CursorNumbers
<1>3. at.range.start \in Nat /\ at.range.start < at.range.end /\ 1 <= at.range.start
  BY SMTT(60), <1>1, <1>2 DEF OpenInv
<1>4. PICK b \in Builder!Starts : \E i \in 1 .. Len(bbInfo[b].ranges[at.param]) :
        LET old == bbInfo[b].ranges[at.param][i] IN
        Builder!IsUsable(bbInfo[b], old) /\ old.loc = at.range.loc /\ old.end = at.range.end
  BY SMTT(60), <1>1 DEF OpenInv
<1>5. PICK i \in 1 .. Len(bbInfo[b].ranges[at.param]) :
        LET old == bbInfo[b].ranges[at.param][i] IN
        Builder!IsUsable(bbInfo[b], old) /\ old.loc = at.range.loc /\ old.end = at.range.end
  BY <1>4
<1> DEFINE old == bbInfo[b].ranges[at.param][i]
<1>6. /\ RangeAt(b, b, FALSE, old) /\ b \in Nat /\ Builder!EndOf(b) \in Nat
      /\ old.start \in Nat /\ old.end \in Nat /\ b <= old.start /\ old.end <= Builder!EndOf(b)
  BY <1>2, RangeOfBlock
<1>7. /\ old.start < old.end /\ old.loc = at.range.loc /\ old.end = at.instrp
  BY <1>1, <1>5, <1>6 DEF Builder!IsUsable
<1> HIDE DEF old
<1>8. /\ lr.start \in Nat /\ lr.end \in Nat /\ at.instrp < lr.end
         /\ lr.end <= Builder!EndOf(at.block)
      /\ at.block <= lr.start /\ RangeAt(at.block, at.block, FALSE, lr)
  BY <1>1, CandidateIs
<1>9. b = at.block
  <2>1. /\ old.end - 1 \in Nat /\ b <= old.end - 1 /\ old.end - 1 < Builder!EndOf(b)
        /\ at.block <= old.end - 1 /\ old.end - 1 < Builder!EndOf(at.block)
    <3>1. old.end - 1 \in Nat /\ b <= old.end - 1 /\ old.end - 1 < Builder!EndOf(b)
      BY <1>6, <1>7
    <3>2. at.range.end = old.end
      BY <1>1, <1>7
    <3>3. at.block <= old.end - 1 /\ old.end - 1 < Builder!EndOf(at.block)
      BY SMTT(60), <1>2, <1>3, <1>6, <1>7, <1>8, <3>2
    <3> QED BY <3>1, <3>3
  <2> QED BY <1>2, <2>1, OneBlock
<1>10. ~Builder!Kills(Builder!Code(old.end - 1), old.loc)
  <2>1. old.end - 1 \in lr.start .. lr.end - 2
    BY <1>1, <1>2, <1>3, <1>7, <1>8
  <2> QED BY <1>7, <1>8, <2>1 DEF RangeAt
<1>11. old.end = Builder!EndOf(b)
  <2>1. old.end # b
    BY <1>6, <1>7
  <2> QED BY <1>6, <1>10, <2>1 DEF RangeAt, StateAt, Killed
<1> QED BY <1>2, <1>7, <1>8, <1>9, <1>11

(* The three cases of TakeRange: a range begins, goes on, or is closed.    *)
LEMMA TakesFirst ==
  ASSUME ProgramInv, BlocksInv, CreateInv, Builder!InBlock, at.range.start = 0,
         NEW lr \in Builder!Candidates,
         at' = [at EXCEPT !.range = [start |-> Builder!Max({lr.start, at.instrp}),
                                     end |-> lr.end, loc |-> lr.loc],
                          !.instrp = lr.end],
         liveRanges' = liveRanges, program' = program, bbInfo' = bbInfo, phase' = phase
  PROVE  CreateInv'
<1> DEFINE p == at.param
           list == liveRanges[p]
           start == IF lr.start <= at.instrp THEN at.instrp ELSE lr.start
           range == [start |-> start, end |-> lr.end, loc |-> lr.loc]
           now == [param |-> p, block |-> at.block, instrp |-> lr.end, range |-> range]
<1>1. CursorInv /\ phase = "create" /\ ClosedInv
      /\ ListInv(list, Limit(p)) /\ CoverInv(p, list, Limit(p), RangeOf(p))
      /\ liveRanges = [q \in Builder!Params |-> liveRanges[q]] /\ p \in Builder!Params
      /\ at = [param |-> at.param, block |-> at.block, instrp |-> at.instrp, range |-> at.range]
  BY DEF CreateInv, CursorInv, Builder!InBlock
<1>2. /\ at.block \in Builder!Starts /\ Builder!IsFunction(program) /\ at.instrp \in Nat
      /\ at.block \in Nat \ {0} /\ Builder!EndOf(at.block) \in Nat /\ at.block <= at.instrp
  BY <1>1, CursorNumbers
<1>3. /\ lr.start \in Nat /\ lr.end \in Nat /\ lr.start < lr.end /\ at.instrp < lr.end
      /\ lr.end <= Builder!EndOf(at.block) /\ at.block <= lr.start
  BY <1>1, CandidateIs
<1>a. /\ \E i \in 1 .. Len(bbInfo[at.block].ranges[p]) : lr = bbInfo[at.block].ranges[p][i]
      /\ Builder!IsUsable(bbInfo[at.block], lr) /\ lr.loc # Builder!Lists!NoLocation
      /\ \A a \in lr.start .. lr.end - 1 : lr.loc \in Builder!Brought(p, a)
  BY <1>1, CandidateIs
<1>4. Limit(p) = at.instrp /\ ~Under(RangeOf(p), 0)
      /\ \A a : ~Under(RangeOf(p), a)
  <2>1. ~(p < p)
    BY <1>1, <1>2, FirstBlock
  <2> QED BY <1>1, <2>1 DEF Limit, RangeOf, Under
<1>5. start \in Nat /\ at.instrp <= start /\ lr.start <= start /\ start < lr.end /\ 1 <= start
      /\ (start = at.instrp \/ at.instrp < start)
  BY <1>2, <1>3
<1>6. Builder!Max({lr.start, at.instrp}) = start
  <2>1. \A x \in {lr.start, at.instrp} :
          (\A y \in {lr.start, at.instrp} : x >= y) <=> x = start
    BY <1>2, <1>3
  <2>2. start \in {lr.start, at.instrp}
    OBVIOUS
  <2> HIDE DEF start
  <2> QED BY <2>1, <2>2 DEF Builder!Max
<1>7. at' = now
  BY <1>1, <1>6
<1> HIDE DEF start
<1>8. ListInv(list, lr.end) /\ ListInv(list, start)
  BY <1>1, <1>2, <1>3, <1>4, <1>5, ListGrows
<1>9. CoverInv(p, list, lr.end, range)
  <2>1. ASSUME NEW a \in Nat, at.instrp <= a, a < lr.end, Builder!Brought(p, a) # {}
        PROVE  Under(range, a)
    <3>1. PICK other \in Builder!Candidates : other.start <= a
      BY SMTT(60), <1>1, <1>2, <1>3, <2>1, NothingBefore
    <3>2. other = lr
      BY DEF Builder!Candidates
    <3>3. start <= a
      BY SMTT(60), <1>2, <1>3, <2>1, <3>1, <3>2 DEF start
    <3> QED BY <1>5, <2>1, <3>3 DEF Under
  <2> QED BY <1>1, <1>2, <1>3, <1>4, <2>1, CoverGrows
<1>10. OpenInv(p, list, range)
  <2>1. range.start \in 1 .. range.end - 1
    BY <1>3, <1>5
  <2>2. Adjoining(list, range.start) => list[Len(list)].loc # range.loc
    <3> SUFFICES ASSUME Adjoining(list, start) PROVE list[Len(list)].loc # lr.loc
      OBVIOUS
    <3>1. Adjoining(list, at.instrp)
      <4>1. list # <<>> /\ SaidEnd(list[Len(list)]) = start - 1
        BY DEF Adjoining
      <4>2. Len(list) \in 1 .. Len(list)
        <5>1. IsSeq(list) /\ Len(list) \in Nat
          BY <1>1, SeqOfElements DEF ListInv
        <5>2. Len(list) # 0
          BY <4>1, <5>1, SeqOfElements, EmptySeq
        <5> QED BY <5>1, <5>2
      <4>3. SaidEnd(list[Len(list)]) < at.instrp
        BY <1>1, <1>4, <4>2 DEF ListInv
      <4>4. start = at.instrp
        BY SMTT(60), <1>2, <1>5, <4>1, <4>3
      <4> QED BY <4>1, <4>4 DEF Adjoining
    <3> QED BY <1>1, <3>1 DEF ClosedInv
  <2>3. \A a \in range.start .. range.end - 1 : range.loc \in Builder!Brought(p, a)
    <3> SUFFICES ASSUME NEW a \in start .. lr.end - 1 PROVE lr.loc \in Builder!Brought(p, a)
      OBVIOUS
    <3>1. a \in lr.start .. lr.end - 1
      BY <1>3, <1>5
    <3> QED BY <1>a, <3>1
  <2> QED BY <1>2, <1>a, <1>8, <2>1, <2>2, <2>3 DEF OpenInv
<1>11. lr.end \in at.block .. Builder!EndOf(at.block)
  BY <1>2, <1>3
<1>12. liveRanges' = [liveRanges EXCEPT ![at.param] = list]
  BY <1>1
<1>13. now.range.start # 0
  BY <1>5
<1>14. /\ now.param = at.param /\ now.block \in Builder!Starts
          /\ now.instrp \in now.block .. Builder!EndOf(now.block)
       /\ now = [param |-> now.param, block |-> now.block, instrp |-> now.instrp,
                 range |-> now.range]
       /\ now.range = [start |-> now.range.start, end |-> now.range.end, loc |-> now.range.loc]
       /\ ListInv(list, now.instrp) /\ CoverInv(at.param, list, now.instrp, now.range)
       /\ OpenInv(at.param, list, now.range) /\ now.range.end = now.instrp
  BY <1>2, <1>8, <1>9, <1>10, <1>11
<1> HIDE DEF now, list, range
<1> QED BY <1>1, <1>7, <1>12, <1>13, <1>14, SameParameter

LEMMA TakesMerged ==
  ASSUME ProgramInv, BlocksInv, CreateInv, Builder!InBlock, at.range.start # 0,
         NEW lr \in Builder!Candidates,
         Builder!Merges(lr), at' = [at EXCEPT !.range.end = lr.end, !.instrp = lr.end],
                 liveRanges' = liveRanges, program' = program, bbInfo' = bbInfo, phase' = phase
  PROVE  CreateInv'
<1> DEFINE p == at.param
           list == liveRanges[p]
           range == [start |-> at.range.start, end |-> lr.end, loc |-> at.range.loc]
           now == [param |-> p, block |-> at.block, instrp |-> lr.end, range |-> range]
<1>1. CursorInv /\ phase = "create" /\ OpenInv(p, list, at.range) /\ at.range.end = at.instrp
      /\ ListInv(list, Limit(p)) /\ CoverInv(p, list, Limit(p), RangeOf(p))
      /\ liveRanges = [q \in Builder!Params |-> liveRanges[q]] /\ p \in Builder!Params
      /\ at = [param |-> at.param, block |-> at.block, instrp |-> at.instrp, range |-> at.range]
      /\ at.range = [start |-> at.range.start, end |-> at.range.end, loc |-> at.range.loc]
  BY DEF CreateInv, CursorInv, Builder!InBlock
<1>2. /\ at.block \in Builder!Starts /\ Builder!IsFunction(program) /\ at.instrp \in Nat
      /\ at.block \in Nat \ {0} /\ Builder!EndOf(at.block) \in Nat /\ at.block <= at.instrp
  BY <1>1, CursorNumbers
<1>3. /\ lr.start \in Nat /\ lr.end \in Nat /\ lr.start < lr.end /\ at.instrp < lr.end
      /\ lr.end <= Builder!EndOf(at.block) /\ at.block <= lr.start
  BY <1>1, CandidateIs
<1>a. /\ \E i \in 1 .. Len(bbInfo[at.block].ranges[p]) : lr = bbInfo[at.block].ranges[p][i]
      /\ Builder!IsUsable(bbInfo[at.block], lr) /\ lr.loc # Builder!Lists!NoLocation
      /\ \A a \in lr.start .. lr.end - 1 : lr.loc \in Builder!Brought(p, a)
  BY <1>1, CandidateIs
<1>4. Limit(p) = at.instrp /\ RangeOf(p) = at.range
  <2>1. ~(p < p)
    BY <1>1, <1>2, FirstBlock
  <2> QED BY <1>1, <2>1 DEF Limit, RangeOf
<1>5. at.range.start \in Nat /\ 1 <= at.range.start /\ at.range.start < at.range.end
      /\ lr.start <= at.range.end /\ lr.loc = at.range.loc
  BY <1>1, <1>2 DEF OpenInv, Builder!Merges
<1>7. at' = now
  BY <1>1
<1>8. ListInv(list, lr.end)
  BY <1>1, <1>2, <1>3, <1>4, ListGrows
<1>9. CoverInv(p, list, lr.end, range)
  <2>1. \A a \in Nat : Under(at.range, a) => Under(range, a)
    BY <1>1, <1>2, <1>3, <1>5 DEF Under
  <2>2. \A a \in Nat : at.instrp <= a /\ a < lr.end /\ Builder!Brought(p, a) # {} => Under(range, a)
    BY SMTT(60), <1>1, <1>2, <1>3, <1>5 DEF Under
  <2> HIDE DEF range, list
  <2> QED BY <1>1, <1>2, <1>3, <1>4, <2>1, <2>2, CoverGrows
<1>10. OpenInv(p, list, range)
  <2>1. range.start \in 1 .. range.end - 1
    BY <1>1, <1>2, <1>3, <1>5
  <2>2. ASSUME NEW a \in at.range.start .. lr.end - 1 PROVE at.range.loc \in Builder!Brought(p, a)
    <3>1. CASE a < at.range.end
      <4>1. a \in at.range.start .. at.range.end - 1
        BY SMTT(60), <1>1, <1>2, <1>5, <3>1
      <4> QED BY <1>1, <4>1 DEF OpenInv
    <3>2. CASE ~(a < at.range.end)
      <4>1. a \in lr.start .. lr.end - 1
        BY SMTT(60), <1>1, <1>2, <1>3, <1>5, <3>2
      <4> QED BY <1>a, <1>5, <4>1
    <3> QED BY <3>1, <3>2
  <2>3. /\ ListInv(list, range.start) /\ range.loc # Builder!Lists!NoLocation
        /\ Adjoining(list, range.start) => list[Len(list)].loc # range.loc
    BY <1>1 DEF OpenInv
  <2> QED BY <1>2, <1>a, <1>5, <2>1, <2>2, <2>3 DEF OpenInv
<1>11. lr.end \in at.block .. Builder!EndOf(at.block)
  BY <1>2, <1>3
<1>12. liveRanges' = [liveRanges EXCEPT ![at.param] = list]
  BY <1>1
<1>14. /\ now.param = at.param /\ now.block \in Builder!Starts
          /\ now.instrp \in now.block .. Builder!EndOf(now.block)
       /\ now = [param |-> now.param, block |-> now.block, instrp |-> now.instrp,
                 range |-> now.range]
       /\ now.range = [start |-> now.range.start, end |-> now.range.end, loc |-> now.range.loc]
       /\ ListInv(list, now.instrp) /\ CoverInv(at.param, list, now.instrp, now.range)
       /\ OpenInv(at.param, list, now.range) /\ now.range.end = now.instrp
       /\ now.range.start # 0
  BY <1>2, <1>8, <1>9, <1>10, <1>11
<1> HIDE DEF now, list, range
<1> QED BY <1>1, <1>7, <1>12, <1>14, SameParameter

LEMMA TakesNone ==
  ASSUME ProgramInv, BlocksInv, CreateInv, Builder!InBlock, at.range.start # 0,
         NEW lr \in Builder!Candidates,
         ~Builder!Merges(lr), liveRanges' = Builder!WithRange,
         at' = [at EXCEPT !.range = Builder!NoRange,
           !.instrp = Builder!Max({lr.start, at.range.end})],
         program' = program, bbInfo' = bbInfo, phase' = phase
  PROVE  CreateInv'
<1> DEFINE p == at.param
           list == liveRanges[p]
           all == Append(list, Said(list, at.range))
           instrp == IF lr.start <= at.instrp THEN at.instrp ELSE lr.start
           now == [param |-> p, block |-> at.block, instrp |-> instrp, range |-> Builder!NoRange]
<1>1. CursorInv /\ phase = "create" /\ OpenInv(p, list, at.range) /\ at.range.end = at.instrp
      /\ liveRanges = [q \in Builder!Params |-> liveRanges[q]] /\ p \in Builder!Params
      /\ at = [param |-> at.param, block |-> at.block, instrp |-> at.instrp, range |-> at.range]
  BY DEF CreateInv, CursorInv, Builder!InBlock
<1>2. /\ at.block \in Builder!Starts /\ Builder!IsFunction(program) /\ at.instrp \in Nat
      /\ at.block \in Nat \ {0} /\ Builder!EndOf(at.block) \in Nat /\ at.block <= at.instrp
      /\ at.instrp < Builder!EndOf(at.block)
  BY <1>1, CursorNumbers DEF Builder!InBlock
<1>3. /\ lr.start \in Nat /\ lr.end \in Nat /\ lr.start < lr.end /\ at.instrp < lr.end
      /\ lr.end <= Builder!EndOf(at.block) /\ at.block <= lr.start
  BY <1>1, CandidateIs
<1>4. /\ liveRanges' = [liveRanges EXCEPT ![p] = all]
      /\ ListInv(all, at.instrp) /\ CoverInv(p, all, at.instrp, Builder!NoRange)
      /\ all # <<>> /\ all[Len(all)].loc = at.range.loc
      /\ SaidEnd(all[Len(all)]) = at.instrp - 1
  BY <1>1, ClosesRange
<1>5. instrp \in Nat /\ at.instrp <= instrp /\ instrp < Builder!EndOf(at.block)
      /\ (instrp = at.instrp => lr.start <= at.instrp)
  BY <1>2, <1>3
<1>6. at' = now
  <2>1. Builder!Max({lr.start, at.instrp}) = instrp
    <3>1. \A x \in {lr.start, at.instrp} :
            (\A y \in {lr.start, at.instrp} : x >= y) <=> x = instrp
      BY <1>2, <1>3
    <3>2. instrp \in {lr.start, at.instrp}
      OBVIOUS
    <3> HIDE DEF instrp
    <3> QED BY <3>1, <3>2 DEF Builder!Max
  <2> QED BY <1>1, <2>1
<1>7. ASSUME NEW a \in Nat, at.instrp <= a, a < instrp PROVE Builder!Brought(p, a) = {}
  <2> SUFFICES ASSUME Builder!Brought(p, a) # {} PROVE FALSE
    OBVIOUS
  <2>1. PICK other \in Builder!Candidates : other.start <= a
    BY SMTT(60), <1>1, <1>2, <1>5, <1>7, NothingBefore
  <2>2. other = lr
    BY DEF Builder!Candidates
  <2> QED BY <1>2, <1>3, <1>7, <2>1, <2>2
<1> HIDE DEF instrp, all
<1>b. at'.block = at.block /\ at'.param = p /\ at'.instrp = instrp /\ bbInfo' = bbInfo
  <2>1. bbInfo' = bbInfo
    OBVIOUS
  <2> QED BY ONLY <1>6, <2>1
<1> HIDE DEF now
<1>8. ListInv(all, instrp)
  BY <1>2, <1>4, <1>5, ListGrows
<1>9. CoverInv(p, all, instrp, Builder!NoRange)
  BY <1>2, <1>4, <1>5, <1>7, CoverGrows
<1>10. ClosedInv'
  <2> SUFFICES ASSUME Adjoining(all, instrp)
               PROVE  Builder!InBlock'
                      /\ \A new \in Builder!Candidates' : new.loc # all[Len(all)].loc
    <3>1. liveRanges'[p] = all
      BY <1>1, <1>4
    <3> QED BY <1>b, <3>1 DEF ClosedInv, Adjoining, SaidEnd
  <2>1. Builder!InBlock'
    <3>1. Builder!EndOf(at.block)' = Builder!EndOf(at.block)
      BY <1>b, SameCreation
    <3> QED BY <1>1, <1>5, <1>b, <3>1 DEF Builder!InBlock
  <2>2. instrp = at.instrp
    BY SMTT(60), <1>2, <1>4, <1>5 DEF Adjoining
  <2>3. Builder!Candidates' = Builder!Candidates
    BY ONLY ZenonT(60), <1>b, <2>2 DEF Builder!Candidates, Builder!IsUsable
  <2>4. \A new \in Builder!Candidates : new = lr
    BY DEF Builder!Candidates
  <2>5. lr.loc # at.range.loc
    <3> SUFFICES ASSUME lr.loc = at.range.loc PROVE FALSE
      OBVIOUS
    <3>1. at.range.start \in Nat
      BY <1>1, <1>2 DEF OpenInv
    <3>2. ~(at.range.start <= lr.start)
      BY <1>1, <1>3, <1>5, <2>2 DEF Builder!Merges
    <3>3. lr.start < at.range.start
      BY <1>3, <3>1, <3>2
    <3> QED BY <1>1, <3>3, EndTogether
  <2> QED BY <1>4, <2>1, <2>3, <2>4, <2>5
<1>11. instrp \in at.block .. Builder!EndOf(at.block)
  BY <1>2, <1>5
<1>12. /\ now.param = at.param /\ now.block \in Builder!Starts
          /\ now.instrp \in now.block .. Builder!EndOf(now.block)
       /\ now = [param |-> now.param, block |-> now.block, instrp |-> now.instrp,
                 range |-> now.range]
       /\ now.range = [start |-> now.range.start, end |-> now.range.end, loc |-> now.range.loc]
       /\ ListInv(all, now.instrp) /\ CoverInv(at.param, all, now.instrp, now.range)
       /\ now.range.start = 0
  BY <1>2, <1>8, <1>9, <1>11 DEF now, Builder!NoRange
<1> HIDE DEF list
<1> QED BY <1>1, <1>4, <1>6, <1>10, <1>12, SameParameter

(* TakeRange keeps the invariant.                                          *)
LEMMA TakesRange ==
  ASSUME ProgramInv, BlocksInv, CreateInv, Builder!TakeRange
  PROVE  ProgramInv' /\ BlocksInv' /\ CreateInv'
<1>1. /\ Builder!InBlock /\ program' = program /\ phase' = phase /\ phase = "create"
      /\ UNCHANGED <<Builder!travVars, machine, steps>> /\ bbInfo' = bbInfo
  BY DEF Builder!TakeRange, Builder!InBlock, Builder!travVars
<1>2. ProgramInv' /\ BlocksInv'
  BY SMTT(60), <1>1, KeepsTraversal
<1>3. PICK lr \in Builder!Candidates :
       \/ /\ at.range.start = 0
          /\ at' = [at EXCEPT !.range = [start |-> Builder!Max({lr.start, at.instrp}),
                                         end |-> lr.end, loc |-> lr.loc],
                              !.instrp = lr.end]
          /\ UNCHANGED liveRanges
       \/ /\ at.range.start # 0 /\ Builder!Merges(lr)
          /\ at' = [at EXCEPT !.range.end = lr.end, !.instrp = lr.end]
          /\ UNCHANGED liveRanges
       \/ /\ at.range.start # 0 /\ ~Builder!Merges(lr)
          /\ liveRanges' = Builder!WithRange
          /\ at' = [at EXCEPT !.range = Builder!NoRange,
             !.instrp = Builder!Max({lr.start, at.range.end})]
  BY DEF Builder!TakeRange
<1>4. CreateInv'
  BY <1>1, <1>3, TakesFirst, TakesMerged, TakesNone
<1> QED BY <1>2, <1>4

(* The list of the parameter under way once its range is closed.           *)
LEMMA ClosesOpen ==
  ASSUME ProgramInv, CreateInv, phase = "create"
  PROVE  \E all : /\ Builder!WithOpenRange = [liveRanges EXCEPT ![at.param] = all]
                  /\ ListInv(all, at.instrp)
                  /\ CoverInv(at.param, all, at.instrp, Builder!NoRange)
                  /\ at.range.start # 0 => all # <<>> /\ SaidEnd(all[Len(all)]) = at.instrp - 1
                  /\ at.range.start = 0 => all = liveRanges[at.param]
<1>1. CursorInv /\ at.param \in Builder!Params
      /\ liveRanges = [q \in Builder!Params |-> liveRanges[q]]
  BY DEF CreateInv, CursorInv
<1>2. CASE at.range.start # 0
  BY <1>2, ClosesRange DEF Builder!WithOpenRange
<1>3. CASE at.range.start = 0
  <2> DEFINE list == liveRanges[at.param]
  <2>1. Builder!WithOpenRange = [liveRanges EXCEPT ![at.param] = list]
    BY <1>1, <1>3 DEF Builder!WithOpenRange
  <2>2. Limit(at.param) = at.instrp /\ \A a : ~Under(RangeOf(at.param), a)
        /\ ~Under(Builder!NoRange, a)
    <3>1. ~(at.param < at.param)
      BY SMTT(60), <1>1, FirstBlock DEF ProgramInv
    <3> QED BY <1>3, <3>1 DEF Limit, RangeOf, Under, Builder!NoRange
  <2>3. ListInv(list, at.instrp) /\ CoverInv(at.param, list, at.instrp, RangeOf(at.param))
    BY <1>1, <2>2 DEF CreateInv
  <2>4. CoverInv(at.param, list, at.instrp, Builder!NoRange)
    BY <2>2, <2>3 DEF CoverInv
  <2> QED BY <1>3, <2>1, <2>3, <2>4
<1> QED BY <1>2, <1>3

(* Where the last range of a list ends.                                    *)
LEMMA LastEnds ==
  ASSUME NEW list, NEW limit \in Nat, ListInv(list, limit), list # <<>>
  PROVE  SaidEnd(list[Len(list)]) \in Nat \ {0} /\ SaidEnd(list[Len(list)]) < limit
<1>1. IsSeq(list) /\ Len(list) \in Nat
  BY SeqOfElements DEF ListInv
<1>2. Len(list) # 0
  BY <1>1, SeqOfElements, EmptySeq
<1>3. Len(list) \in 1 .. Len(list)
  BY <1>1, <1>2
<1> DEFINE r == list[Len(list)]
<1>4. r.offset \in Nat /\ r.size \in Nat \ {0} /\ SaidEnd(r) < limit
  BY <1>3 DEF ListInv
<1> HIDE DEF r
<1>5. SaidEnd(r) \in Nat \ {0}
  BY <1>4 DEF SaidEnd
<1> QED BY <1>4, <1>5 DEF r

(* NoneLeft keeps it: the rest of the block says nothing.                  *)
LEMMA LeavesNone ==
  ASSUME ProgramInv, BlocksInv, CreateInv, Builder!NoneLeft
  PROVE  ProgramInv' /\ BlocksInv' /\ CreateInv'
<1> DEFINE p == at.param
           instrp == Builder!EndOf(at.block)
           now == [param |-> p, block |-> at.block, instrp |-> instrp, range |-> Builder!NoRange]
<1>1. /\ Builder!InBlock /\ program' = program /\ phase' = phase /\ phase = "create"
      /\ UNCHANGED <<Builder!travVars, machine, steps>> /\ bbInfo' = bbInfo
         /\ Builder!Candidates = {}
      /\ liveRanges' = Builder!WithOpenRange
         /\ at' = [at EXCEPT !.range = Builder!NoRange, !.instrp = instrp]
  BY DEF Builder!NoneLeft, Builder!InBlock, Builder!travVars
<1>2. ProgramInv' /\ BlocksInv'
  BY <1>1, KeepsTraversal
<1>3. CursorInv /\ p \in Builder!Params /\ liveRanges = [q \in Builder!Params |-> liveRanges[q]]
      /\ at = [param |-> at.param, block |-> at.block, instrp |-> at.instrp, range |-> at.range]
  BY DEF CreateInv, CursorInv
<1>4. /\ at.block \in Builder!Starts /\ at.instrp \in Nat /\ instrp \in Nat /\ at.block \in Nat
      /\ at.block <= at.instrp /\ at.instrp < instrp
  BY <1>1, <1>3, CursorNumbers DEF Builder!InBlock
<1>5. PICK all : /\ Builder!WithOpenRange = [liveRanges EXCEPT ![at.param] = all]
                 /\ ListInv(all, at.instrp)
                 /\ CoverInv(at.param, all, at.instrp, Builder!NoRange)
                 /\ at.range.start # 0 => all # <<>> /\ SaidEnd(all[Len(all)]) = at.instrp - 1
                 /\ at.range.start = 0 => all = liveRanges[at.param]
  BY <1>1, ClosesOpen
<1>6. at' = now /\ now.instrp = instrp
  BY <1>1, <1>3
<1>7. ASSUME NEW a \in Nat, at.instrp <= a, a < instrp PROVE Builder!Brought(p, a) = {}
  BY <1>1, <1>3, <1>7, NothingBefore
<1>8. ListInv(all, instrp) /\ CoverInv(p, all, instrp, Builder!NoRange)
  <2> HIDE DEF instrp
  <2> QED BY <1>4, <1>5, <1>7, ListGrows, CoverGrows
<1>9. ~Adjoining(all, instrp)
  <2> SUFFICES ASSUME all # <<>> PROVE SaidEnd(all[Len(all)]) # instrp - 1
    BY DEF Adjoining
  <2>1. SaidEnd(all[Len(all)]) \in Nat /\ SaidEnd(all[Len(all)]) < at.instrp
    BY <1>4, <1>5, LastEnds
  <2> HIDE DEF instrp
  <2> QED BY <1>4, <2>1
<1>10. ClosedInv'
  <2>1. liveRanges'[p] = all /\ at'.param = p /\ at'.instrp = instrp
    BY <1>1, <1>3, <1>5, <1>6
  <2> HIDE DEF instrp, now
  <2> QED BY <1>9, <2>1 DEF ClosedInv, Adjoining, SaidEnd
<1>11. instrp \in at.block .. Builder!EndOf(at.block)
  BY <1>4
<1>12. /\ now.param = at.param /\ now.block \in Builder!Starts
          /\ now.instrp \in now.block .. Builder!EndOf(now.block)
       /\ now = [param |-> now.param, block |-> now.block, instrp |-> now.instrp,
                 range |-> now.range]
       /\ now.range = [start |-> now.range.start, end |-> now.range.end, loc |-> now.range.loc]
       /\ ListInv(all, now.instrp) /\ CoverInv(at.param, all, now.instrp, now.range)
       /\ now.range.start = 0
  BY <1>4, <1>8, <1>11 DEF Builder!NoRange
<1>13. liveRanges' = [liveRanges EXCEPT ![at.param] = all]
  BY <1>1, <1>5
<1> HIDE DEF now, instrp
<1>14. CreateInv'
  BY <1>1, <1>6, <1>10, <1>12, <1>13, SameParameter
<1> QED BY <1>2, <1>14

(* NextBlock keeps it: in a next block, for a next parameter and at the    *)
(* end.                                                                    *)
LEMMA NextBlocks ==
  ASSUME ProgramInv, BlocksInv, CreateInv, Builder!NextBlock
  PROVE  ProgramInv' /\ BlocksInv' /\ CreateInv'
<1> DEFINE p == at.param
           later == {s \in Builder!Starts : s > at.block}
<1>1. /\ phase = "create" /\ ~Builder!InBlock /\ program' = program
      /\ UNCHANGED <<Builder!travVars, machine, steps>> /\ bbInfo' = bbInfo
      /\ phase' \in {"create", "run"}
  BY DEF Builder!NextBlock, Builder!travVars
<1>2. ProgramInv' /\ BlocksInv'
  BY <1>1, KeepsTraversal
<1>3. /\ CursorInv /\ p \in Builder!Params /\ liveRanges = [q \in Builder!Params |-> liveRanges[q]]
      /\ at = [param |-> at.param, block |-> at.block, instrp |-> at.instrp, range |-> at.range]
      /\ at.range = [start |-> at.range.start, end |-> at.range.end, loc |-> at.range.loc]
      /\ ListInv(liveRanges[p], Limit(p)) /\ CoverInv(p, liveRanges[p], Limit(p), RangeOf(p))
  BY DEF CreateInv, CursorInv
<1>4. /\ at.block \in Builder!Starts /\ at.instrp \in Nat /\ at.instrp = Builder!EndOf(at.block)
      /\ at.block \in Nat /\ Builder!IsFunction(program) /\ Builder!CodeEnd \in Nat
  BY <1>1, <1>3, CursorNumbers DEF Builder!InBlock
<1>5. CASE later # {} /\ at' = [at EXCEPT !.block = Builder!Min(later)]
           /\ UNCHANGED <<liveRanges, phase>>
  <2> DEFINE now == [param |-> p, block |-> at.instrp, instrp |-> at.instrp, range |-> at.range]
  <2>1. Builder!Min(later) = at.instrp /\ at.instrp \in Builder!Starts
    <3>1. Builder!EndOf(at.block) = Builder!Min(later)
      BY <1>4, <1>5, EndsOfBlocks
    <3>2. Builder!Min(later) \in later
      <4>1. later \subseteq Nat
        BY <1>4, FirstBlock
      <4> HIDE DEF later
      <4> QED BY <1>5, <4>1, LeastOf
    <3> QED BY <1>4, <3>1, <3>2
  <2>2. at' = now
    BY <1>3, <1>5, <2>1
  <2>3. at.instrp \in at.instrp .. Builder!EndOf(at.instrp)
    <3>1. at.instrp \in 1 .. Len(program.code)
          /\ Builder!EndOf(at.instrp) \in at.instrp + 1 .. Builder!CodeEnd
      BY <1>4, <2>1, EndsOfBlocks
    <3> QED BY <1>4, <3>1
  <2>4. Limit(p) = at.instrp /\ RangeOf(p) = at.range
    <3>1. ~(p < p)
      BY <1>3, <1>4, FirstBlock
    <3> QED BY <1>1, <3>1 DEF Limit, RangeOf
  <2>5. at.range.start # 0 => OpenInv(p, liveRanges[p], at.range) /\ at.range.end = at.instrp
    BY <1>1 DEF CreateInv
  <2>6. ASSUME at.range.start = 0 PROVE ~Adjoining(liveRanges[p], at.instrp)
    BY <1>1, <2>6 DEF CreateInv, ClosedInv
  <2>7. ASSUME at.range.start = 0 PROVE ClosedInv'
    <3>1. liveRanges' = liveRanges /\ at'.param = p /\ at'.instrp = at.instrp
      BY <1>5, <2>2
    <3> QED BY <2>6, <2>7, <3>1 DEF ClosedInv, Adjoining, SaidEnd
  <2>8. /\ now.param = at.param /\ now.block \in Builder!Starts
        /\ now.instrp \in now.block .. Builder!EndOf(now.block)
        /\ now = [param |-> now.param, block |-> now.block, instrp |-> now.instrp,
                  range |-> now.range]
        /\ now.range = [start |-> now.range.start, end |-> now.range.end, loc |-> now.range.loc]
        /\ ListInv(liveRanges[p], now.instrp)
        /\ CoverInv(at.param, liveRanges[p], now.instrp, now.range)
        /\ (now.range.start # 0 =>
              OpenInv(at.param, liveRanges[p], now.range) /\ now.range.end = now.instrp)
        /\ (now.range.start = 0 => ClosedInv')
    BY <1>3, <2>1, <2>3, <2>4, <2>5, <2>7
  <2>9. liveRanges' = [liveRanges EXCEPT ![at.param] = liveRanges[p]] /\ phase' = "create"
    BY <1>1, <1>3, <1>5
  <2> HIDE DEF now, p
  <2>10. CreateInv'
    BY <1>1, <2>2, <2>8, <2>9, SameParameter
  <2> QED BY <1>2, <2>10
<1>6. later = {} => at.instrp = Builder!CodeEnd
  BY <1>4, EndsOfBlocks
<1>7. PICK all : /\ Builder!WithOpenRange = [liveRanges EXCEPT ![at.param] = all]
                 /\ ListInv(all, at.instrp)
                 /\ CoverInv(at.param, all, at.instrp, Builder!NoRange)
                 /\ at.range.start # 0 => all # <<>> /\ SaidEnd(all[Len(all)]) = at.instrp - 1
                 /\ at.range.start = 0 => all = liveRanges[at.param]
  BY <1>1, ClosesOpen
<1>8. ASSUME later = {}, liveRanges' = Builder!WithOpenRange
      PROVE  /\ liveRanges' = [q \in Builder!Params |-> liveRanges'[q]]
             /\ \A q \in Builder!Params : (q <= p => ListInv(liveRanges'[q], Builder!CodeEnd)
                                                     /\ CoverInv(q, liveRanges'[q],
                                                        Builder!CodeEnd, Builder!NoRange))
             /\ \A q \in Builder!Params : (q > p => ListInv(liveRanges'[q], 1)
                                                    /\ CoverInv(q, liveRanges'[q], 1,
                                                       Builder!NoRange))
  <2>1. /\ liveRanges' = [q \in Builder!Params |-> liveRanges'[q]] /\ liveRanges'[p] = all
        /\ \A q \in Builder!Params : q # p => liveRanges'[q] = liveRanges[q]
    BY <1>3, <1>7, <1>8
  <2>2. ListInv(all, Builder!CodeEnd) /\ CoverInv(p, all, Builder!CodeEnd, Builder!NoRange)
    BY <1>6, <1>7, <1>8
  <2>3. \A q \in Builder!Params : q \in Nat
    BY <1>4, FirstBlock
  <2>4. ASSUME NEW q \in Builder!Params, q # p
        PROVE  /\ (q < p => Limit(q) = Builder!CodeEnd) /\ (q > p => Limit(q) = 1)
                  /\ RangeOf(q) = Builder!NoRange
               /\ ListInv(liveRanges'[q], Limit(q))
               /\ CoverInv(q, liveRanges'[q], Limit(q), RangeOf(q))
    BY <1>1, <1>3, <2>1, <2>3, <2>4 DEF CreateInv, Limit, RangeOf
  <2>5. ASSUME NEW q \in Builder!Params, q <= p
        PROVE  ListInv(liveRanges'[q], Builder!CodeEnd)
               /\ CoverInv(q, liveRanges'[q], Builder!CodeEnd, Builder!NoRange)
    BY <1>3, <2>1, <2>2, <2>3, <2>4, <2>5
  <2>6. ASSUME NEW q \in Builder!Params, q > p
        PROVE  ListInv(liveRanges'[q], 1) /\ CoverInv(q, liveRanges'[q], 1, Builder!NoRange)
    BY <1>3, <2>3, <2>4, <2>6
  <2> QED BY <2>1, <2>5, <2>6
<1>9. CASE later = {} /\ at.param < Len(program.kinds) /\ liveRanges' = Builder!WithOpenRange
           /\ at' = [param |-> at.param + 1, block |-> Builder!Min(Builder!Starts),
              instrp |-> Builder!Min(Builder!Starts),
                     range |-> Builder!NoRange]
           /\ UNCHANGED phase
  <2>1. /\ at' = [param |-> p + 1, block |-> 1, instrp |-> 1, range |-> Builder!NoRange]
        /\ p + 1 \in Builder!Params /\ p \in Nat /\ \A q \in Builder!Params : q \in Nat
    BY <1>3, <1>4, <1>9, FirstBlock
  <2>2. at'.param = p + 1 /\ at'.block = 1 /\ at'.instrp = 1 /\ at'.range = Builder!NoRange
        /\ at'.range.start = 0
        /\ at' = [param |-> at'.param, block |-> at'.block, instrp |-> at'.instrp,
                  range |-> at'.range]
        /\ at'.range = [start |-> at'.range.start, end |-> at'.range.end, loc |-> at'.range.loc]
    BY <2>1 DEF Builder!NoRange
  <2>3. CursorInv'
    <3>1. 1 \in Builder!Starts' /\ 1 \in 1 .. Builder!EndOf(1)' /\ Builder!Params' = Builder!Params
      <4>1. 1 \in Builder!Starts /\ Builder!EndOf(1) \in 1 + 1 .. Builder!CodeEnd
        BY <1>4, FirstBlock, EndsOfBlocks
      <4>2. 1 \in 1 .. Builder!EndOf(1)
        BY <1>4, <4>1
      <4> QED BY <1>1, <4>1, <4>2, SameCreation
    <3> QED BY <1>8, <1>9, <2>1, <2>2, <3>1 DEF CursorInv
  <2>4. ASSUME NEW q \in Builder!Params
        PROVE  /\ ListInv(liveRanges'[q], Limit(q)')
               /\ CoverInv(q, liveRanges'[q], Limit(q)', RangeOf(q)')
    <3>1. RangeOf(q)' = Builder!NoRange
      BY <2>2 DEF RangeOf, Builder!NoRange
    <3>2. (q <= p => Limit(q)' = Builder!CodeEnd) /\ (q > p => Limit(q)' = 1)
      <4>1. Builder!CodeEnd' = Builder!CodeEnd
        BY <1>1, SameCreation
      <4> QED BY <1>1, <1>9, <2>1, <2>2, <4>1 DEF Limit
    <3>3. q <= p \/ q > p
      BY <2>1
    <3> QED BY <1>8, <1>9, <3>1, <3>2, <3>3
  <2>5. \A q \in Builder!Params' : /\ ListInv(liveRanges[q], Limit(q))'
                                   /\ CoverInv(q, liveRanges[q], Limit(q), RangeOf(q))'
    BY <1>1, <2>4, SameCreation
  <2>6. ClosedInv'
    <3>1. ListInv(liveRanges'[p + 1], 1)
      <4>1. p + 1 > p
        BY <2>1
      <4> QED BY <1>8, <1>9, <2>1, <4>1
    <3>2. liveRanges'[p + 1] = <<>>
      <4> DEFINE list == liveRanges'[p + 1]
      <4> HIDE DEF list
      <4> SUFFICES ASSUME list # <<>> PROVE FALSE
        BY DEF list
      <4>1. ListInv(list, 1)
        BY <3>1 DEF list
      <4> QED BY <4>1, LastEnds
    <3> QED BY <2>2, <3>2 DEF ClosedInv, Adjoining
  <2>7. CreateInv'
    BY <1>1, <1>9, <2>2, <2>3, <2>5, <2>6 DEF CreateInv
  <2> QED BY <1>2, <2>7
<1>10. CASE later = {} /\ at.param = Len(program.kinds) /\ liveRanges' = Builder!WithOpenRange
            /\ phase' = "run" /\ at' = [at EXCEPT !.range = Builder!NoRange]
  <2>1. /\ at'.param = p /\ at'.block = at.block /\ at'.instrp = at.instrp
        /\ at'.range = Builder!NoRange /\ at'.range.start = 0
        /\ at' = [param |-> at'.param, block |-> at'.block, instrp |-> at'.instrp,
                  range |-> at'.range]
        /\ at'.range = [start |-> at'.range.start, end |-> at'.range.end, loc |-> at'.range.loc]
    BY <1>3, <1>10 DEF Builder!NoRange
  <2>2. CursorInv'
    <3>1. Builder!Starts' = Builder!Starts /\ Builder!Params' = Builder!Params
          /\ Builder!EndOf(at.block)' = Builder!EndOf(at.block)
      BY <1>1, <2>1, SameCreation
    <3>2. at.instrp \in at.block .. Builder!EndOf(at.block)
      BY <1>3 DEF CursorInv
    <3> QED BY <1>3, <1>4, <1>8, <1>10, <2>1, <3>1, <3>2 DEF CursorInv
  <2>3. ASSUME NEW q \in Builder!Params
        PROVE  /\ ListInv(liveRanges'[q], Limit(q)')
               /\ CoverInv(q, liveRanges'[q], Limit(q)', RangeOf(q)')
    <3>1. RangeOf(q)' = Builder!NoRange
      BY <2>1 DEF RangeOf, Builder!NoRange
    <3>2. Limit(q)' = Builder!CodeEnd
      BY <1>1, <1>10, SameCreation DEF Limit
    <3>3. q <= p
      BY <1>4, <1>10, FirstBlock
    <3> QED BY <1>8, <1>10, <3>1, <3>2, <3>3
  <2>4. \A q \in Builder!Params' : /\ ListInv(liveRanges[q], Limit(q))'
                                   /\ CoverInv(q, liveRanges[q], Limit(q), RangeOf(q))'
    BY <1>1, <2>3, SameCreation
  <2>5. CreateInv'
    BY <1>10, <2>1, <2>2, <2>4 DEF CreateInv
  <2> QED BY <1>2, <2>5
<1> QED BY <1>5, <1>9, <1>10 DEF Builder!NextBlock

(* While the blocks are walked nothing is said of any parameter.           *)
LEMMA NothingSaid ==
  ASSUME ProgramInv, CreateInv, phase \notin {"create", "run"}, phase' # "run",
         UNCHANGED <<program, at, liveRanges>>
  PROVE  CreateInv'
<1>1. /\ at = [param |-> 1, block |-> 1, instrp |-> 1, range |-> Builder!NoRange]
      /\ liveRanges = [p \in Builder!Params |-> <<>>] /\ CursorInv
      /\ at.param = 1 /\ at.instrp = 1 /\ at.range = Builder!NoRange /\ Builder!NoRange.start = 0
  BY DEF CreateInv, Builder!NoRange
<1>2. IsSeq(<<>>) /\ Len(<<>>) = 0 /\ 1 .. 0 = {} /\ 1 .. 1 - 1 = {} /\ 1 .. 0 - 1 = {}
  BY DEF IsSeq
<1>3. Builder!Params' = Builder!Params /\ Builder!Starts' = Builder!Starts
      /\ \A b : Builder!EndOf(b)' = Builder!EndOf(b)
  BY DEF Builder!Params, Builder!Starts, Builder!EndOf, Builder!CodeEnd
<1>4. CursorInv'
  BY <1>1, <1>3 DEF CursorInv
<1>5. ASSUME NEW q \in Builder!Params
      PROVE  /\ ListInv(liveRanges[q], Limit(q))'
             /\ CoverInv(q, liveRanges[q], Limit(q), RangeOf(q))'
  <2>1. liveRanges'[q] = <<>>
    BY <1>1
  <2>2. Limit(q)' = 1
    <3>1. ~(q < 1)
      BY FirstBlock DEF ProgramInv
    <3> QED BY <1>1, <3>1 DEF Limit
  <2>3. ListInv(liveRanges[q], Limit(q))'
    BY <1>2, <2>1, <2>2 DEF ListInv
  <2>4. CoverInv(q, liveRanges[q], Limit(q), RangeOf(q))'
    BY <1>2, <2>1, <2>2 DEF CoverInv
  <2> QED BY <2>3, <2>4
<1>6. ClosedInv'
  <2>1. liveRanges'[at'.param] = <<>>
    BY <1>1, FirstBlock DEF ProgramInv
  <2> QED BY <2>1 DEF ClosedInv, Adjoining
<1>7. \A q \in Builder!Params' : /\ ListInv(liveRanges[q], Limit(q))'
                                 /\ CoverInv(q, liveRanges[q], Limit(q), RangeOf(q))'
  BY <1>3, <1>5
<1>8. at'.range.start = 0 /\ Builder!NoRange' = Builder!NoRange /\ at' = at
      /\ liveRanges' = liveRanges
  BY <1>1 DEF Builder!NoRange
<1>9. liveRanges' = [p \in Builder!Params' |-> <<>>]
  BY <1>1, <1>3, <1>8
<1> QED BY <1>1, <1>4, <1>6, <1>7, <1>8, <1>9 DEF CreateInv

(* What leaves the blocks, the cursor and the lists alone keeps the        *)
(* invariant on the lists.                                                 *)
LEMMA KeepsCreation ==
  ASSUME CreateInv, UNCHANGED <<program, phase, bbInfo, at, liveRanges>>
  PROVE  CreateInv'
<1>1. /\ program' = program /\ phase' = phase /\ bbInfo' = bbInfo /\ at' = at
      /\ liveRanges' = liveRanges
  OBVIOUS
<1>2. /\ Builder!Starts' = Builder!Starts /\ Builder!CodeEnd' = Builder!CodeEnd
         /\ Builder!Params' = Builder!Params /\ Builder!NoRange' = Builder!NoRange
      /\ \A b : Builder!EndOf(b)' = Builder!EndOf(b)
  BY <1>1, SameCreation DEF Builder!NoRange
<1>3. CursorInv'
  BY <1>1, <1>2 DEF CreateInv, CursorInv
<1>4. \A q : Limit(q)' = Limit(q) /\ RangeOf(q)' = RangeOf(q)
  BY <1>1, <1>2 DEF Limit, RangeOf
<1>5. \A q \in Builder!Params' : /\ ListInv(liveRanges[q], Limit(q))'
                                 /\ CoverInv(q, liveRanges[q], Limit(q), RangeOf(q))'
  BY SMTT(60), <1>1, <1>2, <1>4, SameCreation DEF CreateInv
<1>6. ClosedInv => ClosedInv'
  BY ZenonT(60), <1>1, <1>2 DEF ClosedInv, Builder!InBlock, Builder!Candidates,
     Builder!IsUsable, Adjoining,
     SaidEnd
<1>7. phase = "create" /\ at.range.start # 0 =>
        OpenInv(at.param, liveRanges[at.param], at.range)' /\ at'.range.end = at'.instrp
  BY <1>1, SameCreation DEF CreateInv
<1> QED BY <1>1, <1>2, <1>3, <1>5, <1>6, <1>7 DEF CreateInv

(* The machine keeps its parts.                                            *)
LEMMA RunKeepsIp ==
  ASSUME NEW ins, NEW m, "ip" \in DOMAIN m
  PROVE  "ip" \in DOMAIN Builder!Run(ins, m)
<1>1. \A n, a, v : DOMAIN Builder!Stored(n, a, v) = DOMAIN n
  BY DEF Builder!Stored
<1>2. \A n, r, k : DOMAIN Builder!Shifted(n, r, k) = DOMAIN n
  BY DEF Builder!Shifted
<1>3. \A n, o, v : DOMAIN Builder!Written(n, o, v) = DOMAIN n
  BY <1>1 DEF Builder!Written
<1>4. \A n, v : DOMAIN Builder!Pushed(n, v) = DOMAIN n
  BY <1>1, <1>2 DEF Builder!Pushed
<1>5. \A n, k : DOMAIN Builder!Called(n, k) = DOMAIN n
  <2>1. \A n : DOMAIN Builder!Pushed(n, Builder!Junk) = DOMAIN n
    BY <1>4
  <2> QED BY <2>1 DEF Builder!Called
<1>6. DOMAIN Builder!Run(ins, m) = DOMAIN m
  <2>1. CASE ins.op = "mov"
    <3>1. Builder!Run(ins, m)
            = Builder!Written(m, Builder!FirstWith("out", ins),
              Builder!Read(m, Builder!FirstWith("in", ins)))
      BY <2>1 DEF Builder!Run
    <3> QED BY <1>3, <3>1
  <2>2. CASE ins.op = "lea"
    <3>1. Builder!Run(ins, m) = Builder!Written(m, Builder!FirstWith("out", ins),
                                                IF Builder!Known(m, Builder!FirstWith("in", ins))
                                                THEN Builder!Value("number",
                                                  Builder!Address(m,
                                                    Builder!FirstWith("in", ins)))
                                                        ELSE Builder!Junk)
      BY <2>2 DEF Builder!Run
    <3> QED BY <1>3, <3>1
  <2>3. CASE ins.op = "push"
    <3>1. Builder!Run(ins, m) = Builder!Pushed(m, Builder!Read(m, Builder!FirstWith("in", ins)))
      BY <2>3 DEF Builder!Run
    <3> QED BY <1>4, <3>1
  <2>4. CASE ins.op = "pop"
    <3>1. Builder!Run(ins, m)
            = Builder!Shifted(Builder!Written(m, Builder!FirstWith("out", ins),
              Builder!Loaded(m, Builder!Top(m))), "rsp", 1)
      BY <2>4 DEF Builder!Run
    <3> QED BY <1>2, <1>3, <3>1
  <2>5. CASE ins.op \in {"add", "sub"}
    <3>1. CASE Builder!Subtrahend(ins, m).kind # "number"
      <4>1. Builder!Run(ins, m) = Builder!Written(m, Builder!FirstWith("out", ins), Builder!Junk)
        BY <2>5, <3>1 DEF Builder!Run
      <4> QED BY <1>3, <4>1
    <3>2. CASE ~(Builder!Subtrahend(ins, m).kind # "number")
      <4>1. Builder!Run(ins, m) = Builder!Shifted(m, Builder!FirstWith("out", ins).reg,
                                                  (IF ins.op = "add" THEN 1
                                                      ELSE -1) * Builder!Subtrahend(ins, m).n)
        BY <2>5, <3>2 DEF Builder!Run
      <4> QED BY <1>2, <4>1
    <3> QED BY <3>1, <3>2
  <2>6. CASE ins.op = "call"
    <3>1. Builder!Run(ins, m) = Builder!Called(m, ins.probe)
      BY <2>6 DEF Builder!Run
    <3> QED BY <1>5, <3>1
  <2>7. CASE ins.op \notin {"mov", "lea", "push", "pop", "add", "sub", "call"}
    <3>1. Builder!Run(ins, m) = Builder!Written(m, Builder!FirstWith("out", ins), Builder!Junk)
      BY <2>7 DEF Builder!Run
    <3> QED BY <1>3, <3>1
  <2> QED BY <2>1, <2>2, <2>3, <2>4, <2>5, <2>6, <2>7
<1> QED BY <1>6

(* The greatest of a set of numbers that has a bound.                      *)
LEMMA GreatestOf ==
  ASSUME NEW n \in Nat, NEW T, T \subseteq 1 .. n, T # {}
  PROVE  Builder!Max(T) \in T
<1> DEFINE U == {n - x : x \in T}
<1>1. U \subseteq Nat /\ U # {}
  <2>1. ASSUME NEW y \in U PROVE y \in Nat
    <3>1. PICK x \in T : y = n - x
      BY <2>1
    <3>2. x \in 1 .. n
      OBVIOUS
    <3> HIDE DEF U
    <3> QED BY <3>1, <3>2
  <2>2. PICK x : x \in T
    OBVIOUS
  <2>3. n - x \in U
    BY <2>2
  <2> QED BY <2>1, <2>3
<1>2. Builder!Min(U) \in U /\ \A y \in U : Builder!Min(U) <= y
  BY <1>1, LeastOf
<1>3. PICK x \in T : Builder!Min(U) = n - x
  BY <1>2
<1>4. ASSUME NEW y \in T PROVE x >= y
  <2>1. n - y \in U
    BY <1>4
  <2>2. n - x <= n - y
    BY <1>2, <1>3, <2>1
  <2>3. x \in Nat /\ y \in Nat
    <3>1. x \in 1 .. n /\ y \in 1 .. n
      BY <1>3, <1>4
    <3> HIDE DEF U
    <3> QED BY ONLY <3>1, n \in Nat
  <2> QED BY <2>2, <2>3
<1> QED BY <1>3, <1>4 DEF Builder!Max

(* The function runs from one of its instructions to one of them.          *)
LEMMA Executes ==
  ASSUME ProgramInv, BlocksInv, CreateInv, Builder!Execute
  PROVE  ProgramInv' /\ BlocksInv' /\ CreateInv'
<1> DEFINE a == machine.ip
           b == Builder!Starting(a)
           targets == IF a + 1 < Builder!EndOf(b) THEN {a + 1}
                      ELSE IF program.succ[b] = <<>> THEN {Builder!CodeEnd}
                           ELSE {program.succ[b][k] : k \in DOMAIN program.succ[b]}
<1>1. /\ phase = "run" /\ steps < MaxSteps /\ a < Builder!CodeEnd /\ steps' = steps + 1
      /\ UNCHANGED <<program, phase, Builder!travVars, at, liveRanges>>
      /\ bbInfo' = bbInfo /\ program' = program
  BY DEF Builder!Execute, Builder!travVars
<1>2. PICK target \in targets : machine'
             = [Builder!Run(Builder!Code(a), machine) EXCEPT !.ip = target]
  BY DEF Builder!Execute
<1>3. /\ Builder!IsFunction(program) /\ a \in 1 .. Builder!CodeEnd /\ Builder!CodeEnd \in Nat
      /\ Builder!Starts \subseteq 1 .. Len(program.code) /\ Len(program.code) \in Nat
      /\ Builder!CodeEnd = Len(program.code) + 1 /\ 1 \in Builder!Starts
  BY FirstBlock DEF ProgramInv
<1>4. b \in Builder!Starts
  <2> DEFINE T == {s \in Builder!Starts : s <= a}
  <2>1. T \subseteq 1 .. Len(program.code) /\ T # {}
    <3>1. T \subseteq Builder!Starts
      OBVIOUS
    <3>2. 1 <= a
      BY <1>3
    <3>3. 1 \in T
      BY <1>3, <3>2
    <3> QED BY <1>3, <3>1, <3>3
  <2>2. b = Builder!Max(T)
    BY DEF Builder!Starting
  <2> HIDE DEF T, b
  <2>3. Builder!Max(T) \in T
    BY <1>3, <2>1, GreatestOf
  <2> QED BY <2>2, <2>3 DEF T
<1>5. target \in 1 .. Builder!CodeEnd
  <2> HIDE DEF b
  <2>1. CASE target = a + 1
    BY <1>1, <1>3, <2>1
  <2>2. CASE target = Builder!CodeEnd
    BY <1>3, <2>2
  <2>3. CASE \E k \in DOMAIN program.succ[b] : target = program.succ[b][k]
    <3>1. program.succ[b] \in Seq(Builder!Starts)
      BY <1>3, <1>4 DEF Builder!IsFunction, Builder!Starts
    <3>2. target \in Builder!Starts
      BY <2>3, <3>1
    <3> QED BY <1>3, <3>2
  <2> QED BY <1>2, <2>1, <2>2, <2>3
<1>6. "ip" \in DOMAIN machine' /\ machine'.ip = target
  <2>1. "ip" \in DOMAIN Builder!Run(Builder!Code(a), machine)
    BY RunKeepsIp DEF ProgramInv
  <2> HIDE DEF a
  <2> QED BY <1>2, <2>1
<1>7. ProgramInv'
  <2>1. Builder!Entries' = Builder!Entries /\ Builder!CodeEnd' = Builder!CodeEnd
    BY <1>1 DEF Builder!Entries, Builder!Starts, Builder!CodeEnd
  <2>2. steps' \in 0 .. MaxSteps
    BY <1>1, BuilderConstants DEF ProgramInv
  <2> HIDE DEF a
  <2> QED BY <1>1, <1>5, <1>6, <2>1, <2>2 DEF ProgramInv, Builder!travVars
<1>8. \A s \in Builder!Starts : Cursor(s)' = Cursor(s) /\ Marking(s)' = Marking(s)
  BY <1>1 DEF Cursor, Marking, Walking
<1>9. BlocksInv'
  BY <1>1, <1>8, NoBlockStep
<1>10. CreateInv'
  BY <1>1, KeepsCreation
<1> QED BY <1>7, <1>9, <1>10

(* Every step keeps the invariant.                                         *)
LEMMA RangesStep ==
  ASSUME BuilderInv, [Builder!Next]_Builder!vars
  PROVE  BuilderInv'
<1>0. ProgramInv /\ BlocksInv /\ CreateInv
  BY DEF BuilderInv
<1>1. CASE Builder!TakeEntry
  <2>1. phase \notin {"create", "run"} /\ phase' # "run" /\ UNCHANGED <<program, at, liveRanges>>
    BY <1>1 DEF Builder!TakeEntry
  <2> QED BY <1>0, <1>1, <2>1, TakesEntry, NothingSaid DEF BuilderInv
<1>2. CASE Builder!CarryoverLiveRange
  <2>1. phase \notin {"create", "run"} /\ phase' # "run" /\ UNCHANGED <<program, at, liveRanges>>
    BY <1>2 DEF Builder!CarryoverLiveRange
  <2> QED BY SMTT(60), <1>0, <1>2, <2>1, CarriesLiveRange, NothingSaid DEF BuilderInv
<1>3. CASE Builder!TraverseBasicBlock
  <2>1. phase \notin {"create", "run"} /\ phase' # "run" /\ UNCHANGED <<program, at, liveRanges>>
    BY <1>3 DEF Builder!TraverseBasicBlock
  <2> QED BY <1>0, <1>3, <2>1, EntersBlock, NothingSaid DEF BuilderInv
<1>4. CASE Builder!ReachInstruction
  <2>1. phase \notin {"create", "run"} /\ phase' # "run" /\ UNCHANGED <<program, at, liveRanges>>
    BY <1>4 DEF Builder!ReachInstruction
  <2> QED BY <1>0, <1>4, <2>1, ReachesInstruction, NothingSaid DEF BuilderInv
<1>5. CASE Builder!AddAliases
  <2>1. phase \notin {"create", "run"} /\ phase' # "run" /\ UNCHANGED <<program, at, liveRanges>>
    BY <1>5 DEF Builder!AddAliases
  <2> QED BY SMTT(60), <1>0, <1>5, <2>1, AddsAliases, NothingSaid DEF BuilderInv
<1>6. CASE Builder!EndInstruction
  <2>1. phase \notin {"create", "run"} /\ phase' # "run" /\ UNCHANGED <<program, at, liveRanges>>
    BY <1>6 DEF Builder!EndInstruction
  <2> QED BY <1>0, <1>6, <2>1, EndsInstruction, NothingSaid DEF BuilderInv
<1>7. CASE Builder!EndBlock
  <2>1. phase \notin {"create", "run"} /\ phase' # "run" /\ UNCHANGED <<program, at, liveRanges>>
    BY <1>7 DEF Builder!EndBlock
  <2> QED BY <1>0, <1>7, <2>1, EndsBlock, NothingSaid DEF BuilderInv
<1>8. CASE Builder!EndTraversal
  <2>1. phase \notin {"create", "run"} /\ phase' # "run" /\ UNCHANGED <<program, at, liveRanges>>
    BY <1>8 DEF Builder!EndTraversal
  <2> QED BY <1>0, <1>8, <2>1, EndsTraversal, NothingSaid DEF BuilderInv
<1>9. CASE Builder!TakeRange
  BY <1>0, <1>9, TakesRange DEF BuilderInv
<1>10. CASE Builder!NoneLeft
  BY <1>0, <1>10, LeavesNone DEF BuilderInv
<1>11. CASE Builder!NextBlock
  BY <1>0, <1>11, NextBlocks DEF BuilderInv
<1>12. CASE Builder!Execute
  BY <1>0, <1>12, Executes DEF BuilderInv
<1>13. CASE UNCHANGED Builder!vars
  <2>1. /\ UNCHANGED <<program, phase, bbInfo, bbTrav, entry, changedRanges, instr, isReached,
                       lastRange, window>>
        /\ UNCHANGED <<at, liveRanges, machine, steps>>
    BY <1>13 DEF Builder!vars, Builder!travVars
  <2>2. Builder!Entries' = Builder!Entries /\ Builder!CodeEnd' = Builder!CodeEnd
        /\ Builder!EndOf(entry.block)' = Builder!EndOf(entry.block)
    BY <2>1 DEF Builder!Entries, Builder!Starts, Builder!CodeEnd, Builder!EndOf
  <2>3. ProgramInv'
    BY <1>0, <2>1, <2>2 DEF ProgramInv
  <2>4. \A s \in Builder!Starts : Cursor(s)' = Cursor(s) /\ Marking(s)' = Marking(s)
    BY <2>1 DEF Cursor, Marking, Walking
  <2> QED BY <1>0, <2>1, <2>3, <2>4, NoBlockStep, KeepsCreation DEF BuilderInv
<1> QED BY <1>1, <1>2, <1>3, <1>4, <1>5, <1>6, <1>7, <1>8, <1>9, <1>10, <1>11, <1>12, <1>13
        DEF Builder!Next

(* It holds when a function starts to be looked at.                        *)
LEMMA RangesStart ==
  ASSUME Builder!Init
  PROVE  BuilderInv
<1>1. PICK disassembled \in Programs : Builder!Start(disassembled)
  BY DEF Builder!Init
<1>2. Builder!IsFunction(program)
  BY <1>1, BuilderConstants DEF Builder!Start
<1>3. /\ Builder!Min(Builder!Starts) = 1 /\ 1 \in Builder!Starts /\ 1 \in Builder!Params
         /\ Builder!Params = 1 .. Len(program.kinds)
      /\ Len(program.kinds) \in Nat /\ Builder!CodeEnd \in Nat \ {0}
         /\ Builder!CodeEnd = Len(program.code) + 1
      /\ Builder!Starts \subseteq 1 .. Len(program.code)
  BY <1>2, FirstBlock
<1>4. /\ phase = "traverse" /\ bbInfo = [b \in Builder!Starts |-> Builder!Entered(b)]
      /\ bbTrav = <<[block |-> 1, source |-> 0, address |-> 0]>> /\ entry = bbTrav[1]
      /\ changedRanges = FALSE /\ instr = 1 /\ isReached = FALSE /\ lastRange = <<1, 0>>
      /\ window = <<>> /\ steps = 0 /\ machine = Builder!CallerPlaces
      /\ at = [param |-> 1, block |-> 1, instrp |-> 1, range |-> Builder!NoRange]
      /\ liveRanges = [p \in Builder!Params |-> <<>>]
  BY <1>1, <1>3 DEF Builder!Start, Builder!NoneYet
<1>5. ProgramInv
  <2>1. entry \in Builder!Entries /\ bbTrav \in Seq(Builder!Entries)
    <3>1. [block |-> 1, source |-> 0, address |-> 0] \in Builder!Entries
      BY <1>3 DEF Builder!Entries
    <3>2. entry = [block |-> 1, source |-> 0, address |-> 0]
      BY <1>4
    <3> QED BY <1>4, <3>1, <3>2
  <2>2. "ip" \in DOMAIN machine /\ machine.ip = 1 /\ 1 \in 1 .. Builder!CodeEnd
    BY <1>3, <1>4 DEF Builder!CallerPlaces
  <2>3. window \in Seq(1 .. Builder!CodeEnd) /\ Len(window) <= 3
    BY <1>4
  <2>4. instr \in 1 .. Builder!CodeEnd /\ lastRange \in Nat \X Nat
    <3>1. 1 \in Nat /\ 0 \in Nat
      OBVIOUS
    <3> QED BY <1>4, <2>2, <3>1
  <2>5. steps \in 0 .. MaxSteps
    BY <1>4, BuilderConstants
  <2>6. /\ changedRanges \in BOOLEAN /\ isReached \in BOOLEAN /\ phase # "walk"
        /\ phase \in {"traverse", "carry", "walk", "create", "run", "failed"}
    BY <1>4
  <2>7. machine.ip \in 1 .. Builder!CodeEnd
    BY <2>2
  <2> QED BY <1>2, <2>1, <2>2, <2>3, <2>4, <2>5, <2>6, <2>7 DEF ProgramInv
<1>6. BlocksInv
  <2>1. ASSUME NEW b \in Builder!Starts PROVE InfoAt(b, b, FALSE, Builder!Entered(b))
    <3>1. CASE b # 1
      <4>1. Builder!Entered(b)
              = [count |-> 0, slots |-> <<>>, ranges |-> [p \in Builder!Params |-> <<>>]]
        BY <1>3, <3>1 DEF Builder!Entered
      <4>2. IsSeq(<<>>) /\ 1 .. Len(<<>>) = {}
        BY DEF IsSeq
      <4>3. 0 \in 0 .. MaximumTraversalCount
        BY BuilderConstants
      <4> QED BY <4>1, <4>2, <4>3 DEF InfoAt
    <3>2. CASE b = 1
      <4> DEFINE ranges == [p
                   \in Builder!Params |-> <<Builder!LiveRange(1, Builder!Placement(p), p)>>]
                 slots == [p \in Builder!Params |-> 1]
      <4>1. Builder!Entered(b) = [count |-> 0, slots |-> slots, ranges |-> ranges]
        BY <1>3, <3>2 DEF Builder!Entered
      <4>2. slots \in Seq(Nat)
        BY <1>3
      <4>3. ASSUME NEW p \in Builder!Params
                   PROVE RangeAt(1, 1, FALSE, Builder!LiveRange(1, Builder!Placement(p), p))
        <5> DEFINE lr == Builder!LiveRange(1, Builder!Placement(p), p)
        <5>1. /\ lr.start = 1 /\ lr.end = 1 /\ lr.loc = Builder!Placement(p) /\ lr.state = "Live"
              /\ lr = [start |-> lr.start, end |-> lr.end, loc |-> lr.loc, slot |-> lr.slot,
                       state |-> lr.state]
          BY DEF Builder!LiveRange
        <5>2. Builder!Placement(p) # Builder!Lists!NoLocation
          BY DEF Builder!Placement, Builder!Relative, Builder!Register, Builder!Lists!NoLocation
        <5> HIDE DEF lr
        <5>3. ~Killed(lr)
          BY <5>1 DEF Killed
        <5>4. 1 \in 1 .. Builder!EndOf(1) /\ 1 .. 1 - 2 = {}
          <6>1. Builder!EndOf(1) \in 1 + 1 .. Builder!CodeEnd
            BY <1>2, <1>3, EndsOfBlocks
          <6> QED BY <1>3, <6>1
        <5>5. lr.start \in 1 .. Builder!EndOf(1) /\ lr.end \in lr.start .. Builder!EndOf(1)
              /\ \A a \in lr.start .. lr.end - 2 : ~Builder!Kills(Builder!Code(a), lr.loc)
          BY <5>1, <5>4
        <5>6. StateAt(1, 1, FALSE, lr)
          BY <5>1, <5>3 DEF StateAt
        <5>7. lr.loc # Builder!Lists!NoLocation
          BY <5>1, <5>2
        <5>8. RangeAt(1, 1, FALSE, lr)
          BY <5>1, <5>5, <5>6, <5>7 DEF RangeAt
        <5> QED BY <5>8 DEF lr
      <4>4. ASSUME NEW e PROVE IsSeq(<<e>>) /\ Len(<<e>>) = 1 /\ 1 .. 1 = {1} /\ <<e>>[1] = e
        BY DEF IsSeq
      <4>5. \A p \in Builder!Params :
              /\ ranges[p] = <<Builder!LiveRange(1, Builder!Placement(p), p)>> /\ IsSeq(ranges[p])
              /\ \A i \in 1 .. Len(ranges[p]) : RangeAt(1, 1, FALSE, ranges[p][i])
        BY <4>3, <4>4
      <4>6. ranges = [p \in Builder!Params |-> ranges[p]] /\ 0 \in 0 .. MaximumTraversalCount
        BY BuilderConstants
      <4>7. \A p \in Builder!Params : \A i \in 1 .. Len(ranges[p])
              : RangeAt(b, b, FALSE, ranges[p][i])
        BY <3>2, <4>5
      <4> DEFINE new == Builder!Entered(b)
      <4> HIDE DEF ranges, slots
      <4>8. /\ new.count = 0 /\ new.slots = slots /\ new.ranges = ranges
            /\ new = [count |-> new.count, slots |-> new.slots, ranges |-> new.ranges]
        BY <4>1
      <4> HIDE DEF new
      <4>9. InfoAt(b, b, FALSE, new)
        BY <4>2, <4>5, <4>6, <4>7, <4>8 DEF InfoAt
      <4> QED BY <4>9 DEF new
    <3> QED BY <3>1, <3>2
  <2>2. \A b \in Builder!Starts : Cursor(b) = b /\ Marking(b) = FALSE
    BY <1>4 DEF Cursor, Marking, Walking
  <2> QED BY <1>4, <2>1, <2>2 DEF BlocksInv
<1>7. CreateInv
  <2>1. IsSeq(<<>>) /\ Len(<<>>) = 0 /\ 1 .. 0 = {} /\ 1 .. 1 - 1 = {} /\ 1 .. 0 - 1 = {}
    BY DEF IsSeq
  <2>2. CursorInv
    <3>1. 1 \in 1 .. Builder!EndOf(1)
      <4>1. Builder!EndOf(1) \in 1 + 1 .. Builder!CodeEnd
        BY <1>2, <1>3, EndsOfBlocks
      <4> QED BY <1>3, <4>1
    <3> QED BY <1>3, <1>4, <3>1 DEF CursorInv, Builder!NoRange
  <2>3. ASSUME NEW q \in Builder!Params
        PROVE  ListInv(liveRanges[q], Limit(q)) /\ CoverInv(q, liveRanges[q], Limit(q), RangeOf(q))
    <3>1. liveRanges[q] = <<>>
      BY <1>4
    <3>2. Limit(q) = 1
      <4>1. ~(q < 1)
        BY <1>3
      <4> QED BY <1>4, <4>1 DEF Limit
    <3>3. ListInv(liveRanges[q], Limit(q))
      BY <2>1, <3>1, <3>2 DEF ListInv
    <3>4. CoverInv(q, liveRanges[q], Limit(q), RangeOf(q))
      BY <2>1, <3>1, <3>2 DEF CoverInv
    <3> QED BY <3>3, <3>4
  <2> QED BY <1>4, <2>2, <2>3 DEF CreateInv, Builder!NoRange
<1> QED BY <1>5, <1>6, <1>7 DEF BuilderInv

-----------------------------------------------------------------------------
(* What that says of the live ranges.                                      *)

(* When all lists are made, they say what is brought, and nothing else.    *)
LEMMA RangesPromised ==
  ASSUME BuilderInv
  PROVE  Builder!RangesOfBlocks
<1>0. ProgramInv /\ BlocksInv /\ CreateInv /\ CursorInv
  BY DEF BuilderInv, CreateInv
<1>1. /\ Builder!IsFunction(program) /\ Len(program.code) \in Nat
         /\ Builder!CodeEnd = Len(program.code) + 1
      /\ Builder!CodeEnd \in Nat /\ Span \in Nat /\ Len(program.code) < Span
  BY SMTT(60), <1>0, FirstBlock DEF ProgramInv
<1>2. Builder!TypeOK
  <2>1. at.instrp \in 1 .. Builder!CodeEnd /\ at.param \in Builder!Params
        /\ at.block \in Builder!Starts
    BY <1>0, CursorNumbers
  <2>2. DOMAIN bbInfo = Builder!Starts /\ DOMAIN liveRanges = Builder!Params
    BY <1>0 DEF BlocksInv, CursorInv
  <2>3. \A b \in Builder!Starts :
          /\ bbInfo[b].count \in 0 .. MaximumTraversalCount /\ bbInfo[b].slots \in Seq(Nat)
          /\ DOMAIN bbInfo[b].ranges = Builder!Params
    BY <1>0 DEF BlocksInv, InfoAt
  <2> QED BY <1>0, <2>1, <2>2, <2>3 DEF Builder!TypeOK, ProgramInv
<1>3. ASSUME phase = "run", NEW p \in Builder!Params
      PROVE  /\ \A a \in 1 .. Len(program.code) :
                  LET loc == Builder!Lists!LocationAt(liveRanges[p], a - 1)
                  IN IF Builder!Brought(p, a) = {} THEN loc = Builder!Lists!NoLocation ELSE loc
                      \in Builder!Brought(p, a)
             /\ \A i \in 1 .. Len(liveRanges[p]) - 1 :
                  LET this == liveRanges[p][i]
                      next == liveRanges[p][i + 1]
                  IN /\ Builder!Lists!RangeEnd(this) <= next.offset
                     /\ Builder!Lists!RangeEnd(this) = next.offset => this.loc # next.loc
  <2> DEFINE list == liveRanges[p]
  <2>1. /\ ListInv(list, Builder!CodeEnd) /\ CoverInv(p, list, Builder!CodeEnd, RangeOf(p))
        /\ \A a : ~Under(RangeOf(p), a)
    <3>1. Limit(p) = Builder!CodeEnd /\ \A a : ~Under(RangeOf(p), a)
      BY <1>0, <1>3 DEF CreateInv, Limit, RangeOf, Under, Builder!NoRange
    <3> QED BY <1>0, <3>1 DEF CreateInv
  <2> HIDE DEF list
  <2>2. \A i \in 1 .. Len(list) :
          /\ list[i].offset \in Nat /\ list[i].size \in Nat
          /\ list[i].offset + list[i].size < Span
    BY <1>1, <2>1 DEF ListInv, SaidEnd
  <2>3. ASSUME NEW n \in Nat, n < Span PROVE Builder!Lists!Wrapped(n) = n
    BY <1>1, <2>3 DEF Builder!Lists!Wrapped
  <2>4. ASSUME NEW i \in 1 .. Len(list), NEW a \in Nat
        PROVE  Builder!Lists!Covers(list[i], a - 1) <=> Covering(list[i], a)
    <3>1. Builder!Lists!Wrapped(list[i].offset + list[i].size) = list[i].offset + list[i].size
      BY <2>2, <2>3
    <3> QED BY <2>2, <3>1 DEF Builder!Lists!Covers, Covering, SaidEnd
  <2>5. ASSUME NEW a \in 1 .. Len(program.code)
        PROVE  LET loc == Builder!Lists!LocationAt(list, a - 1)
               IN IF Builder!Brought(p, a) = {} THEN loc = Builder!Lists!NoLocation ELSE loc
                   \in Builder!Brought(p, a)
    <3> DEFINE I == {i \in 1 .. Len(list) : Builder!Lists!Covers(list[i], a - 1)}
    <3>1. a \in Nat /\ a \in 1 .. Builder!CodeEnd - 1
      BY <1>1
    <3>2. \A i \in I : list[i].loc \in Builder!Brought(p, a)
      BY <2>1, <2>4, <3>1 DEF CoverInv
    <3>3. Builder!Brought(p, a) # {} => I # {}
      BY <2>1, <2>4, <3>1 DEF CoverInv
    <3>4. Builder!Lists!SelectInSeq(list, LAMBDA range : Builder!Lists!Covers(range, a - 1))
            = IF I # {} THEN Builder!Lists!Min(I) ELSE 0
      BY DEF Builder!Lists!SelectInSeq
    <3>5. Builder!Lists!Min(I) = Builder!Min(I)
      BY DEF Builder!Lists!Min, Builder!Min
    <3>6. I \subseteq Nat
      OBVIOUS
    <3> HIDE DEF I
    <3>7. CASE I = {}
      BY <3>2, <3>3, <3>4, <3>7 DEF Builder!Lists!LocationAt
    <3>8. CASE I # {}
      <4>1. Builder!Min(I) \in I
        BY <3>6, <3>8, LeastOf
      <4>2. Builder!Min(I) # 0
        BY <4>1 DEF I
      <4>3. Builder!Lists!LocationAt(list, a - 1) = list[Builder!Min(I)].loc
        BY <3>4, <3>5, <3>8, <4>2 DEF Builder!Lists!LocationAt
      <4> QED BY <3>2, <4>1, <4>3
    <3> QED BY <3>7, <3>8
  <2>6. ASSUME NEW i \in 1 .. Len(list) - 1
        PROVE  /\ Builder!Lists!RangeEnd(list[i]) <= list[i + 1].offset
               /\ Builder!Lists!RangeEnd(list[i]) = list[i + 1].offset
                  => list[i].loc # list[i + 1].loc
    <3>1. Len(list) \in Nat
      BY <2>1, SeqOfElements DEF ListInv
    <3>2. i \in 1 .. Len(list) /\ i + 1 \in 1 .. Len(list) /\ i < i + 1
      BY <3>1
    <3>3. Builder!Lists!RangeEnd(list[i]) = SaidEnd(list[i])
      <4>1. 0 + list[i].offset + list[i].size = list[i].offset + list[i].size
            /\ list[i].offset + list[i].size \in Nat
        BY <2>2, <3>2
      <4> QED BY <2>2, <2>3, <3>2, <4>1 DEF Builder!Lists!RangeEnd, SaidEnd
    <3> QED BY <2>1, <3>2, <3>3 DEF ListInv
  <2> QED BY <2>5, <2>6 DEF list
<1> QED BY <1>2, <1>3 DEF Builder!RangesOfBlocks

(* A parameter is said to be where a usable range of a block brings it, and*)
(* nowhere else: when the live ranges are made, an address has a location  *)
(* if and only if a range of its block, brought by every entry into that   *)
(* block, has one there, and it is one of theirs; the ranges follow each   *)
(* other in the function, and none could be merged with the next one: for  *)
(* any function, whatever its control flow, and any bound on traversals    *)
(* (CarryoverLiveRanges, TraverseBasicBlock, UpdateRangesForInstruction and*)
(* CreateLiveRangeSets).                                                   *)
THEOREM RangesAlwaysOfBlocks == PartsSpec => []RangesOfBlocks
<1> DEFINE parts == <<part, typeVars, fieldVars, functionVars, rangeVars, managerVars>>
<1>1. PartsInit => BuilderInv
  <2>1. ASSUME PartsInit PROVE BuilderInv
    <3>1. CASE part = "ranges"
      <4>1. Builder!Init
        BY <2>1, <3>1 DEF PartsInit
      <4> QED BY <4>1, RangesStart
    <3>2. CASE part # "ranges"
      <4>1. /\ Builder!Start(CHOOSE p \in Programs : TRUE)
            /\ (CHOOSE p \in Programs : TRUE) \in Programs
        BY <2>1, <3>2, SymbolPartsFunctions DEF PartsInit
      <4>2. Builder!Init
        BY <4>1 DEF Builder!Init
      <4> QED BY <4>2, RangesStart
    <3> QED BY <3>1, <3>2
  <2> QED BY <2>1
<1>2. BuilderInv /\ [PartsNext]_parts => BuilderInv'
  <2>1. UNCHANGED rangeVars => UNCHANGED Builder!vars
    BY DEF rangeVars, Builder!vars, Builder!travVars
  <2>2. [PartsNext]_parts => [Builder!Next]_Builder!vars
    BY <2>1 DEF PartsNext
  <2> QED BY <2>2, RangesStep
<1>3. BuilderInv => RangesOfBlocks
  BY RangesPromised DEF RangesOfBlocks
<1> QED BY <1>1, <1>2, <1>3, PTL DEF PartsSpec

-----------------------------------------------------------------------------
(* The layouts.  SymbolTypes_proofs proves what their part keeps to.       *)
LayoutProved == INSTANCE SymbolTypes_proofs

(* The operators on symbols are those the theorems are about.              *)
LEMMA LayoutBasics ==
  /\ Layout!TypeKinds = LayoutProved!TypeKinds /\ Layout!Positional = LayoutProved!Positional
  /\ Layout!Blank = LayoutProved!Blank /\ Layout!Udt = LayoutProved!Udt
  /\ Layout!Ids = LayoutProved!Ids /\ Layout!NewId = LayoutProved!NewId
  /\ Layout!Idle = LayoutProved!Idle
  /\ \A kinds : Layout!LiveOf(kinds) = LayoutProved!LiveOf(kinds)
  /\ \A do, id : Layout!Task(do, id) = LayoutProved!Task(do, id)
  /\ \A do : Layout!Returned(do) = LayoutProved!Returned(do)
  /\ \A i : Layout!Zombie(i) = LayoutProved!Zombie(i)
  /\ \A set : Layout!Level(set) = LayoutProved!Level(set)
<1>1. /\ Layout!TypeKinds = LayoutProved!TypeKinds /\ Layout!Positional = LayoutProved!Positional
      /\ Layout!Blank = LayoutProved!Blank
  BY Zenon DEF Layout!TypeKinds, LayoutProved!TypeKinds, Layout!Positional,
        LayoutProved!Positional, Layout!Blank, LayoutProved!Blank
<1>2. Layout!Udt = LayoutProved!Udt
  BY <1>1 DEF Layout!Udt, LayoutProved!Udt
<1>3. Layout!Ids = LayoutProved!Ids
  BY Zenon DEF Layout!Ids, LayoutProved!Ids, Layout!Cardinality, LayoutProved!Cardinality
<1>4. /\ Layout!NewId = LayoutProved!NewId /\ Layout!Idle = LayoutProved!Idle
      /\ \A kinds : Layout!LiveOf(kinds) = LayoutProved!LiveOf(kinds)
  BY Zenon DEF Layout!NewId, LayoutProved!NewId, Layout!Idle, LayoutProved!Idle,
        Layout!LiveOf, LayoutProved!LiveOf
<1>5. \A do, id : Layout!Task(do, id) = LayoutProved!Task(do, id)
  BY Zenon DEF Layout!Task, LayoutProved!Task
<1>6. /\ \A do : Layout!Returned(do) = LayoutProved!Returned(do)
      /\ \A i : Layout!Zombie(i) = LayoutProved!Zombie(i)
  BY Zenon DEF Layout!Returned, LayoutProved!Returned, Layout!Zombie, LayoutProved!Zombie
<1>7. \A set : Layout!Level(set) = LayoutProved!Level(set)
  BY Zenon DEF Layout!Level, LayoutProved!Level
<1> QED BY <1>1, <1>2, <1>3, <1>4, <1>5, <1>6, <1>7

(* They start alike.                                                       *)
LEMMA LayoutStarts == Layout!Init => LayoutProved!Init
<1>1. \A S : Layout!SetToSeq(S) = LayoutProved!SetToSeq(S)
  BY Zenon DEF Layout!SetToSeq, LayoutProved!SetToSeq, Layout!Cardinality,
        LayoutProved!Cardinality, Layout!IsInjective, LayoutProved!IsInjective
<1>2. \A size : Layout!Basic(size) = LayoutProved!Basic(size)
  BY LayoutBasics DEF Layout!Basic, LayoutProved!Basic
<1>3. {Layout!Basic(size) : size \in BasicSizes} = {LayoutProved!Basic(size) : size \in BasicSizes}
  BY <1>2
<1>4. Layout!SetToSeq({Layout!Basic(size) : size \in BasicSizes})
        = LayoutProved!SetToSeq({LayoutProved!Basic(size) : size \in BasicSizes})
  BY <1>1, <1>3
<1>5. [k \in 1 .. Udts |-> Layout!Udt] = [k \in 1 .. Udts |-> LayoutProved!Udt]
  BY LayoutBasics
<1> QED BY <1>4, <1>5 DEF Layout!Init, LayoutProved!Init

(* The layout of a class is computed alike.                                *)
LEMMA LayoutComputed ==
  /\ \A u : Layout!LayoutType(u) = LayoutProved!LayoutType(u)
  /\ \A u : Layout!Stops(u) = LayoutProved!Stops(u)
<1>1. \A u, k : /\ Layout!ChildAt(u, k) = LayoutProved!ChildAt(u, k)
                /\ Layout!IsOfPass(u, k) = LayoutProved!IsOfPass(u, k)
  BY Zenon DEF Layout!ChildAt, LayoutProved!ChildAt, Layout!IsOfPass, LayoutProved!IsOfPass
<1>2. \A n, m : /\ Layout!RoundUp(n, m) = LayoutProved!RoundUp(n, m)
                /\ Layout!Larger(n, m) = LayoutProved!Larger(n, m)
  BY Zenon DEF Layout!RoundUp, LayoutProved!RoundUp, Layout!Larger, LayoutProved!Larger
<1>3. \A c, i : Layout!Place(c, i) = LayoutProved!Place(c, i)
  BY Zenon DEF Layout!Place, LayoutProved!Place, Layout!RoundUp, LayoutProved!RoundUp,
        Layout!Larger, LayoutProved!Larger, Layout!Zombie, LayoutProved!Zombie
<1>4. \A u : Layout!Turns(u) = LayoutProved!Turns(u)
  BY Zenon DEF Layout!Turns, LayoutProved!Turns
<1>5. \A u : Layout!Cursors(u) = LayoutProved!Cursors(u)
  BY Zenon DEF Layout!Place, LayoutProved!Place, Layout!RoundUp, LayoutProved!RoundUp,
        Layout!Larger, LayoutProved!Larger, Layout!Zombie, LayoutProved!Zombie,
        Layout!ChildAt, LayoutProved!ChildAt, Layout!IsOfPass, LayoutProved!IsOfPass,
        Layout!Turns, LayoutProved!Turns, Layout!Cursors, LayoutProved!Cursors
<1>6. \A u : Layout!Stops(u) = LayoutProved!Stops(u)
  BY <1>4, <1>5 DEF Layout!Stops, LayoutProved!Stops
<1>7. \A u : Layout!LayoutType(u) = LayoutProved!LayoutType(u)
  BY <1>2, <1>4, <1>5 DEF Layout!LayoutType, LayoutProved!LayoutType
<1> QED BY <1>6, <1>7

(* So is what a notification recomputes.                                   *)
LEMMA NotifiedAlike ==
  \A i : Layout!NotifyDependentChange(i) => LayoutProved!NotifyDependentChange(i)
<1>1. ASSUME NEW i PROVE Layout!Recomputed(i) = LayoutProved!Recomputed(i)
  <2>1. Layout!OfArray(i) = LayoutProved!OfArray(i) /\ Layout!OfData(i) = LayoutProved!OfData(i)
    BY Zenon DEF Layout!OfArray, LayoutProved!OfArray, Layout!OfData, LayoutProved!OfData,
          Layout!Zombie, LayoutProved!Zombie
  <2>2. Layout!Zombie(i) <=> LayoutProved!Zombie(i)
    BY Zenon DEF Layout!Zombie, LayoutProved!Zombie
  <2> QED BY <2>1, <2>2, LayoutComputed DEF Layout!Recomputed, LayoutProved!Recomputed
<1>2. ASSUME NEW i PROVE Layout!Fails(i) <=> LayoutProved!Fails(i)
  BY LayoutComputed, Zenon DEF Layout!Fails, LayoutProved!Fails, Layout!Zombie,
       LayoutProved!Zombie
<1>3. \A set : Layout!Level(set) = LayoutProved!Level(set)
  BY LayoutBasics
<1> QED BY <1>1, <1>2, <1>3 DEF Layout!NotifyDependentChange, LayoutProved!NotifyDependentChange


(* A child is found, removed and moved alike.                              *)
LEMMA ChildrenAlike ==
  /\ \A list, i : Layout!Position(list, i) = LayoutProved!Position(list, i)
  /\ \A list, i : Layout!RemoveFirst(list, i) = LayoutProved!RemoveFirst(list, i)
  /\ \A slots, list, i : Layout!Shifted(slots, list, i) = LayoutProved!Shifted(slots, list, i)
  /\ \A list, i, pos : Layout!MovedBefore(list, i, pos) = LayoutProved!MovedBefore(list, i, pos)
<1>1. \A S : Layout!Min(S) = LayoutProved!Min(S)
  BY Zenon DEF Layout!Min, LayoutProved!Min
<1>2. ASSUME NEW list, NEW i PROVE Layout!Position(list, i) = LayoutProved!Position(list, i)
  <2> DEFINE I == {k \in 1 .. Len(list) : list[k] = i}
  <2>1. Layout!Position(list, i) = IF I # {} THEN Layout!Min(I) ELSE 0
    BY Zenon DEF Layout!Position, Layout!SelectInSeq
  <2>2. LayoutProved!Position(list, i) = IF I # {} THEN LayoutProved!Min(I) ELSE 0
    BY Zenon DEF LayoutProved!Position, LayoutProved!SelectInSeq
  <2> QED BY <1>1, <2>1, <2>2
<1>3. \A list, i : /\ Layout!RemoveAt(list, i) = LayoutProved!RemoveAt(list, i)
                   /\ \A e : Layout!InsertAt(list, i, e) = LayoutProved!InsertAt(list, i, e)
  BY Zenon DEF Layout!RemoveAt, LayoutProved!RemoveAt, Layout!InsertAt, LayoutProved!InsertAt
<1>4. ASSUME NEW list, NEW i PROVE Layout!RemoveFirst(list, i) = LayoutProved!RemoveFirst(list, i)
  <2>1. Layout!RemoveFirst(list, i)
          = IF \E k \in 1 .. Len(list) : list[k] = i
            THEN Layout!RemoveAt(list, Layout!Position(list, i)) ELSE list
    BY Zenon DEF Layout!RemoveFirst, Layout!Position
  <2>2. LayoutProved!RemoveFirst(list, i)
          = IF \E k \in 1 .. Len(list) : list[k] = i
            THEN LayoutProved!RemoveAt(list, LayoutProved!Position(list, i)) ELSE list
    BY Zenon DEF LayoutProved!RemoveFirst, LayoutProved!Position
  <2> QED BY <1>2, <1>3, <2>1, <2>2
<1>5. ASSUME NEW slots, NEW list, NEW i
      PROVE  Layout!Shifted(slots, list, i) = LayoutProved!Shifted(slots, list, i)
  BY <1>2 DEF Layout!Shifted, LayoutProved!Shifted
<1>6. \A list, i, pos : Layout!NewPosition(list, i, pos) = LayoutProved!NewPosition(list, i, pos)
  BY Zenon DEF Layout!NewPosition, LayoutProved!NewPosition, Layout!Cardinality,
        LayoutProved!Cardinality
<1>7. ASSUME NEW list, NEW i, NEW pos
      PROVE  Layout!MovedBefore(list, i, pos) = LayoutProved!MovedBefore(list, i, pos)
  BY <1>2, <1>3, <1>6 DEF Layout!MovedBefore, LayoutProved!MovedBefore
<1> QED BY <1>2, <1>4, <1>5, <1>7

(* Registrations change alike.                                             *)
LEMMA RegisteredAlike ==
  /\ \A table, i, type :
       Layout!Registered(table, i, type) = LayoutProved!Registered(table, i, type)
  /\ \A table, i : Layout!Unregistered(table, i) = LayoutProved!Unregistered(table, i)
  /\ \A i, next : Layout!Unlink(i, next) <=> LayoutProved!Unlink(i, next)
<1>1. /\ \A table, i, type :
           Layout!Registered(table, i, type) = LayoutProved!Registered(table, i, type)
      /\ \A table, i : Layout!Unregistered(table, i) = LayoutProved!Unregistered(table, i)
  BY Zenon DEF Layout!Registered, LayoutProved!Registered, Layout!Unregistered,
        LayoutProved!Unregistered, Layout!Zombie, LayoutProved!Zombie
<1>2. ASSUME NEW i PROVE Layout!Unlinked(i) = LayoutProved!Unlinked(i)
  BY <1>1, ChildrenAlike DEF Layout!Unlinked, LayoutProved!Unlinked
<1>3. \A i, next : Layout!Unlink(i, next) <=> LayoutProved!Unlink(i, next)
  BY <1>2, LayoutBasics DEF Layout!Unlink, LayoutProved!Unlink
<1> QED BY <1>1, <1>3

(* The tasks that follow a notification are alike.                         *)
LEMMA TasksAlike ==
  /\ Layout!Depend => LayoutProved!Depend
  /\ Layout!Erase => LayoutProved!Erase
  /\ Layout!DeleteNextChild => LayoutProved!DeleteNextChild
<1>1. Layout!Depend => LayoutProved!Depend
  BY LayoutBasics, RegisteredAlike DEF Layout!Depend, LayoutProved!Depend
<1>2. Layout!Erase => LayoutProved!Erase
  BY LayoutBasics DEF Layout!Erase, LayoutProved!Erase
<1>3. Layout!DeleteNextChild => LayoutProved!DeleteNextChild
  BY LayoutBasics, RegisteredAlike, ChildrenAlike
  DEF Layout!DeleteNextChild, LayoutProved!DeleteNextChild
<1> QED BY SMTT(60), <1>1, <1>2, <1>3

(* So are the operations.                                                  *)
LEMMA OperationsAlike == Layout!Operation => LayoutProved!Operation
<1>1. Layout!Begin => LayoutProved!Begin
  BY LayoutBasics DEF Layout!Begin, LayoutProved!Begin
<1>2. \A table : Layout!Create(table) => LayoutProved!Create(table)
  BY LayoutBasics DEF Layout!Create, LayoutProved!Create
<1>3. Layout!CreateUdt => LayoutProved!CreateUdt
  BY <1>1, <1>2, LayoutBasics DEF Layout!CreateUdt, LayoutProved!CreateUdt
<1>4. \A type, dim : Layout!CreateArray(type, dim) => LayoutProved!CreateArray(type, dim)
  BY <1>1, <1>2, LayoutBasics, RegisteredAlike DEF Layout!CreateArray, LayoutProved!CreateArray
<1>5. \A type : Layout!CreateTypedef(type) => LayoutProved!CreateTypedef(type)
  BY <1>1, <1>2, LayoutBasics DEF Layout!CreateTypedef, LayoutProved!CreateTypedef
<1>6. \A type, offset : Layout!CreateGlobal(type, offset) => LayoutProved!CreateGlobal(type, offset)
  BY <1>1, <1>2, LayoutBasics, RegisteredAlike DEF Layout!CreateGlobal, LayoutProved!CreateGlobal
<1>7. \A i, j : Layout!IsApart(i, j) <=> LayoutProved!IsApart(i, j)
  BY Zenon DEF Layout!IsApart, LayoutProved!IsApart, Layout!Closed, LayoutProved!Closed
<1>8. ASSUME NEW kind, NEW owner, NEW type, NEW offset,
             Layout!AddPositional(kind, owner, type, offset)
      PROVE  LayoutProved!AddPositional(kind, owner, type, offset)
  <2>1. {t \in Layout!LiveOf(IF kind = "base" THEN {"udt"} ELSE Layout!TypeKinds) :
           Layout!IsApart(owner, t)}
          = {t \in LayoutProved!LiveOf(IF kind = "base" THEN {"udt"} ELSE LayoutProved!TypeKinds) :
               LayoutProved!IsApart(owner, t)}
    BY <1>7, LayoutBasics
  <2>2. /\ LayoutProved!Begin /\ owner \in LayoutProved!LiveOf({"udt"})
        /\ waiting' = <<{owner}>> /\ tasks' = <<LayoutProved!Task("depend", LayoutProved!NewId)>>
    BY <1>1, <1>8, LayoutBasics DEF Layout!AddPositional
  <2>3. LET child == [LayoutProved!Blank EXCEPT !.kind = kind, !.parent = owner, !.type = type,
                                               !.offset = offset, !.actual = offset]
        IN  LayoutProved!Create([Append(symbols, child) EXCEPT
                                   ![owner].children = Append(@, LayoutProved!NewId)])
    BY <1>2, <1>8, LayoutBasics DEF Layout!AddPositional
  <2> QED BY <1>8, <2>1, <2>2, <2>3 DEF Layout!AddPositional, LayoutProved!AddPositional
<1>9. \A i : Layout!SettableOffsets(i) = LayoutProved!SettableOffsets(i)
  BY Zenon DEF Layout!SettableOffsets, LayoutProved!SettableOffsets
<1>10. \A i, offset : Layout!SetSymbolOffset(i, offset) => LayoutProved!SetSymbolOffset(i, offset)
  BY <1>1, <1>9, LayoutBasics DEF Layout!SetSymbolOffset, LayoutProved!SetSymbolOffset
<1>11. \A i, type : Layout!SetSymbolTypeId(i, type) => LayoutProved!SetSymbolTypeId(i, type)
  BY <1>1, <1>7, LayoutBasics, RegisteredAlike
  DEF Layout!SetSymbolTypeId, LayoutProved!SetSymbolTypeId
<1>12. \A i, pos : Layout!MoveToBefore(i, pos) => LayoutProved!MoveToBefore(i, pos)
  BY <1>1, LayoutBasics, ChildrenAlike DEF Layout!MoveToBefore, LayoutProved!MoveToBefore
<1>13. \A i : Layout!Delete(i) => LayoutProved!Delete(i)
  BY <1>1, LayoutBasics, RegisteredAlike DEF Layout!Delete, LayoutProved!Delete
<1>14. Layout!Nameable = LayoutProved!Nameable
  BY Zenon DEF Layout!Nameable, LayoutProved!Nameable, Layout!Idle, LayoutProved!Idle
<1> QED
  BY <1>3, <1>4, <1>5, <1>6, <1>8, <1>10, <1>11, <1>12, <1>13, <1>14, LayoutBasics
  DEF Layout!Operation, LayoutProved!Operation

(* The steps of the layouts are those the theorems are about.              *)
LEMMA LayoutSteps ==
  /\ Layout!Next => LayoutProved!Next
  /\ UNCHANGED typeVars => UNCHANGED LayoutProved!vars
<1>1. Layout!Next => LayoutProved!Next
  BY OperationsAlike, TasksAlike, NotifiedAlike
  DEF Layout!Next, LayoutProved!Next, Layout!Step, LayoutProved!Step
<1>2. UNCHANGED typeVars => UNCHANGED LayoutProved!vars
  BY DEF typeVars, LayoutProved!vars
<1> QED BY <1>1, <1>2

(* What the theorems promise is what is asked for.                         *)
LEMMA LayoutPromised ==
  LayoutProved!LayoutsFollow /\ LayoutProved!TreeOwned => Layout!LayoutsFollow /\ Layout!TreeOwned
<1>1. \A i : /\ Layout!Zombie(i) <=> LayoutProved!Zombie(i)
             /\ Layout!TypeOf(i) = LayoutProved!TypeOf(i)
             /\ Layout!Start(i) = LayoutProved!Start(i)
             /\ Layout!Stop(i) = LayoutProved!Stop(i)
             /\ Layout!Owned(i) = LayoutProved!Owned(i)
  BY Zenon DEF Layout!Zombie, LayoutProved!Zombie, Layout!TypeOf, LayoutProved!TypeOf,
        Layout!Start, LayoutProved!Start, Layout!Stop, LayoutProved!Stop, Layout!Owned,
        LayoutProved!Owned, Layout!ToSet, LayoutProved!ToSet
<1>2. \A u, i, j : /\ Layout!IsBefore(u, i, j) <=> LayoutProved!IsBefore(u, i, j)
                   /\ Layout!IsRightBefore(u, i, j) <=> LayoutProved!IsRightBefore(u, i, j)
  BY ZenonT(60) DEF Layout!IsBefore, LayoutProved!IsBefore, Layout!IsRightBefore,
        LayoutProved!IsRightBefore, Layout!Owned, LayoutProved!Owned, Layout!ToSet,
        LayoutProved!ToSet
<1>3. \A m, n, align : Layout!Aligns(m, n, align) <=> LayoutProved!Aligns(m, n, align)
  BY Zenon DEF Layout!Aligns, LayoutProved!Aligns
<1>4. ASSUME NEW u PROVE LayoutProved!ClassLaidOut(u) <=> Layout!ClassLaidOut(u)
  BY <1>1, <1>2, <1>3 DEF Layout!ClassLaidOut, LayoutProved!ClassLaidOut
<1>5. LayoutProved!TypesLaidOut => Layout!TypesLaidOut
  BY <1>1, <1>4, LayoutBasics DEF Layout!TypesLaidOut, LayoutProved!TypesLaidOut
<1>6. LayoutProved!DataFollows => Layout!DataFollows
  BY <1>1, LayoutBasics DEF Layout!DataFollows, LayoutProved!DataFollows
<1>7. LayoutProved!TypeOK => Layout!TypeOK
  BY LayoutBasics, Zenon DEF Layout!TypeOK, LayoutProved!TypeOK, Layout!Symbols,
       LayoutProved!Symbols, Layout!TypeKinds, LayoutProved!TypeKinds, Layout!Positional,
       LayoutProved!Positional, Layout!Ids, LayoutProved!Ids, Layout!Cardinality,
       LayoutProved!Cardinality
<1>8. LayoutProved!ChildrenOwned => Layout!ChildrenOwned
  BY LayoutBasics DEF Layout!ChildrenOwned, LayoutProved!ChildrenOwned, Layout!ToSet,
     LayoutProved!ToSet, Layout!IsInjective, LayoutProved!IsInjective
<1>9. LayoutProved!NotifiesUsers => Layout!NotifiesUsers
  BY LayoutBasics DEF Layout!NotifiesUsers, LayoutProved!NotifiesUsers
<1> QED BY <1>5, <1>6, <1>7, <1>8, <1>9
        DEF Layout!LayoutsFollow, LayoutProved!LayoutsFollow,
            Layout!TreeOwned, LayoutProved!TreeOwned

-----------------------------------------------------------------------------
(* The fields of a class or an enum.                                       *)

(* What the assumption says of the constants.                              *)
LEMMA FieldConstants ==
  /\ FieldTypes \subseteq [name : STRING, kind : STRING, size : Nat, align : Nat \ {0}]
  /\ FieldOffsets \subseteq Nat /\ BitLengths \subseteq Nat /\ BitPositions \subseteq Nat
  /\ FieldValues \subseteq [vt : OrdinalTypes, n : Int] /\ \A value \in FieldValues : InRange(value)
  /\ MaxFields \in Nat /\ MaxFieldCalls \in Nat
BY FieldsAssumption DEF FieldsAssumption

(* What a step leads to, from a on.                                        *)
IsIteration(f, n, a, step) == f[0] = a /\ \A k \in 1 .. n : f[k] = step[k][f[k - 1]]

(* A step that is taken n times.                                           *)
LEMMA Iterated ==
  ASSUME NEW n \in Nat, NEW C, NEW a \in C, NEW step \in [1 .. n -> [C -> C]]
  PROVE  \E f \in [0 .. n -> C] : IsIteration(f, n, a, step)
<1> DEFINE Are(f, m) == f[0] = a /\ \A k \in 1 .. m : f[k] = step[k][f[k - 1]]
           S == {m \in 0 .. n : \E f \in [0 .. n -> C] : Are(f, m)}
<1>1. 0 \in S
  <2> DEFINE f == [k \in 0 .. n |-> a]
  <2>1. f \in [0 .. n -> C] /\ f[0] = a
    OBVIOUS
  <2>2. 1 .. 0 = {}
    OBVIOUS
  <2> HIDE DEF f
  <2> QED BY <2>1, <2>2
<1>2. ASSUME NEW m \in 1 .. n, m - 1 \in S PROVE m \in S
  <2>1. PICK f \in [0 .. n -> C] : Are(f, m - 1)
    BY <1>2
  <2>2. m \in 0 .. n /\ m - 1 \in 0 .. n /\ step[m][f[m - 1]] \in C
    BY <2>1
  <2> DEFINE next == [f EXCEPT ![m] = step[m][f[m - 1]]]
  <2>3. next \in [0 .. n -> C]
    BY <2>2
  <2>4. /\ next[m] = step[m][f[m - 1]] /\ \A k \in 0 .. n : k # m => next[k] = f[k]
    BY <2>2
  <2> HIDE DEF next
  <2>5. next[0] = a
    BY <2>1, <2>4
  <2>6. ASSUME NEW k \in 1 .. m PROVE next[k] = step[k][next[k - 1]]
    <3>1. next[k - 1] = f[k - 1]
      BY <2>4
    <3>2. CASE k = m
      BY <2>4, <3>1, <3>2
    <3>3. CASE k # m
      <4>1. k \in 1 .. m - 1 /\ k \in 0 .. n
        BY <3>3
      <4> QED BY <2>1, <2>4, <3>1, <3>3, <4>1
    <3> QED BY <3>2, <3>3
  <2> QED BY <2>2, <2>3, <2>5, <2>6
<1>3. n \in S
  <2>1. \A k \in 0 .. n : k \in S
    <3> HIDE DEF S
    <3> QED BY <1>1, <1>2, UpTo
  <2> QED BY SMTT(60), <2>1
<1> QED BY <1>3 DEF IsIteration

(* A field of a class that is about to be laid out, and a cursor.          *)
ClassFields ==
  {f \in FieldRecords :
     /\ f.type \in FieldTypes /\ f.offset \in Nat \cup {-2}
     /\ f.offset # -2 => f.actualOffset \in Nat
     /\ InRange(f.value)}
FieldCursorSet ==
  [offset : Nat, bits : {i \in Int : i >= -1}, size : Nat, align : Nat \ {0},
   bit : BOOLEAN, type : FieldTypes \cup {NoType}]

(* A type has a size and an alignment.                                     *)
LEMMA FieldTypesAre ==
  ASSUME NEW t \in FieldTypes \cup {NoType}
  PROVE  t.size \in Nat /\ t.align \in Nat \ {0}
<1>1. CASE t \in FieldTypes
  <2>1. t \in [name : STRING, kind : STRING, size : Nat, align : Nat \ {0}]
    BY <1>1, FieldConstants
  <2> QED BY <2>1
<1>2. CASE t = NoType
  BY <1>2 DEF NoType
<1> QED BY <1>1, <1>2

(* What a field has.                                                       *)
LEMMA ClassFieldsAre ==
  ASSUME NEW f \in ClassFields
  PROVE  /\ f \in FieldRecords /\ f.type \in FieldTypes
         /\ f.type.size \in Nat /\ f.type.align \in Nat \ {0}
         /\ f.offset \in Nat \cup {-2} /\ f.length \in Nat
         /\ f.actualOffset \in Nat \cup {-1, -2, -3}
         /\ (f.offset # -2 => f.actualOffset \in Nat)
         /\ f.position \in Nat \cup {-1, -2} /\ f.actualPosition \in Nat \cup {-1, -2}
         /\ f.value \in [vt : OrdinalTypes \cup {Bool}, n : Int] /\ InRange(f.value)
<1>1. f \in FieldRecords /\ f.type \in FieldTypes
  BY DEF ClassFields
<1>2. f.type.size \in Nat /\ f.type.align \in Nat \ {0}
  BY <1>1, FieldTypesAre
<1> QED BY <1>1, <1>2 DEF ClassFields, FieldRecords

(* The first aligned number from another on.                               *)
LEMMA AlignedIs ==
  ASSUME NEW n \in Nat, NEW align \in Nat \ {0}
  PROVE  Aligned(n, align) \in Nat /\ n <= Aligned(n, align) /\ Aligned(n, align) % align = 0
<1> DEFINE q == (n + align - 1) \div align
           r == q * align
<1>1. q \in Nat
  BY Z3
<1>2. /\ n + align - 1 = align * q + ((n + align - 1) % align)
      /\ (n + align - 1) % align \in 0 .. align - 1
  BY Z3
<1> HIDE DEF q
<1>3. r \in Nat
  BY <1>1
<1>4. n <= r
  BY <1>1, <1>2, Z3
<1> HIDE DEF r
<1>5. r % align = 0
  <2> DEFINE p == r \div align
             m == r % align
  <2>1. p \in Int /\ r = align * p + m /\ m \in 0 .. align - 1
    BY <1>3, Z3
  <2> HIDE DEF p, m
  <2> DEFINE d == q - p
  <2>2. d \in Int /\ align * d = m
    BY <1>1, <2>1, Z3 DEF r
  <2> HIDE DEF d
  <2>3. CASE d <= 0
    BY <2>1, <2>2, <2>3, Z3 DEF m
  <2>4. CASE d >= 1
    <3>1. align * d >= align
      BY <2>2, <2>4, Z3
    <3> QED BY <2>1, <2>2, <3>1
  <2> QED BY <2>2, <2>3, <2>4
<1> QED BY <1>3, <1>4, <1>5 DEF Aligned, q, r

(* The cursor where a field begins.                                        *)
LEMMA ArrivedIs ==
  ASSUME NEW c \in FieldCursorSet, NEW f \in ClassFields
  PROVE  /\ Arrived(c, f).offset
              = (IF Leaves(c, f) THEN c.offset + c.type.size ELSE c.offset)
                  + (IF IsFull(Left(c, f), f) THEN f.type.size ELSE 0)
         /\ Arrived(c, f).bits
              = IF Leaves(c, f) \/ IsFull(Left(c, f), f) THEN 0 ELSE c.bits
         /\ Left(c, f).bits = (IF Leaves(c, f) THEN 0 ELSE c.bits)
         /\ Arrived(c, f).offset \in Nat /\ Arrived(c, f).bits \in Int /\ Arrived(c, f).bits >= -1
<1>1. /\ c.offset \in Nat /\ c.bits \in Int /\ c.bits >= -1 /\ c.type \in FieldTypes \cup {NoType}
      /\ c = [offset |-> c.offset, bits |-> c.bits, size |-> c.size, align |-> c.align,
              bit |-> c.bit, type |-> c.type]
  BY DEF FieldCursorSet
<1>2. c.type.size \in Nat /\ f.type.size \in Nat
  BY <1>1, FieldTypesAre, ClassFieldsAre
<1> DEFINE left == Left(c, f)
<1>3. /\ left.offset = (IF Leaves(c, f) THEN c.offset + c.type.size ELSE c.offset)
      /\ left.bits = (IF Leaves(c, f) THEN 0 ELSE c.bits)
      /\ left = [offset |-> left.offset, bits |-> left.bits, size |-> c.size, align |-> c.align,
                 bit |-> c.bit, type |-> c.type]
  BY <1>1, <1>2 DEF Left
<1> HIDE DEF left
<1>4. /\ Arrived(c, f).offset = left.offset + (IF IsFull(left, f) THEN f.type.size ELSE 0)
      /\ Arrived(c, f).bits = (IF IsFull(left, f) THEN 0 ELSE left.bits)
  <2>1. left.offset \in Nat
    BY <1>1, <1>2, <1>3
  <2>2. Arrived(c, f) = IF IsFull(left, f)
                        THEN [left EXCEPT !.offset = @ + f.type.size, !.bits = 0] ELSE left
    BY Zenon DEF Arrived, left
  <2> QED BY <1>2, <1>3, <2>1, <2>2
<1> QED BY <1>1, <1>2, <1>3, <1>4 DEF left


(* The cursor behind a field.                                              *)
LEMMA BehindIs ==
  ASSUME NEW c \in FieldCursorSet, NEW f \in ClassFields
  PROVE  /\ Behind(c, f) \in FieldCursorSet
         /\ OffsetAt(c, f) \in Nat /\ PositionAt(c, f) \in Int /\ PositionAt(c, f) >= -2
         /\ (IsAutomaticLayout(f) => /\ Arrived(c, f).offset <= OffsetAt(c, f)
                                     /\ OffsetAt(c, f) % f.type.align = 0
                                     /\ PositionAt(c, f) = Arrived(c, f).bits)
         /\ (~IsAutomaticLayout(f) => OffsetAt(c, f) = f.offset /\ PositionAt(c, f) = f.position)
         /\ Behind(c, f).bit = IsBitField(f) /\ Behind(c, f).type = f.type
         /\ (IsBitField(f) => /\ Behind(c, f).offset = OffsetAt(c, f)
                              /\ Behind(c, f).bits = PositionAt(c, f) + f.length
                              /\ Behind(c, f).size = c.size)
         /\ (~IsBitField(f) => /\ Behind(c, f).offset = OffsetAt(c, f) + f.type.size
                               /\ Behind(c, f).bits = Arrived(c, f).bits
                               /\ Behind(c, f).size = Higher(c.size, OffsetAt(c, f) + f.type.size))
<1>1. /\ c.size \in Nat /\ c.align \in Nat \ {0}
      /\ Arrived(c, f).offset \in Nat /\ Arrived(c, f).bits \in Int /\ Arrived(c, f).bits >= -1
  BY ArrivedIs DEF FieldCursorSet
<1>2. /\ f.type \in FieldTypes /\ f.type.size \in Nat /\ f.type.align \in Nat \ {0}
      /\ f.offset \in Nat \cup {-2} /\ f.length \in Nat /\ f.position \in Nat \cup {-1, -2}
  BY ClassFieldsAre
<1>3. /\ Aligned(Arrived(c, f).offset, f.type.align) \in Nat
      /\ Arrived(c, f).offset <= Aligned(Arrived(c, f).offset, f.type.align)
      /\ Aligned(Arrived(c, f).offset, f.type.align) % f.type.align = 0
  BY <1>1, <1>2, AlignedIs
<1>4. /\ OffsetAt(c, f) \in Nat /\ PositionAt(c, f) \in Int /\ PositionAt(c, f) >= -2
      /\ (IsAutomaticLayout(f) => /\ Arrived(c, f).offset <= OffsetAt(c, f)
                                  /\ OffsetAt(c, f) % f.type.align = 0
                                  /\ PositionAt(c, f) = Arrived(c, f).bits)
      /\ (~IsAutomaticLayout(f) => OffsetAt(c, f) = f.offset /\ PositionAt(c, f) = f.position)
  <2>1. CASE IsAutomaticLayout(f)
    BY <1>1, <1>3, <2>1 DEF OffsetAt, PositionAt
  <2>2. CASE ~IsAutomaticLayout(f)
    <3>1. f.offset # -2
      BY <2>2 DEF IsAutomaticLayout, AutomaticAppendLayout
    <3> QED BY <1>2, <2>2, <3>1 DEF OffsetAt, PositionAt
  <2> QED BY <2>1, <2>2
<1> DEFINE b == Behind(c, f)
<1>5. /\ b = [offset |-> b.offset, bits |-> b.bits, size |-> b.size, align |-> b.align,
              bit |-> b.bit, type |-> b.type]
      /\ b.bit = IsBitField(f) /\ b.type = f.type /\ b.align = Higher(c.align, f.type.align)
      /\ (IsBitField(f) => /\ b.offset = OffsetAt(c, f)
                           /\ b.bits = PositionAt(c, f) + f.length /\ b.size = c.size)
      /\ (~IsBitField(f) => /\ b.offset = OffsetAt(c, f) + f.type.size
                            /\ b.bits = Arrived(c, f).bits
                            /\ b.size = Higher(c.size, OffsetAt(c, f) + f.type.size))
  BY DEF Behind
<1> HIDE DEF b
<1>6. b.align \in Nat \ {0}
  BY <1>1, <1>2, <1>5 DEF Higher
<1>7. b.offset \in Nat /\ b.bits \in Int /\ b.bits >= -1 /\ b.size \in Nat
  <2>1. CASE IsBitField(f)
    <3>1. f.length >= 1
      BY <1>2, <2>1 DEF IsBitField
    <3> QED BY <1>1, <1>2, <1>4, <1>5, <2>1, <3>1
  <2>2. CASE ~IsBitField(f)
    BY <1>1, <1>2, <1>4, <1>5, <2>2 DEF Higher
  <2> QED BY <2>1, <2>2
<1>8. b.bit \in BOOLEAN /\ b.type \in FieldTypes \cup {NoType}
  BY <1>2, <1>5 DEF IsBitField
<1>9. b \in FieldCursorSet
  BY <1>5, <1>6, <1>7, <1>8 DEF FieldCursorSet
<1> QED BY <1>4, <1>5, <1>9 DEF b

(* The cursors, one behind each field.                                     *)
LEMMA FieldCursorsAre ==
  ASSUME NEW fs \in Seq(ClassFields)
  PROVE  /\ FieldCursors(fs)[0] = CursorStart
         /\ \A k \in 0 .. Len(fs) : FieldCursors(fs)[k] \in FieldCursorSet
         /\ \A k \in 1 .. Len(fs) : FieldCursors(fs)[k] = Behind(FieldCursors(fs)[k - 1], fs[k])
<1> DEFINE n == Len(fs)
           step == [k \in 1 .. n |-> [c \in FieldCursorSet |-> Behind(c, fs[k])]]
           Body(g) == [k \in 0 .. n |-> IF k = 0 THEN CursorStart ELSE Behind(g[k - 1], fs[k])]
           the == CHOOSE g : g = Body(g)
<1>1. n \in Nat /\ \A k \in 1 .. n : fs[k] \in ClassFields
  BY LenProperties, ElementOfSeq
<1>2. CursorStart \in FieldCursorSet
  BY DEF CursorStart, FieldCursorSet
<1>3. \A k \in 1 .. n : \A c \in FieldCursorSet : Behind(c, fs[k]) \in FieldCursorSet
  BY <1>1, BehindIs
<1>4. step \in [1 .. n -> [FieldCursorSet -> FieldCursorSet]]
  BY <1>3
<1>5. \A k \in 1 .. n : \A c \in FieldCursorSet : step[k][c] = Behind(c, fs[k])
  OBVIOUS
<1>6. \A g : \A k \in 0 .. n :
        Body(g)[k] = IF k = 0 THEN CursorStart ELSE Behind(g[k - 1], fs[k])
  OBVIOUS
<1>7. \A g : Body(g) = [k \in 0 .. n |-> Body(g)[k]]
  OBVIOUS
<1>8. FieldCursors(fs) = the
  BY Zenon DEF FieldCursors
<1> HIDE DEF step, Body, n
<1>9. PICK f \in [0 .. n -> FieldCursorSet] : IsIteration(f, n, CursorStart, step)
  <2>1. n \in Nat
    BY <1>1
  <2> QED BY ONLY <1>2, <1>4, <2>1, Iterated, Zenon
<1>10. f = Body(f)
  <2>1. ASSUME NEW k \in 0 .. n PROVE f[k] = Body(f)[k]
    <3>1. CASE k = 0
      BY <1>6, <1>9, <3>1 DEF IsIteration
    <3>2. CASE k # 0
      <4>1. k \in 1 .. n /\ k - 1 \in 0 .. n
        BY <1>1, <3>2
      <4>2. f[k] = Behind(f[k - 1], fs[k])
        BY <1>5, <1>9, <4>1 DEF IsIteration
      <4> QED BY <1>6, <3>2, <4>2
    <3> QED BY <3>1, <3>2
  <2>2. f = [k \in 0 .. n |-> f[k]]
    BY <1>9
  <2> QED BY <1>7, <2>1, <2>2
<1>11. the = Body(the)
  BY <1>10
<1> HIDE DEF the
<1>12. the[0] = CursorStart
  BY <1>1, <1>6, <1>11
<1>13. \A k \in 1 .. n : the[k] = Behind(the[k - 1], fs[k])
  <2>1. \A k \in 1 .. n : k \in 0 .. n /\ k # 0
    BY <1>1
  <2> QED BY <1>6, <1>11, <2>1
<1>14. \A k \in 0 .. n : the[k] \in FieldCursorSet
  <2> DEFINE S == {k \in 0 .. n : the[k] \in FieldCursorSet}
  <2>1. 0 \in S
    BY <1>1, <1>2, <1>12
  <2>2. ASSUME NEW k \in 1 .. n, k - 1 \in S PROVE k \in S
    BY <1>1, <1>3, <1>13, <2>2
  <2> HIDE DEF S
  <2>3. \A k \in 0 .. n : k \in S
    BY <1>1, <2>1, <2>2, UpTo
  <2> QED BY <2>3 DEF S
<1> QED BY <1>8, <1>12, <1>13, <1>14 DEF n


(* What the cursor behind a field depends on.                              *)
LEMMA BehindSame ==
  ASSUME NEW c, NEW f, NEW g,
         g.type = f.type, g.offset = f.offset, g.length = f.length, g.position = f.position
  PROVE  /\ OffsetAt(c, g) = OffsetAt(c, f) /\ PositionAt(c, g) = PositionAt(c, f)
         /\ Behind(c, g) = Behind(c, f)
<1>1. (IsBitField(g) <=> IsBitField(f)) /\ (IsAutomaticLayout(g) <=> IsAutomaticLayout(f))
  BY DEF IsBitField, IsAutomaticLayout
<1>2. Left(c, g) = Left(c, f)
  BY <1>1 DEF Left, Leaves
<1>3. Arrived(c, g) = Arrived(c, f)
  BY <1>1, <1>2 DEF Arrived, IsFull
<1>4. OffsetAt(c, g) = OffsetAt(c, f) /\ PositionAt(c, g) = PositionAt(c, f)
  BY <1>1, <1>3 DEF OffsetAt, PositionAt
<1>5. IsBitField(g) = IsBitField(f)
  BY DEF IsBitField
<1> QED BY <1>3, <1>4, <1>5 DEF Behind

(* The cursors are the same behind fields that move them alike.            *)
LEMMA CursorsSame ==
  ASSUME NEW fs \in Seq(ClassFields), NEW gs \in Seq(ClassFields), Len(gs) = Len(fs),
         \A k \in 1 .. Len(fs) :
           Behind(FieldCursors(fs)[k - 1], gs[k]) = Behind(FieldCursors(fs)[k - 1], fs[k])
  PROVE  \A k \in 0 .. Len(fs) : FieldCursors(gs)[k] = FieldCursors(fs)[k]
<1> DEFINE n == Len(fs)
           S == {k \in 0 .. n : FieldCursors(gs)[k] = FieldCursors(fs)[k]}
<1>1. n \in Nat
  BY LenProperties
<1>2. 0 \in S
  BY <1>1, FieldCursorsAre
<1>3. ASSUME NEW k \in 1 .. n, k - 1 \in S PROVE k \in S
  <2>1. FieldCursors(gs)[k] = Behind(FieldCursors(gs)[k - 1], gs[k])
    BY FieldCursorsAre
  <2>2. FieldCursors(fs)[k] = Behind(FieldCursors(fs)[k - 1], fs[k])
    BY FieldCursorsAre
  <2> QED BY <1>1, <1>3, <2>1, <2>2
<1> HIDE DEF S
<1>4. \A k \in 0 .. n : k \in S
  BY <1>1, <1>2, <1>3, UpTo
<1> QED BY <1>4 DEF S

(* A field where the layout puts it.                                       *)
LEMMA PlacedIs ==
  ASSUME NEW c \in FieldCursorSet, NEW f \in ClassFields
  PROVE  LET p == Placed(c, f)
         IN  /\ p \in ClassFields /\ p.actualOffset \in Nat
             /\ p.type = f.type /\ p.offset = f.offset /\ p.length = f.length
             /\ p.position = f.position /\ p.value = f.value
             /\ (IsAutomaticLayout(f) => p.actualOffset = OffsetAt(c, f))
             /\ (IsAutomaticLayout(f) /\ IsBitField(f) /\ f.position = -2
                   => p.actualPosition = PositionAt(c, f))
             /\ Behind(c, p) = Behind(c, f) /\ Placed(c, p) = p
<1> DEFINE p == Placed(c, f)
           offset == IF IsAutomaticLayout(f) THEN OffsetAt(c, f) ELSE f.actualOffset
           position == IF IsAutomaticLayout(f) /\ IsBitField(f) /\ f.position = -2
                       THEN PositionAt(c, f) ELSE f.actualPosition
<1>1. /\ f \in FieldRecords /\ f.type \in FieldTypes
      /\ f.offset \in Nat \cup {-2} /\ f.length \in Nat
      /\ (f.offset # -2 => f.actualOffset \in Nat)
      /\ f.position \in Nat \cup {-1, -2} /\ f.actualPosition \in Nat \cup {-1, -2}
      /\ f.value \in [vt : OrdinalTypes \cup {Bool}, n : Int] /\ InRange(f.value)
  BY ClassFieldsAre
<1>2. OffsetAt(c, f) \in Nat /\ PositionAt(c, f) \in Int /\ PositionAt(c, f) >= -2
  BY BehindIs
<1>3. p = [f EXCEPT !.actualOffset = offset, !.actualPosition = position]
  BY <1>1 DEF Placed, AutomaticAppendLayout, FieldRecords
<1>4. f = [type |-> f.type, offset |-> f.offset, actualOffset |-> f.actualOffset,
           length |-> f.length, position |-> f.position, actualPosition |-> f.actualPosition,
           value |-> f.value]
  BY <1>1 DEF FieldRecords
<1>5. offset \in Nat
  BY <1>1, <1>2 DEF IsAutomaticLayout, AutomaticAppendLayout
<1>6. position \in Nat \cup {-1, -2}
  BY <1>1, <1>2
<1> HIDE DEF p
<1>7. /\ p = [type |-> f.type, offset |-> f.offset, actualOffset |-> offset,
              length |-> f.length, position |-> f.position, actualPosition |-> position,
              value |-> f.value]
  <2> HIDE DEF offset, position
  <2> QED BY <1>3, <1>4
<1>8. /\ p.type = f.type /\ p.offset = f.offset /\ p.length = f.length
      /\ p.position = f.position /\ p.value = f.value
      /\ p.actualOffset = offset /\ p.actualPosition = position
  <2> HIDE DEF offset, position
  <2> QED BY <1>7
<1>9. p \in ClassFields
  <2> HIDE DEF offset, position
  <2>1. p \in FieldRecords
    BY <1>1, <1>5, <1>6, <1>7 DEF FieldRecords
  <2> QED BY <1>1, <1>5, <1>8, <2>1 DEF ClassFields
<1>10. /\ OffsetAt(c, p) = OffsetAt(c, f) /\ PositionAt(c, p) = PositionAt(c, f)
       /\ Behind(c, p) = Behind(c, f)
  BY <1>8, BehindSame
<1>11. Placed(c, p) = p
  <2>1. (IsBitField(p) <=> IsBitField(f)) /\ (IsAutomaticLayout(p) <=> IsAutomaticLayout(f))
    BY <1>8 DEF IsBitField, IsAutomaticLayout
  <2>2. Placed(c, p) = [p EXCEPT !.actualOffset = p.actualOffset,
                                 !.actualPosition = p.actualPosition]
    BY <1>8, <1>10, <2>1 DEF Placed, AutomaticAppendLayout
  <2> HIDE DEF offset, position
  <2> QED BY <1>7, <2>2
<1> QED BY <1>5, <1>8, <1>9, <1>10, <1>11 DEF p

(* Fields that are laid out.                                               *)
LEMMA LaidOutIs ==
  ASSUME NEW fs \in Seq(ClassFields)
  PROVE  /\ LaidOut(fs) \in Seq(ClassFields) /\ Len(LaidOut(fs)) = Len(fs)
         /\ \A k \in 1 .. Len(fs) : LaidOut(fs)[k] = Placed(FieldCursors(fs)[k - 1], fs[k])
         /\ \A k \in 0 .. Len(fs) : FieldCursors(LaidOut(fs))[k] = FieldCursors(fs)[k]
         /\ LaidOut(LaidOut(fs)) = LaidOut(fs)
         /\ SizeOf(LaidOut(fs)) = SizeOf(fs) /\ AlignmentOf(LaidOut(fs)) = AlignmentOf(fs)
<1> DEFINE n == Len(fs)
           gs == LaidOut(fs)
<1>1. n \in Nat /\ \A k \in 1 .. n : fs[k] \in ClassFields
  BY LenProperties, ElementOfSeq
<1>2. \A k \in 1 .. n : k - 1 \in 0 .. n /\ FieldCursors(fs)[k - 1] \in FieldCursorSet
  BY <1>1, FieldCursorsAre
<1>3. \A k \in 1 .. n : gs[k] = Placed(FieldCursors(fs)[k - 1], fs[k])
  BY DEF LaidOut
<1>4. \A k \in 1 .. n : /\ gs[k] \in ClassFields
                        /\ Behind(FieldCursors(fs)[k - 1], gs[k])
                             = Behind(FieldCursors(fs)[k - 1], fs[k])
                        /\ Placed(FieldCursors(fs)[k - 1], gs[k]) = gs[k]
  BY <1>1, <1>2, <1>3, PlacedIs
<1>5. gs = [k \in 1 .. n |-> gs[k]]
  BY DEF LaidOut
<1> HIDE DEF gs
<1>6. gs \in Seq(ClassFields) /\ Len(gs) = n
  <2>1. gs \in [1 .. n -> ClassFields]
    BY <1>4, <1>5
  <2> QED BY <1>1, <2>1
<1>7. \A k \in 0 .. n : FieldCursors(gs)[k] = FieldCursors(fs)[k]
  <2>1. Len(gs) = Len(fs) /\ \A k \in 1 .. Len(fs) :
           Behind(FieldCursors(fs)[k - 1], gs[k]) = Behind(FieldCursors(fs)[k - 1], fs[k])
    BY <1>4, <1>6
  <2> QED BY <1>6, <2>1, CursorsSame
<1>8. LaidOut(gs) = gs
  <2>1. LaidOut(gs) = [k \in 1 .. n |-> Placed(FieldCursors(gs)[k - 1], gs[k])]
    BY <1>6 DEF LaidOut
  <2>2. \A k \in 1 .. n : Placed(FieldCursors(gs)[k - 1], gs[k]) = gs[k]
    BY <1>2, <1>4, <1>7
  <2> QED BY <1>5, <2>1, <2>2
<1>9. SizeOf(gs) = SizeOf(fs) /\ AlignmentOf(gs) = AlignmentOf(fs)
  <2>1. FieldCursors(gs)[Len(gs)] = FieldCursors(fs)[Len(fs)]
    BY <1>1, <1>6, <1>7
  <2> QED BY <2>1 DEF SizeOf, AlignmentOf
<1> QED BY <1>3, <1>6, <1>7, <1>8, <1>9 DEF gs


(* Where fields that are laid out are.                                     *)
LEMMA FieldIs ==
  ASSUME NEW fs \in Seq(ClassFields), LaidOut(fs) = fs, NEW k \in 1 .. Len(fs)
  PROVE  LET c == FieldCursors(fs)[k - 1]
             f == fs[k]
         IN  /\ f \in ClassFields /\ c \in FieldCursorSet /\ FieldCursors(fs)[k] = Behind(c, f)
             /\ Placed(c, f) = f
             /\ Offset(f) = OffsetAt(c, f) /\ Offset(f) \in Nat
             /\ (IsAutomaticLayout(f) => f.actualOffset = OffsetAt(c, f))
             /\ (IsAutomaticLayout(f) /\ IsBitField(f) /\ f.position = -2
                   => f.actualPosition = PositionAt(c, f))
             /\ (IsBitField(f) /\ IsWhole(f) => BitPosition(f) = PositionAt(c, f))
<1> DEFINE c == FieldCursors(fs)[k - 1]
           f == fs[k]
<1>1. f \in ClassFields /\ Len(fs) \in Nat
  BY LenProperties, ElementOfSeq
<1>2. c \in FieldCursorSet /\ FieldCursors(fs)[k] = Behind(c, f)
  BY <1>1, FieldCursorsAre
<1>3. Placed(c, f) = f
  BY LaidOutIs
<1> HIDE DEF c, f
<1>4. /\ (IsAutomaticLayout(f) => f.actualOffset = OffsetAt(c, f))
      /\ (IsAutomaticLayout(f) /\ IsBitField(f) /\ f.position = -2
            => f.actualPosition = PositionAt(c, f))
  <2>1. /\ (IsAutomaticLayout(f) => Placed(c, f).actualOffset = OffsetAt(c, f))
        /\ (IsAutomaticLayout(f) /\ IsBitField(f) /\ f.position = -2
              => Placed(c, f).actualPosition = PositionAt(c, f))
    BY <1>1, <1>2, PlacedIs
  <2> QED BY <1>3, <2>1
<1>5. /\ OffsetAt(c, f) \in Nat
      /\ (~IsAutomaticLayout(f) => OffsetAt(c, f) = f.offset /\ PositionAt(c, f) = f.position)
  BY <1>1, <1>2, BehindIs
<1>6. Offset(f) = OffsetAt(c, f)
  BY <1>4, <1>5 DEF Offset
<1>7. f.type.size \in Nat /\ f.length \in Nat
  BY <1>1, ClassFieldsAre
<1>8. ASSUME IsBitField(f), IsWhole(f) PROVE BitPosition(f) = PositionAt(c, f)
  <2>1. CASE IsAutomaticLayout(f)
    BY <1>4, <1>8, <2>1 DEF IsWhole, BitPosition, AutomaticAppendLayout
  <2>2. CASE ~IsAutomaticLayout(f)
    <3>1. f.position \in 0 .. 8 * f.type.size - f.length
      BY <1>8, <2>2 DEF IsWhole
    <3>2. f.position # -2
      BY <1>7, <3>1
    <3> QED BY <1>5, <2>2, <3>2 DEF BitPosition, AutomaticAppendLayout
  <2> QED BY <2>1, <2>2
<1> QED BY <1>1, <1>2, <1>3, <1>4, <1>5, <1>6, <1>8 DEF c, f

(* No bit is used of a unit that is not one of bit fields.                 *)
LEMMA NoBits ==
  ASSUME NEW fs \in Seq(ClassFields)
  PROVE  \A k \in 0 .. Len(fs) : ~FieldCursors(fs)[k].bit => FieldCursors(fs)[k].bits = 0
<1> DEFINE n == Len(fs)
           cur(k) == FieldCursors(fs)[k]
           S == {k \in 0 .. n : ~cur(k).bit => cur(k).bits = 0}
<1>1. n \in Nat /\ \A k \in 1 .. n : fs[k] \in ClassFields
  BY LenProperties, ElementOfSeq
<1>2. 0 \in S
  BY <1>1, FieldCursorsAre DEF CursorStart
<1>3. ASSUME NEW k \in 1 .. n, k - 1 \in S PROVE k \in S
  <2> DEFINE c == cur(k - 1)
             f == fs[k]
  <2>1. c \in FieldCursorSet /\ f \in ClassFields /\ cur(k) = Behind(c, f) /\ k \in 0 .. n
    BY <1>1, FieldCursorsAre
  <2>2. ~c.bit => c.bits = 0
    BY <1>3
  <2> HIDE DEF cur
  <2> HIDE DEF c, f
  <2>3. /\ cur(k).bit = IsBitField(f) /\ (~IsBitField(f) => cur(k).bits = Arrived(c, f).bits)
    <3>1. /\ Behind(c, f).bit = IsBitField(f)
          /\ (~IsBitField(f) => Behind(c, f).bits = Arrived(c, f).bits)
      BY <2>1, BehindIs
    <3> QED BY <2>1, <3>1
  <2>4. Arrived(c, f).bits = IF Leaves(c, f) \/ IsFull(Left(c, f), f) THEN 0 ELSE c.bits
    BY <2>1, ArrivedIs
  <2>5. ~IsBitField(f) => Arrived(c, f).bits = 0
    <3>1. ~IsBitField(f) /\ c.bit => Leaves(c, f)
      BY DEF Leaves
    <3> QED BY <2>2, <2>4, <3>1
  <2> QED BY <2>1, <2>3, <2>5
<1> HIDE DEF S
<1>4. \A k \in 0 .. n : k \in S
  BY <1>1, <1>2, <1>3, UpTo
<1> QED BY <1>4 DEF S

(* The bits that the layout has a bit field take are in its unit.          *)
LEMMA BitsFit ==
  ASSUME NEW c \in FieldCursorSet, NEW f \in ClassFields, IsBitField(f), IsWhole(f)
  PROVE  /\ PositionAt(c, f) + f.length >= 0
         /\ PositionAt(c, f) + f.length <= 8 * f.type.size
<1>1. /\ f.type.size \in Nat /\ f.length \in Nat /\ f.length >= 1 /\ f.length <= 8 * f.type.size
  BY ClassFieldsAre DEF IsBitField, IsWhole
<1>2. CASE IsAutomaticLayout(f)
  <2>1. PositionAt(c, f) = Arrived(c, f).bits
    BY <1>2, BehindIs
  <2>2. /\ Arrived(c, f).bits \in Int /\ Arrived(c, f).bits >= -1
        /\ Arrived(c, f).bits = (IF Leaves(c, f) \/ IsFull(Left(c, f), f) THEN 0 ELSE c.bits)
        /\ Left(c, f).bits = (IF Leaves(c, f) THEN 0 ELSE c.bits)
    BY ArrivedIs
  <2>3. Arrived(c, f).bits + f.length <= 8 * f.type.size
    <3>1. CASE Leaves(c, f) \/ IsFull(Left(c, f), f)
      BY <1>1, <2>2, <3>1
    <3>2. CASE ~(Leaves(c, f) \/ IsFull(Left(c, f), f))
      <4>1. ~(Left(c, f).bits + f.length > 8 * f.type.size)
        BY <1>2, <3>2 DEF IsFull
      <4>2. Left(c, f).bits = Arrived(c, f).bits
        BY <2>2, <3>2
      <4> QED BY <1>1, <2>2, <4>1, <4>2
    <3> QED BY <3>1, <3>2
  <2> QED BY <1>1, <2>1, <2>2, <2>3
<1>3. CASE ~IsAutomaticLayout(f)
  <2>1. f.position \in 0 .. 8 * f.type.size - f.length
    BY <1>3 DEF IsWhole
  <2>2. PositionAt(c, f) = f.position
    BY <1>3, BehindIs
  <2> QED BY <1>1, <2>1, <2>2
<1> QED BY <1>2, <1>3

(* What the layout places is in its unit.                                  *)
LEMMA InUnit ==
  ASSUME NEW fs \in Seq(ClassFields), LaidOut(fs) = fs, NEW k \in 1 .. Len(fs), IsWhole(fs[k])
  PROVE  EndBit(fs[k]) \in Int /\ FirstBit(fs[k]) \in Int /\ EndBit(fs[k]) <= 8 * UnitEnd(fs[k])
         /\ FirstBit(fs[k]) <= EndBit(fs[k])
<1> DEFINE c == FieldCursors(fs)[k - 1]
           f == fs[k]
<1>1. /\ f \in ClassFields /\ c \in FieldCursorSet /\ Offset(f) \in Nat
      /\ (IsBitField(f) => BitPosition(f) = PositionAt(c, f))
  BY FieldIs
<1> HIDE DEF c, f
<1>2. f.type.size \in Nat /\ f.length \in Nat
  BY <1>1, ClassFieldsAre
<1>3. CASE IsBitField(f)
  <2>1. PositionAt(c, f) \in Int /\ PositionAt(c, f) + f.length <= 8 * f.type.size
    BY <1>1, <1>3, BitsFit, BehindIs DEF f
  <2>2. /\ FirstBit(f) = 8 * Offset(f) + BitPosition(f) /\ EndBit(f) = FirstBit(f) + f.length
        /\ UnitEnd(f) = Offset(f) + f.type.size
    BY <1>3 DEF EndBit, FirstBit, UnitEnd
  <2>3. Offset(f) \in Nat /\ BitPosition(f) \in Int /\ BitPosition(f) + f.length <= 8 * f.type.size
    BY <1>1, <1>3, <2>1
  <2>4. /\ EndBit(f) \in Int /\ FirstBit(f) \in Int /\ EndBit(f) <= 8 * UnitEnd(f)
        /\ FirstBit(f) <= EndBit(f)
    <3>1. ASSUME NEW o \in Nat, NEW b \in Int, NEW l \in Nat, NEW s \in Nat, b + l <= 8 * s
          PROVE  /\ 8 * o + b \in Int /\ 8 * o + b + l \in Int /\ 8 * o + b <= 8 * o + b + l
                 /\ 8 * o + b + l <= 8 * (o + s)
      BY <3>1
    <3> QED BY ZenonT(60), <1>2, <2>2, <2>3, <3>1
  <2> QED BY <2>4 DEF f
<1>4. CASE ~IsBitField(f)
  BY SMTT(60), <1>1, <1>2, <1>4 DEF EndBit, FirstBit, UnitEnd, f
<1> QED BY <1>3, <1>4

(* What the layout places is behind what is before it.                     *)
LEMMA IsBehind ==
  ASSUME NEW fs \in Seq(ClassFields), LaidOut(fs) = fs, NEW k \in 1 .. Len(fs), IsPlaced(fs[k])
  PROVE  LET f == fs[k] IN
         /\ Offset(f) % f.type.align = 0
         /\ k = 1 \/ IsWhole(fs[k - 1]) => FirstBit(f) >= 8 * Offset(f)
         /\ k > 1 /\ IsWhole(fs[k - 1]) => EndBit(fs[k - 1]) <= FirstBit(f)
<1> DEFINE c == FieldCursors(fs)[k - 1]
           f == fs[k]
<1>1. /\ f \in ClassFields /\ c \in FieldCursorSet /\ Offset(f) = OffsetAt(c, f)
      /\ Offset(f) \in Nat /\ (IsBitField(f) => BitPosition(f) = PositionAt(c, f))
  BY FieldIs DEF IsPlaced
<1>2. /\ Arrived(c, f).offset <= Offset(f) /\ Offset(f) % f.type.align = 0
      /\ PositionAt(c, f) = Arrived(c, f).bits
  <2>1. IsAutomaticLayout(f)
    BY DEF IsPlaced
  <2> HIDE DEF c, f
  <2>2. /\ Arrived(c, f).offset <= OffsetAt(c, f) /\ OffsetAt(c, f) % f.type.align = 0
        /\ PositionAt(c, f) = Arrived(c, f).bits
    <3>1. c \in FieldCursorSet /\ f \in ClassFields
      BY <1>1
    <3> QED BY ONLY <2>1, <3>1, BehindIs
  <2> QED BY <1>1, <2>2
<1>3. f.type.size \in Nat /\ f.length \in Nat
  BY <1>1, ClassFieldsAre
<1>4. /\ Arrived(c, f).offset
           = (IF Leaves(c, f) THEN c.offset + c.type.size ELSE c.offset)
               + (IF IsFull(Left(c, f), f) THEN f.type.size ELSE 0)
      /\ Arrived(c, f).bits = (IF Leaves(c, f) \/ IsFull(Left(c, f), f) THEN 0 ELSE c.bits)
      /\ Arrived(c, f).bits \in Int /\ Arrived(c, f).offset \in Nat
  BY <1>1, ArrivedIs
<1>5. Len(fs) \in Nat /\ k - 1 \in 0 .. Len(fs)
  BY LenProperties
<1>6. ~c.bit => c.bits = 0
  BY <1>5, NoBits
<1>7. c.offset \in Nat /\ c.bits \in Int /\ c.type.size \in Nat
  BY <1>1, FieldTypesAre DEF FieldCursorSet
<1>8. FirstBit(f) = 8 * Offset(f) + (IF IsBitField(f) THEN Arrived(c, f).bits ELSE 0)
  BY <1>1, <1>2 DEF FirstBit
<1>9. ASSUME k = 1 PROVE c.bits = 0
  BY <1>9, FieldCursorsAre DEF CursorStart
<1>10. ASSUME k > 1, IsWhole(fs[k - 1])
       PROVE  /\ c.bits >= 0
              /\ EndBit(fs[k - 1]) <= FirstBit(f)
  <2> DEFINE d == FieldCursors(fs)[k - 2]
             e == fs[k - 1]
  <2>1. k - 1 \in 1 .. Len(fs) /\ (k - 1) - 1 = k - 2
    BY <1>5, <1>10
  <2>2. /\ e \in ClassFields /\ d \in FieldCursorSet /\ c = Behind(d, e)
        /\ Offset(e) = OffsetAt(d, e) /\ Offset(e) \in Nat
        /\ (IsBitField(e) => BitPosition(e) = PositionAt(d, e))
    BY <1>10, <2>1, FieldIs
  <2>3. e.type.size \in Nat /\ e.length \in Nat
    BY <2>2, ClassFieldsAre
  <2>4. EndBit(e) <= 8 * UnitEnd(e)
    BY <1>10, <2>1, InUnit
  <2>5. (IsBitField(e) => /\ PositionAt(d, e) \in Int
                          /\ PositionAt(d, e) + e.length >= 0
                          /\ PositionAt(d, e) + e.length <= 8 * e.type.size)
    BY <1>10, <2>2, BitsFit, BehindIs
  <2> HIDE DEF c, d, e, f
  <2>6. /\ (c.bit <=> IsBitField(e)) /\ c.type = e.type
        /\ (IsBitField(e) => c.offset = Offset(e) /\ c.bits = PositionAt(d, e) + e.length)
        /\ (~IsBitField(e) => c.offset = Offset(e) + e.type.size)
    <3>1. /\ Behind(d, e).bit = IsBitField(e) /\ Behind(d, e).type = e.type
          /\ (IsBitField(e) => Behind(d, e).offset = OffsetAt(d, e)
                               /\ Behind(d, e).bits = PositionAt(d, e) + e.length)
          /\ (~IsBitField(e) => Behind(d, e).offset = OffsetAt(d, e) + e.type.size)
      BY <2>2, BehindIs
    <3>2. c = Behind(d, e) /\ Offset(e) = OffsetAt(d, e)
      BY <2>2
    <3> QED BY ONLY <3>1, <3>2
  <2>7. c.bits >= 0
    <3>1. CASE IsBitField(e)
      BY <2>3, <2>5, <2>6, <3>1
    <3>2. CASE ~IsBitField(e)
      BY <1>6, <2>6, <3>2
    <3> QED BY <3>1, <3>2
  <2>8. CASE ~IsBitField(e)
    <3>1. EndBit(e) = 8 * c.offset
      BY <2>2, <2>3, <2>6, <2>8 DEF EndBit, FirstBit
    <3>2. c.offset <= Offset(f)
      BY SMTT(60), <1>1, <1>2, <1>3, <1>4, <1>7
    <3>3. FirstBit(f) >= 8 * Offset(f)
      BY <1>1, <1>4, <1>7, <1>8, <2>7
    <3>4. 8 * c.offset <= 8 * Offset(f) /\ FirstBit(f) \in Int
      BY SMTT(60), <1>1, <1>4, <1>7, <1>8, <3>2
    <3> QED BY <1>1, <1>7, <2>7, <3>1, <3>3, <3>4 DEF e
  <2>9. CASE IsBitField(e) /\ (Leaves(c, f) \/ IsFull(Left(c, f), f))
    <3>1. c.offset + c.type.size <= Arrived(c, f).offset
      <4>1. Leaves(c, f) \/ c.type = f.type
        <5>1. IsFull(Left(c, f), f) => IsBitField(f)
          BY DEF IsFull
        <5> QED BY <2>6, <2>9, <5>1 DEF Leaves
      <4> QED BY SMTT(60), <1>3, <1>4, <1>7, <2>9, <4>1
    <3>2. UnitEnd(e) <= Offset(f) /\ UnitEnd(e) \in Nat
      BY SMTT(60), <1>1, <1>2, <1>4, <1>7, <2>2, <2>3, <2>6, <2>9, <3>1 DEF UnitEnd
    <3>3. FirstBit(f) = 8 * Offset(f)
      BY <1>1, <1>4, <1>8, <2>9
    <3>4. EndBit(e) \in Int
      BY <2>2, <2>3, <2>5, <2>9 DEF EndBit, FirstBit
    <3> QED BY <1>1, <2>4, <2>7, <3>2, <3>3, <3>4 DEF e
  <2>10. CASE IsBitField(e) /\ ~(Leaves(c, f) \/ IsFull(Left(c, f), f))
    <3>1. IsBitField(f)
      BY <2>6, <2>10 DEF Leaves
    <3>2. FirstBit(f) = 8 * Offset(f) + c.bits /\ c.offset <= Offset(f)
      BY <1>1, <1>2, <1>3, <1>4, <1>7, <1>8, <2>10, <3>1
    <3>3. EndBit(e) = 8 * c.offset + c.bits
      BY <2>2, <2>3, <2>5, <2>6, <2>10 DEF EndBit, FirstBit
    <3> QED BY <1>1, <1>7, <2>7, <3>2, <3>3 DEF e
  <2> QED BY <2>8, <2>9, <2>10
<1>11. ASSUME k = 1 \/ IsWhole(fs[k - 1]) PROVE FirstBit(f) >= 8 * Offset(f)
  <2>1. c.bits >= 0
    <3>1. CASE k = 1
      BY <1>7, <1>9, <3>1
    <3>2. CASE k # 1
      BY <1>5, <1>10, <1>11, <3>2
    <3> QED BY <3>1, <3>2
  <2> HIDE DEF c, f
  <2> QED BY <1>1, <1>4, <1>7, <1>8, <2>1
<1> QED BY <1>2, <1>10, <1>11


(* When the layout places every field, no two overlap.                     *)
LEMMA NoTwoOverlap ==
  ASSUME NEW fs \in Seq(ClassFields), LaidOut(fs) = fs, \A k \in 1 .. Len(fs) : IsPlaced(fs[k])
  PROVE  \A i, j \in 1 .. Len(fs) : i < j => EndBit(fs[i]) <= FirstBit(fs[j])
<1> DEFINE n == Len(fs)
<1>1. n \in Nat
  BY LenProperties
<1>2. \A k \in 1 .. n : EndBit(fs[k]) \in Int /\ FirstBit(fs[k]) \in Int
                        /\ FirstBit(fs[k]) <= EndBit(fs[k])
  BY InUnit DEF IsPlaced
<1>3. \A k \in 1 .. n : k > 1 => EndBit(fs[k - 1]) <= FirstBit(fs[k])
  <2>1. \A k \in 1 .. n : k > 1 => k - 1 \in 1 .. n /\ IsWhole(fs[k - 1])
    BY <1>1 DEF IsPlaced
  <2> QED BY <2>1, IsBehind
<1>4. SUFFICES ASSUME NEW i \in 1 .. n
               PROVE  \A j \in 1 .. n : i < j => EndBit(fs[i]) <= FirstBit(fs[j])
  OBVIOUS
<1> DEFINE S == {j \in 0 .. n : i < j => EndBit(fs[i]) <= FirstBit(fs[j])}
<1>5. 0 \in S
  BY <1>1
<1>6. ASSUME NEW j \in 1 .. n, j - 1 \in S PROVE j \in S
  <2>1. SUFFICES ASSUME i < j PROVE EndBit(fs[i]) <= FirstBit(fs[j])
    BY <1>1
  <2>2. j > 1 /\ j - 1 \in 1 .. n /\ EndBit(fs[j - 1]) <= FirstBit(fs[j])
    BY <1>1, <1>3, <2>1
  <2>3. CASE i = j - 1
    BY <2>2, <2>3
  <2>4. CASE i # j - 1
    <3>1. i < j - 1
      BY <1>1, <2>1, <2>4
    <3>2. EndBit(fs[i]) <= FirstBit(fs[j - 1])
      BY <1>6, <3>1
    <3>3. /\ EndBit(fs[i]) \in Int /\ FirstBit(fs[j - 1]) \in Int /\ EndBit(fs[j - 1]) \in Int
          /\ FirstBit(fs[j]) \in Int /\ FirstBit(fs[j - 1]) <= EndBit(fs[j - 1])
      BY <1>2, <2>2
    <3> QED BY <2>2, <3>2, <3>3
  <2> QED BY <2>3, <2>4
<1> HIDE DEF S
<1>7. \A j \in 0 .. n : j \in S
  BY <1>1, <1>5, <1>6, UpTo
<1>8. \A j \in 1 .. n : j \in S
  BY <1>1, <1>7
<1> QED BY <1>8 DEF S

(* How far the units reach that were come by.                              *)
Reach(c) == IF c.bit THEN Higher(c.size, c.offset + c.type.size) ELSE c.size

LEMMA ReachGrows ==
  ASSUME NEW c \in FieldCursorSet, NEW f \in ClassFields, IsAutomaticLayout(f)
  PROVE  /\ Reach(Behind(c, f)) \in Nat /\ Reach(c) \in Nat /\ Reach(c) <= Reach(Behind(c, f))
         /\ OffsetAt(c, f) + f.type.size <= Reach(Behind(c, f))
<1> DEFINE cur == OffsetAt(c, f)
           b == Behind(c, f)
<1>1. /\ c.offset \in Nat /\ c.bits \in Int /\ c.size \in Nat /\ c.type.size \in Nat
      /\ c.bit \in BOOLEAN
  BY FieldTypesAre DEF FieldCursorSet
<1>2. f.type.size \in Nat
  BY ClassFieldsAre
<1>3. /\ cur \in Nat /\ Arrived(c, f).offset <= cur
      /\ b.bit = IsBitField(f) /\ b.type = f.type
      /\ (IsBitField(f) => b.offset = cur /\ b.size = c.size)
      /\ (~IsBitField(f) => b.offset = cur + f.type.size
                            /\ b.size = Higher(c.size, cur + f.type.size))
  BY BehindIs
<1>4. /\ Arrived(c, f).offset \in Nat
      /\ Arrived(c, f).offset
           = (IF Leaves(c, f) THEN c.offset + c.type.size ELSE c.offset)
               + (IF IsFull(Left(c, f), f) THEN f.type.size ELSE 0)
  BY ArrivedIs
<1>5. c.bit => c.offset + c.type.size <= cur + (IF IsBitField(f) THEN f.type.size ELSE 0)
  <2>1. SUFFICES ASSUME c.bit PROVE c.offset + c.type.size
                                      <= cur + (IF IsBitField(f) THEN f.type.size ELSE 0)
    OBVIOUS
  <2>2. CASE Leaves(c, f)
    <3>1. c.offset + c.type.size <= Arrived(c, f).offset
      BY <1>1, <1>2, <1>4, <2>2
    <3> QED BY <1>1, <1>2, <1>3, <1>4, <3>1
  <2>3. CASE ~Leaves(c, f)
    <3>1. IsBitField(f) /\ c.type = f.type
      BY <2>1, <2>3 DEF Leaves
    <3>2. c.offset <= Arrived(c, f).offset
      BY <1>1, <1>2, <1>4, <2>3
    <3> QED BY <1>1, <1>2, <1>3, <1>4, <3>1, <3>2
  <2> QED BY <2>2, <2>3
<1> HIDE DEF cur, b
<1>6. CASE IsBitField(f)
  <2>1. Reach(b) = Higher(c.size, cur + f.type.size)
    BY <1>3, <1>6 DEF Reach
  <2> QED BY <1>1, <1>2, <1>3, <1>5, <1>6, <2>1 DEF Reach, Higher, cur, b
<1>7. CASE ~IsBitField(f)
  <2>1. Reach(b) = Higher(c.size, cur + f.type.size)
    BY <1>3, <1>7 DEF Reach
  <2> QED BY <1>1, <1>2, <1>3, <1>5, <1>7, <2>1 DEF Reach, Higher, cur, b
<1> QED BY <1>6, <1>7

(* The size of a class.                                                    *)
LEMMA SizeIs ==
  ASSUME NEW fs \in Seq(ClassFields)
  PROVE  LET end == FieldCursors(fs)[Len(fs)]
         IN  /\ SizeOf(fs) \in Nat /\ AlignmentOf(fs) \in Nat \ {0}
             /\ Reach(end) \in Nat /\ Reach(end) <= SizeOf(fs)
             /\ SizeOf(fs) % AlignmentOf(fs) = 0
<1> DEFINE end == FieldCursors(fs)[Len(fs)]
<1>1. end \in FieldCursorSet
  <2>1. Len(fs) \in 0 .. Len(fs)
    BY LenProperties
  <2> QED BY <2>1, FieldCursorsAre
<1>2. SizeOf(fs) = Aligned(Reach(end), end.align) /\ AlignmentOf(fs) = end.align
  BY DEF SizeOf, AlignmentOf, Reach
<1> HIDE DEF end
<1>3. end.align \in Nat \ {0} /\ Reach(end) \in Nat
  <2>1. /\ end.offset \in Nat /\ end.size \in Nat /\ end.type.size \in Nat
        /\ end.align \in Nat \ {0}
    BY <1>1, FieldTypesAre DEF FieldCursorSet
  <2> QED BY <2>1 DEF Reach, Higher
<1> QED BY ZenonT(60), <1>2, <1>3, AlignedIs DEF end

(* When the layout places every field, the class holds every unit.         *)
LEMMA UnitsHeld ==
  ASSUME NEW fs \in Seq(ClassFields), LaidOut(fs) = fs, \A k \in 1 .. Len(fs) : IsPlaced(fs[k])
  PROVE  \A k \in 1 .. Len(fs) : UnitEnd(fs[k]) <= SizeOf(fs)
<1> DEFINE n == Len(fs)
           cur(k) == FieldCursors(fs)[k]
<1>1. n \in Nat
  BY LenProperties
<1>2. \A k \in 1 .. n : /\ Reach(cur(k)) \in Nat /\ Reach(cur(k - 1)) \in Nat
                        /\ Reach(cur(k - 1)) <= Reach(cur(k))
                        /\ UnitEnd(fs[k]) \in Nat /\ UnitEnd(fs[k]) <= Reach(cur(k))
  <2>1. SUFFICES ASSUME NEW k \in 1 .. n
                 PROVE  /\ Reach(cur(k)) \in Nat /\ Reach(cur(k - 1)) \in Nat
                        /\ Reach(cur(k - 1)) <= Reach(cur(k))
                        /\ UnitEnd(fs[k]) \in Nat /\ UnitEnd(fs[k]) <= Reach(cur(k))
    OBVIOUS
  <2>2. /\ fs[k] \in ClassFields /\ cur(k - 1) \in FieldCursorSet
        /\ cur(k) = Behind(cur(k - 1), fs[k])
        /\ Offset(fs[k]) = OffsetAt(cur(k - 1), fs[k]) /\ Offset(fs[k]) \in Nat
    BY FieldIs
  <2>3. IsAutomaticLayout(fs[k]) /\ fs[k].type.size \in Nat
    BY <2>2, ClassFieldsAre DEF IsPlaced
  <2> HIDE DEF cur
  <2>4. LET b == Behind(cur(k - 1), fs[k]) IN
        /\ Reach(b) \in Nat /\ Reach(cur(k - 1)) \in Nat /\ Reach(cur(k - 1)) <= Reach(b)
        /\ OffsetAt(cur(k - 1), fs[k]) + fs[k].type.size <= Reach(b)
    BY <2>2, <2>3, ReachGrows
  <2> QED BY <2>2, <2>3, <2>4 DEF UnitEnd
<1>3. SUFFICES ASSUME NEW i \in 1 .. n PROVE UnitEnd(fs[i]) <= SizeOf(fs)
  OBVIOUS
<1> DEFINE S == {k \in 0 .. n : i <= k => UnitEnd(fs[i]) <= Reach(cur(k))}
<1>4. 0 \in S
  BY <1>1
<1>5. ASSUME NEW k \in 1 .. n, k - 1 \in S PROVE k \in S
  <2> HIDE DEF cur
  <2>1. CASE i = k
    BY <1>1, <1>2, <2>1
  <2>2. CASE i # k
    BY <1>1, <1>2, <1>5, <2>2
  <2> QED BY <2>1, <2>2
<1> HIDE DEF S
<1>6. \A k \in 0 .. n : k \in S
  BY <1>1, <1>4, <1>5, UpTo
<1>7. UnitEnd(fs[i]) <= Reach(cur(n))
  BY <1>1, <1>6 DEF S
<1>8. SizeOf(fs) \in Nat /\ Reach(cur(n)) \in Nat /\ Reach(cur(n)) <= SizeOf(fs)
  BY SizeIs
<1> HIDE DEF cur
<1> QED BY <1>2, <1>7, <1>8

(* A field that is taken from the layout moves the cursor as before.       *)
LEMMA Freezes ==
  ASSUME NEW fs \in Seq(ClassFields), LaidOut(fs) = fs, NEW k \in 1 .. Len(fs), IsPlaced(fs[k])
  PROVE  LET c == FieldCursors(fs)[k - 1]
             f == fs[k]
             g == WithOffset(f, f.actualOffset)
         IN  /\ g \in ClassFields /\ Behind(c, g) = Behind(c, f) /\ Placed(c, g) = g
             /\ Offset(g) = Offset(f) /\ FirstBit(g) = FirstBit(f)
<1> DEFINE c == FieldCursors(fs)[k - 1]
           f == fs[k]
           g == WithOffset(f, f.actualOffset)
<1>1. /\ f \in ClassFields /\ c \in FieldCursorSet
      /\ OffsetAt(c, f) \in Nat /\ f.actualOffset = OffsetAt(c, f)
      /\ (IsBitField(f) => f.position = -2 /\ f.actualPosition = PositionAt(c, f))
      /\ IsAutomaticLayout(f)
  BY FieldIs DEF IsPlaced, IsWhole, AutomaticAppendLayout
<1> HIDE DEF c, f
<1>2. /\ f \in FieldRecords /\ f.type \in FieldTypes /\ f.length \in Nat
      /\ f.position \in Nat \cup {-1, -2} /\ f.actualPosition \in Nat \cup {-1, -2}
      /\ f.actualOffset \in Nat
      /\ f.value \in [vt : OrdinalTypes \cup {Bool}, n : Int] /\ InRange(f.value)
  BY <1>1, ClassFieldsAre
<1> DEFINE position == IF IsBitField(f) THEN f.actualPosition ELSE f.position
<1>3. f = [type |-> f.type, offset |-> f.offset, actualOffset |-> f.actualOffset,
           length |-> f.length, position |-> f.position, actualPosition |-> f.actualPosition,
           value |-> f.value]
  BY <1>2 DEF FieldRecords
<1>4. f.actualOffset # -2
  BY <1>2
<1>5. g = [f EXCEPT !.offset = f.actualOffset, !.position = position]
  BY <1>1, <1>3, <1>4 DEF WithOffset, AutomaticAppendLayout, IsAutomaticLayout
<1> HIDE DEF g
<1>6. g = [type |-> f.type, offset |-> f.actualOffset, actualOffset |-> f.actualOffset,
           length |-> f.length, position |-> position, actualPosition |-> f.actualPosition,
           value |-> f.value]
  <2> HIDE DEF position
  <2> QED BY <1>3, <1>5
<1>7. position \in Nat \cup {-1, -2}
  BY <1>2
<1> HIDE DEF position
<1>8. /\ g.type = f.type /\ g.offset = f.actualOffset /\ g.actualOffset = f.actualOffset
      /\ g.length = f.length /\ g.position = position /\ g.actualPosition = f.actualPosition
      /\ g.value = f.value
  BY <1>6
<1>9. g \in ClassFields
  <2>1. g \in FieldRecords
    BY <1>2, <1>6, <1>7 DEF FieldRecords
  <2> QED BY <1>2, <1>8, <2>1 DEF ClassFields
<1>10. IsBitField(g) = IsBitField(f) /\ ~IsAutomaticLayout(g)
  BY <1>4, <1>8 DEF IsBitField, IsAutomaticLayout, AutomaticAppendLayout
<1>11. /\ OffsetAt(c, g) = OffsetAt(c, f)
       /\ (IsBitField(f) => PositionAt(c, g) = PositionAt(c, f))
  BY <1>1, <1>8, <1>10, BehindIs, <1>9 DEF position
<1>12. ~IsBitField(f) => Arrived(c, g).bits = Arrived(c, f).bits
  <2>1. ASSUME ~IsBitField(f) PROVE Arrived(c, g).bits = Arrived(c, f).bits
    <3>1. ~IsFull(Left(c, f), f) /\ ~IsFull(Left(c, g), g)
      BY <1>10, <2>1 DEF IsFull
    <3>2. Left(c, g) = Left(c, f)
      BY <1>8, <1>10 DEF Left, Leaves
    <3> QED BY <3>1, <3>2 DEF Arrived
  <2> QED BY <2>1
<1>13. Behind(c, g) = Behind(c, f)
  <2>1. CASE IsBitField(f)
    BY <1>8, <1>10, <1>11, <2>1 DEF Behind
  <2>2. CASE ~IsBitField(f)
    BY <1>8, <1>10, <1>11, <1>12, <2>2 DEF Behind
  <2> QED BY <2>1, <2>2
<1>14. Placed(c, g) = g
  <2>1. Placed(c, g) = [g EXCEPT !.actualOffset = g.actualOffset,
                                 !.actualPosition = g.actualPosition]
    BY <1>10 DEF Placed
  <2> QED BY ZenonT(60), <1>6, <1>8, <2>1
<1>15. Offset(g) = Offset(f)
  BY <1>8, <1>10, <1>1 DEF Offset
<1>16. FirstBit(g) = FirstBit(f)
  <2>1. IsBitField(f) => BitPosition(g) = BitPosition(f)
    BY <1>1, <1>8 DEF BitPosition, position, AutomaticAppendLayout
  <2> QED BY <1>10, <1>15, <2>1 DEF FirstBit
<1> QED BY <1>9, <1>13, <1>14, <1>15, <1>16 DEF c, f, g

(* A field that is taken from the layout stays, and so do the others.      *)
LEMMA FrozenStays ==
  ASSUME NEW fs \in Seq(ClassFields), LaidOut(fs) = fs, NEW k \in 1 .. Len(fs), IsPlaced(fs[k])
  PROVE  LET frozen == [fs EXCEPT ![k] = WithOffset(@, @.actualOffset)] IN
         /\ SizeOf(frozen) = SizeOf(fs)
         /\ \A i \in 1 .. Len(fs) : /\ Offset(LaidOut(frozen)[i]) = Offset(fs[i])
                                    /\ FirstBit(LaidOut(frozen)[i]) = FirstBit(fs[i])
<1> DEFINE n == Len(fs)
           g == WithOffset(fs[k], fs[k].actualOffset)
           gs == [fs EXCEPT ![k] = g]
           cur(i) == FieldCursors(fs)[i]
<1>1. n \in Nat
  BY LenProperties
<1>2. /\ g \in ClassFields /\ Behind(cur(k - 1), g) = Behind(cur(k - 1), fs[k])
      /\ Placed(cur(k - 1), g) = g /\ Offset(g) = Offset(fs[k]) /\ FirstBit(g) = FirstBit(fs[k])
  BY Freezes
<1> HIDE DEF g
<1>3. /\ gs \in Seq(ClassFields) /\ Len(gs) = n
      /\ \A i \in 1 .. n : gs[i] = IF i = k THEN g ELSE fs[i]
  BY <1>2, ExceptSeq
<1> HIDE DEF gs
<1>4. \A i \in 0 .. n : FieldCursors(gs)[i] = cur(i)
  <2>1. Len(gs) = Len(fs) /\ \A i \in 1 .. Len(fs) :
          Behind(FieldCursors(fs)[i - 1], gs[i]) = Behind(FieldCursors(fs)[i - 1], fs[i])
    BY <1>2, <1>3
  <2> QED BY <1>3, <2>1, CursorsSame
<1>5. SizeOf(gs) = SizeOf(fs)
  <2>1. FieldCursors(gs)[Len(gs)] = FieldCursors(fs)[Len(fs)]
    BY <1>1, <1>3, <1>4
  <2> QED BY <2>1 DEF SizeOf
<1>6. ASSUME NEW i \in 1 .. n
      PROVE  /\ Offset(LaidOut(gs)[i]) = Offset(fs[i])
             /\ FirstBit(LaidOut(gs)[i]) = FirstBit(fs[i])
  <2>1. LaidOut(gs)[i] = Placed(cur(i - 1), gs[i])
    <3>1. i - 1 \in 0 .. n /\ i \in 1 .. Len(gs)
      BY <1>1, <1>3
    <3> QED BY <1>3, <1>4, <3>1, LaidOutIs
  <2>2. CASE i = k
    <3>1. LaidOut(gs)[i] = g
      BY <1>2, <1>3, <2>1, <2>2
    <3> QED BY <1>2, <2>2, <3>1
  <2>3. CASE i # k
    <3>1. gs[i] = fs[i] /\ Placed(cur(i - 1), fs[i]) = fs[i]
      BY <1>3, <2>3, FieldIs
    <3> QED BY <2>1, <3>1
  <2> QED BY <2>2, <2>3
<1>7. [fs EXCEPT ![k] = WithOffset(@, @.actualOffset)] = gs
  BY <1>1, LenProperties DEF gs, g
<1> QED BY <1>5, <1>6, <1>7


(* The rest of a division.                                                 *)
LEMMA RestIs ==
  ASSUME NEW m \in Nat \ {0}, NEW q \in Int, NEW r \in 0 .. m - 1, NEW a \in Int, a = m * q + r
  PROVE  a % m = r
<1> DEFINE p == a \div m
           s == a % m
<1>1. p \in Int /\ a = m * p + s /\ s \in 0 .. m - 1
  BY Z3
<1> HIDE DEF p, s
<1> DEFINE d == q - p
<1>2. d \in Int /\ m * d = s - r
  BY <1>1, Z3
<1> HIDE DEF d
<1>3. CASE d >= 1
  <2>1. m * d >= m
    BY <1>2, <1>3, Z3
  <2> QED BY <1>1, <1>2, <2>1
<1>4. CASE d <= -1
  <2>1. m * d <= -m
    BY <1>2, <1>4, Z3
  <2> QED BY <1>1, <1>2, <2>1
<1>5. CASE d = 0
  <2>1. m * d = 0
    BY <1>5
  <2> QED BY <1>1, <1>2, <2>1 DEF s
<1> QED BY <1>2, <1>3, <1>4, <1>5

(* A rest and one more.                                                    *)
LEMMA RestAndOne ==
  ASSUME NEW m \in Nat \ {0}, NEW a \in Int
  PROVE  /\ a % m \in 0 .. m - 1 /\ (a % m) % m = a % m
         /\ ((a % m) + 1) % m = (a + 1) % m
<1> DEFINE p == a \div m
           s == a % m
<1>1. p \in Int /\ a = m * p + s /\ s \in 0 .. m - 1
  BY Z3
<1> HIDE DEF p, s
<1>2. s % m = s
  <2>1. m * 0 = 0
    OBVIOUS
  <2> QED BY <1>1, <2>1, RestIs
<1>3. CASE s + 1 < m
  <2>1. a + 1 = m * p + (s + 1) /\ s + 1 = m * 0 + (s + 1) /\ s + 1 \in 0 .. m - 1
    BY <1>1, <1>3, Z3
  <2>2. (a + 1) % m = s + 1
    <3>1. s + 1 \in 0 .. m - 1 /\ a + 1 \in Int
      BY <2>1
    <3> QED BY <1>1, <2>1, <3>1, RestIs
  <2>3. (s + 1) % m = s + 1
    <3>1. s + 1 \in 0 .. m - 1 /\ s + 1 \in Int /\ 0 \in Int
      BY <2>1
    <3> QED BY <2>1, <3>1, RestIs
  <2> QED BY <1>1, <1>2, <2>2, <2>3 DEF s
<1>4. CASE s + 1 = m
  <2>1. a + 1 = m * (p + 1) + 0 /\ s + 1 = m * 1 + 0
    BY <1>1, <1>4, Z3
  <2>2. (a + 1) % m = 0
    <3>1. p + 1 \in Int /\ a + 1 \in Int /\ 0 \in 0 .. m - 1
      BY <1>1
    <3> QED BY SMTT(60), <2>1, <3>1, RestIs
  <2>3. (s + 1) % m = 0
    <3>1. s + 1 \in Int /\ 1 \in Int /\ 0 \in 0 .. m - 1
      BY <1>1
    <3> QED BY <2>1, <3>1, RestIs
  <2> QED BY <1>1, <1>2, <2>2, <2>3 DEF s
<1>5. s + 1 < m \/ s + 1 = m
  BY <1>1
<1> QED BY <1>3, <1>4, <1>5

(* How many values a type has, and which is the least.                     *)
LEMMA CountIs ==
  ASSUME NEW vt \in OrdinalTypes
  PROVE  /\ Count(vt) \in Nat \ {0} /\ Low(vt) \in Int /\ vt # Bool
         /\ Low(vt) <= 0 /\ 0 < Low(vt) + Count(vt)
<1>1. vt.kind \in {"signed", "unsigned"} /\ vt.size \in {1, 2, 4, 8}
  BY DEF OrdinalTypes
<1>2. Count(vt) \in {256, 65536, 65536 * 65536, 65536 * 65536 * 65536 * 65536}
  BY <1>1 DEF Count
<1>3. vt # Bool
  BY <1>1 DEF Bool
<1> DEFINE m == Count(vt)
<1> HIDE DEF m
<1>4. m \in Nat \ {0} /\ m \div 2 \in Nat /\ m \div 2 < m
  <2>1. m \in Nat \ {0}
    <3>1. 65536 * 65536 \in Nat \ {0}
      OBVIOUS
    <3>2. \A a, b \in Nat \ {0} : a * b \in Nat \ {0}
      BY Z3
    <3> DEFINE c == 65536 * 65536
    <3> HIDE DEF c
    <3>3. c \in Nat \ {0} /\ c * c \in Nat \ {0}
      <4>1. c \in Nat \ {0}
        BY <3>1 DEF c
      <4> QED BY <3>2, <4>1
    <3>4. 65536 * 65536 * 65536 * 65536 = c * c
      BY DEF c
    <3> QED BY <1>2, <3>1, <3>3, <3>4 DEF m
  <2> QED BY <2>1
<1>5. Low(vt) = IF vt.kind = "signed" THEN -(m \div 2) ELSE 0
  BY DEF Low, m
<1>6. m \in Nat \ {0} /\ Low(vt) \in Int /\ Low(vt) <= 0 /\ 0 < Low(vt) + m
  BY <1>4, <1>5
<1> QED BY <1>3, <1>6 DEF m

(* A number is wrapped around to a value of a type.                        *)
LEMMA WrappedIs ==
  ASSUME NEW vt \in OrdinalTypes, NEW n \in Int
  PROVE  /\ Wrapped(vt, n) \in Int
         /\ Wrapped(vt, Wrapped(vt, n)) = Wrapped(vt, n)
         /\ Wrapped(vt, Wrapped(vt, n) + 1) = Wrapped(vt, n + 1)
         /\ Wrapped(vt, 0) = 0
<1> DEFINE low == Low(vt)
           m == Count(vt)
           a == n - low
<1>1. m \in Nat \ {0} /\ low \in Int /\ low <= 0 /\ 0 < low + m
  BY CountIs
<1> HIDE DEF low, m
<1>2. a \in Int
  BY <1>1
<1>3. /\ a % m \in 0 .. m - 1 /\ (a % m) % m = a % m /\ ((a % m) + 1) % m = (a + 1) % m
  BY <1>1, <1>2, RestAndOne
<1>4. \A k : Wrapped(vt, k) = low + ((k - low) % m)
  BY DEF Wrapped, low, m
<1>5. Wrapped(vt, n) = low + (a % m)
  BY <1>4
<1>6. (low + (a % m)) - low = a % m /\ (low + (a % m) + 1) - low = (a % m) + 1
      /\ (n + 1) - low = a + 1
  BY <1>1, <1>2, <1>3
<1>7. (0 - low) % m = 0 - low
  <2>1. 0 - low \in 0 .. m - 1 /\ 0 - low \in Int /\ 0 - low = m * 0 + (0 - low)
    BY <1>1
  <2> QED BY <1>1, <2>1, RestIs
<1> HIDE DEF a
<1>8. Wrapped(vt, Wrapped(vt, n)) = low + ((a % m) % m)
  BY <1>4, <1>5, <1>6
<1>9. Wrapped(vt, Wrapped(vt, n) + 1) = low + (((a % m) + 1) % m)
  BY <1>4, <1>5, <1>6
<1>10. Wrapped(vt, n + 1) = low + ((a + 1) % m)
  <2>1. Wrapped(vt, n + 1) = low + (((n + 1) - low) % m)
    BY Zenon DEF Wrapped, low, m
  <2> QED BY <1>6, <2>1
<1>11. Wrapped(vt, 0) = low + (0 - low)
  BY <1>4, <1>7
<1>12. Wrapped(vt, n) \in Int /\ low + (0 - low) = 0
  BY <1>1, <1>3, <1>5
<1> QED BY <1>3, <1>5, <1>8, <1>9, <1>10, <1>11, <1>12

(* Values, each in its type.                                               *)
ValueSet == {v \in [vt : OrdinalTypes \cup {Bool}, n : Int] : InRange(v)}

(* The value after another, and those ahead of it.                         *)
LEMMA NextValue ==
  ASSUME NEW v \in ValueSet
  PROVE  /\ Increment(v) \in ValueSet /\ Ahead(v, 0) = v
         /\ \A d \in Nat : Increment(Ahead(v, d)) = Ahead(v, d + 1)
<1>1. /\ v \in [vt : OrdinalTypes \cup {Bool}, n : Int] /\ InRange(v)
      /\ v = [vt |-> v.vt, n |-> v.n] /\ v.n \in Int
  BY DEF ValueSet
<1>2. CASE v.vt = Bool
  <2>1. v.n \in {-1, 0}
    BY <1>1, <1>2 DEF InRange
  <2>2. Increment(v) = [vt |-> Bool, n |-> -1]
    BY <1>1, <1>2 DEF Increment
  <2>3. Increment(v) \in ValueSet
    BY <2>2 DEF ValueSet, InRange
  <2>4. \A d \in Nat : Ahead(v, d) = [vt |-> Bool, n |-> IF d = 0 THEN v.n ELSE -1]
    BY <1>1, <1>2 DEF Ahead
  <2>5. Ahead(v, 0) = v
    BY <1>1, <1>2, <2>4
  <2>6. ASSUME NEW d \in Nat PROVE Increment(Ahead(v, d)) = Ahead(v, d + 1)
    <3>1. Ahead(v, d + 1) = [vt |-> Bool, n |-> -1]
      BY <2>4
    <3>2. Increment(Ahead(v, d)) = [vt |-> Bool, n |-> -1]
      BY <2>4 DEF Increment
    <3> QED BY <3>1, <3>2
  <2> QED BY <2>3, <2>5, <2>6
<1>3. CASE v.vt # Bool
  <2>1. v.vt \in OrdinalTypes
    BY <1>1, <1>3
  <2>2. Wrapped(v.vt, v.n) = v.n
    BY <1>1, <1>3 DEF InRange
  <2>3. Increment(v) = [vt |-> v.vt, n |-> Wrapped(v.vt, v.n + 1)]
    BY <1>1, <1>3 DEF Increment
  <2>4. Increment(v) \in ValueSet
    <3>1. /\ Wrapped(v.vt, v.n + 1) \in Int
          /\ Wrapped(v.vt, Wrapped(v.vt, v.n + 1)) = Wrapped(v.vt, v.n + 1)
      BY <1>1, <2>1, WrappedIs
    <3>2. InRange(Increment(v))
      BY <1>3, <2>3, <3>1 DEF InRange
    <3>3. Increment(v) \in [vt : OrdinalTypes \cup {Bool}, n : Int]
      BY <2>1, <2>3, <3>1
    <3> QED BY <3>2, <3>3 DEF ValueSet
  <2>5. \A d \in Nat : Ahead(v, d) = [vt |-> v.vt, n |-> Wrapped(v.vt, v.n + d)]
    BY <1>1, <1>3 DEF Ahead
  <2>6. Ahead(v, 0) = v
    <3>1. v.n + 0 = v.n
      BY <1>1
    <3>2. Ahead(v, 0) = [vt |-> v.vt, n |-> Wrapped(v.vt, v.n + 0)]
      BY <2>5
    <3> QED BY <1>1, <2>2, <3>1, <3>2
  <2>7. ASSUME NEW d \in Nat PROVE Increment(Ahead(v, d)) = Ahead(v, d + 1)
    <3>1. Increment(Ahead(v, d)) = [vt |-> v.vt, n |-> Wrapped(v.vt, Wrapped(v.vt, v.n + d) + 1)]
      BY SMTT(60), <1>3, <2>5 DEF Increment
    <3>2. Wrapped(v.vt, Wrapped(v.vt, v.n + d) + 1) = Wrapped(v.vt, (v.n + d) + 1)
      <4>1. v.n + d \in Int
        BY <1>1
      <4> QED BY <2>1, <4>1, WrappedIs
    <3>3. (v.n + d) + 1 = v.n + (d + 1)
      BY <1>1
    <3>4. Ahead(v, d + 1) = [vt |-> v.vt, n |-> Wrapped(v.vt, v.n + (d + 1))]
      BY <2>5
    <3> QED BY <3>1, <3>2, <3>3, <3>4
  <2> QED BY <2>4, <2>6, <2>7
<1> QED BY <1>2, <1>3

(* Zero is a value of every type.                                          *)
LEMMA ZeroIs ==
  ASSUME NEW vt \in OrdinalTypes \cup {Bool}
  PROVE  Zero(vt) \in ValueSet
<1>1. Zero(vt) \in [vt : OrdinalTypes \cup {Bool}, n : Int] /\ Zero(vt).vt = vt /\ Zero(vt).n = 0
  BY DEF Zero
<1>2. InRange(Zero(vt))
  <2>1. CASE vt = Bool
    BY <1>1, <2>1 DEF InRange
  <2>2. CASE vt # Bool
    BY <1>1, <2>2, WrappedIs DEF InRange
  <2> QED BY <2>1, <2>2
<1> QED BY <1>1, <1>2 DEF ValueSet

(* An enumerant, and its value after another.                              *)
EnumFields == {f \in FieldRecords : InRange(f.value)}
EnumStep(fs, k, v) ==
  IF ~IsIncreasingConstant(fs[k]) THEN fs[k].value ELSE IF k = 1 THEN v ELSE Increment(v)

(* The values, one after the other.                                        *)
LEMMA EnumValuesAre ==
  ASSUME NEW pack \in OrdinalTypes \cup {Bool}, NEW fs \in Seq(EnumFields)
  PROVE  /\ EnumValues(pack, fs)[0] = Zero(pack)
         /\ \A k \in 0 .. Len(fs) : EnumValues(pack, fs)[k] \in ValueSet
         /\ \A k \in 1 .. Len(fs) :
              EnumValues(pack, fs)[k] = EnumStep(fs, k, EnumValues(pack, fs)[k - 1])
<1> DEFINE n == Len(fs)
           step == [k \in 1 .. n |-> [v \in ValueSet |-> EnumStep(fs, k, v)]]
           Body(g) == [k \in 0 .. n |->
                         IF k = 0 THEN Zero(pack)
                         ELSE IF ~IsIncreasingConstant(fs[k]) THEN fs[k].value
                         ELSE IF k = 1 THEN g[0] ELSE Increment(g[k - 1])]
           the == CHOOSE g : g = Body(g)
<1>1. n \in Nat /\ \A k \in 1 .. n : fs[k] \in EnumFields
  BY LenProperties, ElementOfSeq
<1>2. Zero(pack) \in ValueSet
  BY ZeroIs
<1>3. \A k \in 1 .. n : \A v \in ValueSet : EnumStep(fs, k, v) \in ValueSet
  <2>1. \A k \in 1 .. n : fs[k].value \in ValueSet
    BY <1>1 DEF EnumFields, FieldRecords, ValueSet
  <2> QED BY <2>1, NextValue DEF EnumStep
<1>4. step \in [1 .. n -> [ValueSet -> ValueSet]]
  BY <1>3
<1>5. \A k \in 1 .. n : \A v \in ValueSet : step[k][v] = EnumStep(fs, k, v)
  OBVIOUS
<1>6. \A g : \A k \in 0 .. n :
        Body(g)[k] = IF k = 0 THEN Zero(pack)
                     ELSE IF ~IsIncreasingConstant(fs[k]) THEN fs[k].value
                     ELSE IF k = 1 THEN g[0] ELSE Increment(g[k - 1])
  OBVIOUS
<1>7. \A g : Body(g) = [k \in 0 .. n |-> Body(g)[k]]
  OBVIOUS
<1>8. EnumValues(pack, fs) = the
  BY Zenon DEF EnumValues
<1> HIDE DEF step, Body, n
<1>9. \A g : \A k \in 1 .. n : Body(g)[k] = EnumStep(fs, k, g[k - 1])
  <2>1. \A k \in 1 .. n : k \in 0 .. n /\ k # 0 /\ (k = 1 => k - 1 = 0)
    BY <1>1
  <2> QED BY <1>6, <2>1 DEF EnumStep
<1>10. PICK f \in [0 .. n -> ValueSet] : IsIteration(f, n, Zero(pack), step)
  <2>1. n \in Nat
    BY <1>1
  <2> QED BY ONLY <1>2, <1>4, <2>1, Iterated, Zenon
<1>11. f = Body(f)
  <2>1. ASSUME NEW k \in 0 .. n PROVE f[k] = Body(f)[k]
    <3>1. CASE k = 0
      BY <1>6, <1>10, <3>1 DEF IsIteration
    <3>2. CASE k # 0
      <4>1. k \in 1 .. n /\ k - 1 \in 0 .. n
        BY <1>1, <3>2
      <4>2. f[k] = EnumStep(fs, k, f[k - 1])
        BY <1>5, <1>10, <4>1 DEF IsIteration
      <4> QED BY <1>9, <4>1, <4>2
    <3> QED BY <3>1, <3>2
  <2>2. f = [k \in 0 .. n |-> f[k]]
    BY <1>10
  <2> QED BY <1>7, <2>1, <2>2
<1>12. the = Body(the)
  BY <1>11
<1> HIDE DEF the
<1>13. the[0] = Zero(pack)
  BY <1>1, <1>6, <1>12
<1>14. \A k \in 1 .. n : the[k] = EnumStep(fs, k, the[k - 1])
  BY <1>9, <1>12
<1>15. \A k \in 0 .. n : the[k] \in ValueSet
  <2> DEFINE S == {k \in 0 .. n : the[k] \in ValueSet}
  <2>1. 0 \in S
    BY <1>1, <1>2, <1>13
  <2>2. ASSUME NEW k \in 1 .. n, k - 1 \in S PROVE k \in S
    BY <1>1, <1>3, <1>14, <2>2
  <2> HIDE DEF S
  <2>3. \A k \in 0 .. n : k \in S
    BY <1>1, <2>1, <2>2, UpTo
  <2> QED BY <2>3 DEF S
<1> QED BY <1>8, <1>13, <1>14, <1>15 DEF n

(* Enumerants whose values are counted.                                    *)
LEMMA CountedIs ==
  ASSUME NEW pack \in OrdinalTypes \cup {Bool}, NEW fs \in Seq(EnumFields)
  PROVE  /\ Counted(pack, fs) \in Seq(EnumFields)
         /\ Counted(pack, Counted(pack, fs)) = Counted(pack, fs)
<1> DEFINE n == Len(fs)
           gs == Counted(pack, fs)
           value(k) == EnumValues(pack, fs)[k]
<1>1. n \in Nat /\ \A k \in 1 .. n : fs[k] \in EnumFields
  BY LenProperties, ElementOfSeq
<1>2. \A k \in 1 .. n : value(k) \in ValueSet
  <2>1. \A k \in 1 .. n : k \in 0 .. n
    BY <1>1
  <2>2. \A k \in 0 .. n : value(k) \in ValueSet
    BY EnumValuesAre
  <2> HIDE DEF value
  <2> QED BY <2>1, <2>2
<1>3. gs = [k \in 1 .. n |-> [fs[k] EXCEPT !.value = value(k)]]
  BY DEF Counted
<1> HIDE DEF gs
<1>4. ASSUME NEW k \in 1 .. n
      PROVE  /\ gs[k] \in EnumFields /\ gs[k].offset = fs[k].offset /\ gs[k].value = value(k)
             /\ [gs[k] EXCEPT !.value = value(k)] = gs[k]
  <2> DEFINE f == fs[k]
  <2>1. gs[k] = [f EXCEPT !.value = value(k)]
    BY <1>3
  <2>2. f \in FieldRecords /\ value(k) \in ValueSet
    BY <1>1, <1>2 DEF EnumFields
  <2> HIDE DEF f, value
  <2>3. f = [type |-> f.type, offset |-> f.offset, actualOffset |-> f.actualOffset,
             length |-> f.length, position |-> f.position, actualPosition |-> f.actualPosition,
             value |-> f.value]
    BY <2>2 DEF FieldRecords
  <2>4. gs[k] = [type |-> f.type, offset |-> f.offset, actualOffset |-> f.actualOffset,
                 length |-> f.length, position |-> f.position,
                 actualPosition |-> f.actualPosition, value |-> value(k)]
    BY <2>1, <2>3
  <2>5. gs[k] \in FieldRecords
    BY <2>2, <2>4 DEF FieldRecords, ValueSet
  <2>6. InRange(gs[k].value) /\ gs[k].value = value(k) /\ gs[k].offset = f.offset
    BY <2>2, <2>4 DEF ValueSet
  <2> QED BY <2>4, <2>5, <2>6 DEF EnumFields, f
<1>5. gs \in Seq(EnumFields) /\ Len(gs) = n
  <2>1. gs = [k \in 1 .. n |-> gs[k]]
    BY <1>3
  <2>2. gs \in [1 .. n -> EnumFields]
    BY <1>4, <2>1
  <2> QED BY <1>1, <2>2
<1>6. \A k \in 0 .. n : EnumValues(pack, gs)[k] = value(k)
  <2> DEFINE S == {k \in 0 .. n : EnumValues(pack, gs)[k] = value(k)}
  <2>1. 0 \in S
    BY <1>1, <1>5, EnumValuesAre
  <2>2. ASSUME NEW k \in 1 .. n, k - 1 \in S PROVE k \in S
    <3>1. EnumValues(pack, gs)[k] = EnumStep(gs, k, value(k - 1))
      <4>1. EnumValues(pack, gs)[k] = EnumStep(gs, k, EnumValues(pack, gs)[k - 1])
        BY <1>5, EnumValuesAre
      <4> QED BY <2>2, <4>1
    <3>2. value(k) = EnumStep(fs, k, value(k - 1))
      BY EnumValuesAre
    <3>3. IsIncreasingConstant(gs[k]) <=> IsIncreasingConstant(fs[k])
      BY <1>4 DEF IsIncreasingConstant
    <3>4. gs[k].value = value(k)
      BY <1>4
    <3> HIDE DEF value
    <3>5. EnumStep(gs, k, value(k - 1)) = value(k)
      BY <3>2, <3>3, <3>4 DEF EnumStep
    <3> QED BY <1>1, <3>1, <3>5
  <2> HIDE DEF S
  <2>3. \A k \in 0 .. n : k \in S
    BY <1>1, <2>1, <2>2, UpTo
  <2> QED BY <2>3 DEF S
<1>7. Counted(pack, gs) = gs
  <2>1. Counted(pack, gs) = [k \in 1 .. n |-> [gs[k] EXCEPT !.value = EnumValues(pack, gs)[k]]]
    BY <1>5 DEF Counted
  <2>2. \A k \in 1 .. n : [gs[k] EXCEPT !.value = EnumValues(pack, gs)[k]] = gs[k]
    <3>1. \A k \in 1 .. n : k \in 0 .. n
      BY <1>1
    <3> QED BY <1>4, <1>6, <3>1
  <2>3. gs = [k \in 1 .. n |-> gs[k]]
    BY <1>3
  <2> QED BY <2>1, <2>2, <2>3
<1> QED BY <1>5, <1>7 DEF gs


-----------------------------------------------------------------------------
(* The inductive invariant: what is in a class is laid out, and in an enum *)
(* it is counted.                                                          *)
HeldFields(h) == IF h = "class" THEN ClassFields ELSE EnumFields
FieldsInv ==
  /\ holder \in {"none", "class", "enum"} /\ packing \in OrdinalTypes \cup {Bool}
  /\ fields \in Seq(HeldFields(holder)) /\ typeSize \in Nat /\ typeAlignment \in Nat \ {0}
  /\ fieldCalls \in 0 .. MaxFieldCalls
  /\ holder = "none" => fields = <<>> /\ typeSize = 0 /\ typeAlignment = 1
  /\ holder = "class" => /\ LaidOut(fields) = fields
                         /\ typeSize = SizeOf(fields) /\ typeAlignment = AlignmentOf(fields)
  /\ holder = "enum" => Counted(packing, fields) = fields

(* A field of either.                                                      *)
LEMMA HeldFieldsAre ==
  ASSUME NEW h, NEW f
  PROVE  /\ f \in HeldFields(h) => f \in FieldRecords /\ InRange(f.value)
         /\ h # "class" => (f \in HeldFields(h) <=> f \in FieldRecords /\ InRange(f.value))
         /\ h = "class" =>
              (f \in HeldFields(h) <=>
                 /\ f \in FieldRecords /\ InRange(f.value)
                 /\ f.type \in FieldTypes /\ f.offset \in Nat \cup {-2}
                 /\ f.offset # -2 => f.actualOffset \in Nat)
BY DEF HeldFields, ClassFields, EnumFields

(* What is laid out or counted keeps the invariant.                        *)
LEMMA Settled ==
  ASSUME FieldsInv, holder # "none", NEW fs \in Seq(HeldFields(holder)), Settle(fs)
  PROVE  FieldsInv'
<1>1. /\ holder' = holder /\ packing' = packing /\ packing \in OrdinalTypes \cup {Bool}
      /\ fieldCalls \in 0 .. MaxFieldCalls /\ fieldCalls < MaxFieldCalls
      /\ fieldCalls' = fieldCalls + 1 /\ typeSize \in Nat /\ typeAlignment \in Nat \ {0}
  BY DEF FieldsInv, Settle, FieldCall
<1>2. fieldCalls' \in 0 .. MaxFieldCalls
  BY <1>1, FieldConstants
<1>3. CASE holder = "class"
  <2>1. fs \in Seq(ClassFields)
    BY <1>3 DEF HeldFields
  <2>2. /\ fields' = LaidOut(fs) /\ typeSize' = SizeOf(fs) /\ typeAlignment' = AlignmentOf(fs)
    BY <1>3 DEF Settle
  <2>3. /\ LaidOut(fs) \in Seq(ClassFields) /\ LaidOut(LaidOut(fs)) = LaidOut(fs)
        /\ SizeOf(LaidOut(fs)) = SizeOf(fs) /\ AlignmentOf(LaidOut(fs)) = AlignmentOf(fs)
        /\ SizeOf(fs) \in Nat /\ AlignmentOf(fs) \in Nat \ {0}
    BY <2>1, LaidOutIs, SizeIs
  <2>4. fields' \in Seq(HeldFields(holder'))
    BY <1>1, <1>3, <2>2, <2>3 DEF HeldFields
  <2>5. /\ LaidOut(fields') = fields'
        /\ typeSize' = SizeOf(fields') /\ typeAlignment' = AlignmentOf(fields')
    BY <2>2, <2>3
  <2>6. typeSize' \in Nat /\ typeAlignment' \in Nat \ {0}
    BY <2>2, <2>3
  <2> QED BY <1>1, <1>2, <1>3, <2>4, <2>5, <2>6 DEF FieldsInv
<1>4. CASE holder # "class"
  <2>1. fs \in Seq(EnumFields) /\ holder = "enum"
    BY <1>4 DEF HeldFields, FieldsInv
  <2>2. /\ fields' = Counted(packing, fs) /\ typeSize' = typeSize
        /\ typeAlignment' = typeAlignment
    BY <1>4 DEF Settle
  <2>3. /\ Counted(packing, fs) \in Seq(EnumFields)
        /\ Counted(packing, Counted(packing, fs)) = Counted(packing, fs)
    BY <1>1, <2>1, CountedIs
  <2>4. fields' \in Seq(HeldFields(holder'))
    BY <1>1, <1>4, <2>2, <2>3 DEF HeldFields
  <2>5. Counted(packing', fields') = fields'
    BY <1>1, <2>2, <2>3
  <2> QED BY <1>1, <1>2, <2>1, <2>2, <2>4, <2>5 DEF FieldsInv
<1> QED BY <1>3, <1>4

(* One field is changed.                                                   *)
LEMMA FieldChanged ==
  ASSUME FieldsInv, NEW k \in DOMAIN fields, NEW f \in HeldFields(holder), Change(k, f)
  PROVE  FieldsInv'
<1>1. fields \in Seq(HeldFields(holder)) /\ k \in 1 .. Len(fields) /\ holder # "none"
  BY LenProperties DEF FieldsInv
<1>2. [fields EXCEPT ![k] = f] \in Seq(HeldFields(holder))
  BY <1>1, ExceptSeq
<1> QED BY <1>1, <1>2, Settled DEF Change

(* One field is added.                                                     *)
LEMMA FieldAdded ==
  ASSUME FieldsInv, holder # "none", NEW f \in HeldFields(holder), Settle(Append(fields, f))
  PROVE  FieldsInv'
<1>1. Append(fields, f) \in Seq(HeldFields(holder))
  BY DEF FieldsInv
<1> QED BY <1>1, Settled

(* What a field has of which nothing else is known.                        *)
LEMMA HeldFieldHas ==
  ASSUME FieldsInv, NEW k \in DOMAIN fields
  PROVE  LET f == fields[k] IN
         /\ f \in HeldFields(holder) /\ holder \in {"class", "enum"}
         /\ f = [type |-> f.type, offset |-> f.offset, actualOffset |-> f.actualOffset,
                 length |-> f.length, position |-> f.position,
                 actualPosition |-> f.actualPosition, value |-> f.value]
         /\ f.type \in FieldTypes \cup {NoType} /\ f.offset \in Nat \cup {-1, -2, -3}
         /\ f.actualOffset \in Nat \cup {-1, -2, -3} /\ f.length \in Nat
         /\ f.position \in Nat \cup {-1, -2} /\ f.actualPosition \in Nat \cup {-1, -2}
         /\ f.value \in [vt : OrdinalTypes \cup {Bool}, n : Int] /\ InRange(f.value)
         /\ holder = "class" => /\ f.type \in FieldTypes /\ f.offset \in Nat \cup {-2}
                                /\ f.offset # -2 => f.actualOffset \in Nat
<1> DEFINE f == fields[k]
<1>1. f \in HeldFields(holder) /\ holder \in {"class", "enum"}
  BY LenProperties, ElementOfSeq DEF FieldsInv
<1> HIDE DEF f
<1>2. /\ f \in FieldRecords /\ InRange(f.value)
      /\ holder = "class" => /\ f.type \in FieldTypes /\ f.offset \in Nat \cup {-2}
                             /\ f.offset # -2 => f.actualOffset \in Nat
  BY <1>1, HeldFieldsAre
<1>3. /\ f = [type |-> f.type, offset |-> f.offset, actualOffset |-> f.actualOffset,
              length |-> f.length, position |-> f.position,
              actualPosition |-> f.actualPosition, value |-> f.value]
      /\ f.type \in FieldTypes \cup {NoType} /\ f.offset \in Nat \cup {-1, -2, -3}
      /\ f.actualOffset \in Nat \cup {-1, -2, -3} /\ f.length \in Nat
      /\ f.position \in Nat \cup {-1, -2} /\ f.actualPosition \in Nat \cup {-1, -2}
      /\ f.value \in [vt : OrdinalTypes \cup {Bool}, n : Int]
  BY <1>2 DEF FieldRecords
<1> QED BY <1>1, <1>2, <1>3 DEF f

(* A field of what it is made of.                                          *)
LEMMA FieldMade ==
  ASSUME NEW type \in FieldTypes \cup {NoType}, NEW offset \in Nat \cup {-1, -2, -3},
         NEW actualOffset \in Nat \cup {-1, -2, -3}, NEW length \in Nat,
         NEW position \in Nat \cup {-1, -2}, NEW actualPosition \in Nat \cup {-1, -2},
         NEW value \in [vt : OrdinalTypes \cup {Bool}, n : Int], InRange(value),
         NEW h,
         h = "class" => /\ type \in FieldTypes /\ offset \in Nat \cup {-2}
                        /\ offset # -2 => actualOffset \in Nat
  PROVE  [type |-> type, offset |-> offset, actualOffset |-> actualOffset, length |-> length,
          position |-> position, actualPosition |-> actualPosition, value |-> value]
           \in HeldFields(h)
<1> DEFINE f == [type |-> type, offset |-> offset, actualOffset |-> actualOffset,
                 length |-> length, position |-> position, actualPosition |-> actualPosition,
                 value |-> value]
<1>1. f \in FieldRecords
  BY DEF FieldRecords
<1>2. /\ f.type = type /\ f.offset = offset /\ f.actualOffset = actualOffset
      /\ f.value = value
  OBVIOUS
<1> HIDE DEF f
<1>3. f \in HeldFields(h)
  BY <1>1, <1>2, HeldFieldsAre
<1> QED BY <1>3 DEF f

(* A class is made, or an enum.                                            *)
LEMMA CreatesStep ==
  ASSUME FieldsInv, CreateClass \/ \E t \in FieldTypes : CreateEnum(t)
  PROVE  FieldsInv'
<1>1. /\ fields = <<>> /\ typeSize = 0 /\ typeAlignment = 1 /\ fields' = <<>>
      /\ packing \in OrdinalTypes \cup {Bool}
  BY DEF FieldsInv, CreateClass, CreateEnum
<1>2. fieldCalls' \in 0 .. MaxFieldCalls
  BY FieldConstants DEF FieldsInv, CreateClass, CreateEnum, FieldCall
<1>3. <<>> \in Seq(ClassFields) /\ <<>> \in Seq(EnumFields) /\ Len(<<>>) = 0
  OBVIOUS
<1>4. CASE CreateClass
  <2>1. LaidOut(<<>>) = <<>>
    <3>1. LaidOut(<<>>) \in Seq(ClassFields) /\ Len(LaidOut(<<>>)) = 0
      BY <1>3, LaidOutIs
    <3> QED BY <3>1
  <2>2. FieldCursors(<<>>)[Len(<<>>)] = CursorStart
    BY <1>3, FieldCursorsAre
  <2>3. SizeOf(<<>>) = 0 /\ AlignmentOf(<<>>) = 1
    BY <2>2 DEF SizeOf, AlignmentOf, CursorStart, Aligned
  <2> QED BY <1>1, <1>2, <1>3, <1>4, <2>1, <2>3 DEF FieldsInv, CreateClass, HeldFields
<1>5. ASSUME NEW t \in FieldTypes, CreateEnum(t) PROVE FieldsInv'
  <2>1. packing' \in OrdinalTypes \cup {Bool}
    BY <1>5 DEF CreateEnum, CanBeEnum
  <2>2. Counted(packing', <<>>) = <<>>
    <3>1. Counted(packing', <<>>)
            = [k \in 1 .. 0 |-> [<<>>[k] EXCEPT !.value = EnumValues(packing', <<>>)[k]]]
      BY <1>3 DEF Counted
    <3> QED BY <3>1
  <2>3. typeSize' \in Nat /\ typeAlignment' \in Nat \ {0}
    BY <1>5, FieldTypesAre DEF CreateEnum
  <2> QED BY <1>1, <1>2, <1>3, <1>5, <2>1, <2>2, <2>3 DEF FieldsInv, CreateEnum, HeldFields
<1> QED BY <1>4, <1>5


(* A field, an enumerant or one that counts on is added.                   *)
LEMMA AddsStep ==
  ASSUME FieldsInv,
         \/ \E t \in FieldTypes, offset \in FieldOffsets \cup {AutomaticAppendLayout},
               length \in BitLengths, position \in BitPositions \cup {AutomaticAppendLayout} :
              AddField(t, offset, length, position)
         \/ \E value \in FieldValues : AddValue(value.n)
         \/ AddNextValue
  PROVE  FieldsInv'
<1>1. ASSUME NEW t \in FieldTypes, NEW offset \in FieldOffsets \cup {AutomaticAppendLayout},
             NEW length \in BitLengths, NEW position \in BitPositions \cup {AutomaticAppendLayout},
             AddField(t, offset, length, position)
      PROVE  FieldsInv'
  <2> DEFINE f == [type |-> t, offset |-> offset, actualOffset |-> offset,
                   length |-> length, position |-> position, actualPosition |-> position,
                   value |-> Zero(Bool)]
  <2>1. holder # "none" /\ Settle(Append(fields, f))
    BY <1>1 DEF AddField, NewField
  <2>2. /\ offset \in Nat \cup {-2} /\ length \in Nat /\ position \in Nat \cup {-2}
    BY FieldConstants DEF AutomaticAppendLayout
  <2>3. Zero(Bool) \in [vt : OrdinalTypes \cup {Bool}, n : Int] /\ InRange(Zero(Bool))
    BY ZeroIs DEF ValueSet
  <2>4. /\ t \in FieldTypes \cup {NoType} /\ offset \in Nat \cup {-1, -2, -3}
        /\ position \in Nat \cup {-1, -2} /\ (offset # -2 => offset \in Nat)
    BY <2>2
  <2>5. f \in HeldFields(holder)
    BY ONLY <2>2, <2>3, <2>4, FieldMade, t \in FieldTypes
  <2> HIDE DEF f
  <2> QED BY <2>1, <2>5, FieldAdded
<1>2. ASSUME NEW offset \in {-1, -3}, NEW value \in ValueSet,
             holder = "enum", Settle(Append(fields, Enumerant(offset, value)))
      PROVE  FieldsInv'
  <2>1. /\ NoType \in FieldTypes \cup {NoType} /\ offset \in Nat \cup {-1, -2, -3}
        /\ value \in [vt : OrdinalTypes \cup {Bool}, n : Int] /\ InRange(value)
        /\ 0 \in Nat /\ -2 \in Nat \cup {-1, -2} /\ 0 \in Nat \cup {-1, -2}
        /\ holder # "class" /\ holder # "none"
    BY <1>2 DEF ValueSet
  <2>2. Enumerant(offset, value)
          = [type |-> NoType, offset |-> offset, actualOffset |-> offset, length |-> 0,
             position |-> -2, actualPosition |-> 0, value |-> value]
    BY DEF Enumerant, AutomaticAppendLayout
  <2>3. Enumerant(offset, value) \in FieldRecords /\ Enumerant(offset, value).value = value
    BY <2>1, <2>2 DEF FieldRecords
  <2>4. Enumerant(offset, value) \in HeldFields(holder)
    BY <2>1, <2>3, HeldFieldsAre
  <2> QED BY <1>2, <2>1, <2>4, FieldAdded
<1>3. ASSUME NEW n, AddValue(n), n \in Int PROVE FieldsInv'
  <2>1. Converted(n) \in ValueSet
    <3>1. InRange(Converted(n)) /\ packing \in OrdinalTypes \cup {Bool}
      BY <1>3 DEF AddValue, FieldsInv
    <3>2. Converted(n) \in [vt : OrdinalTypes \cup {Bool}, n : Int]
      BY <1>3, <3>1 DEF Converted
    <3> QED BY <3>1, <3>2 DEF ValueSet
  <2>2. holder = "enum" /\ Settle(Append(fields, Enumerant(-1, Converted(n))))
    BY <1>3 DEF AddValue, ConstantValue
  <2> QED BY <1>2, <2>1, <2>2
<1>4. ASSUME AddNextValue PROVE FieldsInv'
  <2>1. Zero(Bool) \in ValueSet
    BY ZeroIs
  <2>2. holder = "enum" /\ Settle(Append(fields, Enumerant(-3, Zero(Bool))))
    BY <1>4 DEF AddNextValue, AutomaticIncreaseConstantValue
  <2> QED BY <1>2, <2>1, <2>2
<1>5. \A value \in FieldValues : value.n \in Int
  BY FieldConstants
<1> QED BY <1>1, <1>3, <1>4, <1>5

(* A value is set.                                                         *)
LEMMA SetValueStep ==
  ASSUME FieldsInv, NEW k \in DOMAIN fields, NEW value \in FieldValues, SetValue(k, value)
  PROVE  FieldsInv'
<1> DEFINE f == fields[k]
           g == [f EXCEPT !.value = value]
<1>1. holder = "enum" /\ Change(k, g)
  BY DEF SetValue
<1>2. /\ f = [type |-> f.type, offset |-> f.offset, actualOffset |-> f.actualOffset,
              length |-> f.length, position |-> f.position,
              actualPosition |-> f.actualPosition, value |-> f.value]
      /\ f \in HeldFields(holder)
  BY HeldFieldHas
<1>3. value \in [vt : OrdinalTypes \cup {Bool}, n : Int] /\ InRange(value)
  BY FieldConstants
<1> HIDE DEF f
<1>4. f \in FieldRecords
  BY <1>2, HeldFieldsAre
<1>5. g \in FieldRecords /\ g.value = value
  BY <1>2, <1>3, <1>4 DEF FieldRecords
<1> HIDE DEF g
<1>6. g \in HeldFields(holder)
  BY <1>1, <1>3, <1>5, HeldFieldsAre
<1> QED BY <1>1, <1>6, FieldChanged

(* An offset is set, or left to the layout.                                *)
LEMMA SetSymbolOffsetStep ==
  ASSUME FieldsInv, NEW k \in DOMAIN fields, NEW offset \in Nat \cup {-1, -2, -3},
         holder = "class" => offset \in Nat \cup {-2},
         holder = "class" /\ IsAutomaticLayout(fields[k]) =>
           offset \in {-2, fields[k].actualOffset},
         SetSymbolOffset(k, offset)
  PROVE  FieldsInv'
<1> DEFINE f == fields[k]
           g == WithOffset(f, offset)
           position ==
             IF ~IsBitField(f) \/ (offset = AutomaticAppendLayout) = IsAutomaticLayout(f)
             THEN f.position
             ELSE IF offset = AutomaticAppendLayout THEN offset ELSE f.actualPosition
<1>1. Change(k, g)
  BY DEF SetSymbolOffset
<1>2. /\ f = [type |-> f.type, offset |-> f.offset, actualOffset |-> f.actualOffset,
              length |-> f.length, position |-> f.position,
              actualPosition |-> f.actualPosition, value |-> f.value]
      /\ f.type \in FieldTypes \cup {NoType}
      /\ f.actualOffset \in Nat \cup {-1, -2, -3} /\ f.length \in Nat
      /\ f.position \in Nat \cup {-1, -2} /\ f.actualPosition \in Nat \cup {-1, -2}
      /\ f.value \in [vt : OrdinalTypes \cup {Bool}, n : Int] /\ InRange(f.value)
      /\ holder = "class" => /\ f.type \in FieldTypes /\ f.offset \in Nat \cup {-2}
                             /\ f.offset # -2 => f.actualOffset \in Nat
  BY HeldFieldHas
<1>3. position \in Nat \cup {-1, -2}
  BY <1>2 DEF AutomaticAppendLayout
<1>4. g = [f EXCEPT !.offset = offset, !.position = position]
  <2>1. f = [f EXCEPT !.offset = f.offset, !.position = f.position]
    BY <1>2
  <2> QED BY <1>2 DEF WithOffset
<1>5. holder = "class" /\ offset # -2 => f.actualOffset \in Nat
  BY <1>2 DEF IsAutomaticLayout, AutomaticAppendLayout
<1> HIDE DEF f, g, position
<1>6. g = [type |-> f.type, offset |-> offset, actualOffset |-> f.actualOffset,
           length |-> f.length, position |-> position,
           actualPosition |-> f.actualPosition, value |-> f.value]
  BY <1>2, <1>4
<1>7. holder = "class" => /\ f.type \in FieldTypes /\ offset \in Nat \cup {-2}
                          /\ offset # -2 => f.actualOffset \in Nat
  BY <1>2, <1>5
<1>8. [type |-> f.type, offset |-> offset, actualOffset |-> f.actualOffset,
       length |-> f.length, position |-> position,
       actualPosition |-> f.actualPosition, value |-> f.value] \in HeldFields(holder)
  BY ZenonT(60), <1>2, <1>3, <1>7, FieldMade
<1> QED BY <1>1, <1>6, <1>8, FieldChanged

(* How many bits a field has is set, or its type.                          *)
LEMMA SetsStep ==
  ASSUME FieldsInv, NEW k \in DOMAIN fields,
         \/ \E length \in BitLengths : SetBitFieldLength(k, length)
         \/ \E position \in BitPositions : SetBitFieldPosition(k, position)
         \/ \E t \in FieldTypes : SetType(k, t)
  PROVE  FieldsInv'
<1> DEFINE f == fields[k]
<1>1. /\ f = [type |-> f.type, offset |-> f.offset, actualOffset |-> f.actualOffset,
              length |-> f.length, position |-> f.position,
              actualPosition |-> f.actualPosition, value |-> f.value]
      /\ f.type \in FieldTypes \cup {NoType} /\ f.offset \in Nat \cup {-1, -2, -3}
      /\ f.actualOffset \in Nat \cup {-1, -2, -3} /\ f.length \in Nat
      /\ f.position \in Nat \cup {-1, -2} /\ f.actualPosition \in Nat \cup {-1, -2}
      /\ f.value \in [vt : OrdinalTypes \cup {Bool}, n : Int] /\ InRange(f.value)
      /\ holder = "class" => /\ f.type \in FieldTypes /\ f.offset \in Nat \cup {-2}
                             /\ f.offset # -2 => f.actualOffset \in Nat
      /\ f \in HeldFields(holder) /\ f.type.size \in Nat
  BY HeldFieldHas, FieldTypesAre
<1>2. ASSUME NEW length \in BitLengths, SetBitFieldLength(k, length) PROVE FieldsInv'
  <2> DEFINE last == 8 * f.type.size - length
             position == IF length = 0 \/ f.position = AutomaticAppendLayout
                            \/ f.position \in 0 .. last THEN f.position ELSE last
             g == [f EXCEPT !.length = length, !.position = position]
  <2>1. length \in Nat /\ (length # 0 => length <= 8 * f.type.size)
    BY <1>2, FieldConstants DEF SetBitFieldLength
  <2>2. position \in Nat \cup {-1, -2}
    BY SMTT(60), <1>1, <2>1
  <2>3. Change(k, g)
    <3>1. g = [f EXCEPT !.length = length,
                        !.position = IF length = 0 \/ @ = AutomaticAppendLayout \/ @ \in 0 .. last
                                     THEN @ ELSE last]
      BY <1>1
    <3> HIDE DEF g
    <3> QED BY <1>2, <3>1 DEF SetBitFieldLength
  <2> HIDE DEF f, position
  <2>4. g = [type |-> f.type, offset |-> f.offset, actualOffset |-> f.actualOffset,
             length |-> length, position |-> position,
             actualPosition |-> f.actualPosition, value |-> f.value]
    <3>1. f = [type |-> f.type, offset |-> f.offset, actualOffset |-> f.actualOffset,
               length |-> f.length, position |-> f.position,
               actualPosition |-> f.actualPosition, value |-> f.value]
      BY <1>1
    <3> DEFINE h == [f EXCEPT !.length = length]
    <3>2. h = [type |-> f.type, offset |-> f.offset, actualOffset |-> f.actualOffset,
               length |-> length, position |-> f.position,
               actualPosition |-> f.actualPosition, value |-> f.value]
      BY ONLY <3>1
    <3>3. g = [h EXCEPT !.position = position]
      OBVIOUS
    <3> HIDE DEF h, g
    <3> QED BY ONLY <3>2, <3>3
  <2>5. [type |-> f.type, offset |-> f.offset, actualOffset |-> f.actualOffset,
         length |-> length, position |-> position,
         actualPosition |-> f.actualPosition, value |-> f.value] \in HeldFields(holder)
    BY ZenonT(60), <1>1, <2>1, <2>2, FieldMade
  <2> HIDE DEF g
  <2> QED BY <2>3, <2>4, <2>5, FieldChanged
<1>3. ASSUME NEW position \in BitPositions, SetBitFieldPosition(k, position) PROVE FieldsInv'
  <2>1. Change(k, f)
    BY <1>3 DEF SetBitFieldPosition
  <2> HIDE DEF f
  <2> QED BY <1>1, <2>1, FieldChanged
<1>4. ASSUME NEW t \in FieldTypes, SetType(k, t) PROVE FieldsInv'
  <2> DEFINE g == [f EXCEPT !.type = t]
  <2>1. Change(k, g)
    BY <1>4 DEF SetType
  <2>2. t \in FieldTypes \cup {NoType}
    OBVIOUS
  <2> HIDE DEF f
  <2>3. g = [type |-> t, offset |-> f.offset, actualOffset |-> f.actualOffset,
             length |-> f.length, position |-> f.position,
             actualPosition |-> f.actualPosition, value |-> f.value]
    <3>1. f = [type |-> f.type, offset |-> f.offset, actualOffset |-> f.actualOffset,
               length |-> f.length, position |-> f.position,
               actualPosition |-> f.actualPosition, value |-> f.value]
      BY <1>1
    <3> QED BY ONLY <3>1
  <2>4. holder = "class" => /\ t \in FieldTypes /\ f.offset \in Nat \cup {-2}
                            /\ f.offset # -2 => f.actualOffset \in Nat
    BY <1>1
  <2>5. [type |-> t, offset |-> f.offset, actualOffset |-> f.actualOffset,
         length |-> f.length, position |-> f.position,
         actualPosition |-> f.actualPosition, value |-> f.value] \in HeldFields(holder)
    BY <1>1, <2>2, <2>4, FieldMade
  <2> HIDE DEF g
  <2> QED BY <2>1, <2>3, <2>5, FieldChanged
<1> QED BY <1>2, <1>3, <1>4

(* A sequence without an element, and with one more.                       *)
LEMMA FewerOrMore ==
  ASSUME NEW S, NEW s \in Seq(S), NEW e \in S
  PROVE  /\ \A i \in 1 .. Len(s) : RemoveAt(s, i) \in Seq(S) /\ Len(RemoveAt(s, i)) = Len(s) - 1
         /\ \A i \in 1 .. Len(s) + 1 : InsertAt(s, i, e) \in Seq(S)
<1>1. Len(s) \in Nat /\ <<e>> \in Seq(S)
  BY LenProperties
<1>2. ASSUME NEW i \in 1 .. Len(s)
      PROVE  RemoveAt(s, i) \in Seq(S) /\ Len(RemoveAt(s, i)) = Len(s) - 1
  <2>1. /\ SubSeq(s, 1, i - 1) \in Seq(S) /\ Len(SubSeq(s, 1, i - 1)) = i - 1
        /\ SubSeq(s, i + 1, Len(s)) \in Seq(S) /\ Len(SubSeq(s, i + 1, Len(s))) = Len(s) - i
    BY <1>1, SubSeqProperties
  <2> DEFINE a == SubSeq(s, 1, i - 1)
             b == SubSeq(s, i + 1, Len(s))
  <2> HIDE DEF a, b
  <2>2. a \in Seq(S) /\ b \in Seq(S) /\ Len(a) = i - 1 /\ Len(b) = Len(s) - i
    BY <2>1 DEF a, b
  <2>3. a \o b \in Seq(S) /\ Len(a \o b) = Len(a) + Len(b)
    BY <2>2, ConcatProperties
  <2>4. RemoveAt(s, i) = a \o b
    BY DEF RemoveAt, a, b
  <2>5. Len(a) + Len(b) = Len(s) - 1
    BY <1>1, <2>2
  <2> QED BY <2>3, <2>4, <2>5
<1>3. ASSUME NEW i \in 1 .. Len(s) + 1 PROVE InsertAt(s, i, e) \in Seq(S)
  <2> DEFINE a == SubSeq(s, 1, i - 1)
             b == SubSeq(s, i, Len(s))
  <2>1. a \in Seq(S) /\ b \in Seq(S)
    BY <1>1, SubSeqProperties
  <2>2. InsertAt(s, i, e) = a \o <<e>> \o b
    BY DEF InsertAt
  <2> HIDE DEF a, b
  <2> QED BY <1>1, <2>1, <2>2
<1> QED BY <1>2, <1>3

(* A field is moved or deleted.                                            *)
LEMMA MovesStep ==
  ASSUME FieldsInv, NEW k \in DOMAIN fields,
         DeleteField(k) \/ \E j \in 1 .. Len(fields) + 1 : MoveToBefore(k, j)
  PROVE  FieldsInv'
<1>1. /\ fields \in Seq(HeldFields(holder)) /\ Len(fields) \in Nat /\ k \in 1 .. Len(fields)
      /\ fields[k] \in HeldFields(holder) /\ holder # "none"
  BY LenProperties, HeldFieldHas DEF FieldsInv
<1> DEFINE fs == RemoveAt(fields, k)
<1>2. fs \in Seq(HeldFields(holder)) /\ Len(fs) = Len(fields) - 1
  BY <1>1, FewerOrMore
<1>3. CASE DeleteField(k)
  BY <1>1, <1>2, <1>3, Settled DEF DeleteField
<1>4. ASSUME NEW j \in 1 .. Len(fields) + 1, MoveToBefore(k, j) PROVE FieldsInv'
  <2> DEFINE i == IF j > k THEN j - 1 ELSE j
  <2>1. i \in 1 .. Len(fs) + 1
    BY <1>1, <1>2
  <2>2. Settle(InsertAt(fs, i, fields[k]))
    BY <1>4 DEF MoveToBefore
  <2> HIDE DEF fs, i
  <2>3. InsertAt(fs, i, fields[k]) \in Seq(HeldFields(holder))
    BY <1>1, <1>2, <2>1, FewerOrMore
  <2> QED BY <1>1, <2>2, <2>3, Settled
<1> QED BY <1>3, <1>4


(* From one enumerant on, values count on as far as they do.               *)
LEMMA CountsFrom ==
  ASSUME NEW pack \in OrdinalTypes \cup {Bool}, NEW fs \in Seq(EnumFields), NEW i \in 1 .. Len(fs)
  PROVE  \A j \in 1 .. Len(fs) :
           i <= j /\ (\A k \in i + 1 .. j : IsIncreasingConstant(fs[k])) =>
             EnumValues(pack, fs)[j] = Ahead(EnumValues(pack, fs)[i], j - i)
<1> DEFINE n == Len(fs)
           value(k) == EnumValues(pack, fs)[k]
           Counts(j) == \A k \in i + 1 .. j : IsIncreasingConstant(fs[k])
           S == {j \in 0 .. n : i <= j /\ Counts(j) => value(j) = Ahead(value(i), j - i)}
<1>1. n \in Nat /\ value(i) \in ValueSet
  <2>1. n \in Nat /\ i \in 0 .. n
    BY LenProperties
  <2> QED BY <2>1, EnumValuesAre
<1>2. \A j \in 1 .. n : value(j) = EnumStep(fs, j, value(j - 1))
  BY EnumValuesAre
<1> HIDE DEF value
<1>3. 0 \in S
  BY <1>1
<1>4. ASSUME NEW j \in 1 .. n, j - 1 \in S PROVE j \in S
  <2>1. SUFFICES ASSUME i <= j, Counts(j) PROVE value(j) = Ahead(value(i), j - i)
    BY <1>1
  <2>2. CASE i = j
    <3>1. j - i = 0 /\ Ahead(value(i), 0) = value(i)
      BY <1>1, <2>2, NextValue
    <3> QED BY <2>2, <3>1
  <2>3. CASE i # j
    <3>1. i <= j - 1 /\ j # 1 /\ j \in i + 1 .. j /\ j - 1 - i \in Nat
          /\ (j - 1 - i) + 1 = j - i
      BY <1>1, <2>1, <2>3
    <3>2. Counts(j - 1)
      BY <1>1, <2>1
    <3>3. value(j - 1) = Ahead(value(i), j - 1 - i)
      BY <1>4, <3>1, <3>2
    <3>4. IsIncreasingConstant(fs[j])
      BY <2>1, <3>1
    <3>5. value(j) = Increment(value(j - 1))
      BY <1>2, <3>1, <3>4 DEF EnumStep
    <3>6. Increment(Ahead(value(i), j - 1 - i)) = Ahead(value(i), (j - 1 - i) + 1)
      BY <1>1, <3>1, NextValue
    <3> QED BY <3>1, <3>3, <3>5, <3>6
  <2> QED BY <2>2, <2>3
<1> HIDE DEF S
<1>5. \A j \in 0 .. n : j \in S
  BY <1>1, <1>3, <1>4, UpTo
<1>6. \A j \in 1 .. n : j \in 0 .. n
  BY <1>1
<1> QED BY <1>5, <1>6 DEF S, value

(* Enumerants count on from the last value that was given, or from zero.   *)
LEMMA EnumCounts ==
  ASSUME FieldsInv, holder = "enum"
  PROVE  CountedOn
<1> DEFINE value(k) == EnumValues(packing, fields)[k]
<1>1. /\ packing \in OrdinalTypes \cup {Bool} /\ fields \in Seq(EnumFields)
      /\ Counted(packing, fields) = fields
  BY DEF FieldsInv, HeldFields
<1>2. Len(fields) \in Nat /\ DOMAIN fields = 1 .. Len(fields)
  BY <1>1, LenProperties
<1>3. \A k \in DOMAIN fields : fields[k].value = value(k)
  <2>1. ASSUME NEW k \in DOMAIN fields PROVE fields[k].value = value(k)
    <3>1. Counted(packing, fields)[k] = [fields[k] EXCEPT !.value = value(k)]
      BY <1>2 DEF Counted
    <3>2. fields[k] \in FieldRecords
      BY <1>1, <1>2, ElementOfSeq DEF EnumFields
    <3> HIDE DEF value
    <3>3. [fields[k] EXCEPT !.value = value(k)].value = value(k)
      BY <3>2 DEF FieldRecords
    <3> QED BY <1>1, <3>1, <3>3
  <2> QED BY <2>1
<1>4. \A i, j \in DOMAIN fields :
        i <= j /\ (\A k \in i + 1 .. j : IsIncreasingConstant(fields[k])) =>
          value(j) = Ahead(value(i), j - i)
  BY ZenonT(60), <1>1, <1>2, CountsFrom
<1>5. ASSUME NEW j \in DOMAIN fields, CountsOn(1, j)
      PROVE  fields[j].value = Ahead(Zero(packing), j - 1)
  <2>1. 1 \in DOMAIN fields /\ 1 <= j /\ IsIncreasingConstant(fields[1])
        /\ \A k \in 1 + 1 .. j : IsIncreasingConstant(fields[k])
    BY <1>2, <1>5 DEF CountsOn
  <2>2. value(1) = Zero(packing)
    <3>1. value(1) = EnumStep(fields, 1, value(0)) /\ value(0) = Zero(packing)
      <4>1. 1 \in 1 .. Len(fields) /\ 1 - 1 = 0
        BY <1>2, <2>1
      <4>2. value(1) = EnumStep(fields, 1, value(1 - 1)) /\ value(0) = Zero(packing)
        BY <1>1, <4>1, EnumValuesAre
      <4> QED BY <4>1, <4>2
    <3> HIDE DEF value
    <3> QED BY <2>1, <3>1 DEF EnumStep
  <2> HIDE DEF value
  <2>3. value(j) = Ahead(value(1), j - 1)
    BY <1>4, <2>1
  <2> QED BY <1>3, <2>2, <2>3
<1>6. ASSUME NEW i \in DOMAIN fields, NEW j \in DOMAIN fields, i < j, CountsOn(i + 1, j)
      PROVE  fields[j].value = Ahead(fields[i].value, j - i)
  <2> HIDE DEF value
  <2>1. i <= j /\ \A k \in i + 1 .. j : IsIncreasingConstant(fields[k])
    BY <1>2, <1>6 DEF CountsOn
  <2>2. value(j) = Ahead(value(i), j - i)
    BY <1>4, <2>1
  <2> QED BY <1>3, <2>2
<1> QED BY <1>5, <1>6 DEF CountedOn

(* A class is laid out as it should be.                                    *)
LEMMA ClassIsLaidOut ==
  ASSUME FieldsInv, holder = "class"
  PROVE  Apart /\ Stays
<1>1. /\ fields \in Seq(ClassFields) /\ LaidOut(fields) = fields
      /\ typeSize = SizeOf(fields) /\ typeAlignment = AlignmentOf(fields)
  BY DEF FieldsInv, HeldFields
<1>2. DOMAIN fields = 1 .. Len(fields)
  BY <1>1, LenProperties
<1>3. ASSUME NEW k \in 1 .. Len(fields), IsPlaced(fields[k])
      PROVE  LET f == fields[k] IN
             /\ Offset(f) % f.type.align = 0 /\ EndBit(f) <= 8 * UnitEnd(f)
             /\ k = 1 \/ IsWhole(fields[k - 1]) => FirstBit(f) >= 8 * Offset(f)
             /\ k > 1 /\ IsWhole(fields[k - 1]) => EndBit(fields[k - 1]) <= FirstBit(f)
  <2>1. EndBit(fields[k]) <= 8 * UnitEnd(fields[k])
    BY <1>1, <1>3, InUnit DEF IsPlaced
  <2> QED BY <1>1, <1>3, <2>1, IsBehind
<1>4. (\A k \in 1 .. Len(fields) : IsPlaced(fields[k])) =>
        /\ \A i, j \in 1 .. Len(fields) : i < j => EndBit(fields[i]) <= FirstBit(fields[j])
        /\ \A k \in 1 .. Len(fields) : UnitEnd(fields[k]) <= SizeOf(fields)
  BY <1>1, NoTwoOverlap, UnitsHeld
<1>5. SizeOf(fields) % AlignmentOf(fields) = 0
  BY <1>1, SizeIs
<1>6. Apart
  BY <1>1, <1>2, <1>3, <1>4, <1>5 DEF Apart
<1>7. ASSUME NEW k \in 1 .. Len(fields), IsPlaced(fields[k])
      PROVE  LET frozen == [fields EXCEPT ![k] = WithOffset(@, @.actualOffset)] IN
             /\ SizeOf(frozen) = SizeOf(fields)
             /\ \A i \in 1 .. Len(fields) :
                  /\ Offset(LaidOut(frozen)[i]) = Offset(fields[i])
                  /\ FirstBit(LaidOut(frozen)[i]) = FirstBit(fields[i])
  BY <1>1, <1>7, FrozenStays
<1>8. Stays
  BY <1>1, <1>2, <1>7 DEF Stays
<1> QED BY <1>6, <1>8

(* What the invariant says is what is asked for.                           *)
LEMMA FieldsPromised == FieldsInv => FieldsLaidOut
<1> SUFFICES ASSUME FieldsInv PROVE FieldsLaidOut
  OBVIOUS
<1>1. FieldsTypeOK
  <2>1. fields \in Seq(HeldFields(holder))
    BY DEF FieldsInv
  <2>2. \A k \in DOMAIN fields : fields[k] \in FieldRecords /\ InRange(fields[k].value)
    BY <2>1, LenProperties, ElementOfSeq, HeldFieldsAre
  <2>3. fields \in Seq(FieldRecords)
    <3>1. HeldFields(holder) \subseteq FieldRecords
      BY HeldFieldsAre
    <3> QED BY <2>1, <3>1
  <2> QED BY <2>2, <2>3 DEF FieldsInv, FieldsTypeOK
<1>2. holder = "class" => Apart /\ Stays
  BY ClassIsLaidOut
<1>3. holder = "enum" => CountedOn
  BY EnumCounts
<1> QED BY <1>1, <1>2, <1>3 DEF FieldsLaidOut

(* The invariant holds at the start.                                       *)
LEMMA FieldsStart == FieldsInit => FieldsInv
<1> SUFFICES ASSUME FieldsInit PROVE FieldsInv
  OBVIOUS
<1>1. fields \in Seq(HeldFields(holder)) /\ 0 \in 0 .. MaxFieldCalls
  BY FieldConstants DEF FieldsInit
<1> QED BY <1>1 DEF FieldsInit, FieldsInv

(* Every step keeps it.                                                    *)
LEMMA FieldsStep == FieldsInv /\ [FieldsNext]_fieldVars => FieldsInv'
<1> SUFFICES ASSUME FieldsInv, [FieldsNext]_fieldVars PROVE FieldsInv'
  OBVIOUS
<1>1. CASE UNCHANGED fieldVars
  BY <1>1 DEF FieldsInv, fieldVars
<1>2. CASE CreateClass \/ \E t \in FieldTypes : CreateEnum(t)
  BY <1>2, CreatesStep
<1>3. CASE \/ \E t \in FieldTypes, offset \in FieldOffsets \cup {AutomaticAppendLayout},
                 length \in BitLengths, position \in BitPositions \cup {AutomaticAppendLayout} :
                AddField(t, offset, length, position)
           \/ \E value \in FieldValues : AddValue(value.n)
           \/ AddNextValue
  BY <1>3, AddsStep
<1>4. ASSUME NEW k \in DOMAIN fields,
             \/ \E value \in FieldValues : SetValue(k, value)
             \/ \E automatic \in BOOLEAN : SetIsAutomaticLayout(k, automatic)
             \/ \E offset \in FieldOffsets : SetOffset(k, offset)
             \/ \E length \in BitLengths : SetBitFieldLength(k, length)
             \/ \E position \in BitPositions : SetBitFieldPosition(k, position)
             \/ \E t \in FieldTypes : SetType(k, t)
             \/ \E j \in 1 .. Len(fields) + 1 : MoveToBefore(k, j)
             \/ DeleteField(k)
      PROVE  FieldsInv'
  <2>1. CASE \E value \in FieldValues : SetValue(k, value)
    BY <2>1, SetValueStep
  <2>2. ASSUME NEW automatic \in BOOLEAN, SetIsAutomaticLayout(k, automatic) PROVE FieldsInv'
    <3> DEFINE actual == fields[k].actualOffset
               offset == CASE holder = "enum" -> IF automatic THEN -3 ELSE -1
                           [] OTHER -> IF automatic THEN -2 ELSE actual
    <3>1. SetSymbolOffset(k, offset)
      BY <2>2 DEF SetIsAutomaticLayout, AutomaticIncreaseConstantValue, ConstantValue,
                  AutomaticAppendLayout
    <3>2. /\ actual \in Nat \cup {-1, -2, -3} /\ holder \in {"class", "enum"}
          /\ holder = "class" => (fields[k].offset # -2 => actual \in Nat)
      BY HeldFieldHas
    <3>3. offset \in Nat \cup {-1, -2, -3}
      BY <3>2
    <3>4. holder = "class" => offset \in {-2, actual}
      BY <3>2
    <3>5. holder = "class" => actual \in Nat \cup {-2}
      <4>1. ASSUME holder = "class" PROVE actual \in Nat
        <5>1. fields \in Seq(ClassFields) /\ LaidOut(fields) = fields /\ k \in 1 .. Len(fields)
          BY <4>1, LenProperties DEF FieldsInv, HeldFields
        <5>2. Placed(FieldCursors(fields)[k - 1], fields[k]) = fields[k]
              /\ FieldCursors(fields)[k - 1] \in FieldCursorSet /\ fields[k] \in ClassFields
          BY <5>1, FieldIs
        <5>3. Placed(FieldCursors(fields)[k - 1], fields[k]).actualOffset \in Nat
          BY <5>2, PlacedIs
        <5> QED BY <5>2, <5>3
      <4> QED BY <4>1
    <3> HIDE DEF offset
    <3>6. holder = "class" => offset \in Nat \cup {-2}
      BY <3>4, <3>5
    <3> QED BY <3>1, <3>3, <3>4, <3>6, SetSymbolOffsetStep
  <2>3. ASSUME NEW offset \in FieldOffsets, SetOffset(k, offset) PROVE FieldsInv'
    <3>1. offset \in Nat /\ ~IsAutomaticLayout(fields[k]) /\ SetSymbolOffset(k, offset)
      BY <2>3, FieldConstants DEF SetOffset
    <3>2. offset \in Nat \cup {-1, -2, -3} /\ offset \in Nat \cup {-2}
      BY <3>1
    <3> QED BY <3>1, <3>2, SetSymbolOffsetStep
  <2>4. CASE \/ \E length \in BitLengths : SetBitFieldLength(k, length)
             \/ \E position \in BitPositions : SetBitFieldPosition(k, position)
             \/ \E t \in FieldTypes : SetType(k, t)
    BY <2>4, SetsStep
  <2>5. CASE DeleteField(k) \/ \E j \in 1 .. Len(fields) + 1 : MoveToBefore(k, j)
    BY <2>5, MovesStep
  <2> QED BY <1>4, <2>1, <2>2, <2>3, <2>4, <2>5
<1> QED BY <1>1, <1>2, <1>3, <1>4 DEF FieldsNext

(* The steps of the other parts leave the fields alone.                    *)
LEMMA FieldsInParts ==
  FieldsInv /\ [PartsNext]_<<part, typeVars, fieldVars, functionVars, rangeVars, managerVars>>
    => FieldsInv'
<1>1. [PartsNext]_<<part, typeVars, fieldVars, functionVars, rangeVars, managerVars>>
        => [FieldsNext]_fieldVars
  BY DEF PartsNext
<1> QED BY <1>1, FieldsStep

(* Whatever is created, moved, given another type or offset, or deleted,   *)
(* between operations every class, array and datum is laid out from the    *)
(* types it now holds, unless a notification has failed; the children of a *)
(* class are its live fields and base classes, and a type notifies exactly *)
(* the symbols made of it (BaseSymbol::NotifyDependentChange,              *)
(* UdtTypeSymbol::LayoutType).  Whatever is done to the fields of a class, *)
(* a bit field the layout places is in its unit and behind the field before*)
(* it, and when the layout places all, no two overlap and the class holds  *)
(* every unit; a field taken from the layout stays, and so do the others.  *)
(* Whatever is done to an enum, its values count on in their type and      *)
(* around its end (UdtTypeSymbol::LayoutType, EnumTypeSymbol::LayoutEnum). *)
THEOREM LayoutsAlwaysFollow == PartsSpec => []LayoutsFollow
<1> DEFINE parts == <<part, typeVars, fieldVars, functionVars, rangeVars, managerVars>>
<1>1. LayoutProved!LayoutAssumption
  BY SymbolPartsAssumption
  DEF SymbolPartsAssumption, LayoutProved!LayoutAssumption, LayoutProved!IsFiniteSet, IsFiniteSet
<1>2. LayoutProved!Spec => [](LayoutProved!LayoutsFollow /\ LayoutProved!TreeOwned)
  BY <1>1, LayoutProved!LayoutsAlways
<1>3. PartsInit => LayoutProved!Init /\ FieldsInv
  BY LayoutStarts, FieldsStart DEF PartsInit
<1>4. [PartsNext]_parts => [LayoutProved!Next]_LayoutProved!vars
  BY LayoutSteps DEF PartsNext
<1>5. PartsSpec => LayoutProved!Spec
  BY <1>3, <1>4, PTL DEF PartsSpec, LayoutProved!Spec
<1>6. PartsSpec => []FieldsInv
  BY <1>3, FieldsInParts, PTL DEF PartsSpec
<1>7. LayoutProved!LayoutsFollow /\ LayoutProved!TreeOwned /\ FieldsInv => LayoutsFollow
  BY LayoutPromised, FieldsPromised DEF LayoutsFollow
<1> QED BY <1>2, <1>5, <1>6, <1>7, PTL
==============================================================================
