---------------------------- MODULE SymbolManager ----------------------------
(***************************************************************************)
(* SymbolBuilderManager and SymbolProvider, which the first call of a      *)
(* script puts into the service container of a target that is running      *)
(* already: the services of the container they keep pointers to, the       *)
(* tables of registers made of two of them, and the symbol sets by process *)
(* and module, through which the debugger finds what a script created.     *)
(*                                                                         *)
(* The container, the modules of the target and their keys are external: a *)
(* module that is loaded again may have the key it had before.             *)
(***************************************************************************)
EXTENDS Naturals, FiniteSets, Sequences

CONSTANTS
  Processes,   (* Keys of processes, not 0, which stands for the kernel.   *)
  Modules,     (* Keys of modules.                                         *)
  MaxEvents,   (* Bounds on the changes of services and modules,           *)
  MaxCalls,    (* on the calls                                             *)
  MaxFaults    (* and on the registrations that fail.                      *)

(* What a service may be: an architecture that names a register without its*)
(* parent is "broken", a platform that does not tell is "silent", and a    *)
(* machine that can be debugged is that of a kernel target.                *)
Contents ==
  [process |-> {"none", "first", "second"}, module |-> {"none", "first", "second"},
   arch |-> {"none", "amd64", "arm64", "broken"},
   platform |-> {"none", "windows", "other", "silent"}, machine |-> {"none", "debug"}]
Services == DOMAIN Contents
Pointers == Services \ {"machine"}   \* m_spProcEnum and the others of the manager

VARIABLES
  container,   (* The services there are.                                  *)
  loaded,      (* By process, 0 for the kernel, and module key: the load   *)
               (* it came with, 0 if it is not loaded.                     *)
  loads,       (* How often a module was loaded.                           *)
  manager,     (* [there, cached, registers, whole, convention]: its       *)
               (* pointers, whose registers m_regInfosById has and whether *)
               (* with all their children, m_spDefaultCallingConvention.   *)
  provider,    (* [there, manager, kernel]: whether m_spSymManager and     *)
               (* m_spMachineDebug are set.                                *)
  tracked,     (* m_trackedProcesses: by process key the symbol sets by    *)
               (* module key, each the load it was created for.            *)
  created,     (* What scripts created: [process, module, load].           *)
  crashed,
  events, calls, faults

vars == <<container, loaded, loads, manager, provider, tracked, created, crashed, events, calls,
          faults>>

IsKernel == container.machine = "debug"
Keys == Processes \cup {0}

-----------------------------------------------------------------------------
(* The services.                                                           *)

(* InitArchBased clears the tables before it fills them, and leaves at the *)
(* first failure.                                                          *)
IsWindows(platform) == platform \in {"none", "windows"}
InitArchBased(m) ==
  [m EXCEPT !.registers = m.cached.arch, !.whole = (m.cached.arch # "broken"),
            !.convention = (m.cached.arch = "amd64" /\ IsWindows(m.cached.platform))]

(* InitializeServices, which registering the manager leads to.  What it    *)
(* returns for a broken architecture is the container's affair.            *)
NoManager ==
  [there |-> FALSE, cached |-> [service \in Pointers |-> "none"], registers |-> "none", whole |-> FALSE, convention |-> FALSE]
InitializeServices ==
  LET new == [NoManager EXCEPT !.there = TRUE, !.cached = [s \in Pointers |-> container[s]]]
  IN IF container.arch = "none" THEN new ELSE InitArchBased(new)

(* A definition named "...Wrong" is a plausible bug in the definition that *)
(* follows it; no specification uses it.                                   *)
(*                                                                         *)
(* NotifyServiceChange.  A platform that comes with no architecture has it *)
(* use one all the same.                                                   *)
NotifyServiceChangeWrong(service, new) ==
  LET noted == [manager EXCEPT !.cached[service] = new]
  IN IF service = "arch" /\ new # "none" THEN InitArchBased(noted) ELSE noted
NotifyServiceChange(service, new) ==
  LET noted == [manager EXCEPT !.cached[service] = new]
  IN IF service \in {"arch", "platform"} /\ new # "none" THEN InitArchBased(noted) ELSE noted
Dereferences(service, new) ==
  manager.there /\ service = "platform" /\ new # "none" /\ manager.cached.arch = "none"

ServiceChanges(service) ==
  /\ events < MaxEvents /\ events' = events + 1
  /\ \E new \in Contents[service] \ {container[service]} :
       /\ container' = [container EXCEPT ![service] = new]
       /\ manager' = IF manager.there /\ service \in Pointers
                     THEN NotifyServiceChange(service, new) ELSE manager
       /\ crashed' = Dereferences(service, new)
       /\ provider' = IF provider.there /\ service = "machine"
                      THEN [provider EXCEPT !.kernel = (new = "debug")] ELSE provider
  /\ UNCHANGED <<loaded, loads, tracked, created, calls, faults>>

(* NotifyEvent of the manager does nothing about a module that goes.       *)
ModuleComesOrGoes(p, m) ==
  /\ events < MaxEvents /\ events' = events + 1
  /\ IF loaded[p][m] = 0 THEN loads' = loads + 1 /\ loaded' = [loaded EXCEPT ![p][m] = loads + 1]
     ELSE loaded' = [loaded EXCEPT ![p][m] = 0] /\ UNCHANGED loads
  /\ UNCHANGED <<container, manager, provider, tracked, created, crashed, calls, faults>>

-----------------------------------------------------------------------------
(* The calls of scripts.                                                   *)

Call == calls < MaxCalls /\ calls' = calls + 1

(* GetSymbolBuilderManager: the manager, and the provider only behind it.  *)
Provider == [there |-> TRUE, manager |-> TRUE, kernel |-> IsKernel]
Injects == manager' = InitializeServices /\ provider' = Provider
GetSymbolBuilderManager == IF manager.there THEN UNCHANGED <<manager, provider>> ELSE Injects

(* Registering the manager or aggregating the provider fails.              *)
InjectionFails ==
  /\ Call /\ ~manager.there /\ faults < MaxFaults /\ faults' = faults + 1
  /\ manager' \in {manager, InitializeServices}
  /\ UNCHANGED <<container, loaded, loads, provider, tracked, created, crashed, events>>

(* TrackProcessForKey.                                                     *)
ProcessKey(p, kernel) == IF kernel THEN 0 ELSE p
Tracked(key) == IF key \in DOMAIN tracked THEN tracked[key] ELSE <<>>
TrackProcessForKey(key, sets) ==
  [k \in DOMAIN tracked \cup {key} |-> IF k = key THEN sets ELSE tracked[k]]

(* CreateSymbols and GetSymbolBuilderSymbols of a module that is loaded:   *)
(* without an enumerator of modules they leave when the process is tracked,*)
(* and a set is created once.                                              *)
CreateSymbols(p, m) ==
  LET key == ProcessKey(p, IsKernel)
      sets == Tracked(key)
      new == [load |-> loaded[key][m]]
  IN /\ Call /\ loaded[key][m] # 0 /\ GetSymbolBuilderManager
     /\ IF manager'.cached.module = "none" \/ m \in DOMAIN sets
        THEN tracked' = TrackProcessForKey(key, sets) /\ UNCHANGED created
        ELSE /\ tracked' = TrackProcessForKey(key, [k \in DOMAIN sets \cup {m} |-> IF k = m THEN new ELSE sets[k]])
             /\ created' = created \cup {[process |-> key, module |-> m, load |-> loaded[key][m]]}
     /\ UNCHANGED <<container, loaded, loads, crashed, events, faults>>
GetSymbolBuilderSymbols(p, m) ==
  LET key == ProcessKey(p, IsKernel) IN
  /\ Call /\ loaded[key][m] # 0 /\ GetSymbolBuilderManager
  /\ tracked' = TrackProcessForKey(key, Tracked(key))
  /\ UNCHANGED <<container, loaded, loads, created, crashed, events, faults>>

(* LocateSymbolsForImage, of the debugger, for a module that is loaded.    *)
Located(p, m) ==
  LET sets == Tracked(ProcessKey(p, provider.kernel))
  IN IF provider.manager /\ m \in DOMAIN sets THEN sets[m].load ELSE 0
LocateSymbolsForImage(p, m) ==
  /\ Call /\ provider.there /\ loaded[ProcessKey(p, IsKernel)][m] # 0
  /\ LET key == ProcessKey(p, provider.kernel) IN tracked' = TrackProcessForKey(key, Tracked(key))
  /\ UNCHANGED <<container, loaded, loads, manager, provider, created, crashed, events, faults>>

Start(services) ==
  /\ container = services
  /\ loaded = [k \in Keys |-> [m \in Modules |-> 1]] /\ loads = 1
  /\ manager = NoManager /\ provider = [there |-> FALSE, manager |-> FALSE, kernel |-> FALSE]
  /\ tracked = <<>> /\ created = {} /\ crashed = FALSE
  /\ events = 0 /\ calls = 0 /\ faults = 0
Init ==
  \E services \in [Services -> {"none", "first", "amd64", "windows", "debug"}] :
    /\ \A service \in Services : services[service] \in Contents[service]
    /\ Start(services)

Next ==
  /\ ~crashed
  /\ \/ \E service \in Services : ServiceChanges(service)
     \/ \E p \in Keys, m \in Modules : ModuleComesOrGoes(p, m)
     \/ InjectionFails
     \/ \E p \in Processes, m \in Modules :
          CreateSymbols(p, m) \/ GetSymbolBuilderSymbols(p, m) \/ LocateSymbolsForImage(p, m)

-----------------------------------------------------------------------------
(* Properties.                                                             *)

(* The manager has the services of the container.  Its tables are those of *)
(* the architecture there is, with all their children if the architecture  *)
(* names them all, and no convention is offered that is not the one of this*)
(* architecture and platform.                                              *)
TablesFollow ==
  manager.there =>
    /\ \A service \in Pointers : manager.cached[service] = container[service]
    /\ container.arch # "none" =>
         /\ manager.registers = container.arch /\ manager.whole = (container.arch # "broken")
         /\ manager.convention => container.arch = "amd64" /\ IsWindows(container.platform)

(* SymManager.h:389: the manager listens to modules that disappear "so that*)
(* we can "unload" our cached copy of the symbols".  What the debugger     *)
(* finds for a module was then created for it, not for one that went.      *)
FoundForItself ==
  \A p \in Processes, m \in Modules :
    LET load == loaded[ProcessKey(p, IsKernel)][m]
    IN load # 0 => Located(p, m) \in {0, load}

(* As far as that is so: the debugger finds for a module what a script     *)
(* created for it and nothing else, if no script created symbols for one   *)
(* that went and had its process and key.  It finds them at all if no      *)
(* registration failed.                                                    *)
CreatedFound ==
  \A p \in Processes, m \in Modules :
    LET key == ProcessKey(p, IsKernel)
        load == loaded[key][m]
        loadsOf == {r.load : r \in {c \in created : c.process = key /\ c.module = m}}
    IN load # 0 /\ loadsOf \subseteq {load} =>
         /\ Located(p, m) \in {0} \cup loadsOf
         /\ faults = 0 /\ loadsOf # {} => Located(p, m) = load

(* Both.                                                                   *)
ManagerFollows == TablesFollow /\ CreatedFound
=============================================================================
