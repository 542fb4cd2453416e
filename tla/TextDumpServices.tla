-------------------------- MODULE TextDumpServices --------------------------
(***************************************************************************)
(* The text dump as a target: the extension with its file activator, the   *)
(* services a parsed file brings into the container of the debugger, and   *)
(* what they keep while the debugger asks them: the enumerators, the       *)
(* mapping of register names, and the virtual memory on which the memory   *)
(* of images is stacked once the modules have been enumerated.             *)
(*                                                                         *)
(* The container, the architecture service and the components of the       *)
(* debugger are external.  A name of a register is [of, lower]: what it    *)
(* spells in lower case, and whether it is in lower case.                  *)
(***************************************************************************)
EXTENDS Integers, Sequences, SequencesExt, FiniteSets

CONSTANTS
  Dumps,          (* Parsed files: [sections, modules, frames, registers]  *)
  Architectures,  (* name |-> the sequence of its registers [name, id]     *)
  Enumerators,    (* Of modules                                            *)
  MaxFaults, MaxChanges                     (* Bounds of the environment   *)

VARIABLES
  g,              (* g_pActivator, g_pCompositionManager, g_pCompositionBridge *)
  dump, services, session,
  vmStack, listeners, m_firstEnumerationComplete,
  m_pos,          (* Of the enumerators of modules and of the frame set    *)
  m_enumerated,   (* Of the enumerators of processes and threads           *)
  given,          (* The objects given to the debugger                     *)
  arch, m_spMachineArch, m_registerMappings, context,
  ended, brokenOff, faults, changes    (* What happened, for the properties *)

imageVars == <<vmStack, listeners, m_firstEnumerationComplete, ended>>
registerVars == <<arch, m_spMachineArch, m_registerMappings, context, brokenOff>>
walkVars == <<m_pos, m_enumerated, given>>
openVars == <<dump, services, session>>
servicesVars == <<g, openVars, imageVars, registerVars, walkVars, faults, changes>>

Null == "null"
None == [none |-> TRUE]
Unused == -1
NoMappings == <<>>
Globals == {"activator", "manager", "bridge"}
Fault == faults < MaxFaults /\ faults' = faults + 1

Init ==
  /\ g = {}
  /\ dump = None /\ services = <<>> /\ session = "closed"
  /\ vmStack = <<>> /\ listeners = 0 /\ m_firstEnumerationComplete = FALSE /\ ended = "no"
  /\ m_pos = [e \in Enumerators \cup {"frames"} |-> Unused]
  /\ m_enumerated = [k \in {"process", "thread"} |-> Null] /\ given = {}
  /\ arch = Null /\ m_spMachineArch = Null /\ m_registerMappings = NoMappings
  /\ context = None /\ brokenOff = FALSE
  /\ faults = 0 /\ changes = 0

-----------------------------------------------------------------------------
(* The extension.                                                          *)

(* It sets its three globals when all has succeeded, else none.            *)
DebugExtensionInitialize ==
  /\ "activator" \notin g
  /\ \/ g' = Globals /\ UNCHANGED faults
     \/ Fault /\ UNCHANGED g
  /\ UNCHANGED <<openVars, imageVars, registerVars, walkVars, changes>>

(* A file that is open stays open, without a composition manager.          *)
DebugExtensionUninitialize ==
  /\ g # {} /\ g' = {}
  /\ UNCHANGED <<openVars, imageVars, registerVars, walkVars, faults, changes>>

-----------------------------------------------------------------------------
(* The services: what they depend on and when they come.                   *)

Service(guid, hard, needs) == [guid |-> guid, hard |-> hard, needs |-> needs]
MachineService == Service("MACHINE", {}, {})
GetArchitecture == "AMD64"
ProcessEnumerationService == Service("PROCESS_ENUMERATOR", {}, {})
ThreadEnumerationService == Service("THREAD_ENUMERATOR", {"ARCHINFO"}, {})
VirtualMemoryService == Service("VIRTUAL_MEMORY", {}, {"MEMORY", "MODULEINFO"})
ModuleEnumerationService == Service("MODULE_ENUMERATOR", {}, {"MODULEINFO"})
ModuleIndexService == Service("MODULE_INDEX_PROVIDER", {}, {"MODULEINFO"})
ImageProvider == Service("IMAGE_PROVIDER", {}, {"MODULEINFO"})
ImageParser == Service("IMAGE_PARSE_PROVIDER", {}, {"MODULEINFO"})
StackProviderService == Service("STACK_PROVIDER", {}, {"STACK"})

Order ==
  <<MachineService, ProcessEnumerationService, ThreadEnumerationService, VirtualMemoryService,
    ModuleEnumerationService, ModuleIndexService, ImageProvider, ImageParser, StackProviderService>>
Wanted(sections) ==
  SelectSeq(Order, LAMBDA s : /\ s.needs = {} \/ s.needs \cap sections # {}
                              /\ s \in {ImageProvider, ImageParser} => "manager" \in g)
Registered(service) == session = "open" /\ service \in ToSet(services)

(* InitializeServices of the activator registers them in this order; one   *)
(* that fails leaves those before it, and the file is not opened.          *)
InitializeServices ==
  /\ "activator" \in g /\ session = "closed"
  /\ \E d \in Dumps, n \in 0 .. Len(Order) :
       LET wanted == Wanted(d.sections)
       IN /\ n <= Len(wanted)
          /\ dump' = d /\ services' = SubSeq(wanted, 1, n)
          /\ IF n = Len(wanted) THEN session' = "filled" /\ UNCHANGED faults
             ELSE session' = "failed" /\ Fault
  /\ UNCHANGED <<g, imageVars, registerVars, walkVars, changes>>

(* The container starts and initializes its services, those they depend on *)
(* first: the debugger adds the architecture that the machine service says.*)
(* Threads take it up, and the virtual memory listens for its event.       *)
Listens(notificationKind) ==
  IF notificationKind = "ServiceManagerNotification" THEN listeners + 1 ELSE listeners
ContainerStarts ==
  /\ session = "filled" /\ session' = "open"
  /\ arch' = GetArchitecture /\ m_spMachineArch' = arch'
  /\ IF VirtualMemoryService \in ToSet(services)
     THEN vmStack' = <<"own">> /\ listeners' = Listens("ServiceManagerNotification")
     ELSE UNCHANGED <<vmStack, listeners>>
  /\ UNCHANGED <<g, dump, services, m_firstEnumerationComplete, ended, m_registerMappings, context,
                 brokenOff, walkVars, faults, changes>>

-----------------------------------------------------------------------------
(* Modules, and the memory of their images.                                *)

EnumerateModules(e) ==
  /\ Registered(ModuleEnumerationService)
  /\ m_pos' = [m_pos EXCEPT ![e] = 0]
  /\ UNCHANGED <<g, openVars, imageVars, registerVars, m_enumerated, given, faults, changes>>

(* NotifyEvent of the virtual memory.  Creating the component, initializing*)
(* it and registering it may fail; when it is registered, the service it   *)
(* sits on is initialized with a stacked notification.  Without a          *)
(* composition manager nothing is done.                                    *)
NotifyEvent ==
  \/ "manager" \notin g /\ UNCHANGED <<vmStack, listeners, faults>>
  \/ "manager" \in g /\ Fault /\ UNCHANGED <<vmStack, listeners>>
  \/ /\ "manager" \in g /\ UNCHANGED faults
     /\ vmStack' = Append(vmStack, "image")
     /\ listeners' = Listens("StackedServiceNotification")

(* CompleteModuleEnumeration, by the enumerator that comes to its end.     *)
CompleteModuleEnumeration ==
  IF m_firstEnumerationComplete
  THEN UNCHANGED <<m_firstEnumerationComplete, vmStack, listeners, faults>>
  ELSE /\ m_firstEnumerationComplete' = TRUE
       /\ IF listeners > 0 THEN NotifyEvent ELSE UNCHANGED <<vmStack, listeners, faults>>

GetNext(e) ==
  /\ session = "open" /\ m_pos[e] # Unused
  /\ \/ /\ m_pos[e] < dump.modules
        /\ m_pos' = [m_pos EXCEPT ![e] = @ + 1]
        /\ UNCHANGED <<imageVars, faults>>
     \/ /\ m_pos[e] >= dump.modules
        /\ CompleteModuleEnumeration
        /\ ended' = IF ended # "no" THEN ended ELSE IF "manager" \in g THEN "managed" ELSE "unmanaged"
        /\ UNCHANGED m_pos
  /\ UNCHANGED <<g, openVars, registerVars, m_enumerated, given, changes>>

Reset(e) ==
  /\ session = "open" /\ m_pos[e] > 0
  /\ m_pos' = [m_pos EXCEPT ![e] = 0]
  /\ UNCHANGED <<g, openVars, imageVars, registerVars, m_enumerated, given, faults, changes>>

-----------------------------------------------------------------------------
(* The stack.                                                              *)

StartStackWalk ==
  /\ Registered(StackProviderService)
  /\ m_pos' = [m_pos EXCEPT !["frames"] = 0]
  /\ UNCHANGED <<g, openVars, imageVars, registerVars, m_enumerated, given, faults, changes>>

(* The last frame is left with E_BOUNDS, and so is the end.                *)
MoveNext ==
  /\ session = "open" /\ m_pos["frames"] \in 0 .. dump.frames - 1
  /\ m_pos' = [m_pos EXCEPT !["frames"] = @ + 1]
  /\ UNCHANGED <<g, openVars, imageVars, registerVars, m_enumerated, given, faults, changes>>

(* Frames are of one kind for a dump: partial physical ones need registers.*)
GetCurrentFrame ==
  /\ session = "open" /\ m_pos["frames"] \in 0 .. dump.frames - 1
  /\ given' = given \cup {IF dump.registers # <<>> THEN "PartialPhysicalFrame" ELSE "GenericFrame"}
  /\ UNCHANGED <<g, openVars, imageVars, registerVars, m_pos, m_enumerated, faults, changes>>

-----------------------------------------------------------------------------
(* Processes and threads: one of each, with the key 1.                     *)

Enumerate(kind) ==
  /\ session = "open"
  /\ m_enumerated' = [m_enumerated EXCEPT ![kind] = "before"]
  /\ UNCHANGED <<g, openVars, imageVars, registerVars, m_pos, given, faults, changes>>

GetNextOfKind(kind) ==
  /\ session = "open" /\ m_enumerated[kind] = "before"
  /\ m_enumerated' = [m_enumerated EXCEPT ![kind] = "after"]
  /\ given' = given \cup {kind}
  /\ UNCHANGED <<g, openVars, imageVars, registerVars, m_pos, faults, changes>>

FindByKey(kind) ==
  /\ session = "open"
  /\ given' = given \cup {kind}
  /\ UNCHANGED <<g, openVars, imageVars, registerVars, m_pos, m_enumerated, faults, changes>>

-----------------------------------------------------------------------------
(* Registers.                                                              *)

Lower(name) == [of |-> name.of, lower |-> TRUE]

(* InitializeRegisterMappings when the first n registers of the            *)
(* architecture are enumerated: a name is mapped to the first of its       *)
(* registers.                                                              *)
FirstOf(registers, name, n) ==
  SelectInSubSeq(registers, 1, n, LAMBDA r : Lower(r.name) = name)
Mappings(a, n) ==
  IF a = Null THEN NoMappings
  ELSE LET registers == Architectures[a]
       IN [name \in {Lower(registers[i].name) : i \in 1 .. n} |->
             registers[FirstOf(registers, name, n)].id]
NumRegisters(a) == IF a = Null THEN 0 ELSE Len(Architectures[a])

(* An enumeration that breaks off leaves the names so far mapped; GetNext  *)
(* that fails is taken for its end, all other failures are returned.       *)
InitializeRegisterMappings(a, n, hr) ==
  /\ n <= NumRegisters(a)
  /\ m_registerMappings' = Mappings(a, n)
  /\ brokenOff' = (n < NumRegisters(a))
  /\ IF n = NumRegisters(a) THEN hr = "S_OK" /\ UNCHANGED faults ELSE Fault

(* The values a context is given, by the ids of its registers: names that  *)
(* are not mapped are left out, and of two values the later stays.         *)
Mapped(mappings) ==
  {k \in DOMAIN dump.registers : dump.registers[k].name \in DOMAIN mappings}
Values(mappings) ==
  LET idOf(k) == mappings[dump.registers[k].name]
  IN [id \in {idOf(k) : k \in Mapped(mappings)} |->
        dump.registers[Max({k \in Mapped(mappings) : idOf(k) = id})].value]

(* GetContext of a thread: the mappings are made when there are none.      *)
HasContext == dump.registers # <<>> /\ m_spMachineArch # Null
GetContext ==
  /\ session = "open" /\ "thread" \in given /\ HasContext
  /\ IF m_registerMappings # NoMappings
     THEN /\ context' = [of |-> arch, values |-> Values(m_registerMappings)]
          /\ UNCHANGED <<m_registerMappings, brokenOff, faults>>
     ELSE \E n \in 0 .. NumRegisters(m_spMachineArch), hr \in {"S_OK", "E_FAIL"} :
            /\ InitializeRegisterMappings(m_spMachineArch, n, hr)
            /\ context' = IF hr = "S_OK"
                          THEN [of |-> arch, values |-> Values(Mappings(m_spMachineArch, n))] ELSE None
  /\ UNCHANGED <<g, openVars, imageVars, arch, m_spMachineArch, walkVars, changes>>

(* A definition named "...Wrong" is a plausible bug in the definition that *)
(* follows it; no specification uses it.                                   *)
NotifyServiceChangeWrong ==
  /\ session = "open" /\ changes < MaxChanges /\ changes' = changes + 1
  /\ arch' \in (DOMAIN Architectures \cup {Null}) \ {arch}
  /\ m_spMachineArch' = arch'
  /\ context' = None
  /\ UNCHANGED <<g, openVars, imageVars, walkVars, m_registerMappings, brokenOff, faults>>

(* NotifyServiceChange, when someone changes the architecture service. One *)
(* that has not the interface leaves the mappings as they are, but no      *)
(* architecture to use them with.                                          *)
NotifyServiceChange ==
  /\ session = "open" /\ changes < MaxChanges /\ changes' = changes + 1
  /\ arch' \in (DOMAIN Architectures \cup {Null}) \ {arch}
  /\ context' = None
  /\ \/ /\ m_spMachineArch' = arch'
        /\ \E n \in 0 .. NumRegisters(arch'), hr \in {"S_OK", "E_FAIL"} :
             InitializeRegisterMappings(arch', n, hr)
     \/ arch' # Null /\ Fault /\ m_spMachineArch' = Null /\ UNCHANGED <<m_registerMappings, brokenOff>>
  /\ UNCHANGED <<g, openVars, imageVars, walkVars>>

(* The debugger closes the file: its services are released.                *)
DebuggerCloses ==
  /\ session \in {"open", "failed"}
  /\ dump' = None /\ services' = <<>> /\ session' = "closed"
  /\ vmStack' = <<>> /\ listeners' = 0 /\ m_firstEnumerationComplete' = FALSE /\ ended' = "no"
  /\ m_pos' = [e \in Enumerators \cup {"frames"} |-> Unused]
  /\ m_enumerated' = [k \in {"process", "thread"} |-> Null] /\ given' = {}
  /\ arch' = Null /\ m_spMachineArch' = Null /\ m_registerMappings' = NoMappings
  /\ context' = None /\ brokenOff' = FALSE
  /\ UNCHANGED <<g, faults, changes>>

Next ==
  \/ DebugExtensionInitialize \/ DebugExtensionUninitialize
  \/ InitializeServices \/ ContainerStarts \/ DebuggerCloses
  \/ \E e \in Enumerators : EnumerateModules(e) \/ GetNext(e) \/ Reset(e)
  \/ StartStackWalk \/ MoveNext \/ GetCurrentFrame \/ Reset("frames")
  \/ \E kind \in {"process", "thread"} :
       Enumerate(kind) \/ GetNextOfKind(kind) \/ FindByKey(kind)
  \/ GetContext \/ NotifyServiceChange

Spec == Init /\ [][Next]_servicesVars

-----------------------------------------------------------------------------
(* Properties.                                                             *)

(* ModuleServices.cpp lines 160-176: the memory of images is not there     *)
(* before an enumeration of the modules has come to its end, and then it is*)
(* stacked once, whatever enumerators there are, on the memory of the file,*)
(* where what it needs is in the container too; unless something failed or *)
(* the extension was uninitialized then, it is there from then on.         *)
ImagesMappedOnce ==
  /\ "image" \in ToSet(vmStack) =>
       /\ ended # "no" /\ vmStack = <<"own", "image">>
       /\ {ImageProvider, ImageParser} \subseteq ToSet(services)
  /\ ended = "managed" /\ faults = 0 => "image" \in ToSet(vmStack)
  /\ listeners <= 1

(* ThreadServices.h lines 322-328: a context has values of registers of the*)
(* architecture that is there, each the last the file has for its name, and*)
(* when the enumeration of the names did not break off, all the file has   *)
(* for names of the architecture.                                          *)
LastValue(name) ==
  LET k == {j \in DOMAIN dump.registers : dump.registers[j].name = name}
  IN IF k = {} THEN {} ELSE {dump.registers[Max(k)].value}
ContextOfArchitecture ==
  context # None =>
    LET registers == ToSet(Architectures[context.of])
    IN /\ context.of = arch
       /\ \A id \in DOMAIN context.values :
            \E r \in registers : r.id = id /\ context.values[id] \in LastValue(Lower(r.name))
       /\ ~brokenOff =>
            \A r \in registers : LastValue(Lower(r.name)) # {} => r.id \in DOMAIN context.values

TargetAsDumped == ImagesMappedOnce /\ ContextOfArchitecture
=============================================================================
