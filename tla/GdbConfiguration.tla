-------------------------- MODULE GdbConfiguration --------------------------
(***************************************************************************)
(* The configuration of the EXDI GDB server: one table, filled from the    *)
(* configuration file, from the description of the target and of its       *)
(* registers that the GDB server sends, and from the file of the access    *)
(* codes of the system registers; and the controller, which takes its      *)
(* registers from the table.  The table outlives the controller: a session *)
(* that fails, or ends, leaves it to the next one.                         *)
(*                                                                         *)
(* A document is the sequence of its elements; an element is a record of   *)
(* its tag and of what its attributes say.  A unique_ptr is <<>>, or <<v>>;*)
(* what is moved out of the table leaves <<>> behind.                      *)
(***************************************************************************)
EXTENDS Integers, SequencesExt, FiniteSetsExt, TLC

CONSTANTS
  ConfigFiles, MapFiles,       (* Documents on the disk                    *)
  TargetFiles, RegisterFiles,  (* Documents the GDB server sends           *)
  PieceSize,                   (* What it sends of them at once            *)
  MaxSessions, MaxFaults

VARIABLES
  table,        (* m_ExdiGdbServerData                                     *)
  controller,   (* The registers and codes of GdbSrvControllerImpl         *)
  server,       (* The architecture as CLiveExdiGdbSrvServer knows it      *)
  reading,      (* Which document is read, or how the session stands       *)
  doc,          (* What remains of it to be read                           *)
  transfer,     (* Of a document that the GDB server sends: what came      *)
  files,        (* The documents of this process, by what they are         *)
  sessions, failures

configVars == <<table, controller, server, reading, doc, transfer, files, sessions, failures>>

Known == {"X86", "X64", "ARM", "ARM64"}
Families == ("X86" :> "X86") @@ ("X64" :> "X86") @@ ("ARM" :> "ARM") @@ ("ARM64" :> "ARMV8ARCH64")
          @@ ("UNKNOWN" :> "UNK")
NotListed == -1   (* "n/a", where the order of a register would stand.     *)

EmptyTable ==
  [isRead |-> FALSE, current |-> "", name |-> "", isTargetSelected |-> FALSE,
   component |-> "", connection |-> "", memoryCommands |-> "", hosts |-> <<>>,
   arch |-> "UNKNOWN", family |-> "UNK", cores |-> 0, description |-> "",
   fileArch |-> "UNKNOWN", isTargetTagEmpty |-> FALSE, groups |-> <<>>,
   registerSet |-> <<>>, supported |-> <<>>, featureName |-> <<>>,
   core |-> <<>>, system |-> <<>>, range |-> <<>>,
   mapArchitectures |-> <<>>, map |-> <<>>]

NoController == [arch |-> "UNKNOWN", family |-> "UNK", registers |-> <<>>, system |-> <<>>,
                 codes |-> <<>>]
NoTransfer == [whole |-> <<>>, offset |-> 0, got |-> <<>>]

Documents ==
  [config : ConfigFiles, target : TargetFiles, registers : RegisterFiles, map : MapFiles]

Init ==
  /\ files \in Documents
  /\ table = EmptyTable
  /\ controller = NoController /\ server = [arch |-> "UNKNOWN", family |-> "UNK"]
  /\ reading = "config" /\ doc = files.config
  /\ transfer = NoTransfer
  /\ sessions = 1 /\ failures = 0

-----------------------------------------------------------------------------
(* ReadStream.                                                             *)

Others == UNCHANGED <<controller, server, transfer, files, sessions, failures>>

IsElement(tag) == reading \in {"config", "target", "registers", "map"}
                    /\ doc # <<>> /\ doc[1].tag = tag
Element == doc[1]

(* HandleTagAttributeList ends well: on to the next node.                  *)
Accept(t) == table' = t /\ doc' = Tail(doc) /\ UNCHANGED reading /\ Others
(* It ends with a failure, or throws before there is a result: the rest is *)
(* not read, and the object under construction goes.                       *)
Refuse(t) == table' = t /\ doc' = <<>> /\ reading' = "failed" /\ Others
(* A null pointer is used.                                                 *)
Crash == reading' = "crashed" /\ UNCHANGED <<table, doc>> /\ Others

(* The elements of the files other than the configuration set no result of *)
(* their own: it stays a failure, unless no target is selected.            *)
AcceptOutsideTarget(t) == IF table.isTargetSelected THEN Refuse(t) ELSE Accept(t)

(* The document is not well formed, or none of the attributes of an element*)
(* is known.                                                               *)
DocumentFails ==
  /\ reading \in {"config", "target", "registers", "map"} /\ doc # <<>>
  /\ failures < MaxFaults
  /\ failures' = failures + 1
  /\ reading' = "failed" /\ doc' = <<>>
  /\ UNCHANGED <<table, controller, server, transfer, files, sessions>>

-----------------------------------------------------------------------------
(* The configuration file.                                                 *)

ExdiTargets == IsElement("ExdiTargets") /\ Accept([table EXCEPT !.current = Element.name])

(* A definition named "...Wrong" is a plausible bug in the definition that *)
(* follows it; no specification uses it.                                   *)
SelectedWrong(t, name) ==
  IF name = t.current THEN [t EXCEPT !.isTargetSelected = TRUE, !.name = name] ELSE t
Selected(t, name) ==
  IF name = t.current THEN [t EXCEPT !.isTargetSelected = TRUE, !.name = name]
  ELSE [t EXCEPT !.isTargetSelected = FALSE]

ExdiTarget == IsElement("ExdiTarget") /\ Accept(Selected(table, Element.name))

ConfigTags == {"ExdiGdbServerConfigData", "ExdiGdbServerTargetData",
  "GdbServerConnectionParameters", "Value", "ExdiGdbServerMemoryCommands",
  "ExdiGdbServerRegisters", "Entry"}

(* The elements of a target that is not selected, the elements that only   *)
(* hold others ("target", the root of the codes) and those not known.      *)
SkipElement ==
  /\ \/ ~table.isTargetSelected /\ \E tag \in ConfigTags \cup {"unknown"} : IsElement(tag)
     \/ IsElement("target")
  /\ Accept(table)

RefuseElement ==
  /\ table.isTargetSelected /\ IsElement("unknown")
  /\ Refuse(table)

OfTarget(tag) == table.isTargetSelected /\ IsElement(tag)

ServerConfigData ==
  OfTarget("ExdiGdbServerConfigData") /\ Accept([table EXCEPT !.component = Element.data])

(* The size for the search in memory must be a number: else the name of the*)
(* description is not taken over, and nobody is told.  targetFamily names  *)
(* the family of targetArchitecture, as in exdiConfigData.xml.             *)
TargetData ==
  /\ OfTarget("ExdiGdbServerTargetData")
  /\ LET t == [table EXCEPT !.arch = IF Element.arch \in Known THEN Element.arch ELSE "UNKNOWN",
                            !.family = IF Element.arch \in Known THEN Families[Element.arch] ELSE "UNK",
                            !.cores = Element.cores]
     IN Accept(IF Element.scanSize THEN [t EXCEPT !.description = Element.description] ELSE t)

ConnectionParameters ==
  OfTarget("GdbServerConnectionParameters") /\ Accept([table EXCEPT !.connection = Element.data])

ConnectionValue ==
  OfTarget("Value") /\ Accept([table EXCEPT !.hosts = Append(@, Element.host)])

MemoryCommands ==
  OfTarget("ExdiGdbServerMemoryCommands") /\ Accept([table EXCEPT !.memoryCommands = Element.data])

(* emplace: what is there stays.                                           *)
Emplaced(map, key, value) == IF key \in DOMAIN map THEN map ELSE (key :> value) @@ map

(* Only the first registers that name a range of system registers make the *)
(* set of these.                                                           *)
Registers ==
  /\ OfTarget("ExdiGdbServerRegisters")
  /\ LET a == IF Element.arch \in Known THEN Element.arch ELSE "UNKNOWN"
         first == Element.range # <<>> /\ table.system = <<>>
     IN Accept([table EXCEPT
          !.registerSet = Append(@, a),
          !.supported = Emplaced(@, a, Element.feature),
          !.core = Emplaced(@, a, <<<<>>>>),
          !.system = IF first THEN <<a :> <<<<>>>>>> ELSE @,
          !.range = IF first THEN Element.range ELSE @])

InRange(order) == table.range[1] <= order /\ order <= table.range[2]
Pushed(map, a, r) == [map EXCEPT ![a] = <<Append(@[1], r)>>]

RegisterEntry ==
  /\ OfTarget("Entry")
  /\ LET a == Last(table.registerSet)
         r == [name |-> Element.name, order |-> Element.order]
         isSystem == /\ table.system # <<>> /\ table.range # <<>>
                     /\ a \in DOMAIN table.system[1] /\ InRange(r.order)
     IN Accept([table EXCEPT !.core = Pushed(@, a, r),
                             !.system = IF isSystem THEN <<Pushed(@[1], a, r)>> ELSE @])

-----------------------------------------------------------------------------
(* The description of the target and of its registers.                     *)

FileArchitecture(t, text) == IF text \in Known THEN [t EXCEPT !.fileArch = text] ELSE t

(* An element without attributes is read as if it had one of its own name  *)
(* with no value: the architecture is then the text that follows.          *)
Architecture ==
  /\ IsElement("architecture")
  /\ Accept(IF Element.text = "" THEN [table EXCEPT !.isTargetTagEmpty = TRUE]
            ELSE FileArchitecture(table, Element.text))

Text ==
  /\ IsElement("#text")
  /\ Accept(IF table.isTargetTagEmpty
            THEN [FileArchitecture(table, Element.text) EXCEPT !.isTargetTagEmpty = FALSE]
            ELSE table)

IncludeTarget ==
  /\ IsElement("includeTarget")
  /\ Accept(IF Element.group = "" THEN table
            ELSE [table EXCEPT !.groups = Emplaced(@, Element.group, Element.href)])

(* The name of a feature holds that of the supported one; "" is in each.   *)
Supports(supported, feature) == supported \in {"all", "", feature}

(* Every feature begins the system registers anew; once one is supported   *)
(* the registers of those after it are taken as well.                      *)
FeatureOf(t, feature) ==
  [t EXCEPT
     !.featureName = IF Supports(t.supported[t.fileArch], feature) THEN <<feature>> ELSE @,
     !.system = <<t.fileArch :> <<<<>>>>>>]

Feature ==
  /\ IsElement("feature")
  /\ \/ table.registerSet = <<>> /\ Crash
     \/ /\ table.registerSet # <<>> /\ table.fileArch \notin DOMAIN table.supported
        /\ Refuse(table)
     \/ /\ table.fileArch \in DOMAIN table.supported
        /\ AcceptOutsideTarget(FeatureOf(table, Element.name))

(* A register without a group cannot be converted, and ends the reading.   *)
FileRegister ==
  /\ IsElement("reg")
  /\ \/ table.featureName = <<>> /\ AcceptOutsideTarget(table)
     \/ /\ table.featureName # <<>>
        /\ Element.group = "" \/ table.fileArch \notin DOMAIN table.system[1]
        /\ Refuse(table)
     \/ /\ table.featureName # <<>> /\ Element.group # ""
        /\ table.fileArch \in DOMAIN table.system[1]
        /\ AcceptOutsideTarget([table EXCEPT !.system =
             <<Pushed(@[1], table.fileArch, [name |-> Element.name, order |-> Element.order])>>])

-----------------------------------------------------------------------------
(* The access codes of the system registers.                               *)

(* The codes of other architectures are to be passed over.                 *)
SystemRegisters ==
  /\ IsElement("SystemRegisters")
  /\ IF table.system = <<>> \/ Element.arch \notin DOMAIN table.system[1]
     THEN AcceptOutsideTarget(table)
     ELSE AcceptOutsideTarget([table EXCEPT
            !.mapArchitectures = Append(@, Element.arch),
            !.map = IF @ = <<>> THEN <<Element.arch :> <<{}>>>> ELSE @])

IsRegisterPresent(order, codes) == \E c \in codes : c.order = order

(* The first register of that name that has no code yet.                   *)
OrderOf(name, registers, codes) ==
  LET of == SelectSeq(registers, LAMBDA r : r.name = name /\ ~IsRegisterPresent(r.order, codes))
  IN IF of = <<>> THEN NotListed ELSE of[1].order

Inserted(codes, c) == IF \E d \in codes : d.code = c.code THEN codes ELSE codes \cup {c}

MapRegister ==
  /\ IsElement("register")
  /\ IF table.map = <<>> \/ table.mapArchitectures = <<>>
     THEN AcceptOutsideTarget(table)
     ELSE LET a == Last(table.mapArchitectures) IN
          \/ Element.code = {} /\ Refuse(table)
          \/ /\ Element.code # {}
             /\ a \notin DOMAIN table.system[1] \/ a \notin DOMAIN table.map[1]
             /\ Refuse(table)
          \/ /\ Element.code # {} /\ a \in DOMAIN table.system[1] /\ a \in DOMAIN table.map[1]
             /\ IF table.system[1][a] = <<>> \/ table.map[1][a] = <<>>
                THEN Crash
                ELSE \E code \in Element.code :
                       LET codes == table.map[1][a][1]
                           c == [code |-> code, name |-> Element.name,
                                 order |-> OrderOf(Element.name, table.system[1][a][1], codes)]
                       IN AcceptOutsideTarget([table EXCEPT !.map =
                            <<[@[1] EXCEPT ![a] = <<Inserted(codes, c)>>]>>])

-----------------------------------------------------------------------------
(* A session: SetGdbServerParameters, SetGdbServerConnection and           *)
(* HandleTargetDescriptionPacket.                                          *)

Stays(t, c, r) ==
  /\ table' = t /\ controller' = c /\ reading' = r
  /\ UNCHANGED <<files, sessions, failures>>

(* GetGdbServerRegisters: the registers are moved to the controller.  When *)
(* the architecture is not in the table the controller keeps what it has.  *)
IsListed(t) == t.arch \in Range(t.registerSet) /\ t.arch \in DOMAIN t.core
WithRegisters(c, t) == IF IsListed(t) THEN [c EXCEPT !.registers = t.core[t.arch]] ELSE c
WithoutRegisters(t) == IF IsListed(t) THEN [t EXCEPT !.core[t.arch] = <<>>] ELSE t

(* GetGdbServerSystemRegisters, IsSystemRegistersAvailable.                *)
IsSystemRegistersAvailable(t) ==
  /\ t.system # <<>> /\ t.arch \in Range(t.registerSet) /\ t.arch \in DOMAIN t.system[1]
WithSystem(c, t) ==
  IF IsSystemRegistersAvailable(t) THEN [c EXCEPT !.system = t.system[1][t.arch]] ELSE c
WithoutSystem(t) ==
  IF IsSystemRegistersAvailable(t) THEN [t EXCEPT !.system = <<[@[1] EXCEPT ![t.arch] = <<>>]>>]
  ELSE t

(* GetSystemRegistersMapAccessCode.                                        *)
HasCodes(t) == /\ t.map # <<>> /\ t.arch \in Range(t.mapArchitectures)
               /\ t.arch \in DOMAIN t.map[1]
WithCodes(c, t) == IF HasCodes(t) THEN [c EXCEPT !.codes = t.map[1][t.arch]] ELSE c
WithoutCodes(t) == IF HasCodes(t) THEN [t EXCEPT !.map = <<[@[1] EXCEPT ![t.arch] = <<>>]>>] ELSE t

(* The controller takes its registers when it is made, and then the        *)
(* architecture; there must be a connection for each core.                 *)
SetGdbServerParameters ==
  /\ reading = "config" /\ doc = <<>>
  /\ IF Len(table.hosts) # table.cores
     THEN Stays([table EXCEPT !.isRead = TRUE], controller, "failed")
     ELSE Stays([WithoutRegisters(table) EXCEPT !.isRead = TRUE],
                [WithRegisters(NoController, table) EXCEPT !.arch = table.arch,
                                                           !.family = Families[table.arch]],
                "constructed")
  /\ UNCHANGED <<server, doc, transfer>>

(* ReqGdbServerSupportedFeatures, by whether the server describes targets. *)
Request(file, what) ==
  /\ transfer' = [whole |-> file, offset |-> 0, got |-> <<>>]
  /\ reading' = what
  /\ UNCHANGED <<files, sessions, failures, doc, server>>

Describe ==
  /\ reading = "constructed"
  /\ IF table.description = ""
     THEN Stays(table, controller, "described") /\ UNCHANGED <<server, doc, transfer>>
     ELSE Request(files.target, "asking for target") /\ UNCHANGED <<table, controller>>

DescribeNothing ==
  /\ reading = "constructed"
  /\ Stays(WithoutSystem(table), WithSystem(controller, table), "described")
  /\ UNCHANGED <<server, doc, transfer>>

(* RequestXmlFileDescriptionFeature: the file comes in pieces, each from   *)
(* the offset asked for, until one is marked as the last.                  *)
Advanced(t, n) == [t EXCEPT !.offset = @ + n, !.got = @ \o SubSeq(t.whole, t.offset + 1, t.offset + n)]

Asking == {"asking for target", "asking for registers"}
Asked == IF reading = "asking for target" THEN "target" ELSE "registers"

PieceReceived ==
  /\ reading \in Asking
  /\ \E n \in 0..PieceSize :
       LET t == Advanced(transfer, n)
           remains == transfer.offset + n < Len(transfer.whole)
       IN /\ transfer.offset + n <= Len(transfer.whole)
          /\ n > 0 \/ ~remains
          /\ \/ n > 0 /\ transfer' = t /\ UNCHANGED <<table, doc, reading>>
             \/ /\ ~remains /\ t.got # <<>>
                /\ transfer' = t /\ doc' = t.got /\ reading' = Asked /\ UNCHANGED table
             \/ /\ ~remains /\ t.got = <<>>
                /\ transfer' = t /\ reading' = "failed" /\ UNCHANGED <<table, doc>>
  /\ UNCHANGED <<controller, server, files, sessions, failures>>

(* An error, an empty reply, or none.                                      *)
PieceRefused ==
  /\ reading \in Asking /\ failures < MaxFaults
  /\ failures' = failures + 1 /\ reading' = "failed"
  /\ UNCHANGED <<table, controller, server, doc, transfer, files, sessions>>

(* Next: the file of the registers, that of the codes, or none.            *)
ThenRegisters(t, c) ==
  /\ table' = t /\ controller' = c
  /\ IF "SYSTEM_REGS" \in DOMAIN t.groups
     THEN Request(files.registers, "asking for registers")
     ELSE /\ reading' = IF IsSystemRegistersAvailable(t) THEN "before map" ELSE "described"
          /\ UNCHANGED <<server, doc, transfer, files, sessions, failures>>

(* ValidateTargetArchitecture: the description overrules the configuration.*)
ValidateTargetArchitecture ==
  /\ reading = "target" /\ doc = <<>>
  /\ IF table.fileArch = table.arch THEN ThenRegisters(table, controller)
     ELSE IF table.fileArch = "UNKNOWN"
     THEN Stays(table, controller, "failed") /\ UNCHANGED <<server, doc, transfer>>
     ELSE LET t == [table EXCEPT !.arch = table.fileArch]
              c == [controller EXCEPT !.arch = t.arch, !.family = Families[t.arch]]
          IN ThenRegisters(WithoutRegisters(t), WithRegisters(c, t))

RegistersRead ==
  /\ reading = "registers" /\ doc = <<>>
  /\ reading' = "before map"
  /\ UNCHANGED <<table, controller, server, doc, transfer, files, sessions, failures>>

ReadMapFile ==
  /\ reading = "before map" /\ files.map # <<>>
  /\ reading' = "map" /\ doc' = files.map
  /\ UNCHANGED <<table, controller, server, transfer, files, sessions, failures>>

(* The registers are looked for in a set that a file without a feature did *)
(* not make.                                                               *)
SystemTaken(t, c) ==
  IF t.system = <<>> /\ t.arch \in Range(t.registerSet)
  THEN Stays(table, controller, "crashed")
  ELSE Stays(WithoutSystem(t), WithSystem(c, t), "described")

TakeSystemRegisters ==
  /\ \/ /\ reading = "before map" /\ files.map = <<>>
        /\ SystemTaken(table, controller)
     \/ /\ reading = "map" /\ doc = <<>>
        /\ SystemTaken(WithoutCodes(table), WithCodes(controller, table))
  /\ UNCHANGED <<server, doc, transfer>>

(* SetGdbServerConnection goes on with the architecture of the controller. *)
Connected ==
  /\ reading = "described"
  /\ reading' = "ready"
  /\ server' = [arch |-> controller.arch, family |-> controller.family]
  /\ UNCHANGED <<table, controller, doc, transfer, files, sessions, failures>>

(* The object is released, or its construction failed; the process goes on,*)
(* and makes another.  A table that could not be read is read again.       *)
NextSession ==
  /\ reading \in {"ready", "failed"} /\ sessions < MaxSessions
  /\ sessions' = sessions + 1
  /\ controller' = NoController /\ transfer' = NoTransfer
  /\ reading' = "config"
  /\ IF table.isRead THEN doc' = <<>> /\ UNCHANGED table
                     ELSE doc' = files.config /\ table' = EmptyTable
  /\ UNCHANGED <<server, files, failures>>

Reads ==
  \/ ExdiTargets \/ ExdiTarget \/ SkipElement \/ RefuseElement \/ ServerConfigData \/ TargetData
  \/ ConnectionParameters \/ ConnectionValue \/ MemoryCommands \/ Registers \/ RegisterEntry
  \/ Architecture \/ Text \/ IncludeTarget \/ Feature \/ FileRegister
  \/ SystemRegisters \/ MapRegister \/ DocumentFails

Next ==
  \/ Reads \/ SetGdbServerParameters \/ Describe \/ DescribeNothing
  \/ PieceReceived \/ PieceRefused \/ ValidateTargetArchitecture \/ RegistersRead
  \/ ReadMapFile \/ TakeSystemRegisters \/ Connected \/ NextSession

Spec == Init /\ [][Next]_configVars

-----------------------------------------------------------------------------
(* What the documents say.  An element of the configuration file belongs to*)
(* the target before it; the first element names the target meant.         *)

LastBefore(d, tag, i) == {j \in 1..i : d[j].tag = tag /\ \A k \in j + 1..i : d[k].tag # tag}
OfCurrent(d, tag) ==
  {i \in DOMAIN d : d[i].tag = tag /\ \E j \in LastBefore(d, "ExdiTarget", i) : d[j].name = d[1].name}
InOrder(d, indexes) == LET s == SetToSortSeq(indexes, <) IN [k \in DOMAIN s |-> d[s[k]]]
Written(d, tag) == InOrder(d, OfCurrent(d, tag))

AsRegisters(s) == [k \in DOMAIN s |-> [name |-> s[k].name, order |-> s[k].order]]
EntriesOf(d, a) ==
  AsRegisters(InOrder(d, {i \in OfCurrent(d, "Entry") :
                            \E j \in LastBefore(d, "ExdiGdbServerRegisters", i) : d[j].arch = a}))

Described == IF "SYSTEM_REGS" \in DOMAIN table.groups THEN files.registers ELSE files.target
FeaturesOf(d) == {i \in DOMAIN d : d[i].tag = "feature"}
(* The features whose name holds the one configured for the architecture,  *)
(* and the registers listed under them.                                    *)
SupportedFeatures(d) ==
  {f \in FeaturesOf(d) :
     \E s \in OfCurrent(files.config, "ExdiGdbServerRegisters") :
       files.config[s].arch = server.arch /\ Supports(files.config[s].feature, d[f].name)}
EntriesOfFeatures(d, features) ==
  AsRegisters(InOrder(d, {i \in DOMAIN d :
                            d[i].tag = "reg" /\ LastBefore(d, "feature", i) \cap features # {}}))

(* A document is parsed only when it has come, whole and in order.         *)
FilesWhole == reading \in {"target", "registers"} => transfer.got = transfer.whole

(* Whatever the sections of other targets say, before it or behind it, the *)
(* settings are those of the target that is meant.                         *)
SettingsAsWritten ==
  table.isRead =>
    LET d == files.config IN
    /\ table.name = d[1].name
    /\ table.component = Written(d, "ExdiGdbServerConfigData")[1].data
    /\ table.connection = Written(d, "GdbServerConnectionParameters")[1].data
    /\ LET v == Written(d, "Value") IN table.hosts = [k \in DOMAIN v |-> v[k].host]

(* When a first session stands, the architecture is the same for the       *)
(* server, the controller and the table, and is that of the description if *)
(* there is one; the registers of the cores are those listed for it.       *)
RegistersAsWritten ==
  reading = "ready" /\ sessions = 1 =>
    /\ server.arch = controller.arch /\ controller.arch = table.arch
    /\ server.family = Families[server.arch]
    /\ transfer # NoTransfer => server.arch = table.fileArch
    /\ server.arch \in Range(table.registerSet) =>
         controller.registers = <<EntriesOf(files.config, server.arch)>>

(* The system registers are those of the features that are supported or,   *)
(* without a description, those of the range in the configuration: unless a*)
(* feature follows the supported one, which the code lets replace it.      *)
SystemRegistersAsWritten ==
  reading = "ready" /\ sessions = 1 /\ controller.system # <<>> =>
    LET supported == SupportedFeatures(Described) IN
    IF transfer # NoTransfer /\ FeaturesOf(Described) # {}
    THEN (\A f \in supported, e \in FeaturesOf(Described) : e <= f) =>
           controller.system[1] = EntriesOfFeatures(Described, supported)
    ELSE controller.system[1]
           = SelectSeq(EntriesOf(files.config, server.arch), LAMBDA r : InRange(r.order))

(* The order at a code is that of a system register of that name; no two   *)
(* codes stand for one register; and where the file has a code for each    *)
(* register of a name, each has its code.                                  *)
CodesOfRegisters ==
  controller.codes # <<>> =>
    LET codes == controller.codes[1]
        registers == controller.system[1]
        listed == {c \in codes : c.order # NotListed}
    IN /\ \A c \in listed : \E r \in Range(registers) : r.name = c.name /\ r.order = c.order
       /\ \A c, e \in listed : c.order = e.order => c = e
       /\ \A r \in Range(registers) :
            \/ \E c \in listed : c.order = r.order
            \/ Cardinality({c \in codes : c.name = r.name})
                 < Cardinality({k \in DOMAIN registers : registers[k].name = r.name})

(* The configuration in use is the one that was written, as far as each    *)
(* part of it promises.                                                    *)
ConfiguredAsWritten ==
  /\ FilesWhole /\ SettingsAsWritten /\ RegistersAsWritten /\ SystemRegistersAsWritten
  /\ CodesOfRegisters
=============================================================================
