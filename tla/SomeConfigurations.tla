------------------------- MODULE SomeConfigurations -------------------------
(***************************************************************************)
(* Documents for GdbConfiguration, in the form of exdiConfigData.xml, of   *)
(* systemregisters.xml and of what GDB servers send, cut down to what is   *)
(* told apart.                                                             *)
(***************************************************************************)
EXTENDS Integers, Sequences

LOCAL Targets(name) == [tag |-> "ExdiTargets", name |-> name]
LOCAL Target(name) == [tag |-> "ExdiTarget", name |-> name]
LOCAL Named(arch, range) ==
  [tag |-> "ExdiGdbServerRegisters", arch |-> arch, feature |-> "sys", range |-> range]
LOCAL Entry(name, order) == [tag |-> "Entry", name |-> name, order |-> order]
LOCAL Settings(name, arch, cores, description, scanSize) ==
  <<Target(name), [tag |-> "ExdiGdbServerConfigData", data |-> name],
    [tag |-> "ExdiGdbServerTargetData", arch |-> arch, cores |-> cores,
     description |-> description, scanSize |-> scanSize],
    [tag |-> "GdbServerConnectionParameters", data |-> name],
    [tag |-> "Value", host |-> name],
    [tag |-> "ExdiGdbServerMemoryCommands", data |-> name]>>

LOCAL Arm == <<Named("ARM64", <<>>), Entry("X0", 0), Entry("pc", 1)>>
LOCAL Amd == <<Named("X64", <<2, 3>>), Entry("rax", 1), Entry("cr0", 2), Entry("efer", 3)>>
LOCAL Plain == Settings("plain", "X86", 1, "", TRUE) \o <<Named("X86", <<>>), Entry("eax", 0)>>
LOCAL Qemu == Settings("qemu", "ARM64", 1, "target.xml", TRUE) \o Arm \o Amd
LOCAL Other == Settings("other", "X64", 1, "", TRUE) \o Amd
LOCAL NoSize == Settings("qemu", "ARM64", 1, "target.xml", FALSE) \o Arm
LOCAL TwoCores == Settings("qemu", "ARM64", 2, "target.xml", TRUE)
LOCAL NoRegisters == Settings("qemu", "ARM64", 1, "target.xml", TRUE)

(* The target meant is in the middle, first or last; has the system        *)
(* registers among those of the cores; names no size; lacks a connection;  *)
(* has no registers.                                                       *)
SomeConfigFiles ==
  {<<Targets("qemu")>> \o Plain \o Qemu \o Other, <<Targets("qemu")>> \o Plain \o Qemu,
   <<Targets("other")>> \o Other \o Qemu, <<Targets("qemu")>> \o NoSize \o Plain,
   <<Targets("qemu")>> \o TwoCores \o Plain,
   <<Targets("qemu")>> \o NoRegisters \o Settings("plain", "X86", 1, "", TRUE)}

LOCAL Architecture(text) == <<[tag |-> "target"], [tag |-> "architecture", text |-> ""],
                              [tag |-> "#text", text |-> text]>>
LOCAL Include(group, href) == [tag |-> "includeTarget", group |-> group, href |-> href]
LOCAL Feature(name) == [tag |-> "feature", name |-> name]
LOCAL Reg(name, order) == [tag |-> "reg", name |-> name, order |-> order, group |-> "cp"]
LOCAL NoGroup == [tag |-> "reg", name |-> "SP", order |-> 9, group |-> ""]

(* A description with its parts, of the architecture configured or another,*)
(* the registers themselves, and one of an architecture not known.         *)
SomeTargetFiles ==
  {Architecture("ARM64") \o <<Include("CORE_REGS", "core.xml"), Include("", "more.xml"),
                              Include("SYSTEM_REGS", "system.xml")>>,
   Architecture("X64") \o <<Include("CORE_REGS", "core.xml")>>,
   <<[tag |-> "architecture", text |-> "ARM64"], Feature("core"), Reg("X0", 0),
     Feature("sys"), Reg("SP", 7)>>,
   Architecture("mips")}

SomeRegisterFiles ==
  {<<Feature("sys"), Reg("DBG", 4), Reg("DBG", 5), Reg("SP", 6)>>,
   <<Feature("sys"), Reg("SP", 6), Feature("fpu"), Reg("V0", 8)>>,
   <<Feature("sys"), NoGroup>>, <<[tag |-> "target"]>>, <<>>}

LOCAL Section(arch) == [tag |-> "SystemRegisters", arch |-> arch]
LOCAL Code(name, codes) == [tag |-> "register", name |-> name, code |-> codes]
LOCAL Root == <<[tag |-> "unknown"]>>

SomeMapFiles ==
  {<<>>,
   Root \o <<Section("ARM64"), Code("SP", {1}), Code("DBG", {2}), Code("DBG", {3}), Code("DBG", {4}),
             Section("X64"), Code("efer", {0})>>,
   Root \o <<Section("X64"), Code("efer", {5}), Section("ARM64"), Code("SP", {})>>}
=============================================================================
