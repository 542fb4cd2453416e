# A formal model of WinDbg-Samples

The repository is a collection of extensions and samples for WinDbg. Most of it
is short demonstration code; the programs in it that have state, threads,
protocols or algorithms of their own are what this project models:

* the **EXDI GDB server** (`src/Exdi/exdigdbsrv`), a COM object that lets the
  debugger engine drive a target through GDB servers over TCP;
* the **EXDI KD sample** (`src/Exdi/ExdiKdSample`), the same interface on top of
  a second debugger, `kd.exe`, reached through two pipes;
* **SymBuilder** (`src/TargetComposition/SymBuilder`), a symbol provider whose
  symbols are created, imported, changed and deleted while the debugger uses
  them;
* **TextDump** (`src/TargetComposition/TextDump`), which makes a target to debug
  of a text file;
* two **JavaScript extensions**: `src/CodeFlow/CodeFlow.js`, which traces the data
  flow of a function, and `src/SyntheticTypes/SynTypes.js`, which reads types from
  C headers.

The specifications are in TLA+. TLC checks small instances; TLAPS proves the
theorems for every value of the constants. `PROJECT.json` lists the runs, the
source lines behind each definition, the hazards with the properties that cover
them, and the theorems.

To repeat a check: `tlc -config GdbSession_parts.cfg GdbSession.tla`; to
repeat a proof: `tlapm LiveServer_proofs.tla`.

## 1. Inventory

### EXDI GDB server

| Component | State | Operations | Interacts with |
|---|---|---|---|
| Run control: `CLiveExdiGdbSrvServer`, `AsynchronousGdbSrvController` | target flags, last pc, result of the asynchronous command, handles of two threads, notification semaphore | `Run`, `DoSingleStep`, `Halt`, `GetContext`, `GetRunStatus`, `FinalRelease`, the completion callback, the command thread, the notification thread | the engine (COM calls and `NotifyRunStateChange`), the RSP client |
| Breakpoints: the same controller | two vectors of slots, the objects the engine holds | `CreateCodeBreakpoint`, `CreateDataBreakpoint`, their deletes, each a loop over the cores | the RSP client, one request per core |
| One link: `GdbSrvRspClient` | receive buffer, acknowledgment mode, interrupt event and flag | `SendRspPacket`, `ReceiveRspPacket`, start of the session, `SetInterrupt` | a GDB server |
| All links: the same client with `TcpIpStream` | sockets, their mode, last error, connected or not | configure, connect, look, close, attach anew; resume all cores, poll for the first stop, discard the rest | one GDB server per core |
| Requests: `GdbSrvController` and the server's calls | active core and thread, table of cores, KPCR addresses, physical mode, last PSR | memory and system registers in packets, contexts of four architectures, choice of a thread | the RSP client |
| Configuration: `ConfigExdiGdbServerHelper`, the XML helpers | one table for the life of the process: settings, registers, system registers, access codes | read the configuration file, the descriptions the GDB server sends in pieces, the file of access codes; give registers away | the controller and the server, over several sessions |
| Marshalling, activation | COM proxies | | see section 6 |

How they interact. The engine calls the server in a single-threaded apartment,
the *main* thread. A resume starts a *command* thread, which sends `vCont` and
waits for the stop reply, and releases a semaphore. The *notification* thread
takes the semaphore, calls `PerformKeepaliveChecks` on the main thread, waits
for the handle of the command thread and posts the completion callback to the
main thread, which parses the stored reply and notifies the engine. `Halt`
sends a break character, sets the event of the link, and polls the result that
the command thread writes; if none comes it asks `?` itself and notifies the
engine. So a stop can be reported by two paths that share a flag, a string and
a socket, and nothing orders them but the handle of the command thread.

What is hard: those interleavings; replies that stay on the link and are taken
for later ones; time-outs against late answers; a damaged packet sent again; a
breakpoint that one core accepts and another refuses; the release of the server
while threads still run.

What makes it correct: the engine is told the truth about the target, once per
stop; every resume is completed; no call hangs; a reply belongs to its command;
a command is executed once; slots, breakpoint objects and breakpoints on the
target agree.

### EXDI KD sample

| Component | State | Operations | Interacts with |
|---|---|---|---|
| `CLiveExdiSampleServer` | target flags, notification thread and semaphore | the calls of the engine, the completion callback, keep-alive | the engine, the controller |
| `KDController`, `AsynchronousKdController` | last active processor, cached number of processors, breakpoint slots, command thread | one command and its answer at a time; `g` and `t` in a thread | `kd.exe` through two pipes |
| `BufferedStreamReader` | text read and not taken | read up to the next prompt | the pipe |

What is hard: an answer ends where something looks like a prompt; a read returns
any part of what was written; two threads use the same pipes; either process may
die. What makes it correct: each answer is that of its command, the engine is told
where and why the target really stopped, its breakpoints are those of `kd.exe`,
every stop is reported and a release ends.

### SymBuilder

| Component | State | Operations | Interacts with |
|---|---|---|---|
| Symbol set: `SymbolSet`, `SymbolRangeList`, `PublicList` | symbols by id, list of globals, map of names, ranges, public addresses | create, change, delete of functions, global data, publics; promotion of a public; lookups | symbols call back to keep the indexes right |
| Scopes and enumerators: `BaseScope`, `BaseSymbolEnumerator` and its subclasses | a function, an address, a position | lookups by address, scopes of frames, steps of an enumeration | the symbol set, which changes under them |
| Symbol tree: `BaseSymbol` and its subclasses | parent, children, dependents, layouts of types | move, delete, notify dependents, lay out a type | the symbol set |
| Fields and enumerants: `FieldSymbol`, `EnumTypeSymbol` | offset, bit position and length, or value, each given or computed | add, set, move, delete, freeze or leave to the layout | the layout of their type |
| Functions: `FunctionSymbol`, `VariableSymbol` | parameters, locals, live ranges, function type | add, move, retype, delete, iterate | the debugger, which keeps what it read until told |
| Live ranges: `RangeBuilder`, `CallingConvention` | queue of basic blocks, locations | propagation over the flow graph | the disassembler of the data model |
| Importer: `SymbolImporter_DbgHelp` | map of imported indexes, names and addresses asked for | queries by name, type and address | DbgHelp, the symbol set |
| Manager and provider: `SymbolBuilderManager`, `SymbolProvider` | pointers to services, tables of registers, symbol sets by process and module | injection, `NotifyServiceChange`, create and locate | the service container of the debugger |
| Data-model objects: `ApiProvider` | none of their own | wrap the operations of the others | scripts |

It runs on one thread. What is hard: five indexes of one set of symbols that
each operation must keep in step; the splitting of address ranges; what an
offset or the size of a type means for data already registered; deletion during
iteration and notification along a graph; types that refer to each other in
circles; services that come, change and go.

What makes it correct: the ranges are sorted and disjoint, a lookup returns what
is at the address, an operation on one symbol changes no other symbol's
listings, no index names a symbol that is gone, a change of a type reaches
every layout and every datum that is made of it, the debugger is told to forget
what has changed, a parameter is where its live ranges say, and what is imported
is imported once and whole.

### TextDump

| Component | State | Operations | Interacts with |
|---|---|---|---|
| Parser: `TextDumpParser` | lists of memory regions, frames, modules, registers; what a section collects | a loop per section over the lines of the file | the services |
| Services: memory, modules, threads, stack, machine | virtual memory stacked on other virtual memory, positions of enumerators, a map from register names to ids | initialization in the order of the container, enumeration, `NotifyEvent`, `NotifyServiceChange`, `GetContext` | the service container and the debugger's own components |

What is hard: sections in any order, twice or broken off; services that come in
any order and some not at all; a notification that more than one enumerator can
cause; a map that outlives the architecture it was made for. What makes it
correct: what the services answer is what the file says, images are mapped once,
and a context is one of the architecture there is.

### JavaScript extensions

| Component | State | Operations | Interacts with |
|---|---|---|---|
| Data flow: `CodeFlow.js` | the generators under way and the set of explored blocks they share | a search backwards, which stops at each instruction it yields | whoever iterates, the disassembler |
| Synthetic types: `SynTypes.js` | types, aliases, tables of headers, sizes that are kept | read a header, create an instance | the symbols of the module |

What is hard: two generators over one set; conditionals, macros, aliases and types
that refer to each other over several headers; bit fields and padding; sizes kept
when the types are defined anew. What makes it correct: only what influences the
instruction is yielded, and all of it; types have the fields and offsets that C
gives them.

### The rest

The `TTD` samples, the other scripts, the tutorials and the manifests have little
state or none that changes; `PROJECT.json` lists each with the reason it is left
out.

## 2. Modules

| Module | What it is | Extends or instantiates |
|---|---|---|
| `LiveServer`, `SomeSessions` | run control: three threads, one link, the target; engines and servers | |
| `LiveServer_proofs` | its theorems | `LiveServer` |
| `RspLink` | the link below it: acknowledgments, framing, the start of a session | |
| `RspLink_proofs` | its theorems | `RspLink` |
| `RspCores` | a resume of all cores over their links, breaks, polling, discarding | |
| `RspConnections` | the sockets: connect, keep-alive, loss, close, attach anew | |
| `GdbCores` | threads of a server, contexts of cores, four architectures | |
| `GdbCores_proofs` | lemmas that its invariant holds and what follows | `GdbCores` |
| `GdbMemory` | memory in packets, address spaces, physical mode | |
| `GdbConfiguration`, `SomeConfigurations` | the table of the configuration and what it is read from; documents to read | |
| `GdbRequests` | composes the four parts of the controller and the configuration | `GdbMemory`, and instances of `GdbCores`, `RspConnections`, `RspCores`, `GdbConfiguration` |
| `GdbRequests_proofs` | the theorems about all but the configuration | `GdbRequests`, and an instance of `GdbCores_proofs` |
| `GdbSession` | composes run control, the link and the breakpoints, for the runs | `SomeSessions`, `RspLink`, `Breakpoints` |
| `BreakpointTable` | the abstract table of breakpoints | |
| `Breakpoints` | slots, objects, cores and retries | `BreakpointTable` by a refinement mapping |
| `Breakpoints_proofs` | its theorems | `Breakpoints` |
| `KdServer` | the KD sample: three threads, the pipes, `kd.exe`, the target, the engine | |
| `KdServer_proofs` | its theorems | `KdServer` |
| `SymbolRangeList`, `PublicList` | the two indexes by address, as pure operators | |
| `SymbolSet` | the set of symbols with all its indexes | both of them |
| `SymbolScopes` | lookups, scopes and enumerations while a script changes the symbols | instances of `SymbolRangeList` and `PublicList` |
| `SymbolTypes` | classes, arrays, typedefs and their data: layout and the notification of dependents | |
| `SymbolFields` | the fields of one class, bit fields included, and the enumerants of one enum | |
| `SymbolTypes_proofs` | the invariant of the tree of symbols and what follows | `SymbolTypes` |
| `LiveRangeList` | the live ranges of one variable, as pure operators | |
| `FunctionVariables` | parameters and locals of a function and what the debugger keeps of them | `LiveRangeList` |
| `RangeBuilder`, `SomeFunctions` | the propagation of locations; functions to try it on | |
| `SymbolImport` | the importer | |
| `SomeSymbols` | what the three are tried on: types for fields, symbols to create, sources to import from | |
| `SymbolManager` | manager and provider in the service container | |
| `SymbolParts` | composes the parts of SymBuilder without recursive operators, about which theorems can be stated | `SymbolFields`, and instances of `SymbolTypes`, `FunctionVariables`, `RangeBuilder`, `SymbolManager` |
| `SymbolParts_proofs` | the theorems about the manager, the variables of a function, the ranges of parameters and the layout of types and fields | `SymbolParts`, and an instance of `SymbolTypes_proofs` |
| `SymbolBuilder` | composes all parts of SymBuilder, for the runs | `SymbolParts`, and instances of `SymbolSet`, `SymbolScopes` and `SymbolImport` |
| `TextDumpParser` | the parser of text dumps, and what is found in the lists it makes | |
| `TextDumpServices`, `SomeDumps` | the services of the dump in the container; lines and parsed dumps | |
| `CodeFlow`, `SomeFlows` | the search for what influences an instruction; functions to search | |
| `SyntheticTypes` | sizes, alignments and instances of types | |
| `HeaderReader`, `SomeHeaders` | preprocessor, parser and calls of the script; headers to read | `SyntheticTypes` |
| `Extensions` | composes TextDump and the scripts | instances of the four |

Every module declares its bounds as CONSTANTS with a named assumption, or leaves
it to the module that composes it. A `.cfg` gives each instance its numbers and
small sets. The parts that `GdbSession`, `GdbRequests`, `SymbolBuilder` and
`Extensions` compose (those of `SymbolBuilder` with `SymbolParts`) share no
variable: the variable `part` chooses the one a behaviour is about, and a run
checks the sum, not the product, of their states. What they do share in the code,
the link, is the subject of `RspLink`. Definitions keep the names of the source; a
definition named `...Wrong` is a plausible bug in the one after it, and shows that
the properties notice it. No specification uses one.

### 2.1 LiveServer

| Code | Model |
|---|---|
| the debuggee and the socket | `target`, `channel` (packets sent and not received), `buffered` (how many of them the link has already read), `ctrlC`, `connected` |
| `m_asynchronousCommandThread` and its thread body | `cmdThread`: `send`, `recv`, `exit`, `signaled` |
| `m_currentAsynchronousCommandResult` | `cmdResult` |
| `m_isAsynchronousCmdStopReplyPacket`, `m_targetIsRunning`, `m_lastPcAddress` | `stopReplyFlag`, `targetIsRunning`, `lastPcKnown` |
| `m_notificationSemaphore`, `NotificationThreadBody`, `m_terminating` | `semaphore`, `notifyThread`, `terminating` |
| the call or callback the main thread is in | `main`, with `attempts` for its polling loops |
| what the engine was told | `engine`, `reports` |

A call of the engine is one action per point at which another thread can
interfere: `HaltSendsCtrlC`, `HaltSetsEvent`, `HaltPolls`, `HaltReceives`,
`HaltAsks` and `HaltAskReceives` are `Halt`. The engine calls `Run` only when it
believes the target halted and `Halt` only when it believes it running, as the
debugger does. The pump of the main thread, which COM runs between two calls and
during the wait of `FinalRelease`, is `DispatchingMessages`.

What engine and server may do is the constant `Sessions`, of which a behaviour is
one (`session`): the calls the engine makes and the forms of stop reply the server
uses.

Abstractions. The connection is one, in no-ack mode, so that a packet is its kind:
`T` (a `T` stop reply with the pc), `N` (one without, for which the callback reads
the registers, `QueryPc`), `S` (a reply filed as `SAA`, after which it reports
nothing), `O` (console output, or the `OK` that the parser takes for it), `R`
(registers). Packets arrive whole. `DoSingleStep` is `Run` after its
`SetThreadCommand`. The reason for a halt, the flag of the last step, the `T`
replies of other signals, `Reboot` and the calls that write registers and read or
write memory are left out; so is the bound on the total number of packets of one
polling loop. The string of the result is assigned at once, whereas the code has a
data race there; a torn string is not modelled. The main thread is not re-entered
during `NotifyRunStateChange`. Receives that time out on a silent link are free;
those that time out just before a late answer, while a break is pending, are
counted by `MaxTimeouts`.

### 2.2 RspLink

| Code | Model |
|---|---|
| the two directions of the stream | `toServer`, `toClient`, sequences of tokens |
| the static buffer of `ReceiveInternal` | `buffer` |
| `SendRspPacket`: `ackCharacter`, `retryCounter`, its loop | `SendPacket`, `ReadAck`, `AckFails`, `AckOfClosed`; `pc` in `send`, `ack` |
| `WaitForRspPacketStart`, `BuildRspPacket`, `IsValidRspPacket` | `WaitForPacketStart`, `StartFails`, `BuildRspPacket`, `BodyFails` |
| `m_interruptEvent`, `m_fInterruptFlag` | `event`, `interruptFlag` |
| the mode of `PACKET_QSTART_NO_ACKMODE` | `noAckMode`; the server's own side is `serverAcks` |
| `qSupported`, `QStartNoAckMode`, then the session | `stage` |

A stream is kept by its tokens `+`, `-`, `$` and `body`, because the client reads
single characters where it expects an acknowledgment or the start of a packet,
and the rest of a packet up to its checksum otherwise. Escapes, run lengths and
the checksum itself are abstracted to a packet being intact or damaged. No body
holds a `+` or a `-`. The GDB server is external: it acknowledges, executes and
answers every packet that arrives intact, and repeats its last reply on a `-`.
A closed connection swallows what is sent, as `Send` shows no error.

### 2.3 Breakpoints

`slots` are the two vectors of flags, numbered from 1 rather than 0; `objects`
are what the engine holds; `armed` is what each core of the target stops at.
`Create` and `Delete` are the calls up to their loops over the cores, and
`RequestOK`, `RequestRefused`, `UnexpectedReply` and `RequestThrows` the four
ways a request ends: carried out; refused, when the code builds an exception and
does not throw it; retried up to `MAX_PACKETS_ATTEMPTS`; or lost, when the link
throws. Code and data breakpoints go through the same definitions, since the two
pairs of functions differ only in their packets. The engine does not add a
breakpoint that it holds; setting or clearing a breakpoint twice changes nothing
on the server, as the protocol demands; an unexpected or a lost reply leaves
open whether the request was carried out. The option to treat software as
hardware breakpoints, and replies of an earlier request taken for a later one
(which is `RspLink`'s subject), are left out.

`GdbSession` lets each behaviour be one of run control, the link or the
breakpoints. They are parts of one session, but what `LiveServer` sees of its link
is packets that arrive whole, and breakpoints are set while nothing else is
asked.

### 2.4 SymbolSet

An operation of the data model is one action, because the builder has one
thread, and it makes every change of every index that the code makes:
`CreateRanged`, `CreatePublic`, `ChangeData` (a new offset, or a new type or
size, which reaches the data through `NotifyDependentChange`),
`PromoteToFunction`, and a delete for each kind. `SymbolRangeList` holds the
loops of `AddSymbol`, `RemoveSymbol` and `FindSymbols` case by case, with their
binary search; `PublicList` those of the public addresses. Types, fields,
parameters, scopes and constant data are left out, ids count the symbols that
are modelled, each datum has a type of its own, and offsets do not overflow.
A lookup that yields an empty list and one that fails are the same.

`SymbolScopes` is what reads these indexes. A script creates symbols of every
kind, adds and moves parameters and locals, and deletes (`Delete` makes the loop
of `BaseSymbol::Delete` over the children, of which every second one is reached);
between any two of those changes the debugger asks for the symbol at an
address (`AskByOffset`), for a scope (`FindScopeByOffset`, `FindScopeFrame`, whose
subtraction wraps), or goes on with an enumeration. Each `Begin...` is an
enumerator or an iterator of the code, over all symbols, the globals, the children
of a symbol or of a scope, by kind and name; `GetNext` is their common loop. The
enumerators of a symbol set keep an id, those of a list a position in a vector
that changes, and `walk` counts what was removed and moved before it. One scope
and one enumeration are held at a time; a reference keeps their function when it is
deleted, with an empty list of children.

### 2.5 SymbolTypes

| Code | Model |
|---|---|
| `m_symbols`, and what `InternalGetSymbol` still finds | `symbols`, `live` |
| `m_parentId`, `m_symTypeId` or the type an array or typedef is made of, `m_symOffset`, `m_symOffsetActual` or the cached range, `m_typeSize`, `m_typeAlignment`, `m_children`, `m_dependentNotifySymbols` | the fields of a symbol |
| the nested calls of `NotifyDependentChange`, each in its loop over a hash map | `waiting`, a stack of sets, of which any symbol may be next |
| what a constructor or `Delete` does after the notification | `tasks` |

An operation of the data model begins when the one before has returned:
`CreateUdt`, `CreateArray`, `CreateTypedef`, `CreateGlobal`, `AddPositional` (a
field or a base class), `SetSymbolOffset`, `SetSymbolTypeId`, `MoveToBefore`,
`Delete`. `NotifyDependentChange` is one symbol's recomputation: `LayoutType` for a
class, the two passes of the code as one sequence of turns (`Cursors`, what the
loops keep after each turn), with the offsets assigned up to a part whose type is
gone; `OfArray`; `OfData`. `DeleteNextChild` is the loop of
`BaseSymbol::Delete` over a vector that its body shortens: the model takes the
release build, where erasing moves the later ids down and leaves the last slot as
it was. `Depend` and `Erase` are what follows.

The set of dependents stands for the code's map with counts, which are always 1.
A caller never makes a class part of itself (`IsApart`), against which the code
has no guard; the names, the ranges and the global order of these symbols are in
`SymbolSet`. Pointers, function types, constants, parameters
and void are left out, and so is a call on the object of a deleted symbol.

`SymbolFields` is one class or one enum in detail, whose field types stay. A field
has an offset and a bit position that are given or left to the layout, and what
the layout computed for each (`actualOffset`, `actualPosition`); an enumerant has
`ConstantValue` or `AutomaticIncreaseConstantValue` for an offset. Every call of a
script ends in `Settle`, because each notifies the type: `LaidOut` is the loop of
`LayoutType` with the cursor that it carries (`Leaves` and `IsFull` say when the unit
of a bit field ends, `Behind` where the cursor is after a field), `Counted` that of
`LayoutEnum` with its variant. `WithOffset`, `SetBitFieldLength` and
`SetBitFieldPosition` are the setters of `BaseDataSymbol` with what they
refuse, `AddField` also the checks of its constructor. A call that is refused is no
step: what it leaves behind is told in section 4. Offsets are integers, not
numbers of 64 bits: callers give small ones.

### 2.6 RspCores and RspConnections

`RspCores` has a line of packets per core (`inbox` at the server, `line` on the
way), the loop variables of `ExecuteCommandOnMultiProcessors` (`core`,
`IsPollingChannelMode`, `lastKnownActiveCpu`, `response`) and a thread that
breaks in at any time. Every receive in these functions resets the buffer of
`ReceiveInternal`, so what was read past a packet is lost (`Receive`). The code
indexes cores from 0 to one past the last (`core > GetNumberOfConnections()`),
which no call of the server reaches.

`RspConnections` keeps of a socket whether it is open, alive and blocking, and
of WinSock the last error, which a call that succeeds does not reset. Commands go
out only in phase "ready"; `Look` is the keep-alive check, `ShutDown` what a loss
leads to, `CloseSession` the function of `.exdicmd`, `Attach` the call after it.
`recv` returning 0 on a closed connection is no error to this code.

### 2.7 GdbCores and GdbMemory

An exchange of packets is one step: carried out, refused, or its answer lost,
when the controller throws and the server may or may not have carried it out. A
register stands for a class of registers that the code treats alike, and its
value is the number of the write it comes from; a byte stands for the place or
the write it comes from. The four architectures differ in their groups of
registers and in the order of the requests. `GdbMemory` keeps the loops of
`ReadMemory` and `WriteMemory` that cut a request into packets, the address space
that a packet names on each kind of server, and the switch of the server to
physical addresses with its way back. A server may answer a write with `OK`, an
error or nothing at all, which the code takes for success (`PacketAccepted`);
`call.clean` says that every packet of a call was answered `OK`.

### 2.8 KdServer

`main`, `thread` and `notifier` are the three threads, `link` the pipes with
`m_internalBuffer`, `breakpoints` the slots and objects, `kd` and `target` the
other process and what it debugs, `engine` what the debugger was told and
believes. A command is written in one step, executed by `kd.exe` in another and
its answer read in any number; text is a token per command, and a prompt two
halves, so that a read may end between them. What the target prints may look like
a prompt; `kd.exe` or the engine may die at any time. A call of the engine is a
list of commands to execute and what is done with the answers (`...Returns`). The
completion callback and the keep-alive call are dispatched on the main thread
between two calls.

### 2.9 FunctionVariables and LiveRangeList

`children` is the order of a function's parameters and locals, `seen` what the
debugger has read and was not told to forget. A failed propagation leaves some
variables in `missed`, which the property excuses. Offsets and sizes of live
ranges wrap at the width of an address (`Span`). The iteration of a script over
live ranges is a position, between two steps of which anything may happen.

### 2.10 RangeBuilder

The builder walks `program`, a disassembled function (`IsFunction`), in the steps of
the code's loops: the next entry of the queue (`TakeEntry`), one range of the
source block carried over (`CarryoverLiveRange`), the decision to walk the block or
not (`TraverseBasicBlock`), and for each instruction the ranges that reach it and
that it kills (`ReachInstruction`), one range whose location it copies or moves
(`AddAliases`) and the final sweep (`EndInstruction`); `EndBlock` puts the outbound
flows on the queue. `entry`, `instr`, `isReached` and `lastRange` are where those loops
are. Then `TakeRange`, `NoneLeft` and `NextBlock` are the turns of
`CreateLiveRangeSets`, whose locals are in `at`. After that the function runs, on a
`machine` that knows where each parameter really is, along every path. A push or a
pop is two moves, and the second uses a reference into a vector that the first may
have made grow: `TwoMoves` has both outcomes, that the memory given back still
reads as it did, or not. `Placement` gives the parameters of a call their places:
integer and floating-point registers by position, and the stack; a big parameter
has its address in its register, and on the stack it is taken to lie there itself,
as the code does.

### 2.11 SymbolImport

The importer is a function from a set and an index of the source to a set and a
result, recursive as the code is. A query is one step. `source` has classes that
refer to each other through pointers, arrays, typedefs and function types,
children that cannot be imported, and data of all of them.

### 2.12 SymbolManager

The services of a target and its modules come, change and go; a script's first
call puts manager and provider into the container, which may fail at either. A
module is a key and a load: one that is loaded again may have the key it had.
The virtual-memory service, which is only handed on, is left out.

### 2.13 GdbConfiguration

`table` is the one object that the XML handlers fill (`m_ExdiGdbServerData`),
`controller` and `server` what each took from it. A document is a sequence of
elements, and each action is what the handler of one element does with it:
`ExdiTarget` selects or deselects, `TargetData`, `RegisterEntry`, `Feature`,
`FileRegister`, `MapRegister` and the rest set what they set only while selected;
`RefuseElement` and `SkipElement` are the two ways an element changes nothing. A
document the GDB server sends comes in pieces (`PieceReceived`, `PieceRefused`)
and is parsed when it has come; `TakeSystemRegisters` and `Connected` are the
moves of `unique_ptr`s out of the table, after which it holds null for
`NextSession`. Texts are converted by what they yield. The schema of the files,
GUIDs and command lines are left out.

### 2.14 TextDumpParser and TextDumpServices

The file comes line by line, and the behaviours of `TextDumpParser` are the parses
of all files of up to `MaxLines` of the lines in `SomeDumps`. An action is one turn
of the loop of a section's parser; `SectionEnds` is what follows the loop. The
lookups are operators on the lists, with their comparisons as the code has them.
In `TextDumpServices` the container is external: it initializes services by the
dependencies they declare, in any order that these leave. An enumerator is a
position, `Reset` included; `InitializeRegisterMappings` may break off after any
number of registers. Initializing and uninitializing the extension interleave
with everything else.

### 2.15 CodeFlow

A generator is a stack of frames, one per call of the recursive search; `Resume`
runs to the next instruction that is yielded, and between two a script may begin
or resume another generator. `exploredBlocks` belongs to the object that both were
asked of. An operand is a register or a place in memory with whether it is read or
written; what the disassembler knows of registers is external.

### 2.16 SyntheticTypes and HeaderReader

`types`, `aliases` and `tables` are the three maps of the script. Each action of
`HeaderReader` is one line read: `Define`, `Ifdef`, `If`, `Endif`, `Open`, `AddField`,
`Close`, `ReadEnum`, `ReadTypedef`. Expressions are evaluated on the stack of the
code, operator by operator, with its precedences (`Step`). `TypeSize` and `TypeAlign`
carry the table along, because they keep what they find in it; `Construct` places
the fields of an instance, with the unit of a bit field and where in it the next
one begins. C's own layout and C's own reading of a header are reference
definitions in the same modules (`CLayout`, `IsTakenInC`), written without the
code's order of work.

## 3. Runs

| Run | Instance | What it shows |
|---|---|---|
| `gdb_session` | run control: an engine that resumes and releases the server, on servers whose replies have the pc or not and on one that sends `SAA`, and an engine that resumes, halts and reads registers on a server of all three; 2 resumes, a console packet, a halt, a late answer; line: 3 commands, of which 2 may start the session, 2 late answers, a damaged request, an interrupt, a close; breakpoints: both kinds, 2 places, 2 cores, 3 tries, a fault | `TypeOK`, `EveryResumeCompletes`, `TruthfulUntilHalt`, `RunStatusTruthful`, `ReleasedLeavesNoThread`, `SessionInStep`, `ReplyMatches`, `AtMostOnce`, `SlotsKept`, `BreakpointsIntact`, `MainReturns`, `StopReported`, `ReleaseCompletes`, `CommandEnds`, `ImplementsTable` |
| `gdb_requests` | memory: 5 kinds of server, addresses 0 to 2, requests of up to 3 bytes in packets of 2, 2 calls, 1 fault; cores: 2 threads, 4 architectures, 2 writes, 1 fault; connections: 2 streams, 3 events; resumes: 2 cores, 2 resumes, an output, a break, a question for the reason; configuration: 2 sessions over the documents of `SomeConfigurations`, in pieces of 2 elements, 1 failure | `MemoryRead`, `MemoryWritten`, `CoresKept`, `ContextsOfCpus`, `ConnectionsWatched`, `HaltedAsReported`, `ResumesEnd`, `ConfiguredAsWritten` |
| `kd_session` | 2 processors, 2 addresses, 3 calls, 1 text like a prompt, 1 death | `KdInStep`, `KdProgress` |
| `sym_builder` | types: 2 classes and a basic type, offset 1 or automatic, arrays of 2, any 3 operations; fields: 4 types, up to 3 fields, any 4 calls; indexes: one name, offsets 0 and 1, sizes 0 and 3, 3 symbols, one move; scopes: 5 global symbols to create, 4 symbols, any 3 changes with anything asked in between; a function: 2 variables, 2 live ranges of sizes 0, 1, 2 and 5 in addresses of width 8, any 3 operations; ranges: all lines of 3 instructions, some with floating-point and big parameters, diamonds and loops; import: 2 queries and an edit; manager: 2 processes, 3 changes, 2 calls, a failure | `LayoutsFollow`, `IndexesFound`, `ListingsFollow`, `AnswersCurrent`, `RangesKept`, `ListsFollow`, `FoundUnlessFlowDependent`, `RangesOfBlocks`, `Imported`, `ManagerFollows` |
| `extensions` | dumps: all files of up to 5 of 18 lines, addresses 0 to 4; services: 2 enumerators, 2 architectures, 2 changes, 1 fault; flow: straight lines, a join, a skipped block and a loop, 2 generators, begun twice; headers: 3 calls over the headers of `SomeHeaders`, pointers of 4 bytes, instances at 0 and 2 | `DumpAsWritten`, `TargetAsDumped`, `FlowTraced`, `HeadersAsWritten`, `LayoutAsC` |
| `live_stale_reply`, `rsp_keepalive`, `gdb_write`, `ranges_flow`, `ranges_overlap`, `module_reload`, `dump_reads` | small, or one part of the above | a violation each, section 4 |

A property that is a conjunction is named for what its parts have in common; the
parts are definitions of their own, with a comment each: `TruthfulUntilHalt` is
`FallbackAfterHalt`, `HaltedWithoutBreak` and `OneReportWithoutBreak`;
`SessionInStep` is the types, `LineDrained` and `ModesAgree`; `SlotsKept` is the
types, `SlotsAccounted` and `SlotsBounded`; `BreakpointsIntact` is `SlotsDistinct`
and `HeldArmed`; `IndexesFound` is `RangesSorted`, `OverlappingFound`, `IndexesLive`
and `NearestPublic` of `SymbolSet`, and `ListsAlive`, `Enumerated`, `SymbolsFound` and
`ScopesHeld` of `SymbolScopes`; `LayoutsFollow` is `TypesLaidOut`, `DataFollows`,
`ChildrenOwned` and `NotifiesUsers` of `SymbolTypes`, and `Apart`, `Stays` and
`CountedOn` of `SymbolFields`; those of `GdbRequests`,
`KdServer`, `SymbolParts`, `SymbolBuilder` and `Extensions` are written out there.

Why the bounds are enough. One halt between two resumes is where the paths of a
stop meet, and the second resume is where anything left behind is taken for
something else and where the callback of the first is overtaken. With three
commands a session either negotiates its mode (two commands) and then runs one, or
runs three with acknowledgments; the run lowers `MaxAckTries` from the code's 3 to
1, so that both sides of the limit are reached with two late answers. Two cores
distinguish the first from the last and three tries are the code's; two resumes
are needed for a reply that the first leaves on a line. A request of 3 bytes is
more than a packet of 2, so it is cut unevenly, and an answer may be short at
either cut; one fault hits a read, a write or the way back from physical mode.
Three calls of the KD server are a resume, a call while its callback is pending
and one after it. Two calls for memory are one that leaves a mode or a stale PSR
behind and one that meets it. Offsets 0 and 1 with sizes 0 and 3 make ranges
equal, empty, and overlapping on either side, and three symbols make a split of a
range that another split made. One name makes every pair of symbols clash. Three
operations on types let a class be notified of what a field or base class of it
became, data follow that class, and a type be deleted while a field and an array
use it; a class that is notified along two paths of different length takes a
fourth, and `LayoutsAlwaysFollow` has any number of them; a basic type of size 2
and an offset of 1 make padding inside and at the end of a class. Bit fields of 6
bits fill a unit of 8 with the second, or one of 16 with the third; types of the
same size but another kind end a unit too; four calls make three fields and then
freeze, resize or move one. The values are the last two of a byte, so the next one
wraps. Three changes of the symbols are a function with a variable and the
deletion of either while an enumeration is past it. A size of 5 in a width of 8
makes a live range wrap. Three instructions in a line are a move, an overwriting
and a use; a diamond brings two entries into one block and a loop an entry from
behind, and the walk needs two traversals of each. Two queries are one that starts
an import inside a circle and one that meets its result. Three changes of services
take an architecture away and bring it back with another platform, or unload a
module, load another and change the kind of target; of two calls of a script the
first sets up manager and provider and the second finds them, or what a change
made of them.

Two sessions of the configuration show what the first leaves in the table. Five
lines are a section with two entries, then the header of another with one, or a
header that comes twice; three overlapping memory lines make a region that goes
on, a hole and a byte written twice. Two generators interrupt each other at every
yield. Three calls read two headers and make an instance of what both define.

Conditions in the properties, and why.

* `StopReported` and `RunStatusTruthful` of `LiveServer` speak of resumes that nothing
  disturbed (`Undisturbed`). `GetContext` ends the wait of a resume and thereby makes
  `GetRunStatus` answer "halted" for a running target; so does a `Halt`. After a
  console packet the callback receives once more on the main thread, and when that
  times out nobody waits for the stop any more. `StopReported` also leaves out
  servers that send `SAA`, whose stops are never reported (section 4), and a callback
  that asks for the pc and is answered late.
* `ReleaseCompletes` assumes that no command is in progress: with one, the
  destructor closes the socket and waits for a thread that loops on it.
* `TruthfulUntilHalt` speaks of the time until the first `Halt`; after it,
  `live_stale_reply` shows a part to fail, and a callback that falls back on the
  last pc repeats a report.
* The safety properties of `RspLink` hold until an answer comes too late. A late
  acknowledgment or reply is read where the next one is expected: the code then
  resends a command that was executed, or takes an old reply for the new one.
  `CommandEnds` excuses a closed connection.
* The properties of `Breakpoints` on the target hold until a request is not
  carried out; `SlotsKept` says what such a request costs.
* In `RspCores` an interrupt may leave stop replies on the lines (`LeftByInterrupt`
  says that nothing else does), and then the next resume takes an old stop for its
  own; `HaltedAsReported` excuses that. `ResumeEnds`, the other part of `ResumesEnd`,
  promises an end when every core has sent something or an interrupt has come.
* `MemoryWritten` promises that a write stays in its range, and that one of a single
  packet is whole if the server answered `OK`: what else it answers to the
  last packet counts as done too. `gdb_write` shows what becomes of a longer one.
  `PAModeEnds`
  excuses what threw.
* `KdInStep` speaks of answers and stops while the target printed nothing that
  looks like a prompt, and of breakpoints while nothing died. `KdProgress` excuses a
  target that runs for ever, a dead process, and an engine that took its listener
  back.
* `IndexesFound` and `ListingsFollow` leave out addresses at which a range ends, and
  the second also the deletion of data. The binary search compares `rng.End <
  address` although ranges are half-open: at a boundary `FindSymbols` returns the
  range before, and `RemoveSymbol` of a range that begins there removes nothing.
* `LayoutsFollow` and `NotifiesUsers` hold until a notification has failed, because
  a dependent that fails, a class with a field whose type is gone, ends the
  notification of all the others. They speak of the sizes that types have: a
  typedef keeps the size it was created with, so what is laid out with it is right
  about the typedef and wrong about its type. `ChildrenOwned` speaks of live
  classes: a class deleted with three fields or more leaves some of them alive
  without a parent.
* `AnswersCurrent` excuses variables whose propagation failed. `RangesKept` says
  that live ranges are disjoint unless one lies inside the other, which is all
  that the comparison ensures; the comment above it (`SymbolData.cpp`, line 814)
  says that none overlap, which `ranges_overlap` shows to fail. `ListsFollow`
  excuses an iteration behind a deletion, and a move before a parameter that a
  local precedes.
* `FoundUnlessFlowDependent` is about functions in which every block is entered
  with the same locations; `ranges_flow` shows the others.
* `Imported` asks for all children only of symbols that lead to nothing that fails,
  while nothing was deleted, and promises the kind a name was first asked for with
  (`Answered`), since the name is not asked for again.
* `ManagerFollows` speaks of modules for whose key no script created symbols while an
  earlier one had it; `module_reload` shows that the symbols of the earlier one are
  found otherwise. It promises that nothing false is found once the provider could
  not be put into the container, not that anything is.
* `ConfiguredAsWritten` speaks of registers in the first session of a process, since
  the second finds none. The system registers are those of the features that are
  supported, as `ExdiGdbSrv_readme.md` (line 322) and the comment at line 1163 of
  `XmlDataHelpers.cpp` have it, unless a feature follows the supported one: the code
  then takes that one's (section 4).
* `DumpAsWritten` leaves out reads that go over the end of a region above 0, which
  `dump_reads` shows to be answered with bytes of other addresses, frames of a second
  stack section, and modules that overlap.
* `TargetAsDumped` promises mapped images while nothing failed, and all registers of
  a context while no enumeration of registers broke off.
* `FlowTraced` promises completeness to a generator that ran alone, in a function
  whose blocks lead to the instruction in one way each.
* `HeadersAsWritten` leaves out what the reader is not up to (`IsWithinLimits`):
  `#else`, `#elif`, a macro defined twice, expressions in which a later operator
  binds tighter, and those with `/`, `&&`, `||`, `!=` or `sizeof` (`IsSimple`).
  What a truth value means as a dimension is not promised either. `AliasesEnd`, a
  part of it, says that aliases lead in a circle only by the name of a defined
  structure, as in two typedefs of structures that take each other's name.
  `LayoutAsC` leaves out types with padding inside a member type, arrays of
  synthetic types, and types that were defined again.

Fairness. `LiveServer` assumes weak fairness of each thread (the operating
system schedules a thread that can run) and of the server's answer to a break;
it does not assume that the target ever stops by itself, nor that the engine
ever calls. `RspLink` assumes weak fairness of the client's thread and of the
server; nothing makes an interrupt or a close happen. `RspCores` assumes weak
fairness of the thread of a resume and nothing of the targets. `KdServer` assumes
weak fairness of the main thread while it is in a call, of its dispatching, of the
command and notification threads, of `kd.exe` working off what it was given, and
of the deletion of the controller; nothing makes the target stop. SymBuilder runs
to completion within a call and states no liveness. Deadlock is not checked: in
each instance the engine or the script may simply stop calling, and the counters
are bounded.

## 4. Where the code departs from what it says

Each violation run checks one property that a comment or a document of the
repository states; `PROJECT.json` quotes the lines.

* `live_stale_reply`, `HaltedWhenReported`. `Halt` aborts the wait of the resume,
  asks `?` and reports the answer; the stop reply of the break itself arrives
  later, stays on the link, and ends the wait of the next resume at once:
  the engine is told that a running target is halted.
* `rsp_keepalive`, `SessionKept`. The keep-alive check takes the number of
  characters that it peeked for an error; WinSock then still has the time-out of an
  earlier receive as its last error, and a session that is alive is given up.
* `gdb_write`, `WriteReported`. The loop of `WriteMemory` moves on in the data but not
  in the address: a write longer than a packet puts all its pieces at the start of
  the range and reports success.
* `ranges_flow`, `FoundWhereSaid`. A block is walked again only when an entry adds a
  location, not when one fails to bring what the first brought; blocks behind it
  keep a location that is right on one way only.
* `ranges_overlap`, `RangesDisjoint`. Only the two ends of a new live range are compared
  with those there are, so one that begins before another and ends behind it is
  taken, and the debugger finds two locations at one address.
* `module_reload`, `FoundForItself`. The manager is registered for modules that
  disappear and does nothing when one does; its symbols stay, and are found for the
  next module with its key.
* `dump_reads`, `ReadsAnswered`. What remains of a region is reckoned as its end
  less the offset in it, so in a region above 0 a read over the end takes bytes
  that are not the region's and reports all of them as read.

Other departures were met while modelling. Each is in the model, as the step named
or as a condition of a property above; none has a run of its own.

EXDI GDB server:

* For a stop reply that is filed as `SAA` the stored last pc is assigned to a local
  that nobody reads, so the stop is never reported.
* When an acknowledgment does not arrive, the decision to send again is overwritten
  on the next line.
* A refused create of a breakpoint returns an object all the same; the next one
  shares its slot, and deleting the first makes the second, which is armed,
  impossible to delete.
* `recv` returning 0 is never noticed, so a wait on a closed connection does not
  end (`AckOfClosed`). With several cores the keep-alive keeps only the last
  socket's error, a socket may be left non-blocking after one, closing stops at the
  first socket that is closed already, and attaching anew skips the switch to
  sessions without acknowledgments.
* A write of registers is left half done when one is refused; the processor number
  of a context is not checked against the table of threads; counting processors
  loops for ever on a server that keeps answering the same.
* An error in the last packet of a write is reported as a success, as is the empty
  reply of a server that does not know the packet; a physical
  write on QEMU does not switch to physical mode; a physical read that fails
  does not switch back; system registers are read with the PSR of the last
  context, which may be stale.

EXDI server configuration:

* When the target meant is the last in the configuration file it stays selected
  while the other documents are read, and then each `feature`, `reg` and element
  of the file of access codes does its work and reports a failure all the same,
  which ends the reading of its document (`AcceptOutsideTarget`). A
  `heuristicScanSize` that is absent or not a number drops the name of the
  description file without a word.
* Each feature starts the system registers anew, and once a feature was supported a
  later one that is not is taken as well; a `reg` without a group fails the whole
  document. Only the first registers with a range get a set of system registers,
  and an architecture that is described but not listed keeps the former registers.
* The registers and the access codes are moved out of the table, which outlives the
  session: the next session has none, and with a file of access codes uses a null
  pointer (`Crash`). Registers of a later architecture in that file are added to the
  map of the earlier one.

EXDI KD sample:

* An exception in the command thread ends the process: when `kd.exe` dies during a
  resume, or when the server is destroyed with a command in progress. One in the
  completion callback ends it too, or the engine hears nothing.
* Nothing looks whether the engine is alive while the notification thread waits
  for a command; a release waits as long as the target runs.
* A callback without a listener leaves the flag that says the target runs.
* Text that looks like a prompt ends the answer of a command early, and every later
  answer is that of the command before.
* The slot of a breakpoint that `kd.exe` refused stays free, but its number was
  given out; bytes behind a hole in memory are returned as if they followed.

SymBuilder:

* The delete of global data passes the size as the end of its range, which
  therefore survives. A promotion to a function erases the name the function got.
* Fields survive a class with three or more of them (`DeleteNextChild`); typedefs
  keep an old size (`CreateTypedef`); a manual offset is laid out but not reported
  (`SetSymbolOffset`); a class that holds itself is notified for ever.
* The offset and the position of a bit field can disagree. `SetBitFieldPosition`
  checks the position and stores nothing; a length that moves a given position moves
  only what was given, not what is reported; a length for a field with a manual
  offset leaves its position to a layout that does not place it, so it is reported,
  and the next bit field continues, at -2. A smaller type, or a length where there was
  none, is not checked, and the bit field then lies over the next one: `Apart` asks of a
  field and the one before it that they are whole (`IsWhole`).
* Only a bit field that comes last has its unit in the size of the class; behind one,
  a field at a lower manual offset leaves the class too small. `Apart` says that
  the class holds every unit when the layout places all fields.
* `SetIsAutomaticLayout(false)` on a field that is manual already puts it back to the
  offset the layout last computed. A value set on an enumerant that counts on is
  lost at once (`SetValue`). A field whose constructor refuses it stays in the table of
  symbols without a parent.
* A parameter moved before another goes to the position of that one among all
  children, locals included.
* A typedef or an array that leads back to itself is imported twice, and the outer
  import fails with a message that it should never happen; a class whose child fails
  stays half imported and is later taken for imported; an enum whose child fails is
  created again by each query.
* A provider that could
  not be registered is never registered again (`InjectionFails`). A platform that
  arrives while there is no architecture has a null pointer used (`Dereferences`),
  and one that leaves does not change the convention.

TextDump:

* A byte order mark is compared with signed characters and never
  seen (`Initialize`). A frame of a second stack section is looked up by its number
  in the whole list (`NumbersFrame`).
* `m_firstEnumerationComplete` is set before the event is fired: when
  `NotifyEvent` fails, or the extension is not initialized at that moment, the
  memory of images is never mapped (`CompleteModuleEnumeration`). An enumeration
  of registers that breaks off leaves the mappings it made, and they are taken
  for all.

`CodeFlow.js`:

* `__getDisassemblyInfo` looks at the index of the backquote where it means that of
  the exclamation mark. Generators that interleave share the set of explored
  blocks; a block is scanned with the live sets of the first way to it, and the last
  part of a loop is not scanned at all.

`SynTypes.js`:

* A size is the sum of the sizes of the fields, rounded up: padding between fields
  does not count. A pointer to a synthetic type and an array of them count as one
  object of it; an array of pointers to one is an unknown type, and a structure
  that holds a pointer to itself does not end. A dimension that is a truth value
  makes the type `char[true]`, which nothing has symbols for, and of a synthetic
  type fails its header; a quotient is not rounded (`BadArray`). The bit fields of
  a union count one after another, and a unit that is not full lets the field
  behind it overlap. Sizes and alignments that were kept stay when a type they
  rest on is defined again.
* `#else` behind a condition that fails is not heeded, nor are `#elif` and `#undef`;
  `defined` of an empty macro is false. `&&` and `||` are each evaluated as the other,
  `!=` throws, and the whole stack is reduced when an operator does not bind tighter
  than the one before it, so `1+2*3*4` is 28. The value of `sizeof` is not pushed. The
  enumerant after one that is 0 is 0 again. A macro keeps what the macros in it were
  when it was defined, and one that uses itself does not end.
* The table of a header is kept by its path, whatever the macros of the next call
  are; a header that fails leaves the types it defined; `typedef struct FOO FOO;`
  fails its header; `CreateInstance` follows one alias only. Two typedefs of
  structures whose names are each other's make a circle of aliases, in which the
  search for a type never ends (`AliasesEnd`).

## 5. Proofs

All theorems hold for every value of the constants that the named assumptions
allow, and rest on nothing else.

`LiveServer_proofs`:

* `TypeCorrect`, `Spec => []TypeOK`. The Boolean fields and the rest are proved
  apart (`FlagsNext`, `DataNext`).
* `ResumesComplete`, `Spec => []EveryResumeCompletes`. The invariant alone is not
  inductive: a callback that returns adds a completion, and only `CallbackInCall`
  says that the notification thread is then inside its call.
* `BreaklessReports`, `Spec => []TruthfulUntilHalt`. `HaltFreeInv` is the
  strengthening: at most one stop reply is under way on the link or in the result
  (`OneStopUnderWay`), at most one callback is pending and it finds the flag set
  (`OneCallback`), and when the engine believes the target halted there is neither a
  reply, nor a command, nor a callback left (`EngineBelief`). Lemmas on sequences
  show that taking, dropping and adding packets keep the stop replies apart.
* `ReleaseLeavesNoThread`, `Spec => []ReleasedLeavesNoThread`, by an invariant that
  the notification thread is gone before the controller is destroyed.
* `StatusTold`, `Spec => []RunStatusTruthful`: for any form of stop replies, as long as
  `Halt` was not called, the target has printed nothing, no answer was late and the
  engine does not read registers. It rests on `HaltFreeInv` and on `StatusInv`, that
  the link holds nothing but stop replies: so a
  callback finds one in the result, and then the target has stopped.

`Breakpoints_proofs`:

* `TypeCorrect`, `Spec => []TypeOK`, with lemmas on the search for a slot.
* `BreakpointsKept`, `Spec => []BreakpointsIntact`. While no request has
  failed, `IntactInv` holds: objects differ in breakpoint and in slot, their slots
  are in use, the object of the call under way is new or the engine's, and the
  cores before the loop's are done while those behind it are untouched. Sending a
  request again changes nothing (`CarriedOutOnce`), which is why retries are
  harmless.
* `CallsImplementTable`, `Spec => ImplementsTable`. The mapping takes `Held` for the
  table and, for what stops the target, `Live`: during a call the breakpoints that
  stopped it before, so that a call takes effect in the step that asks the last
  core, and every other step stutters.
* `SlotsLost`, `Spec => []SlotsKept`, whatever is refused. The invariant compares, by
  their cardinalities, the slots in use with the objects held: a slot more for a
  request of a delete, an object more for one of a create that was not carried out.
  It assumes that the places of breakpoints are finitely many, as addresses are.

`RspLink_proofs`:

* `TypesCorrect`, `Spec => []TypeOK`.
* `KeptInStep`, `RepliesMatch` and `ExecutedAtMostOnce`: `SessionInStep`, `ReplyMatches`
  and `AtMostOnce`, for any number of commands, damaged packets, interruptions and
  tries. One invariant, `InStep`, serves all three. It reads the socket and the
  buffer as one stream (`Inbound`) and says, by what the client waits for, what may
  be on it and on the way to the server: nothing (`Quiet`), the packet or a damaged
  copy (`Requested`, `Refused`), or acknowledgments and then the reply, from the token
  on that was not sent or not read yet (`Working`, `Rest`). It holds only until an
  answer comes late, and `LateGrows` says that there is no way back.

`GdbRequests_proofs` states the theorems about the requests of the debugger, each for
`RequestsSpec`. The memory is a part of that module itself; for the cores
`GdbCores_proofs` proves lemmas under the assumptions of `GdbCores` as
hypotheses, and the theorems cite them through an instance, having shown that the
steps are the same (`CoresSteps`).

* `MemoryReads` and `MemoryWrites`: `MemoryRead` and `MemoryWritten`, for any size of
  memory, packet and request. `ReadInv` says that what was read so far is the bytes
  from the first address on, of the space that the mode selects; `ModeInv` who set
  the physical mode; `WriteInv` which bytes may differ from those before the call.
* `CoresOfRequests` and `ContextsOfRequests`: `CoresKept` and `ContextsOfCpus`. The
  invariant says how much of the table of the threads has come while they are
  counted (`TableInv`); of a context being read, that it holds registers of the thread
  named or nothing, and of one that is whole that it has all (`GetInv`, `WholeInv`);
  and of one being written that only registers its groups allow have changed, on the
  thread selected, and that a whole one written back changes none (`SetInv`).
* `ResumesOfRequests` and `StopsLeftByInterrupts`: `HaltedAsReported` and
  `LeftByInterrupt`. For a resume that found nothing on the lines, the invariant says
  what may be on the line of a core, output and, once, that it has stopped
  (`LineOfRun`), and how far the discarding has come (`DiscardInv`): the cores before
  the one the loop has come to will halt, and have nothing left on their lines
  unless they were interrupted.
* `ConnectionsInStep`: `ConnectionsWatched`. The keep-alive check is a recursive
  function over the cores; that each core's entry says what it should is shown by
  induction on its number, from the least number for which it might not (`UpTo`).

`SymbolParts_proofs` states the theorems about SymBuilder, for `PartsSpec`.

* `ManagersFollow`: `ManagerFollows`, for any services, modules and processes. The
  invariant relates the table of symbol sets to what scripts created, each for the
  load of its module that it was made for (`SetsInv`), and says that the provider
  stands behind the manager unless a registration failed (`ProviderInv`).
* `AnswersAlwaysCurrent`, `RangesAlwaysKept` and `ListsAlwaysFollow`:
  `AnswersCurrent`, `RangesKept` and `ListsFollow`. The invariant says that the
  live ranges of each variable are disjoint or one inside the other, and bear
  different ids, that a function's children are its live variables, each once,
  that its type is that of its parameters in their order, and that an iteration
  has yielded every live range before its position unless one was deleted there.
  `MovedBefore` needs that a move is a permutation which leaves the others in
  their order (`ElementMoved`), and that the place among the parameters is found
  by counting them. Addresses may wrap at any width (`Span`).

* `RangesAlwaysOfBlocks`: `RangesOfBlocks`, for any set of functions
  (`SymbolPartsFunctions`: there is one, and each is an `IsFunction`: code, blocks that
  begin in it, flows between blocks), of any length and control flow, and any bound
  on traversals. The invariant `BuilderInv` has three parts. `ProgramInv` gives the
  queue and the positions of the loops their ranges. `BlocksInv` says where each
  range of a block ends: at the cursor of the walk while it lives, behind the
  instruction that kills it, or with the block; nothing kills it before. It is this
  that makes the end of a range a matter of its location alone, so
  that ranges of a block with one location that live together end together, and a
  candidate with the location of the range under way cannot begin before it
  (`EndTogether`): it is merged whenever the two meet.
  `CreateInv` says what has been made of the ranges up to the cursor of
  `CreateLiveRangeSets`: the ranges of a parameter follow each other and are not to be
  merged (`ListInv`), each says a location that its blocks brought and every address
  that has one is in a range or in the one under way (`CoverInv`, `OpenInv`), and what
  comes next does not go on with the location that the last one ended with
  (`ClosedInv`). Since a new range begins at or behind the end of the last,
  `AddLiveRange` refuses none (`NeverRefused`), although the builder does not look at
  what it returns.
* `LayoutsAlwaysFollow`: `LayoutsFollow`, for any basic types, offsets, dimensions and
  number of operations, any types of fields, bit lengths and values. Of the tree of
  symbols `SymbolTypes_proofs` proves it
  (`LayoutsAlways`, under `LayoutAssumption`), and `SymbolParts_proofs` shows that
  the steps of that part are the same, action by action. Between two notifications
  much is out of date, so the property is far from inductive. `LayoutInv` says what
  holds meanwhile: whatever a symbol refers to has the right kind (`RefsInv`); the
  tasks under way are those of one operation (`TasksInv`); the children of a class
  are its live fields and base classes, but those about to be erased (`OwnedInv`);
  and, until a notification fails, a type notifies what is made of it, but what is
  about to be registered or erased (`RegisteredInv`), and whatever is not laid out as
  its parts say is still due on the stack of notifications, or one of its parts is
  (`LaidInv`). The last is why a change must reach everything above it, in whatever
  order the dependents are taken. A new field is registered only after its class was
  notified: no notification under way may come to the type of the field in between,
  which holds because a class never comes to hold itself (`ApartInv`). Lemmas show
  what the loops of `LayoutType` assign: `CursorsAre`, by the number of the turn,
  `TurnsAre`, that the turns come to the base classes and then the fields in their
  order, and `LaidOut`, that the result is `ClassLaidOut`.

  Of the fields it is `FieldsInv`, inductive over every call: the fields of a class
  are a fixpoint of the layout and its size and alignment are the layout's, the
  enumerants of an enum are a fixpoint of the counting, and a field of a class with
  a manual offset has an actual one too. What the class promises follows from the
  fixpoint. `BitsFit` shows that the layout leaves a bit field room in its unit,
  `ReachGrows` that the cursor with the unit it is in never moves back over fields
  the layout places, from which two fields anywhere in the class are apart
  (`NoTwoOverlap`, by the least field that is not) and the last cursor holds every
  unit (`UnitsHeld`). That a frozen field moves nothing (`FrozenStays`) rests on the
  cursor behind it being the same, whether the offset was computed or given
  (`Freezes`). That values count on (`CountIs`, `EnumCounts`) is arithmetic modulo the
  number of values of the type: to add one and wrap, step by step, is to add all
  and wrap once (`RestAndOne`, `WrappedIs`, `NextValue`), which is proved for 1, 2, 4
  and 8 bytes, with and without sign, while the run has a single byte.

`KdServer_proofs`:

* `TypeCorrect`, `Spec => []TypeOK`, from `Types`, which gives every field its type.
* `ThreadsInStep`, `Spec => []KdInStep`. `KdInStep` speaks of an answer when it has
  been taken; the invariant `InStep` follows it from the command. `Work` says what
  each thread may be doing given what it has to do, `Turns` that the command thread
  and a call of the main thread exclude each other on the pipes, `Objects` that
  every breakpoint object has a slot of its own. While the target prints no prompt,
  `Conversation` says where the one command under way is: written and not executed,
  executing, or answered with exactly its text and one prompt, all of it on the
  pipe or in the buffer (the lemmas `OnePrompt` and `TakenAnswer` show that the
  reader then takes just that); `Told` that what the engine was told is what the
  target did, or that the callback on its way will tell it; and `Armed` that `kd.exe`
  has the engine's breakpoints but for the one of the call under way. Each is
  preserved by every step given the ones before it.

Model-checked only:

* liveness (`StopReported`, `MainReturns`, `ReleaseCompletes`, `CommandEnds`,
  `ResumeEnds` in `ResumesEnd`, `KdProgress`), which is out of the prover's reach
  together with ENABLED;
* `IndexesFound`, `ListingsFollow`, `Imported` and everything about the
  extensions: range list, enumerations, importer, expressions, layouts of C and
  lookups are written with recursive operators, and what a recursive definition
  computes needs an induction that the provers do not have;
* `FoundUnlessFlowDependent` and `ConfiguredAsWritten`, which are not proved yet.

## 6. Not modelled

* The agent-name packet at the start of a session and the answer to it. A
  `SetThreadCommand` that gets a damaged answer is sent again in the code; here its
  tries are one step. The attribute `targetFamily` is one of the families, and not
  read character by character.
* A `FinalConstruct` of the KD sample that fails after it started the notification
  thread: the server there is one whose construction succeeded.
* In `SymbolImport`, failures of the enumerations of DbgHelp and base classes that it
  cannot read. In `RangeBuilder`, parameters without a type, which get no place, and
  blocks that nothing leads to, for which the code indexes an empty vector.
* Parsing and formatting of register and memory packets, of locations, and of the
  text of `kd.exe`, of XML and of attributes; COM plumbing.
* Starting a GDB server process, the search for the kernel in memory, `Reboot`, and
  calls of both EXDI servers that return `E_NOTIMPL`.
* Pointers and constants in `SymbolTypes`, and dependents of the class or enum of
  `SymbolFields`; sub-registers and scaled operands in
  `RangeBuilder`; sizes and offsets of what is imported.
* The data-model objects of `ApiProvider` beyond the state-changing operations that
  the modules of SymBuilder take from them.
* The splitting of a line of a dump or a header into its fields or tokens; the
  search of `CodeFlow.js` for the function of an address.
* `ImageInfo.js`, `FileSystemSample.js`, the `TTD` samples and `TTDQueries`, the
  tutorials: no state that changes, user interface, or code whose core is outside
  the repository.

## 7. What could follow

1. Proofs of `FoundUnlessFlowDependent` (with `RangesOfBlocks`: what every entry
   brought to a block is where the machine has the parameter) and of
   `ConfiguredAsWritten` (what was read of the configuration file so far as the
   strengthening).
2. An abstract specification of run control, a stop reported once per resume,
   implemented by `LiveServer` until the first `Halt` and by `KdServer` always.
