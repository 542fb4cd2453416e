---------------------------- MODULE RspConnections ----------------------------
(***************************************************************************)
(* The connections of GdbSrvRspClient, one TcpIpStream for each core: they *)
(* are configured and connected when the session starts, looked at by      *)
(* GetRspSessionStatus (for the keep-alive of the debugger and before each *)
(* monitor command), closed by a function of .exdicmd and opened anew by   *)
(* AttachGdbSrv.                                                           *)
(*                                                                         *)
(* WSAGetLastError is kept, since a call that succeeds does not reset it.  *)
(***************************************************************************)
EXTENDS Integers

CONSTANTS
  NumberOfStreams,  (* Entries of m_pTLinkLayerStreamClass.                *)
  MaxEvents         (* Bound on what happens to the connections.           *)

Streams == 0 .. NumberOfStreams - 1
C_ALLCORES == NumberOfStreams  \* no index of a stream
Errors == {"none", "timeout", "lost", "notsock", "aborted"}

VARIABLES
  sockets,     (* "none" (no stream), "new", "connected", "ended" (by the  *)
               (* server), "reset" (lost) or "closed" (by the client).     *)
  configured,  (* The time-outs and options of the socket are set.         *)
  blocking,    (* The socket is in blocking mode.                          *)
  pending,     (* There is something to read.                              *)
  phase,       (* "start", "session" or "refused".                         *)
  isConnected, (* m_isConnected.                                           *)
  lastError,   (* WSAGetLastError() of the main thread.                    *)
  sent,        (* The stream of the last monitor command.                  *)
  events       (* Bounded counter.                                         *)

streams == <<sockets, configured, blocking, pending>>
vars == <<streams, phase, isConnected, lastError, sent, events>>

(* Every variable has its type.                                            *)
TypeOK ==
  /\ sockets \in [Streams -> {"none", "new", "connected", "ended", "reset", "closed"}]
  /\ configured \in [Streams -> BOOLEAN]
  /\ blocking \in [Streams -> BOOLEAN]
  /\ pending \in [Streams -> BOOLEAN]
  /\ phase \in {"start", "session", "refused"}
  /\ isConnected \in BOOLEAN
  /\ lastError \in Errors \ {"aborted"}
  /\ sent \in Streams \cup {C_ALLCORES}
  /\ events \in 0 .. MaxEvents

(* TcpInitialize has no stream for a connection string it cannot parse.    *)
Init ==
  /\ sockets \in [Streams -> {"none", "new"}]
  /\ configured = [c \in Streams |-> FALSE]
  /\ blocking = [c \in Streams |-> TRUE]
  /\ pending = [c \in Streams |-> FALSE]
  /\ phase = "start" /\ isConnected = FALSE /\ lastError = "none"
  /\ sent = C_ALLCORES /\ events = 0

-----------------------------------------------------------------------------
(* The network and the servers.                                            *)

Event == phase = "session" /\ events < MaxEvents /\ events' = events + 1

ServerEnds(c, how) ==
  /\ Event /\ sockets[c] = "connected"
  /\ sockets' = [sockets EXCEPT ![c] = how]
  /\ pending' = [pending EXCEPT ![c] = @ /\ how = "ended"]
  /\ UNCHANGED <<configured, blocking, phase, isConnected, lastError, sent>>

DataArrives(c) ==
  /\ Event /\ sockets[c] = "connected" /\ ~pending[c]
  /\ pending' = [pending EXCEPT ![c] = TRUE]
  /\ UNCHANGED <<sockets, configured, blocking, phase, isConnected, lastError, sent>>

(* The command thread reads it; its last error is its own.                 *)
DataRead(c) ==
  /\ sockets[c] = "connected" /\ pending[c]
  /\ pending' = [pending EXCEPT ![c] = FALSE]
  /\ UNCHANGED <<sockets, configured, blocking, phase, isConnected, lastError, sent, events>>

(* A receive of the main thread times out.                                 *)
ReceiveTimesOut(c) ==
  /\ Event /\ sockets[c] = "connected" /\ configured[c] /\ ~pending[c]
  /\ lastError' = "timeout"
  /\ UNCHANGED <<streams, phase, isConnected, sent>>

-----------------------------------------------------------------------------
(* The start of a session.                                                 *)

ConfigRspSession(cores) == configured' = [c \in Streams |-> configured[c] \/ c \in cores]

(* TcpClose: a socket already closed ends the loop.                        *)
TcpCloseOn(socks) ==
  [c \in Streams |->
     IF \E d \in 0 .. c : socks[d] = "closed" THEN socks[c] ELSE "closed"]

(* SetGdbServerConnection: configure every stream, then connect one after  *)
(* the other; when the attempts on one are used up all are closed.         *)
SetGdbServerConnection ==
  /\ phase = "start"
  /\ \/ /\ \E c \in Streams : sockets[c] = "none"
        /\ LET first == CHOOSE c \in Streams : /\ sockets[c] = "none"
                                               /\ \A d \in 0 .. c - 1 : sockets[d] # "none"
           IN ConfigRspSession(0 .. first - 1)
        /\ phase' = "refused"
        /\ UNCHANGED <<sockets, isConnected, lastError>>
     \/ /\ \A c \in Streams : sockets[c] = "new"
        /\ ConfigRspSession(Streams)
        /\ \/ /\ sockets' = [c \in Streams |-> "connected"]
              /\ isConnected' = TRUE /\ phase' = "session" /\ UNCHANGED lastError
           \/ /\ sockets' = TcpCloseOn(sockets)
              /\ isConnected' = FALSE /\ phase' = "refused" /\ lastError' = "lost"
  /\ UNCHANGED <<blocking, pending, sent, events>>

-----------------------------------------------------------------------------
(* GetRspSessionStatus.                                                    *)

Win32(error) == error
IsConnectionLost(error) == error \in {"timeout", "lost"}  \* IS_CONNECTION_LOST

(* A definition named "...Wrong" is a plausible bug in the definition that  *)
(* follows it; no specification uses it.                                   *)
PeekErrorWrong(c, error, last) == error
(* What the peek at a readable socket makes of the error.  The result of   *)
(* recv is 1 when there is data, 0 when the server has ended the           *)
(* connection; all but 0 are taken for an error, of the last error's kind. *)
PeekError(c, error, last) ==
  IF (pending[c] \/ sockets[c] = "reset") /\ IsConnectionLost(last) THEN "aborted" ELSE error

LeftNonblocking(c, error, was) == IF error = "aborted" THEN was \cup {c} ELSE was \ {c}

(* One core: error, last error and mode go from one core to the next.      *)
CoreStatus(c, was) ==
  LET last == CASE sockets[c] = "reset" -> "lost"
                [] sockets[c] = "closed" -> "notsock"
                [] OTHER -> was.last
      readable == sockets[c] # "closed" /\ (pending[c] \/ sockets[c] \in {"ended", "reset"})
      peeked == PeekError(c, was.error, last)
  IN [error |-> IF readable THEN peeked ELSE Win32(last),
      last |-> last,
      nonblocking |-> IF readable THEN LeftNonblocking(c, peeked, was.nonblocking)
                      ELSE was.nonblocking]

(* The status of some cores, in their order.                               *)
SessionStatus(cores) ==
  LET status[n \in 0 .. NumberOfStreams] ==
        IF n = 0
        THEN [error |-> "none", last |-> lastError,
              nonblocking |-> {c \in Streams : ~blocking[c]}]
        ELSE IF n - 1 \in cores THEN CoreStatus(n - 1, status[n - 1]) ELSE status[n - 1]
  IN status[NumberOfStreams]

Looked(status) ==
  /\ lastError' = status.last
  /\ blocking' = [c \in Streams |-> c \notin status.nonblocking]

-----------------------------------------------------------------------------
(* PerformKeepaliveChecks: an aborted session is shut down.                *)

PerformKeepaliveChecks ==
  /\ phase = "session" /\ isConnected
  /\ LET status == SessionStatus(Streams) IN
     /\ Looked(status)
     /\ sockets' = IF status.error = "aborted" THEN TcpCloseOn(sockets) ELSE sockets
  /\ UNCHANGED <<configured, pending, phase, isConnected, sent, events>>

(* AttachGdbSrv: the new stream closes the old one; when it cannot connect,*)
(* all are closed.  Options are set once it is connected.                  *)
Attached(c) ==
  sockets' = [sockets EXCEPT ![c] = "connected"] /\ configured' = [configured EXCEPT ![c] = TRUE]

AttachFails(c) ==
  /\ sockets' = TcpCloseOn([sockets EXCEPT ![c] = "new"])
  /\ configured' = [configured EXCEPT ![c] = FALSE]

(* The connection a monitor command goes out on: a new one on any error.   *)
IsAttachNeeded(status) == status.error # "none"

(* ExecuteExdiGdbSrvMonitor, up to the packet it sends.                    *)
ExecuteMonitor(c) ==
  /\ phase = "session" /\ isConnected
  /\ LET status == SessionStatus({c}) IN
     \/ /\ ~IsAttachNeeded(status)
        /\ Looked(status)
        /\ sent' = c
        /\ UNCHANGED <<sockets, configured, pending>>
     \/ /\ IsAttachNeeded(status)
        /\ lastError' = status.last
        /\ blocking' = [blocking EXCEPT ![c] = TRUE]
        /\ pending' = [pending EXCEPT ![c] = FALSE]
        /\ \/ Attached(c) /\ sent' = c
           \/ AttachFails(c) /\ sent' = C_ALLCORES
  /\ UNCHANGED <<phase, isConnected, events>>

(* ExecuteExdiFunction: the constructor binds "connect" to CloseGdbSrvCore *)
(* (and "close" to nothing); a socket already closed ends the loop.        *)
ExecuteExdiFunction(cores) ==
  /\ phase = "session" /\ Event
  /\ LET closing == {c \in cores : \A d \in cores : d <= c => sockets[d] # "closed"} IN
     /\ sockets' = [c \in Streams |-> IF c \in closing THEN "closed" ELSE sockets[c]]
     /\ lastError' = IF closing = cores THEN lastError ELSE "notsock"
  /\ UNCHANGED <<configured, blocking, pending, phase, isConnected, sent>>

-----------------------------------------------------------------------------
Next ==
  \/ SetGdbServerConnection \/ PerformKeepaliveChecks
  \/ \E c \in Streams :
       \/ ServerEnds(c, "ended") \/ ServerEnds(c, "reset")
       \/ DataArrives(c) \/ DataRead(c) \/ ReceiveTimesOut(c)
       \/ ExecuteMonitor(c) \/ ExecuteExdiFunction({c})
  \/ ExecuteExdiFunction(Streams)

Spec == Init /\ [][Next]_vars

-----------------------------------------------------------------------------
(* Properties.                                                             *)

(* A monitor command never goes out on a connection that is closed or lost *)
(* when it is sent, nor on one whose receives have no time-out.            *)
SentOnOpen ==
  [][sent' # C_ALLCORES /\ (\E c \in Streams : ExecuteMonitor(c) /\ c = sent') =>
       /\ sockets'[sent'] \in {"connected", "ended"}
       /\ configured'[sent']]_vars

(* A keep-alive check finds the loss of the last core's connection, and    *)
(* then no connection is left open.                                        *)
LossShutsDown ==
  [][PerformKeepaliveChecks /\ sockets[NumberOfStreams - 1] = "reset" =>
       sockets'[NumberOfStreams - 1] = "closed"
       \/ \E c \in Streams : sockets[c] = "closed"]_vars

(* A connection is in non-blocking mode only when another is lost, ended or*)
(* closed, or when a receive has timed out.                                *)
ModeRestored ==
  [][\A c \in Streams : blocking[c] /\ ~blocking'[c] /\ sockets'[c] = "connected" =>
       lastError' # "none"]_vars

(* "If there is a pending data then this is not caused by a                *)
(* close/terminating event": a keep-alive check leaves the connections open*)
(* unless one is lost.                                                     *)
SessionKept ==
  [][PerformKeepaliveChecks /\ (\A c \in Streams : sockets[c] = "connected") =>
       UNCHANGED sockets]_vars
=============================================================================
