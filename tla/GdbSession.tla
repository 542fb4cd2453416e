----------------------------- MODULE GdbSession -----------------------------
(***************************************************************************)
(* A session with a GDB server, for model checking: the run control of the *)
(* EXDI server, the line to the GDB server below it and the breakpoints on *)
(* the cores share no variable, so each behaviour is about one of them and *)
(* the others stay as they start.                                          *)
(***************************************************************************)
EXTENDS SomeSessions, RspLink, Breakpoints

VARIABLE part   (* "control", "line" or "breakpoints".                     *)

(* A part that is not looked at starts in one way.                         *)
SessionInit ==
  /\ part \in {"control", "line", "breakpoints"}
  /\ Init /\ LinkInit /\ SlotsInit
  /\ part # "control" => session = (CHOOSE s \in Sessions : TRUE)
  /\ part # "breakpoints" => current.bp = (CHOOSE bp \in AllBreakpoints : TRUE)

SessionNext ==
  /\ UNCHANGED part
  /\ \/ part = "control" /\ Next /\ UNCHANGED <<linkVars, slotVars>>
     \/ part = "line" /\ LinkNext /\ UNCHANGED <<vars, slotVars>>
     \/ part = "breakpoints" /\ SlotsNext /\ UNCHANGED <<vars, linkVars>>

(* The fairness of each part, as its module states it.                     *)
SessionSpec ==
  /\ SessionInit
  /\ [][SessionNext]_<<part, vars, linkVars, slotVars>>
  /\ WF_moving(part = "control" /\ CommandNext)
  /\ WF_moving(part = "control" /\ NotifyNext)
  /\ WF_moving(part = "control" /\ MainNext)
  /\ WF_moving(part = "control" /\ ServerReadsCtrlC)
  /\ WF_linkVars(part = "line" /\ RemoteNext)
  /\ WF_linkVars(part = "line" /\ ClientNext)
=============================================================================
