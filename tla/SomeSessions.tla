---------------------------- MODULE SomeSessions ----------------------------
(***************************************************************************)
(* The sessions of LiveServer that are model-checked.                      *)
(***************************************************************************)
EXTENDS LiveServer

(* An engine that only resumes, on servers of each form of stop reply, and *)
(* one that breaks in and reads registers, on a server that uses them all. *)
SomeSessions ==
  {[ops |-> {"Run", "FinalRelease"}, stops |-> k] : k \in {{"T", "N"}, {"S"}}}
    \cup {[ops |-> {"Run", "Halt", "GetContext"}, stops |-> StopReplies]}

(* An engine that breaks in, on a server that always sends the pc.         *)
BreakSessions == {[ops |-> {"Run", "Halt"}, stops |-> {"T"}]}
=============================================================================
