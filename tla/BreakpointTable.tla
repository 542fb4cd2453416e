--------------------------- MODULE BreakpointTable ---------------------------
(***************************************************************************)
(* What the breakpoint calls of the EXDI server promise the engine: a call *)
(* that returns has taken effect on the whole target, at once.  The promise*)
(* ends with the first request that the GDB server does not carry out.     *)
(***************************************************************************)
CONSTANT Breakpoints   (* Everything a breakpoint can be set on.           *)

VARIABLES
  held,    (* The breakpoints whose objects the engine holds.              *)
  live,    (* The breakpoints that stop the target, whatever core runs.    *)
  intact   (* The GDB server has carried out every request so far.         *)

Init == held = {} /\ live = {} /\ intact = TRUE

Add(b) ==
  /\ b \notin held
  /\ held' = held \cup {b}
  /\ live' = live \cup {b}
  /\ intact' = intact

Delete(b) ==
  /\ b \in held
  /\ held' = held \ {b}
  /\ live' = live \ {b}
  /\ intact' = intact

Fault == intact' = FALSE

Next == Fault \/ \E b \in Breakpoints : Add(b) \/ Delete(b)

Spec == Init /\ [][Next]_<<held, live, intact>>

=============================================================================
