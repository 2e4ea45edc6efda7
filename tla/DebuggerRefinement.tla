------------------------- MODULE DebuggerRefinement -------------------------
(***************************************************************************)
(* Debugger implements OneShot when its sites are mapped and spaced: the   *)
(* armed addresses are the ones that hold a trap, and the phase is where   *)
(* the command loop and the tracee are.                                    *)
(***************************************************************************)
EXTENDS Debugger

\* Where a user of `cont' and `next' sees the session.
Phase ==
  LET awaited == dbg \in {"cont", "step"} IN
  CASE dbg = "done"                  -> "over"
    [] dbg = "prompt"                -> "prompt"
    [] awaited /\ tstate = "running" -> "running"
    [] awaited /\ tstate = "stopped" -> "stopped"
    [] awaited /\ tstate = "dead"    -> "gone"

Abstract == INSTANCE OneShot WITH
  Addresses <- Text, Sites <- SwSites,
  armed <- Armed, at <- pc, phase <- Phase, stop <- sig, single <- stepping

\* Every behaviour of the command loop over a real text is one of one-shot
\* breakpoints (a64dbg.cpp 36-54, 114-161, Connector.cpp 132-142).
ImplementsOneShot == Abstract!Spec
=============================================================================
