------------------------ MODULE InjectionRefinement ------------------------
(***************************************************************************)
(* A session with `mmap' and `mprot' implements OneShot: a call is a stay  *)
(* at the prompt, and what is armed is what the text, seen without the     *)
(* injected svc, holds a trap at.                                          *)
(***************************************************************************)
EXTENDS Injection, DebuggerRefinement

ArmedSeen == {b \in SwSites : TextSeen[b] = "brk"}
PhaseSeen == IF InCall THEN "prompt" ELSE Phase

Promise == INSTANCE OneShot WITH
  Addresses <- Text, Sites <- SwSites,
  armed <- ArmedSeen, at <- PcSeen, phase <- PhaseSeen, stop <- SigSeen,
  single <- SteppingSeen

\* What run control promises holds of sessions with calls too: a breakpoint whose
\* trap a call covers with its svc, or steps over, stays armed and stops the program
\* once, and no call makes the program run or stop (Connector.cpp 144-222,
\* a64dbg.cpp 36-54, 114-161).  Needs MappedSites, SpacedSites, ReadableCalls.
CallsKeepThePromise == Promise!Spec
=============================================================================
