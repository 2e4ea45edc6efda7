------------------------------ MODULE Injection ------------------------------
(***************************************************************************)
(* `mmap' and `mprot': system calls the debugger makes inside the tracee   *)
(* (src/src/src/Connector.cpp, allocateMemoryInChild and mprotectMemory).  *)
(* The first pokes an svc over the instruction at the pc, the second moves *)
(* the pc to a page that should hold one; both set the argument registers, *)
(* step once, read x0 and put back what they saved.                        *)
(*                                                                         *)
(* A call is two steps: everything up to PTRACE_SINGLESTEP, and the return *)
(* of doSingleStep's waitpid with all that follows.  On a dead tracee both *)
(* commands fail without changing anything: no step of this module.        *)
(***************************************************************************)
EXTENDS Debugger

CONSTANT
  MmapAt      \* values of the pc at which the user gives `mmap'

ASSUME MmapAssumption == MmapAt \subseteq Text

VARIABLES
  private_memory,  \* where mprot expects its svc; NoMemory before mmap
  page,            \* what the page of the last successful mmap is good for
  regs,            \* whose values the general registers hold
  regs_save,       \* the local copy of the registers, pc included
  orig_inst        \* the local copy of the text at the pc

callVars == <<private_memory, page, regs, regs_save, orig_inst>>
injectionVars == <<vars, callVars>>

\* Addresses that are not text: the -1 of init(), the 0 and the -errno that x0
\* may hold, and the page of the kernel's choice.
NoMemory  == -1
NullAddr  == -2
ErrorAddr == -3
PageAddr  == TextLen + 1
Private   == {NoMemory, NullAddr, ErrorAddr, PageAddr}

InCall == dbg \in {"mmap", "mprot"}

-----------------------------------------------------------------------------
(***************************************************************************)
(* The injected step, as the CPU takes it.                                 *)
(***************************************************************************)

\* What stands at the pc: a word of the text, the page's svc, or no instruction.
Fetched ==
  IF pc \in mapped THEN mem[pc]
  ELSE IF pc = PageAddr /\ page = "svc" THEN "svc" ELSE "fault"

\* The system call runs and x0 holds its result.  A successful mmap gives a fresh
\* page; an mprot may have covered the private page and taken its execute
\* permission, although its range did not start there.
SvcRuns ==
  /\ InCall /\ tstate = "running"
  /\ ~ HwArmedAt(pc)
  /\ Fetched = "svc"
  /\ regs' \in {"success", "error"}
  /\ page' \in IF regs' = "error" THEN {page}
               ELSE IF dbg = "mmap" THEN {"fresh"} ELSE {page, "sealed"}
  /\ pc' = pc + 1
  /\ tstate' = "stopped" /\ sig' = "TRAP"
  /\ UNCHANGED <<mem, mapped, hw, stepping, dbgVars, private_memory, regs_save, orig_inst>>

\* Nothing to execute at the pc, or something that is not an svc.
StepFaults ==
  /\ InCall /\ tstate = "running"
  /\ ~ HwArmedAt(pc)
  /\ Fetched # "svc"
  /\ StopWith("OTHER")
  /\ UNCHANGED <<dbgVars, callVars>>

\* A breakpoint register, or a signal, stops the tracee before the svc ran.
StepTrapped ==
  /\ InCall
  /\ HwTrap
  /\ UNCHANGED <<dbgVars, callVars>>

StepSignalled ==
  /\ InCall
  /\ SignalStop
  /\ UNCHANGED <<dbgVars, callVars>>

TraceeDies ==
  /\ InCall
  /\ Die
  /\ UNCHANGED <<dbgVars, callVars>>

-----------------------------------------------------------------------------

\* The svc as a uint64_t: the high half is zero.
SvcWord == [lo |-> "svc", hi |-> "zero"]

StepInto(call) ==
  /\ dbg = "prompt" /\ tstate = "stopped"
  /\ regs_save' = [pc |-> pc, regs |-> regs]
  /\ regs' = "arguments"
  /\ tstate' = "running" /\ stepping' = TRUE
  /\ dbg' = call
  /\ UNCHANGED <<mapped, hw, sig, BreakPoints, wait_status, private_memory, page>>

\* Mutant: the instruction is read after the svc was written.
mmapSavesLate ==
  /\ pc \in MmapAt
  /\ StepInto("mmap")
  /\ orig_inst' = SvcWord
  /\ mem' = Poked(pc, SvcWord)
  /\ UNCHANGED pc

\* Mutant: the poke of the svc is missing.
mmapWithoutSvc ==
  /\ pc \in MmapAt
  /\ StepInto("mmap")
  /\ orig_inst' = Peek(pc)
  /\ UNCHANGED <<mem, pc>>

mmap ==
  /\ pc \in MmapAt
  /\ StepInto("mmap")
  /\ orig_inst' = Peek(pc)
  /\ mem' = Poked(pc, SvcWord)
  /\ UNCHANGED pc

\* The addresses x0 can stand for: -EPERM is the -1 that means no private memory.
Results == IF regs = "success" THEN {PageAddr}
           ELSE IF regs = "error" THEN {ErrorAddr, NoMemory} ELSE {NullAddr}

\* Mutants: the svc is not written to the new page; of what the svc and its zero
\* half covered only the first word goes back.
mmapReturnsWithoutSvc ==
  /\ dbg = "mmap" /\ tstate = "stopped"
  /\ private_memory' \in Results
  /\ regs' = regs_save.regs /\ pc' = regs_save.pc
  /\ mem' = Poked(regs_save.pc, orig_inst)
  /\ dbg' = "prompt"
  /\ Reported
  /\ UNCHANGED <<mapped, hw, tstate, BreakPoints, wait_status, page, regs_save, orig_inst>>

mmapRestoresLowHalf ==
  /\ dbg = "mmap" /\ tstate = "stopped"
  /\ private_memory' \in Results
  /\ regs' = regs_save.regs /\ pc' = regs_save.pc
  /\ mem' = Poked(regs_save.pc, [orig_inst EXCEPT !.hi = "zero"])
  /\ page' = IF regs = "success" THEN "svc" ELSE page
  /\ dbg' = "prompt"
  /\ Reported
  /\ UNCHANGED <<mapped, hw, tstate, BreakPoints, wait_status, regs_save, orig_inst>>

\* The svc poked at private_memory reaches a page only if one is there.
mmapReturns ==
  /\ dbg = "mmap" /\ tstate = "stopped"
  /\ private_memory' \in Results
  /\ regs' = regs_save.regs /\ pc' = regs_save.pc
  /\ mem' = Poked(regs_save.pc, orig_inst)
  /\ page' = IF regs = "success" THEN "svc" ELSE page
  /\ dbg' = "prompt"
  /\ Reported
  /\ UNCHANGED <<mapped, hw, tstate, BreakPoints, wait_status, regs_save, orig_inst>>

\* Unless the private memory was never set; the argument may be any address but
\* that of the private memory.
mprot ==
  /\ private_memory # NoMemory
  /\ StepInto("mprot")
  /\ pc' = private_memory
  /\ UNCHANGED <<mem, orig_inst>>

\* Mutant: the registers stay as the call left them.
mprotForgetsRestore ==
  /\ dbg = "mprot" /\ tstate = "stopped"
  /\ dbg' = "prompt"
  /\ Reported
  /\ UNCHANGED <<mem, mapped, pc, hw, tstate, BreakPoints, wait_status, callVars>>

\* Mutant: only the SIGTRAP of a step that was made ends the wait.
mprotAwaitsTrap ==
  /\ dbg = "mprot" /\ tstate = "stopped" /\ sig = "TRAP"
  /\ regs' = regs_save.regs /\ pc' = regs_save.pc
  /\ dbg' = "prompt"
  /\ Reported
  /\ UNCHANGED <<mem, mapped, hw, tstate, BreakPoints, wait_status,
                 private_memory, page, regs_save, orig_inst>>

mprotReturns ==
  /\ dbg = "mprot" /\ tstate = "stopped"
  /\ regs' = regs_save.regs /\ pc' = regs_save.pc
  /\ dbg' = "prompt"
  /\ Reported
  /\ UNCHANGED <<mem, mapped, hw, tstate, BreakPoints, wait_status,
                 private_memory, page, regs_save, orig_inst>>

\* The tracee died in the step.  Every ptrace call fails and what getRegisters
\* returns was never written; wait_status does not learn of the end.
CallLosesTracee ==
  /\ InCall /\ tstate = "dead"
  /\ private_memory' \in IF dbg = "mmap" THEN Private ELSE {private_memory}
  /\ dbg' = "prompt"
  /\ Reported
  /\ UNCHANGED <<mem, mapped, pc, hw, tstate, BreakPoints, wait_status,
                 page, regs, regs_save, orig_inst>>

-----------------------------------------------------------------------------

InjectionInit ==
  /\ Init
  /\ private_memory = NoMemory
  /\ page = "none"
  /\ regs = "program"
  /\ regs_save = [pc |-> NoAddr, regs |-> "program"]
  /\ orig_inst = TrapWord

CallStep ==
  \/ mmap \/ mmapReturns
  \/ mprot \/ mprotReturns
  \/ CallLosesTracee
  \/ SvcRuns \/ StepFaults \/ StepTrapped \/ StepSignalled \/ TraceeDies

InjectionNext ==
  \/ ~ InCall /\ Next /\ UNCHANGED callVars
  \/ CallStep

InjectionSpec == InjectionInit /\ [][InjectionNext]_injectionVars

\* The CPU takes the step: it runs the svc, and neither mmap nor mprotect waits for
\* anybody, or traps or faults in front of it.  The waitpid for it returns.
\* Nothing is assumed of signals and exits.
InjectionFairness ==
  /\ WF_injectionVars(SvcRuns \/ StepFaults \/ StepTrapped)
  /\ WF_injectionVars(mmapReturns \/ mprotReturns \/ CallLosesTracee)

InjectionFairSpec == InjectionSpec /\ InjectionFairness

-----------------------------------------------------------------------------

InjectionTypeOK ==
  /\ mem \in [Text -> Word \cup {"svc"}]
  /\ mapped \subseteq Text
  /\ pc \in Text \cup Private \cup {TextLen, PageAddr + 1}
  /\ hw \in [Slots -> Text \cup {NoAddr}]
  /\ tstate \in {"stopped", "running", "dead"}
  /\ sig \in Stops \cup {NoSignal}
  /\ stepping \in BOOLEAN
  /\ DOMAIN BreakPoints \subseteq SwSites
  /\ BreakPoints \in [DOMAIN BreakPoints -> Dword]
  /\ wait_status \in Stops \cup {"exited", "error"}
  /\ dbg \in {"prompt", "cont", "step", "mmap", "mprot", "done"}
  /\ private_memory \in Private
  /\ page \in {"none", "fresh", "svc", "sealed"}
  /\ regs \in {"program", "arguments", "success", "error"}
  /\ regs_save \in [pc : Text \cup {NoAddr}, regs : {"program"}]
  /\ orig_inst \in Dword

\* `mmap' is given only where the instruction at the pc and the one behind it can
\* be read.
ReadableCalls == \A a \in MmapAt : {a, a + 1} \subseteq Text \ LateText

\* Back at the prompt a living tracee has its own registers, its own pc and its own
\* text, but for what BreakPoints accounts for, however the injected step ended
\* (Connector.cpp 174-176, 219-220).  Needs ReadableCalls.
CallLeavesNothing ==
  dbg = "prompt" /\ tstate = "stopped"
    => regs = "program" /\ pc \in mapped /\ DamageConfined

\* The step the debugger makes with foreign registers executes its own svc or
\* nothing: never an instruction of the program, with another call's arguments in
\* its registers, and never a trap (Connector.cpp 152, 203).
OnlySvcRuns == InCall /\ tstate = "running" => Fetched \in {"svc", "fault"}

\* "NOTE: private memory already contains the svc instruction" (Connector.cpp 198).
SvcAtPrivateMemory ==
  dbg = "mprot" /\ tstate = "running" => pc = PageAddr /\ page = "svc"

\* mprot's step finds the svc that the last mmap left for it, on the page the last
\* mmap got: only an mprot that covered the page itself takes it away, and no
\* interrupted, failed or repeated mmap leaves an address of a page without it
\* (Connector.cpp 181-183, 203).
MprotFindsItsSvc ==
  dbg = "mprot" /\ tstate = "running" /\ private_memory = PageAddr
    => page \in {"svc", "sealed"}

\* Outside calls the text of a living tracee is as run control alone leaves it:
\* a call that borrows the word of an armed breakpoint, or of the word in front of
\* or behind one, leaves the trap, its entry and the words under it as they were
\* (Connector.cpp 152-154, 176).  Needs MappedSites, SpacedSites, ReadableCalls.
TextIntactBetweenCalls == ~ InCall /\ tstate # "dead" => TextIntact

\* Every injected call gives the prompt back: after the system call, a fault, a
\* signal that came first, or the end of the tracee (Connector.cpp 165, 211).
CallComesBack == InCall ~> dbg = "prompt"

-----------------------------------------------------------------------------
(***************************************************************************)
(* Run control does not notice the calls: with the injected svc replaced   *)
(* by what it covers, the saved pc for the pc and a call for a stay at the *)
(* prompt, every session with calls is one of Debugger.  What Debugger     *)
(* guarantees then holds of sessions with calls too.                       *)
(***************************************************************************)

TextSeen ==
  [x \in Text |->
     IF x = regs_save.pc /\ mem[x] = "svc" THEN orig_inst.lo
     ELSE IF x - 1 \in Text /\ x - 1 = regs_save.pc /\ mem[x - 1] = "svc" THEN orig_inst.hi
     ELSE mem[x]]

PcSeen       == IF regs = "program" THEN pc ELSE regs_save.pc
StateSeen    == IF InCall /\ tstate = "running" THEN "stopped" ELSE tstate
SigSeen      == IF InCall THEN NoSignal ELSE sig
SteppingSeen == stepping /\ ~ InCall
DbgSeen      == IF InCall THEN "prompt" ELSE dbg

RunControl == INSTANCE Debugger WITH
  mem <- TextSeen, pc <- PcSeen, tstate <- StateSeen, sig <- SigSeen,
  stepping <- SteppingSeen, dbg <- DbgSeen

\* mmap and mprot are invisible to bp, hbp, cont and next (Connector.cpp 144-222).
\* Needs ReadableCalls.
CallsAreInvisible == RunControl!Spec
=============================================================================
