------------------------------ MODULE Debugger ------------------------------
(***************************************************************************)
(* a64dbg's command loop and its run control: software breakpoints kept in *)
(* the map BreakPoints, hardware breakpoints kept in the tracee's debug    *)
(* registers, `cont' and `next' (src/src/a64dbg.cpp, and the calls of      *)
(* src/src/src/Connector.cpp they make).                                   *)
(*                                                                         *)
(* The debugger is one thread.  A command that does not wait is one step:  *)
(* the tracee is stopped (or killed) while it runs.  `cont' and `next' are *)
(* two steps, the request and the return of waitpid, and everything the    *)
(* tracee does happens between them.                                       *)
(***************************************************************************)
EXTENDS Tracee

CONSTANTS
  SwSites,    \* addresses the user gives to `bp'
  HwSites     \* addresses the user gives to `hbp'

ASSUME SitesAssumption == SwSites \subseteq Text /\ HwSites \subseteq Text

VARIABLES
  BreakPoints,  \* std::map: address -> the eight bytes found there
  wait_status,  \* what the last waitpid (or doSingleStep) returned
  dbg           \* where main() is: at the prompt, in a waitpid, or finished

vars == <<traceeVars, BreakPoints, wait_status, dbg>>
dbgVars == <<BreakPoints, wait_status, dbg>>

\* aarch464_trap is 0xD4200000 in a uint64_t: the high half is zero.
TrapWord == [lo |-> "brk", hi |-> "zero"]

\* Mutants of Insert: operator[] instead of insert(), a key that is one
\* instruction off, an entry only when the read succeeded.
InsertOverwrites(a, d) ==
  [x \in DOMAIN BreakPoints \cup {a} |-> IF x = a THEN d ELSE BreakPoints[x]]

InsertAtTail(a, d) ==
  [x \in DOMAIN BreakPoints \cup {a + 1} |->
     IF x \in DOMAIN BreakPoints THEN BreakPoints[x] ELSE d]

InsertIfRead(a, d) ==
  [x \in DOMAIN BreakPoints \cup (IF d.lo = "ones" THEN {} ELSE {a}) |->
     IF x \in DOMAIN BreakPoints THEN BreakPoints[x] ELSE d]

\* std::map::insert leaves an entry that is there alone.
Insert(a, d) ==
  [x \in DOMAIN BreakPoints \cup {a} |->
     IF x \in DOMAIN BreakPoints THEN BreakPoints[x] ELSE d]

-----------------------------------------------------------------------------
(***************************************************************************)
(* Commands that return to the prompt at once.                             *)
(***************************************************************************)

\* `bp <addr>'.  Neither ptrace call is checked.
setBreakPoint(a) ==
  /\ dbg = "prompt"
  /\ mem' = Poked(a, TrapWord)
  /\ BreakPoints' = Insert(a, Peek(a))
  /\ UNCHANGED <<mapped, pc, hw, tstate, sig, stepping, wait_status, dbg>>

\* `hbp <addr> <reg_num>': all registers are read, one is replaced, and the
\* registers up to that one are written back.
setHwBreakpoint(a, n) ==
  /\ dbg = "prompt"
  /\ tstate = "stopped"
  /\ n < NumHw
  /\ hw' = [hw EXCEPT ![n] = a]
  /\ UNCHANGED <<mem, mapped, pc, tstate, sig, stepping, dbgVars>>

\* `q': exit(0), with whatever is armed left in the tracee.
Quit ==
  /\ dbg = "prompt"
  /\ dbg' = "done"
  /\ UNCHANGED <<traceeVars, BreakPoints, wait_status>>

-----------------------------------------------------------------------------
(***************************************************************************)
(* `cont'.  On a tracee that is gone PTRACE_CONT fails and Continue returns*)
(* with wait_status as it was: no step of this module.                     *)
(***************************************************************************)

\* Mutant of Continue: the waitpid is forgotten.
ContinueDoesNotWait ==
  /\ dbg = "prompt"
  /\ Resume(FALSE)
  /\ UNCHANGED dbgVars

Continue ==
  /\ dbg = "prompt"
  /\ Resume(FALSE)
  /\ dbg' = "cont"
  /\ UNCHANGED <<BreakPoints, wait_status>>

\* Mutants of Restored: every breakpoint is restored, or only one instruction.
RestoresEverything ==
  [x \in Text |-> IF \E b \in DOMAIN BreakPoints : x \in {b, b + 1}
                  THEN "orig" ELSE mem[x]]

RestoresLowHalf == Poked(pc, [BreakPoints[pc] EXCEPT !.hi = "zero"])

\* The bytes saved at the breakpoint go back; the entry stays in the map.
Restored == Poked(pc, BreakPoints[pc])

\* Mutants of ClearedBy: the length covers every register, or is one short.
ClearsAll(i) == Slots
ClearsBelow(i) == {j \in Slots : j < i}

\* clearHwBreakpoint(i) writes zeroes to the registers 0..i.
ClearedBy(i) == {j \in Slots : j <= i}

\* Stopped by SIGTRAP at an address the map knows.
BreakpointHit ==
  /\ dbg = "cont" /\ tstate = "stopped" /\ sig = "TRAP"
  /\ pc \in DOMAIN BreakPoints
  /\ mem' = Restored
  /\ wait_status' = sig
  /\ dbg' = "prompt"
  /\ Reported
  /\ UNCHANGED <<mapped, pc, hw, tstate, BreakPoints>>

\* Stopped by SIGTRAP anywhere else: every register that holds the pc is cleared.
HwBreakpointCheck ==
  /\ dbg = "cont" /\ tstate = "stopped" /\ sig = "TRAP"
  /\ pc \notin DOMAIN BreakPoints
  /\ hw' = [j \in Slots |->
              IF \E i \in Slots : hw[i] = pc /\ j \in ClearedBy(i)
              THEN NoAddr ELSE hw[j]]
  /\ wait_status' = sig
  /\ dbg' = "prompt"
  /\ Reported
  /\ UNCHANGED <<mem, mapped, pc, tstate, BreakPoints>>

\* Mutant of OtherSignal: a fault is taken for nothing to report.
OtherSignalNotFault ==
  /\ dbg = "cont" /\ tstate = "stopped" /\ sig = "OTHER"
  /\ wait_status' = sig
  /\ dbg' = "prompt"
  /\ Reported
  /\ UNCHANGED <<mem, mapped, pc, hw, tstate, BreakPoints>>

\* Stopped by any other signal, which the next request will drop.
OtherSignal ==
  /\ dbg = "cont" /\ tstate = "stopped" /\ sig # "TRAP"
  /\ wait_status' = sig
  /\ dbg' = "prompt"
  /\ Reported
  /\ UNCHANGED <<mem, mapped, pc, hw, tstate, BreakPoints>>

\* Mutant of TraceeGone: the loop goes on although the status is no stop.
TraceeGoneKeepsPrompting ==
  /\ dbg = "cont" /\ tstate = "dead"
  /\ wait_status' = "exited"
  /\ dbg' = "prompt"
  /\ Reported
  /\ UNCHANGED <<mem, mapped, pc, hw, tstate, BreakPoints>>

\* waitpid reports the end of the tracee and the loop of main() is left.
TraceeGone ==
  /\ dbg = "cont" /\ tstate = "dead"
  /\ wait_status' = "exited"
  /\ dbg' = "done"
  /\ Reported
  /\ UNCHANGED <<mem, mapped, pc, hw, tstate, BreakPoints>>

ContinueReturns ==
  BreakpointHit \/ HwBreakpointCheck \/ OtherSignal \/ TraceeGone

-----------------------------------------------------------------------------
(***************************************************************************)
(* `next'.  doSingleStep looks at no breakpoint, and its -1 for a failed   *)
(* PTRACE_SINGLESTEP is not a stop status: main() leaves its loop.         *)
(***************************************************************************)

doSingleStep ==
  /\ dbg = "prompt"
  /\ Resume(TRUE)
  /\ dbg' = "step"
  /\ UNCHANGED <<BreakPoints, wait_status>>

SingleStepFails ==
  /\ dbg = "prompt" /\ tstate = "dead"
  /\ wait_status' = "error"
  /\ dbg' = "done"
  /\ UNCHANGED <<traceeVars, BreakPoints>>

\* Mutant of SingleStepReturns: only a stop ends the wait.
SingleStepReturnsOnStop ==
  /\ dbg = "step" /\ tstate = "stopped"
  /\ wait_status' = sig /\ dbg' = "prompt"
  /\ Reported
  /\ UNCHANGED <<mem, mapped, pc, hw, tstate, BreakPoints>>

SingleStepReturns ==
  /\ dbg = "step" /\ tstate # "running"
  /\ IF tstate = "stopped"
     THEN wait_status' = sig /\ dbg' = "prompt"
     ELSE wait_status' = "exited" /\ dbg' = "done"
  /\ Reported
  /\ UNCHANGED <<mem, mapped, pc, hw, tstate, BreakPoints>>

-----------------------------------------------------------------------------

\* The first wait_status is SIGTRAP of execve or SIGSTOP of PTRACE_ATTACH.
Init ==
  /\ TraceeInit
  /\ BreakPoints = [x \in {} |-> TrapWord]
  /\ wait_status \in {"TRAP", "OTHER"}
  /\ dbg = "prompt"

Next ==
  \/ \E a \in SwSites : setBreakPoint(a)
  \/ \E a \in HwSites, n \in Slots : setHwBreakpoint(a, n)
  \/ Quit
  \/ Continue
  \/ ContinueReturns
  \/ doSingleStep
  \/ SingleStepFails
  \/ SingleStepReturns
  \/ TraceeStep /\ UNCHANGED dbgVars

Spec == Init /\ [][Next]_vars

\* A process in front of a trap is stopped by it, and a waitpid whose process
\* stopped or died returns.  Nothing is assumed of the user, of signals, of exits,
\* or of the program's own instructions: an svc may block for ever.
Fairness ==
  /\ WF_vars(CpuTrap /\ UNCHANGED dbgVars)
  /\ WF_vars(ContinueReturns)
  /\ WF_vars(SingleStepReturns)

FairSpec == Spec /\ Fairness

\* A condition some programs meet: no instruction waits for ever.
InstructionsComplete == WF_vars(Execute /\ UNCHANGED dbgVars)

-----------------------------------------------------------------------------
(***************************************************************************)
(* Invariants.                                                             *)
(***************************************************************************)

TypeOK ==
  /\ TraceeTypeOK
  /\ DOMAIN BreakPoints \subseteq SwSites
  /\ BreakPoints \in [DOMAIN BreakPoints -> Dword]
  /\ wait_status \in Stops \cup {"exited", "error"}
  /\ dbg \in {"prompt", "cont", "step", "done"}

\* The sites that hold a trap now.
Armed == {b \in SwSites : mem[b] = "brk"}

OrigDword == [lo |-> "orig", hi |-> "orig"]

(***************************************************************************)
(* What the user's choice of sites must satisfy for the stronger           *)
(* properties: both words of a breakpoint are mapped from the start, no    *)
(* two breakpoints touch the same word, no address has both a software and *)
(* a hardware breakpoint.  The code asks for none of this.                 *)
(***************************************************************************)
MappedSites   == \A a \in SwSites : {a, a + 1} \subseteq Text \ LateText
SpacedSites   == \A a, b \in SwSites : b # a + 1
DisjointSites == SwSites \cap HwSites = {}

\* The tracee runs only while the debugger is inside a waitpid for it, the wait is
\* the one for the request that resumed it, and no stop is left for a later
\* wait: no ptrace call of a command can meet a running process, and no command
\* can be told the outcome of another (a64dbg.cpp 114-161, Connector.cpp 132-142).
RunsOnlyWhileAwaited ==
  /\ tstate = "running" => dbg \in {"cont", "step"}
  /\ tstate = "stopped" /\ dbg \in {"cont", "step"} => sig \in Stops
  /\ dbg \in {"prompt", "done"} => sig = NoSignal /\ ~ stepping
  /\ dbg = "cont" => ~ stepping
  /\ dbg = "step" => stepping

\* Whatever the user sets where, text differs from the program's own only at an
\* address in BreakPoints or right behind one: the debugger never pokes text
\* it has no entry for (setBreakPoint, Continue).
DamageConfined ==
  \A x \in Text :
    mem[x] # "orig" => x \in DOMAIN BreakPoints \/ x - 1 \in DOMAIN BreakPoints

Kept(x) ==
  \/ x \in DOMAIN BreakPoints /\ BreakPoints[x].lo = "orig"
  \/ x - 1 \in DOMAIN BreakPoints /\ BreakPoints[x - 1].hi = "orig"

\* Every site that covers x can be read from the start.
Readable(x) == \A b \in SwSites : x \in {b, b + 1} => {b, b + 1} \subseteq Text \ LateText

\* The instruction a poke replaced is never lost: some entry of BreakPoints
\* still holds it, also when breakpoints overlap, are set twice or again after
\* a hit, and whatever a failed read did to other sites.  It rests on insert()
\* not replacing an entry (a64dbg.cpp 36-54).
OriginalKept == \A x \in Text : mem[x] # "orig" /\ Readable(x) => Kept(x)

\* Every word that is not the program's own belongs to an armed breakpoint, and
\* the entry of that breakpoint puts exactly the program's own two words back.
\* Needs MappedSites and SpacedSites.
TextIntact ==
  \A x \in Text :
    /\ mem[x] = "orig" \/ x \in Armed \/ (x - 1 \in Armed /\ mem[x] = "zero")
    /\ x \in Armed => /\ x \in DOMAIN BreakPoints
                      /\ BreakPoints[x] = OrigDword

\* The program is never stopped by an illegal instruction of the debugger's
\* making.  A trap is one instruction, "write the 'break #0' instruction, 00 00
\* 20 D4" (a64dbg.cpp 47), but the poke behind it writes eight bytes.
NoForeignFault == ~ (tstate = "stopped" /\ sig = "ILL")

\* No request of `cont' and `next' is left waiting for something that cannot come:
\* whatever stopped or ended the tracee, one of the returns takes it, a resumed
\* tracee in front of a trap can be stopped by it, and any other that is stepped can
\* execute its instruction (a64dbg.cpp 114-161, Connector.cpp 132-142).
WaitsCanEnd ==
  /\ dbg = "cont" /\ tstate # "running" => ENABLED <<ContinueReturns>>_vars
  /\ dbg = "step" /\ tstate # "running" => ENABLED <<SingleStepReturns>>_vars
  /\ tstate = "running" /\ TrapAhead => ENABLED <<CpuTrap /\ UNCHANGED dbgVars>>_vars
  /\ tstate = "running" /\ stepping /\ ~ TrapAhead
       => ENABLED <<Execute /\ UNCHANGED dbgVars>>_vars

-----------------------------------------------------------------------------
(***************************************************************************)
(* Action properties.                                                      *)
(***************************************************************************)

\* An armed software breakpoint stays armed until `cont' reports the stop at
\* it: no other command, and no other breakpoint's restore, takes it away
\* (a64dbg.cpp 50, 135).  Needs SpacedSites.
TrapGoesOnlyByItsHit ==
  [][\A a \in Text :
       mem[a] = "brk" /\ mem'[a] # "brk"
         => dbg = "cont" /\ sig = "TRAP" /\ pc = a]_vars

\* When `cont' returns from a SIGTRAP, nothing is left at the pc that would
\* stop the next `cont' before it executed an instruction: the breakpoint is
\* one-shot (a64dbg.cpp 129-149).  Needs DisjointSites.
CauseCleared ==
  [][dbg = "cont" /\ dbg' = "prompt" /\ sig = "TRAP"
       => mem'[pc] # "brk" /\ ~ HwArmedAt(pc)']_vars

\* A hardware breakpoint register is emptied only when `cont' reports a stop at
\* the address of that register or of one above it (a64dbg.cpp 143-149,
\* Connector.cpp 254-273): higher registers survive a hit on a lower one.
HwSlotsAboveHitSurvive ==
  [][\A j \in Slots :
       hw[j] # NoAddr /\ hw'[j] = NoAddr
         => /\ dbg = "cont" /\ sig = "TRAP"
            /\ \E i \in Slots : i >= j /\ hw[i] = pc]_vars

-----------------------------------------------------------------------------
(***************************************************************************)
(* Liveness, under Fairness.                                               *)
(***************************************************************************)

\* A `next' in front of a trap, or whose tracee stopped, faulted or died under it,
\* gives the prompt back or ends the session, and so does every `next' if the
\* program's instructions complete.  A step over an svc that blocks leaves waitpid
\* waiting (Connector.cpp 132-142).
NextReturns ==
  /\ dbg = "step" /\ (TrapAhead \/ tstate # "running") ~> dbg \in {"prompt", "done"}
  /\ InstructionsComplete => (dbg = "step" ~> dbg \in {"prompt", "done"})

\* A `cont' that has come to a trap, or whose tracee is stopped or gone, comes back
\* (a64dbg.cpp 121-160).
ContinueComesBack ==
  dbg = "cont" /\ (TrapAhead \/ tstate # "running") ~> dbg # "cont"

\* The end of a tracee that `cont' or `next' waits for ends the session
\* (a64dbg.cpp 157-160, 361-375, Connector.cpp 140), instead of leaving the user at a
\* prompt without a process.
ExitEndsSession == dbg \in {"cont", "step"} /\ tstate = "dead" ~> dbg = "done"
=============================================================================
