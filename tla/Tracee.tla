------------------------------- MODULE Tracee -------------------------------
(***************************************************************************)
(* The traced process as a64dbg sees it: its text, program counter and     *)
(* hardware breakpoint registers, what ptrace(2) lets the debugger do with *)
(* them while the process is stopped, and what the process does by itself  *)
(* while it runs.  None of this is code of the repository: it is the arm64 *)
(* CPU and the Linux kernel, modelled from how src/ calls them.            *)
(*                                                                         *)
(* Addresses count instructions: address a stands for the four bytes at    *)
(* 4*a, and one ptrace word (eight bytes) covers a and a+1.                *)
(***************************************************************************)
EXTENDS Integers

CONSTANTS
  TextLen,    \* number of instructions in the tracee's text
  LateText,   \* the part of the text that is mapped only once it has run a while
  NumHw       \* hardware breakpoint registers the kernel reports, 0 when none

ASSUME TraceeAssumption ==
  /\ TextLen \in Nat \ {0}
  /\ LateText \subseteq 0 .. TextLen - 1
  /\ NumHw \in Nat

VARIABLES
  mem,        \* what each address of the text holds
  mapped,     \* the addresses that are mapped
  pc,         \* address of the next instruction
  hw,         \* the address each hardware breakpoint register holds
  tstate,     \* is the process stopped for its tracer, running, or gone?
  sig,        \* signal of a stop that waitpid has not reported yet
  stepping    \* is it resumed with PTRACE_SINGLESTEP?

traceeVars == <<mem, mapped, pc, hw, tstate, sig, stepping>>

Text  == 0 .. TextLen - 1
Slots == 0 .. NumHw - 1

\* The address field of a register that was cleared; no instruction lives there.
NoAddr == -1

(***************************************************************************)
(* The four bytes at an address are the program's own instruction, the     *)
(* debugger's 'brk #0', four zero bytes or four 0xff bytes; the last two   *)
(* are undefined instructions.  A ptrace word is two of these, the low     *)
(* half at the address the call names.                                     *)
(***************************************************************************)
Word  == {"orig", "brk", "zero", "ones"}
Dword == [lo : Word, hi : Word]
Stops == {"TRAP", "ILL", "OTHER"}
NoSignal == "none"

\* PTRACE_PEEKTEXT: the eight bytes at a, or -1 when the call fails.
Peek(a) ==
  IF tstate = "stopped" /\ {a, a + 1} \subseteq mapped
  THEN [lo |-> mem[a], hi |-> mem[a + 1]]
  ELSE [lo |-> "ones", hi |-> "ones"]

\* PTRACE_POKETEXT: the text after writing d at a.  The kernel writes page by
\* page and stops at the first page that is not mapped.
Poked(a, d) ==
  [x \in Text |->
     IF tstate = "stopped" /\ x = a /\ a \in mapped THEN d.lo
     ELSE IF tstate = "stopped" /\ x = a + 1 /\ {a, x} \subseteq mapped THEN d.hi
     ELSE mem[x]]

\* PTRACE_CONT and PTRACE_SINGLESTEP with signal 0: whatever signal stopped
\* the process is dropped.
Resume(step) ==
  /\ tstate = "stopped"
  /\ tstate' = "running"
  /\ stepping' = step
  /\ UNCHANGED <<mem, mapped, pc, hw, sig>>

\* waitpid has reported the stop, or the end, of the process.
Reported ==
  /\ sig' = NoSignal
  /\ stepping' = FALSE

-----------------------------------------------------------------------------
(***************************************************************************)
(* What the process does while it runs.                                    *)
(***************************************************************************)

HwArmedAt(a) == \E i \in Slots : hw[i] = a

\* The next instruction is not one the CPU will execute.
TrapAhead == mem[pc] # "orig" \/ HwArmedAt(pc)

StopWith(s) ==
  /\ tstate' = "stopped"
  /\ sig' = s
  /\ UNCHANGED <<mem, mapped, pc, hw, stepping>>

\* A breakpoint register matches before the instruction is executed; the kernel
\* leaves it armed and does not step over it, that is left to the debugger.
HwTrap ==
  /\ tstate = "running"
  /\ HwArmedAt(pc)
  /\ StopWith("TRAP")

\* 'brk #0' stops the process on itself: the program counter does not advance.
BrkTrap ==
  /\ tstate = "running"
  /\ ~ HwArmedAt(pc)
  /\ mem[pc] = "brk"
  /\ StopWith("TRAP")

UndefinedInstruction ==
  /\ tstate = "running"
  /\ ~ HwArmedAt(pc)
  /\ mem[pc] \in {"zero", "ones"}
  /\ StopWith("ILL")

\* One instruction of the program, which may branch anywhere.
Execute ==
  /\ tstate = "running"
  /\ ~ HwArmedAt(pc)
  /\ mem[pc] = "orig"
  /\ pc' \in mapped
  /\ \/ /\ stepping
        /\ tstate' = "stopped"
        /\ sig' = "TRAP"
     \/ /\ ~ stepping
        /\ UNCHANGED <<tstate, sig>>
  /\ UNCHANGED <<mem, mapped, hw, stepping>>

\* A signal arrives, or a ptrace event that is reported as SIGTRAP.
SignalStop ==
  /\ tstate = "running"
  /\ \E s \in {"TRAP", "OTHER"} : StopWith(s)

\* The program maps more of its text, as dlopen does.
MapLateText ==
  /\ tstate = "running"
  /\ mapped # Text
  /\ mapped' = Text
  /\ UNCHANGED <<mem, pc, hw, tstate, sig, stepping>>

\* exit, or SIGKILL from anyone, which also hits a stopped process.
Die ==
  /\ tstate # "dead"
  /\ tstate' = "dead"
  /\ UNCHANGED <<mem, mapped, pc, hw, sig, stepping>>

\* The CPU stops the process in front of an instruction it will not execute.
CpuTrap == HwTrap \/ BrkTrap \/ UndefinedInstruction

TraceeStep == CpuTrap \/ Execute \/ SignalStop \/ MapLateText \/ Die

-----------------------------------------------------------------------------

\* The first stop, which was reported already.
TraceeInit ==
  /\ mem = [a \in Text |-> "orig"]
  /\ mapped = Text \ LateText
  /\ pc \in mapped
  /\ hw = [i \in Slots |-> NoAddr]
  /\ tstate = "stopped"
  /\ sig = NoSignal
  /\ stepping = FALSE

TraceeTypeOK ==
  /\ mem \in [Text -> Word]
  /\ mapped \subseteq Text
  /\ pc \in mapped
  /\ hw \in [Slots -> Text \cup {NoAddr}]
  /\ tstate \in {"stopped", "running", "dead"}
  /\ sig \in Stops \cup {NoSignal}
  /\ stepping \in BOOLEAN
=============================================================================
