--------------------------- MODULE SyscallTracer ----------------------------
(***************************************************************************)
(* Syscall tracing (syscallContinue, src/src/a64dbg.cpp 163-234) composed  *)
(* with the plugins it calls.  The debugger sees a system call as two      *)
(* stops by SIGTRAP, on entry and on exit, with nothing in them that tells *)
(* which is which, and counts: a toggle, syscall_enter, is turned over by  *)
(* every stop it reports.                                                  *)
(*                                                                         *)
(* At this commit issueCommand dispatches SYSCALL_CONTIN and STRACE_MODE   *)
(* and the table of the command parser has no word for them; the commands  *)
(* are modelled as issueCommand runs them.                                 *)
(***************************************************************************)
EXTENDS Plugins

CONSTANTS
  Skipped,    \* the calls that are not shown: futex, sched_yield, ...
  Clone,      \* the call that follow-fork waits for
  Rewriting,  \* the calls that replace the registers: execve, rt_sigreturn
  Unlisted,   \* stands for the numbers below 292 that the table leaves out
  Outside     \* stands for the numbers from 292 on

ASSUME NumbersAssumption ==
  /\ Skipped \subseteq Named /\ Rewriting \subseteq Named
  /\ Clone \in Named \ (Skipped \cup Rewriting)
  /\ {Unlisted, Outside} \cap Named = {}
  /\ Unlisted # Outside

Numbers == Named \cup {Unlisted, Outside}

\* The numbers whose stops turn the toggle over.
Counted == Named \ Skipped

VARIABLES
  tstate,         \* the traced process
  place,          \* where it is: in user code or in a call
  x8,             \* its register x8: the number of the call it is in
  stop,           \* why it stopped, until the debugger has handled that
  follow_fork,    \* the option -f
  followed,       \* whose pid is in tracee, and in Connector's copy of it
  syscall_enter,  \* the static toggle of syscallContinue
  strace_mode,    \* syscallContinue loops
  dbg,            \* where the debugger is
  calm            \* history: every SIGTRAP the tracer was told of, and no
                  \* other, was a stop of a call with the call's number in x8

kernelVars == <<tstate, place, x8, stop>>
tracerVars == <<followed, syscall_enter, strace_mode>>
vars == <<kernelVars, follow_fork, tracerVars, dbg, calm, registered, held>>

Traps == {"enter", "exit", "event", "trap"}

-----------------------------------------------------------------------------
(***************************************************************************)
(* The traced process, as ptrace(2) shows it.  The stops at entry and exit *)
(* are made only under PTRACE_SYSCALL, while dbg is "wait".                *)
(***************************************************************************)

Traced == dbg = "wait"

StopFor(why) == tstate' = "stopped" /\ stop' = why

EnterSyscall(n) ==
  /\ tstate = "running" /\ place = "user"
  /\ place' = "inside" /\ x8' = n
  /\ NewCall
  /\ IF Traced THEN StopFor("enter") ELSE UNCHANGED <<tstate, stop>>
  /\ UNCHANGED <<follow_fork, tracerVars, dbg, calm, registered>>

\* A successful execve leaves 0 in x8, rt_sigreturn what the signal frame holds.
ExitSyscall(n) ==
  /\ tstate = "running" /\ place # "user"
  /\ n = x8 \/ x8 \in Rewriting
  /\ place' = "user" /\ x8' = n
  /\ IF Traced THEN StopFor("exit") ELSE UNCHANGED <<tstate, stop>>
  /\ calm' = (calm /\ (n = x8 \/ ~ Traced))
  /\ UNCHANGED <<follow_fork, tracerVars, dbg, registered, held>>

\* With -f a clone or fork that succeeds stops once more inside the call.  One
\* that fails, and one with CLONE_VFORK (its event is not asked for), does not;
\* clone3 has a number outside the table.
CloneEvent ==
  /\ follow_fork
  /\ tstate = "running" /\ place = "inside" /\ x8 \in {Clone, Outside}
  /\ place' = "cloned"
  /\ StopFor("event")
  /\ calm' = (calm /\ Traced)
  /\ UNCHANGED <<x8, follow_fork, tracerVars, dbg, registered, held>>

\* A SIGTRAP of its own: a breakpoint, the end of an execve, kill(2).
OwnTrap(n) ==
  /\ tstate = "running" /\ place = "user"
  /\ x8' = n
  /\ StopFor("trap")
  /\ calm' = (calm /\ ~ Traced)
  /\ UNCHANGED <<place, follow_fork, tracerVars, dbg, registered, held>>

Signal ==
  /\ tstate = "running" /\ place = "user"
  /\ StopFor("signal")
  /\ UNCHANGED <<place, x8, follow_fork, tracerVars, dbg, calm, registered, held>>

Die ==
  /\ tstate # "dead"
  /\ tstate' = "dead" /\ stop' = "none"
  /\ UNCHANGED <<place, x8, follow_fork, tracerVars, dbg, calm, registered, held>>

\* A child that -f attached stops before its first instruction.
ChildStops ==
  /\ tstate = "starting"
  /\ tstate' = "stopped"
  /\ UNCHANGED <<place, x8, stop, follow_fork, tracerVars, dbg, calm, registered, held>>

TraceeStep ==
  \/ \E n \in Numbers : EnterSyscall(n) \/ ExitSyscall(n) \/ OwnTrap(n)
  \/ CloneEvent \/ Signal \/ Die \/ ChildStops

-----------------------------------------------------------------------------
(***************************************************************************)
(* Start, and the commands that are not about system calls.                *)
(***************************************************************************)

\* main checks the plugins before it starts anything.
Start(enabled) ==
  /\ dbg = "start"
  /\ checkForPlugins(enabled)
  /\ dbg' = "prompt"
  /\ UNCHANGED <<kernelVars, follow_fork, tracerVars, calm, held>>

StartRefused(enabled) ==
  /\ dbg = "start"
  /\ PluginsRefused(enabled)
  /\ dbg' = "done"
  /\ UNCHANGED <<kernelVars, follow_fork, tracerVars, calm, registered, held>>

\* `cont' or `next'.  Given inside a call whose entry was shown they take its
\* exit away from the tracer, and no line of the code turns the toggle back.
ContinueOrStep ==
  /\ dbg = "prompt" /\ tstate = "stopped"
  /\ tstate' = "running"
  /\ dbg' = "cont"
  /\ calm' = (calm /\ (place = "user" \/ x8 \notin Counted))
  /\ UNCHANGED <<place, x8, stop, follow_fork, tracerVars, registered, held>>

ContinueReturns ==
  /\ dbg = "cont" /\ tstate \in {"stopped", "dead"}
  /\ dbg' = IF tstate = "stopped" THEN "prompt" ELSE "done"
  /\ stop' = "none"
  /\ UNCHANGED <<tstate, place, x8, follow_fork, tracerVars, calm, registered, held>>

\* `next' on a process that is not there ends the session.
SingleStepFails ==
  /\ dbg = "prompt" /\ tstate # "stopped"
  /\ dbg' = "done"
  /\ UNCHANGED <<kernelVars, follow_fork, tracerVars, calm, registered, held>>

Quit ==
  /\ dbg = "prompt"
  /\ dbg' = "done"
  /\ UNCHANGED <<kernelVars, follow_fork, tracerVars, calm, registered, held>>

-----------------------------------------------------------------------------
(***************************************************************************)
(* syscallContinue: the request, the waitpid, and what is done about a     *)
(* SIGTRAP.  The registers are read after the wait, so a process that is   *)
(* killed in between leaves them uninitialized.                            *)
(***************************************************************************)

\* Mutant of RequestFails: the loop of strace mode tries again.
RequestRetries ==
  /\ tstate # "stopped"
  /\ dbg' = IF strace_mode THEN "again" ELSE "prompt"
  /\ UNCHANGED <<tstate, stop>>

RequestFails ==
  /\ tstate # "stopped"
  /\ dbg' = "prompt"
  /\ UNCHANGED <<tstate, stop>>

\* A stop that was not waited for yet is gone when the process is resumed.
Request ==
  \/ /\ tstate = "stopped"
     /\ tstate' = "running"
     /\ stop' = "none"
     /\ dbg' = "wait"
  \/ RequestFails

\* Mutant of syscallContinue: the toggle is not static.
syscallContinueForgets(strace) ==
  /\ dbg = "prompt"
  /\ strace_mode' = (strace_mode \/ strace)
  /\ syscall_enter' = TRUE
  /\ Request
  /\ UNCHANGED <<place, x8, follow_fork, followed, calm, registered, held>>

\* `syscall' and `strace'; nothing sets strace_mode back.
syscallContinue(strace) ==
  /\ dbg = "prompt"
  /\ strace_mode' = (strace_mode \/ strace)
  /\ Request
  /\ UNCHANGED <<place, x8, follow_fork, followed, syscall_enter, calm, registered, held>>

\* while (strace_mode)
Again ==
  /\ dbg = "again"
  /\ Request
  /\ UNCHANGED <<place, x8, follow_fork, tracerVars, calm, registered, held>>

SyscallStop ==
  /\ dbg = "wait" /\ tstate = "stopped" /\ stop \in Traps
  /\ dbg' = "handle"
  /\ UNCHANGED <<kernelVars, follow_fork, tracerVars, calm, registered, held>>

\* Any other signal gives the prompt back, also in strace mode.
OtherSignal ==
  /\ dbg = "wait" /\ tstate = "stopped" /\ stop = "signal"
  /\ dbg' = "prompt"
  /\ stop' = "none"
  /\ UNCHANGED <<tstate, place, x8, follow_fork, tracerVars, calm, registered, held>>

TraceeGone ==
  /\ dbg = "wait" /\ tstate = "dead"
  /\ dbg' = "done"
  /\ UNCHANGED <<kernelVars, follow_fork, tracerVars, calm, registered, held>>

\* The number getRegisters finds in x8, for the process that still is there.
ReadsNumber(n) == n = x8 \/ tstate = "dead"

LoopOrReturn == dbg' = IF strace_mode THEN "again" ELSE "prompt"

\* Mutant of SkippedStop: the stop turns the toggle over all the same.
SkippedStopToggles ==
  /\ dbg = "handle"
  /\ \E n \in Skipped : ReadsNumber(n)
  /\ LoopOrReturn
  /\ stop' = "none"
  /\ syscall_enter' = ~ syscall_enter
  /\ calm' = (calm /\ tstate = "stopped")
  /\ UNCHANGED <<tstate, place, x8, follow_fork, followed, strace_mode, registered, held>>

\* `continue' in the do loop goes to its condition.
SkippedStop ==
  /\ dbg = "handle"
  /\ \E n \in Skipped : ReadsNumber(n)
  /\ LoopOrReturn
  /\ stop' = "none"
  /\ calm' = (calm /\ tstate = "stopped")
  /\ UNCHANGED <<tstate, place, x8, follow_fork, tracerVars, registered, held>>

\* No name in the table, or none behind its end.
UnnamedStop ==
  /\ dbg = "handle"
  /\ \E n \in {Unlisted, Outside} :
       /\ ReadsNumber(n)
       /\ calm' = (calm /\ n = Unlisted /\ tstate = "stopped")
  /\ LoopOrReturn
  /\ stop' = "none"
  /\ UNCHANGED <<tstate, place, x8, follow_fork, tracerVars, registered, held>>

\* What is behind the end of the table is read as a pointer to a name.
CrashBehindTable ==
  /\ dbg = "handle"
  /\ ReadsNumber(Outside)
  /\ dbg' = "done"
  /\ calm' = FALSE
  /\ UNCHANGED <<kernelVars, follow_fork, tracerVars, registered, held>>

\* The registers x1 and x2 are the last call's arguments until user code runs.
Whose == IF stop \in {"enter", "exit", "event"} THEN "last" ELSE "older"

\* PTRACE_GETEVENTMSG gives the child's pid at an event, and no process at
\* any other stop.
Follow ==
  /\ followed' = IF stop = "event" THEN "child" ELSE "nobody"
  /\ tstate' = IF stop = "event" THEN "starting" ELSE "dead"
  /\ place' = "user"

\* The toggle was turned over before it is asked.
Follows(n) == follow_fork /\ n = Clone /\ ~ syscall_enter

ShownStop(n) ==
  /\ dbg = "handle"
  /\ ReadsNumber(n)
  /\ IF syscall_enter THEN callBefore(n, Whose) ELSE callAfter(n)
  /\ syscall_enter' = ~ syscall_enter
  /\ IF Follows(n) THEN Follow ELSE UNCHANGED <<followed, tstate, place>>
  /\ LoopOrReturn
  /\ stop' = "none"
  /\ calm' = (calm /\ n # Outside /\ tstate = "stopped")
  /\ UNCHANGED <<x8, follow_fork, strace_mode, registered>>

Handle ==
  \/ SkippedStop \/ UnnamedStop \/ CrashBehindTable
  \/ \E n \in Counted \cup {Outside} : ShownStop(n)

-----------------------------------------------------------------------------

Init ==
  /\ tstate = "stopped" /\ place = "user" /\ stop = "none"
  /\ x8 \in Numbers
  /\ follow_fork \in BOOLEAN
  /\ followed = "parent"
  /\ syscall_enter = TRUE
  /\ strace_mode = FALSE
  /\ dbg = "start"
  /\ calm = TRUE
  /\ registered = {} /\ held = "none"

Next ==
  \/ TraceeStep
  \/ \E enabled \in SUBSET PluginNames : Start(enabled) \/ StartRefused(enabled)
  \/ ContinueOrStep \/ ContinueReturns \/ SingleStepFails \/ Quit
  \/ \E strace \in BOOLEAN : syscallContinue(strace)
  \/ Again
  \/ SyscallStop \/ OtherSignal \/ TraceeGone
  \/ Handle

Spec == Init /\ [][Next]_vars

\* The debugger runs on, a waitpid whose process stopped or died returns, and a
\* child that was attached is given the CPU.  Nothing is assumed of the calls
\* and signals of the traced process, nor of the user.
Fairness ==
  /\ WF_vars(Again)
  /\ WF_vars(SyscallStop \/ OtherSignal \/ TraceeGone)
  /\ WF_vars(Handle)
  /\ WF_vars(ContinueReturns)
  /\ WF_vars(ChildStops)

FairSpec == Spec /\ Fairness

-----------------------------------------------------------------------------
(***************************************************************************)
(* Properties.                                                             *)
(***************************************************************************)

TypeOK ==
  /\ tstate \in {"stopped", "running", "starting", "dead"}
  /\ place \in {"user", "inside", "cloned"}
  /\ x8 \in Numbers
  /\ stop \in Traps \cup {"none", "signal"}
  /\ follow_fork \in BOOLEAN
  /\ followed \in {"parent", "child", "nobody"}
  /\ syscall_enter \in BOOLEAN /\ strace_mode \in BOOLEAN
  /\ dbg \in {"start", "prompt", "wait", "handle", "again", "cont", "done"}
  /\ calm \in BOOLEAN
  /\ PluginTypeOK

\* The process is in a call whose entry was shown and whose exit was not, or
\* has just come out of it.
InShownCall ==
  /\ x8 \in Counted
  /\ place # "user" \/ stop = "exit"
  /\ stop # "enter"

\* As long as the tracer was told of nothing but the stops of calls, the toggle
\* is right: it says `exit' exactly while a call is open, also across skipped and
\* unnamed calls, `cont' and `next' between calls, signals, and the switch to a
\* child in the middle of a clone (a64dbg.cpp 180-219).
ToggleRight ==
  calm /\ tstate # "dead" /\ dbg # "cont" => (syscall_enter <=> ~ InShownCall)

\* With a toggle that is right, what the read plugin dumps after a read is the
\* buffer of that read, not of an earlier one (read_plugin.cpp 11-30).
ReadShowsItsOwnBuffer ==
  [][dbg = "handle" /\ calm /\ calm' /\ ~ syscall_enter /\ syscall_enter'
     /\ Dispatches(x8) => held = "last"]_vars

Pairs == INSTANCE CallPairs WITH
  Calls  <- Counted,
  NoCall <- Unlisted,
  open   <- IF syscall_enter \/ ~ calm THEN Unlisted ELSE x8,
  lost   <- ~ calm

\* As long as the tracer was told of nothing but the stops of calls, entries and
\* exits are shown in pairs, under one name (a64dbg.cpp 191-207).
ImplementsCallPairs == Pairs!PairSpec

\* syscallContinue is never stuck between its waits: every stop and every end that
\* its waitpid can report is one it takes, every number it can find in x8 is one
\* it handles, also the ones without a name and the garbage it reads from a process
\* that was killed in between, and strace mode can always ask again, or give up
\* (a64dbg.cpp 165-233).
TracerNeverStuck ==
  /\ dbg = "wait" /\ tstate \in {"stopped", "dead"}
       => ENABLED <<SyscallStop \/ OtherSignal \/ TraceeGone>>_vars
  /\ dbg = "handle" => ENABLED <<Handle>>_vars
  /\ dbg = "again" => ENABLED <<Again>>_vars

\* When the process is gone, strace mode comes back or the session ends: its
\* loop waits for no process that is not there, also when the one it switched
\* to does not exist (a64dbg.cpp 169-172, 229-233).
StraceEnds ==
  dbg \in {"wait", "handle", "again"} /\ tstate = "dead" ~> dbg \in {"prompt", "done"}

\* "on return from clone we need to follow the child" (a64dbg.cpp 212): with a
\* toggle that is right, what is followed is the parent or a child.
FollowsTheChild == calm => followed # "nobody"
=============================================================================
