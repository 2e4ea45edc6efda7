# a64dbg in TLA+

A verification project for a64dbg, a native ptrace debugger for arm64 Linux and
Android: TLA+ models of the code under `src/`, TLC configurations that check
them, and TLAPS proofs of what holds for any number of addresses, breakpoints
and registers.

    tlc -config Spaced.cfg MCDebugger.tla
    tlc -config Calls.cfg MCInjection.tla
    tlc -config Trace.cfg MCSyscallTracer.tla
    tlc -config Session.cfg MCSession.tla
    tlc -config Search.cfg MCMemChecker.tla
    tlapm DebuggerProofs.tla      (and InjectionProofs, SyscallTracerProofs,
                                   SessionProofs, MemCheckerProofs)

## 1. Inventory

a64dbg is one process with one thread that drives one traced process. There is
no locking and no asynchronous callback; concurrency is between the debugger and
the tracee (which runs whenever the debugger waits for it), and between the user
and everything else (which command comes next is never known).

| Part | State it keeps | Operations | Talks to |
|---|---|---|---|
| Run control (`src/src/a64dbg.cpp`: `setBreakPoint`, `setHwBreakPoint`, `Continue`; `Connector::doSingleStep`, `setHwBreakpoint`, `clearHwBreakpoint`, `getHwBreakpoints`) | `BreakPoints` (address -> eight bytes), `wait_status`; the breakpoint registers live in the tracee | `bp`, `hbp`, `cont`, `next`, `quit` | the tracee, by ptrace and waitpid |
| Code injection (`Connector::allocateMemoryInChild`, `mprotectMemory`) | `private_memory`; saved registers and instruction during a call | `mmap`, `mprot` | the tracee: pokes an `svc`, sets registers, steps over it |
| Syscall tracing (`syscallContinue`) | the static `syscall_enter`, `strace_mode`, two copies of the tracee's pid | one stop, or stop after stop in strace mode | the tracee; plugins; `Connector::setTracee` |
| Command parser (`CmdParser`) | the command table, `last_command`, `cmd_args`, start-up options | `getCmd`, `parseArgs`, `startUpArgs` | stdin; `issueCommand` dispatches what it returns |
| Plugins (`PluginRegistry`, `PluginHelper`, `src/plugins/`) | registered plugins; the read plugin keeps an address and a size from before to after | `checkForPlugins`, `callBefore`, `callAfter` | called by syscall tracing, call back into `Connector` |
| Session (`main`) | `tracee`, `wait_status`, the last command | start (fork and exec, or attach), loop, end | all of the above |
| Memory checker (`mem_checker.c`, not compiled into the debugger) | per area: last values, mask of candidates, an invalid flag; the hits of the last round | changed, unchanged, write, restore, observe | `/proc/<pid>/mem` |
| Memory access (`Memory.cpp`), output (`Utils.cpp`), pmparser (vendored) | none | one read or write; formatting; parsing of maps | `/proc` |

What is hard, and what correctness means, part by part:

- **Run control.** A breakpoint is a word written over the program. Breakpoints
  may overlap, be set twice, be set again after they were hit, lie in text that
  is not mapped yet, or share an address with a hardware breakpoint; between
  two commands the tracee executes, branches anywhere, faults, is signalled, or
  dies. Correct means: no instruction of the program is lost, nothing but an
  armed breakpoint changes the program, a breakpoint goes only when it is hit
  and then really goes, and every `cont` and `next` gives the prompt back.
- **Code injection.** The injected step may be interrupted by a signal, fail, or
  be the last thing the tracee does. Correct means: registers and text are put
  back, the result is the result of the syscall, and a failure is recognised.
- **Syscall tracing.** The kernel reports enter and exit alike. Correct means:
  the toggle says enter exactly at an enter, plugins see before and after in
  pairs, a switch to a child leaves a debugger that still traces something, and
  strace mode ends with its process. At this commit `issueCommand` dispatches
  SYSCALL_CONTIN and STRACE_MODE, but the command table has no word for them
  (`src/README.md` lists `s`, `syscall` and `strace`).
- **Command parser.** Prefix matching in hash order, and an empty line that
  repeats. Correct means: a line means one command, and the arguments are those
  of the command that runs.
- **Plugins.** Correct means: a plugin that was accepted is called, and never
  after without before.
- **Session.** Correct means: a failed start leaves no prompt, and the loop ends
  when the tracee does.
- **Memory checker.** Correct means: the candidates are exactly the words that
  behaved as asked in every round, and restore puts back what was recorded.

`PROJECT.json` lists the hazards one by one, each at its line.

## 2. Modules

| Module | Models | State |
|---|---|---|
| `Tracee` | the traced process: what ptrace lets the debugger do with it and what it does by itself. External: kernel and CPU, as `src/` uses them | `mem`, `mapped`, `pc`, `hw`, `tstate`, `sig`, `stepping` |
| `Debugger` | run control and the command loop, on top of `Tracee` | `BreakPoints`, `wait_status`, `dbg` |
| `OneShot` | abstract specification: a set of armed addresses, each stops the program and is disarmed when that is reported | `armed`, `at`, `phase`, `stop`, `single` |
| `DebuggerRefinement` | the refinement mapping from `Debugger` to `OneShot` | |
| `Injection` | `mmap` and `mprot`, on top of `Debugger`, and the mapping back to it | `private_memory`, `page`, `regs`, `regs_save`, `orig_inst` |
| `InjectionRefinement` | the refinement mapping from `Injection` to `OneShot` | |
| `SyscallTracer` | `syscallContinue` against what the kernel reports of a process | `tstate`, `place`, `x8`, `stop`; `follow_fork`, `followed`, `syscall_enter`, `strace_mode`, `dbg`; history `calm` |
| `Plugins` | the plugins `SyscallTracer` calls | `registered`, `held` |
| `CallPairs` | abstract specification: calls are shown as entered, then as left | `open`, `lost` |
| `Session` | start-up, the command parser and the loop of `main` | `stage`, `argv`, the options, `process`, `wait_status`, `input_ended`, `last_command`, `cmd_args`, `command`; history `asked` |
| `MemChecker` | `mem_checker.c` and the process it searches | `memory`, `readable`; `mem_ptr`, `cmp_ptr`, `invalid`, `hits`, `orig`, `modd`, `pending`, `mode`, `at`, `area_i`, `to_restore` |
| `Narrowing` | abstract specification: candidates with their values, filtered round by round | `memory`, `last`, `due`, `asked` |
| `MCDebugger`, `MCInjection`, `MCSyscallTracer`, `MCSession`, `MCMemChecker` | the modules TLC runs | |
| `DebuggerProofs`, `InjectionProofs`, `SyscallTracerProofs`, `SessionProofs`, `MemCheckerProofs` | the theorems | |

### How the model corresponds to the code

*Text.* An address of the model is an instruction, four bytes. The half-word
detail matters: `setBreakPoint` writes a `uint64_t`, so `Poked` writes two
words, `brk` and four zero bytes, and `Continue` restores two. A word is the
program's own instruction (`orig`), the trap (`brk`), zeroes, or the 0xff bytes
of a failed PTRACE_PEEKTEXT (`ones`). The contents of the program's
instructions are abstracted: an `orig` instruction may do anything a program can
do to its pc.

*Commands.* `bp`, `hbp` and `quit` are one step: the debugger does not wait in
them and a stopped tracee cannot move (it can be killed, before or after). `cont` is
`Continue` (the request) and `ContinueReturns` (the return of waitpid and all the
code up to the next prompt): `BreakpointHit`, `HwBreakpointCheck`,
`OtherSignal` and `TraceeGone` are its four branches. `next` is
`doSingleStep` and `SingleStepReturns`, or `SingleStepFails`, whose -1 ends
`main`'s loop. A `cont` on a dead tracee prints an error and changes nothing; it
is a stuttering step. `regs`, `rm` and `help` change no state.

*Map.* `BreakPoints` is a function on the addresses it holds. `Insert` is
`std::map::insert`, which does not replace; nothing erases.

*Registers.* `hw` is a function from register numbers to addresses, `NoAddr` when
cleared. `setHwBreakpoint` reads all and writes back a prefix, which changes
one register; `clearHwBreakpoint(i)` writes a prefix of zeroes (`ClearedBy`).
An unsupported machine has `NumHw = 0`.

*The tracee.* Between request and return it may execute, meet a breakpoint
register, a trap or an undefined word, be stopped by a signal or a ptrace event,
map more text, or die. PTRACE_CONT passes signal 0, so the signal is dropped. A
stopped tracee can be killed. `sig` is the signal of a stop that waitpid has not
reported yet; every return of a waitpid takes it (`Reported`), so a state with a
signal left at the prompt would be a wait that was given the wrong stop.

*Injected calls.* `mmap` and `mprot` are two steps each, like `cont`. `mmap` is
`allocateMemoryInChild` up to PTRACE_SINGLESTEP: the registers and the eight bytes at
the pc are saved, the svc (again a `uint64_t`, so it covers two words) is poked and the
argument registers are set. `mmapReturns` is the rest: x0 becomes `private_memory`,
registers and text are put back, and an svc is poked at `private_memory`.
`mprot` and `mprotReturns` are the two halves of `mprotectMemory`, which does
not poke but moves the pc to `private_memory`. In between the step runs the svc
(`SvcRuns`, success or error), faults (`StepFaults`), is stopped before it ran by
a breakpoint register (`StepTrapped`) or a signal (`StepSignalled`), or the tracee dies
(`TraceeDies`, `CallLosesTracee`). The code tells none of these apart. The
general registers are abstracted to whose values they hold (`regs`): the
program's, the arguments of a call, or the result of one. `private_memory` is a
page of the kernel's choice, an error number, 0 (the first argument, when the svc did
not run), or -1: that of `init`, or of an `mmap` that failed with EPERM. `page` says what that page is good for: `mprot` may
take its execute permission when its range starts elsewhere, which the
check `mem_addr == private_memory` does not see.

*Composition.* `Injection` EXTENDS `Debugger` and allows all of its `Next` outside a
call. `RunControl` is an instance of `Debugger` over what a user of
run control sees: the text with the svc replaced by what it covers, the
saved pc for the pc, and a call as a stay at the prompt. `InjectionRefinement` maps
the same view to `OneShot`: armed is what holds a trap in the text that is seen.

*Syscall tracing.* A request (`syscallContinue`, or `Again` for a further turn of
the strace loop), the return of waitpid (`SyscallStop`, `OtherSignal`,
`TraceeGone`) and what is done about a SIGTRAP (`Handle`) are separate steps,
because the process can be killed between any two of them. Then
`getRegisters` fails and returns what is on the stack: `ReadsNumber` allows every
number. `Handle` has one action per path through the `if`s: a skipped call, no name
in the table, a crash behind its end, a call that is shown. The kernel's side
is external: a process enters and leaves calls, PTRACE_SYSCALL makes it stop at
both, an exit of `execve` or `rt_sigreturn` shows other registers than the
entry, a clone that succeeds under `-f` stops once more, a SIGTRAP can come from
anywhere. Of system calls the model keeps the number's class: shown, skipped, the
clone, register-replacing, unlisted below 292, outside of the table. Other commands
appear as `ContinueOrStep`, because `cont` and `next` take stops away from the
tracer. PTRACE_GETEVENTMSG gives the child at an event stop and is
assumed to name no process elsewhere.

*The history `calm`.* The code cannot know whether a SIGTRAP is the stop of a
call (its own TODO, `a64dbg.cpp:221`). `calm` records whether so far every
SIGTRAP it was told of was one, with the call's number in x8, and whether `cont` or
`next` was only used outside a shown call. It is written by the actions and read by
the properties alone. The properties about the toggle are conditional
on it; the unconditional ones (`TypeOK`, `StraceEnds`) are not.

*Plugins.* `Plugins` holds operators on `registered` and `held` that
`SyscallTracer` calls: acceptance by prefix (`IsSyscall`), dispatch by the whole
name (`Dispatches`), and what `ReadPlugin` keeps. Of the address and size it
stores, the model keeps whose arguments they are: those of the process's last
call, or of an older one.

*Session.* `startUpArgs` takes one step per turn of its loop over the
parameters, so an option is seen with whatever was parsed before it. The first
`waitpid` waits for a child that may not exist (`process = "none"`) or may have
failed (`"dead"`). Of a command the session can tell whether it counts its
arguments, whether it waits, and where the status of the wait goes; what a
command does to the process is in the other modules. A typed line is a word
with the table words it begins with (`PrefixesOf`), a number of arguments, and
their value: one that `stoull` cannot read, numbers, or numbers with a size for which
`rm` may get no buffer (`ReadMemoryThrows`). An unknown line changes nothing; it is a
stuttering step. `commands` is an `unordered_map`, so which of several matching
commands comes first is a choice. `asked` is a history: the last line that was
understood, as typed, with its word and not with the command that was made of it.

*Memory checker.* A step reads one area, or takes one turn of the loop of
`restoreMemory`; the process stores, maps and unmaps in between. `cmp_ptr` is the
set of words that are out, `invalid` the set of areas that are skipped, `orig` and
`modd` are functions on the words whose hits were recorded (the arrays up to
`hits`, capped by MAX_HIT_PRINT). The handle for writing is a stdio FILE:
`pending` is the word `fwrite` left in its buffer, which the next `fseek` or
`exit` hands over; where that fails, `seekToMem` exits. A write to an address outside of
the observed areas succeeds or fails, as that address is mapped or not (`FlushResults`). The mapping to `Narrowing`
(`Last`, `Due`) forgets areas, flags, records and the buffer.

## 3. Runs

Constants: `TextLen` instructions of which `LateText` are mapped only later,
`NumHw` registers, `SwSites` and `HwSites`, the addresses the user may name. The
deadlock check is off in every run because a session ends (`dbg`, `stage` or `at` is
"done").

| Run | Instance | Question | Result |
|---|---|---|---|
| `spaced` | 5 instructions, `bp` at 0 and 2, `hbp` at 3 and 4, 2 registers | Used with care (no overlaps), is the text intact, are breakpoints one-shot, do they go only by their hit, do higher registers survive, does the loop implement `OneShot`? | holds |
| `returns` | 4 instructions, the last mapped late, `bp` at 0, 1 and 2, `hbp` at 1 and 2, 1 register; fairness | Used without care, does the tracee run only inside a waitpid, is text without an entry ever touched, can every original instruction still be found in the map; can a wait be stuck; do `cont` and `next` come back, and does an exit end the session? | yes, never, yes; never; they do, `next` from every instruction if instructions complete |
| `trap_width` | one `bp` | Does the trap leave the next instruction alone (`a64dbg.cpp:47`)? | no |
| `calls` | 3 instructions, `bp` and `hbp` at 1, `mmap` at 0 and 1; fairness | Does a call, however it ends, leave registers, pc and text as they were; does a step with foreign registers ever run code of the program; does `mprot` find the svc that `mmap` left; is the text between calls what the breakpoints make of it; does run control notice a call, and does a session with calls implement `OneShot`; does every call give the prompt back? | no trace is left; it does |
| `no_svc` | `mmap` at 0 | Does private memory contain the svc (`Connector.cpp:198`)? | no: not after a failed `mmap` |
| `trace` | five named calls (read and readahead, one skipped, the clone, one that replaces the registers), one unlisted and one outside number, three plugins; fairness | Is the toggle right over every order of calls, requests and commands, a followed clone included; does the read plugin dump the right buffer; are calls shown in pairs; can the tracer be stuck; does strace mode end with its process? | yes, while `calm`; never; it does |
| `follow` | the same | On return from a clone, is a child followed (`a64dbg.cpp:212`)? | no: a clone that failed leaves a pid of no process |
| `session` | 11 words, up to 3 arguments, up to 3 parameters; fairness | Is what runs a command of the last understood line, with that line's arguments; is there a prompt only with a process; can `main` be stuck; does every start end; does the end of the process end a session of `next` at the end of the input? | yes; it cannot be stuck |
| `prefix_match` | the same words, up to 2 arguments, 1 parameter | Does `readm` read memory (`src/README.md:17`, `:35`)? | no: it also begins with `re`, and may print the registers |
| `bad_number` | the word `bp`, 1 argument, 1 parameter | Is a mistyped number reported (`Utils.cpp:35`)? | no: the exception ends the debugger |
| `search` | 3 words in 2 areas, 2 values, room for 2 hits; fairness | Do counter, arrays, masks and flags agree after every round; does a restore have a record of every hit, and what of it can be missing in the process; does the checker implement `Narrowing`; do its loops end? | yes; its last hit; yes; yes |
| `lost_restore` | the same, no `w` | Has every hit been restored at the end of `r` (`mem_checker.c:244`)? | no: the last word is in the buffer |

**Bounds.** A breakpoint touches two adjacent words, so an overlap needs two
breakpoints and a chain of overlaps (one word held only by the entry of a
breakpoint that is itself overlapped) needs three. Five instructions leave room
for two spaced breakpoints, their shadows and one untouched instruction. Two
registers tell below, at and above apart. `TextLen`, `LateText`, `NumHw`,
`SwSites` and `HwSites` are the only bounds; nothing counts, so the state spaces
are finite without constraints. In `calls` the svc of `mmap` covers the
breakpoint (at 1) or stands before it (at 0), and the word behind the breakpoint is
the last of the text; `MmapAt` bounds where `mmap` is given. Section 4 removes the
bounds for what it proves.

In `trace` every class of number occurs once, and two names with a common prefix
are needed for a plugin that is accepted for what it begins (`rea`) next to one that is
called (`read`) and one that is refused (`template`). Nothing counts there; the
space is finite. In `session` `MaxArgs = 3` is the largest number of arguments any
command asks for, so each command meets too few, enough and (but for `mprot` and `mmap`)
too many; `MaxParams = 3` allows `-f -p <pid>`, a binary next to a pid, and an option
that is not followed by its value. The words include one that begins with words of two
commands (`readm`) and two that begin with none. In `search` two words in one area
and one in another give areas that are exhausted alone and together; two
records for three words put the number of hits below, at and above
MAX_HIT_PRINT; two values are enough to change and to change back.

**Conditions.** `ReadableCalls` says that `mmap` is given where two instructions
can be read. `MappedSites`, `SpacedSites` and `DisjointSites` are conditions on what
the user asks for; the code checks none of them ("TODO: Verify for valid address
range"), and none can be dropped:

- without `MappedSites` a failed PTRACE_PEEKTEXT is stored as the instruction -1, and
  `insert` never replaces it: set again once the address is mapped, and hit, the
  breakpoint puts -1 into the program (`TextIntact` fails). `OriginalKept` is about
  the words whose sites can be read from the start (`Readable`), so it needs no
  condition on the others;
- without `SpacedSites` the eight-byte restore at one breakpoint also removes
  the trap of the next instruction, which the map goes on listing;
- without `DisjointSites` the entry of a software breakpoint that was hit hides a hardware
  breakpoint at its address, and every further `cont` stops before it executed
  an instruction (`CauseCleared` fails);
- without `ReadableCalls` an `mmap` at the last mapped instruction pokes
  half of an svc and restores the -1 of a failed read (`CallLeavesNothing` fails).

More behaviour of the code that the models show and no property claims to be otherwise:
a `next` from a breakpoint meets the trap and stays where it is; a hit on
hardware breakpoint i clears the registers 0 to i (the message names one
position); `mprot` prints its own first argument as a result when a signal comes before
the svc; at the end of the input a repeated `cont` on a process that is gone
loops for ever, and so does a parser that never had a command; a `cont` inside a
traced call turns the toggle over for good; an exit of the process in an injected
call leaves the loop of `main` with a status that says stopped; a child made with
CLONE_VFORK is not followed; a memory read of a size there is no memory for ends
the debugger; `b`, `break`, `r`, `hpb`, `hbreak`, `s`, `syscall` and `strace` of the README
are unknown to the table.

**Fairness.** In `returns` a running tracee whose next instruction the CPU will not execute
is stopped by it (`WF(CpuTrap)`: a breakpoint register, the trap, an undefined word), and a
waitpid whose child has stopped or died returns (`WF(ContinueReturns)`,
`WF(SingleStepReturns)`): the kernel's scheduler and wait queue. That an instruction
completes is not assumed: a step over an svc that blocks (`read`, `wait4`, `futex`)
leaves `doSingleStep` in its waitpid, and a program that runs for ever keeps `cont`
waiting. So `ContinueComesBack` and the first part of `NextReturns` speak of a tracee that is in front of a
trap or no longer running; the second part of `NextReturns` is about every
`next`, on the stated condition `InstructionsComplete` (`WF(Execute)`). Nothing is
assumed about the user, about signals or about exits.

In `calls` the injected step is taken
(`WF(SvcRuns \/ StepFaults \/ StepTrapped)`: one of the three is what the CPU
does next, and neither `mmap` nor `mprotect` waits for anybody), and the waitpid for it
returns; a signal or an exit may come in between and is not assumed. The property
is about calls alone.

In `trace` the debugger's own steps are taken, a waitpid whose process stopped or died
returns, and a child that was attached gets to its first stop. Nothing is
assumed of calls and signals: a process may compute for ever without one, so the
property is about a process that is gone. In `session` the debugger runs on, its waits
return once the process does not run, a started process executes or fails and an
attached one gets its stop; behind the end of the input `getline` returns at once
(`WF(input_ended /\ RepeatLast)`), before it the user may never type. In
`search` only the checker's own loops are fair, not its prompt and not the process.

**Mutants.** Every property of a passing run has a mutated form of a mapped
definition, placed before the definition it mutates, that violates
it: `operator[]` for `insert`, a restore of half a word or of every breakpoint,
a register length that is one short or too long, a forgotten waitpid, a loop
that does not look at the status, an instruction saved after the svc was poked,
registers or half of the text that are not restored, a private page without its svc, a wait
that only a trap ends; a toggle that is not static or that skipped calls turn over,
a buffer that is kept once, a strace loop that retries a failed request; arguments
that are not cleared, a command without arguments that is not remembered, a
first command before the status is asked; candidates that come back, a last value that
is not updated, an array bound that is off by one, a restore that writes the
new values, a loop that does not count a skipped area.

**Never stuck.** Deadlock is not what these invariants are about: the tracee may
always die and the user may always type, so TLC's deadlock check would not see a wait
that nothing can end. `WaitsCanEnd`, `TracerNeverStuck` and `SessionNeverStuck`
say it of each fair action: where the code has gone so far that it must go on,
the action is enabled. An `if` chain of the code that left a case out would show
here. They are what the liveness theorems of section 4 rest on; that of the calls rests on
`CallsCanEnd` of `InjectionProofs`, which is no property of a run because
`CallComesBack`, which `calls` checks, could not hold without it.

## 4. Proofs

`DebuggerProofs` holds, for every `TextLen`, `LateText`, `NumHw`, `SwSites` and
`HwSites` (from `TraceeAssumption` and `SitesAssumption`: a text that is not
empty, sites in the text):

| Theorem | Condition | States |
|---|---|---|
| `TypeCorrect` | | `TypeOK` |
| `AwaitedWhileRunning` | | `RunsOnlyWhileAwaited` |
| `DamageIsConfined` | | `DamageConfined` |
| `OriginalIsKept` | | `OriginalKept` |
| `TextIsIntact` | `MappedSites`, `SpacedSites` | `TextIntact` |
| `TrapsGoByTheirHits` | `MappedSites`, `SpacedSites` | `TrapGoesOnlyByItsHit` |
| `SlotsAboveHitSurvive` | | `HwSlotsAboveHitSurvive` |
| `CauseIsCleared` | `DisjointSites` | `CauseCleared` |
| `RefinesOneShot` | `MappedSites`, `SpacedSites` | `ImplementsOneShot` |
| `FaultsOnlyBehindTraps` | `MappedSites`, `SpacedSites` | every stop by an illegal instruction is right behind an armed trap |
| `NextComesBack` | fairness, `[]WaitsCanEnd`; `InstructionsComplete` for its second part | `NextReturns` |
| `ContinuesComeBack` | fairness, `[]WaitsCanEnd` | `ContinueComesBack` |
| `ExitsEndTheSession` | fairness, `[]WaitsCanEnd` | `ExitEndsSession`, of `cont` and of `next` |

`InjectionProofs` holds, for every value of these and of `MmapAt` (`MmapAssumption`:
in the text), under `ReadableCalls` where the table does not say otherwise:

| Theorem | Condition | States |
|---|---|---|
| `CallTypesCorrect` | | `InjectionTypeOK` |
| `CallsRestore` | | `CallLeavesNothing` |
| `ForeignRegistersRunNoCode` | | `OnlySvcRuns` |
| `CallsLeaveNoTrace` | | `CallsAreInvisible`: every session with calls is, as run control sees it, one of `Debugger` without |
| `CallsKeepTheText` | `MappedSites`, `SpacedSites` too | `TextIntactBetweenCalls` |
| `AwaitedOutsideCalls` | | `RunsOnlyWhileAwaited`, outside calls |
| `CallsSpareTraps` | `MappedSites`, `SpacedSites` too | `TrapGoesOnlyByItsHit`, of what is seen |
| `CallsKeepOriginals` | | `OriginalKept`, outside calls, while the tracee lives |
| `CallsClearCauses` | `DisjointSites` too | `CauseCleared` |
| `CallsSpareSlots` | none, not even `ReadableCalls` | `HwSlotsAboveHitSurvive` |
| `CallsRefineOneShot` | `MappedSites`, `SpacedSites` too | `CallsKeepThePromise` |
| `SvcStaysUntilSealed` | none, not even `ReadableCalls` | `MprotFindsItsSvc` |
| `SvcIsMissedOnlyAfterFailure` | | an `mprot` steps onto the svc, unless the last `mmap` brought no page or an `mprot` sealed it |
| `CallsComeBack` | fairness, `[]CallsCanEnd`; not `ReadableCalls` | `CallComesBack` |

`SyscallTracerProofs` holds, for every table of calls, every class of numbers and any
plugins (`PluginAssumption`, `NumbersAssumption`: the classes are in the table, the clone
is neither skipped nor register-replacing, the two other numbers are outside):

| Theorem | States |
|---|---|
| `TypesCorrect` | `TypeOK` |
| `ToggleIsRight` | `ToggleRight` |
| `ReadsShowTheirOwnBuffer` | `ReadShowsItsOwnBuffer` |
| `EventsAreFollowed` | with a right toggle, every event of a clone switches to the child it names, and the only switch to nobody is at the exit of a clone without an event |
| `RefinesCallPairs` | `ImplementsCallPairs` |
| `StraceLoopEnds` | `StraceEnds`, under fairness and `[]TracerNeverStuck` |

`SessionProofs` holds, for any typed words and any number of parameters and
arguments (`SessionAssumption`):

| Theorem | States |
|---|---|
| `TypesCorrect` | `TypeOK` |
| `CommandsAreAsAsked` | `IssuedAsAsked` |
| `PromptsNeedAProcess` | `PromptNeedsProcess` |
| `OnlyBadArgumentsAbort` | only three arguments abort a session: no number behind `-p`, no number in the last understood line of a command that reads it, a size for which a memory read gets no buffer |
| `SteppingSessionsEnd` | `SteppingEnds`, under fairness and `[]SessionNeverStuck` |
| `ArgumentsAreConsumed` | with n parameters left, `startUpArgs` comes to fewer or ends, for every n; likewise |
| `StartsEndOnceParsed` | the rest of `StartEnds`, from the plugins on; likewise |

`MemCheckerProofs` holds, for any number of words and areas, any values and
any MAX_HIT_PRINT (`MemCheckerAssumption`: areas are listed by address):

| Theorem | States |
|---|---|
| `TypesCorrect` | `TypeOK` |
| `HitsCountCandidates` | `HitsAreCandidates` |
| `RestoreCovers` | `RestoreCoversAllHits`: a restore starts only with a record of every hit |
| `RestoreLacksNoMore` | `RestoreLacksOnlyItsLast` |
| `NoWriteIsLost` | what leaves the buffer is in the memory of the process, or the checker has ended over it |
| `RefinesNarrowing` | `ImplementsNarrowing` |

The inductive invariants:

- `KeptInv` for `OriginalKept`. That every foreign word is held by *some* entry is
  not inductive: arming a known address again overwrites two words and adds no
  entry. What is inductive is that, as long as the tracee lives, a word of an
  entry's site all of whose sites can be read is held by some entry, whatever the
  text holds at the moment. It is said of one word at a time, so a failed read at
  another site does no harm. Entries are never replaced, so what is held stays held
  (`KeptStays`). It needs no spacing.
- `IntactInv` for `TextIntact`. On spaced sites every entry was read from clean
  text, so it holds exactly the program's own two words; an armed site is one trap
  and one zero word. `ArmingStep` and `DisarmingStep` say what `bp` and a hit then
  do to the text; the refinement rests on the same two lemmas. After the
  tracee's death entries may be added that hold -1 (`DeadStep`), which
  is why that part of the invariant is about a living tracee.
- `ClearInv` for `CauseCleared`. It needs neither spacing nor mapped sites: no
  entry has a trap in its own word, a trap in its neighbour's word belongs to a
  neighbour the map knows, and a trap in the text is always known to the map.

- `CallInv` for the theorems about calls. A living tracee outside a call has
  its own registers and no svc in its text; in an `mmap` the svc stands where the
  saved pc is, with both words mapped; in an `mprot` the text is clean and the pc
  is outside of it. While the program owns its registers the mapping to
  `Debugger` is the identity (`ProgramSeen`, `OwnStep`); the steps of a call change
  nothing that is seen (`UnseenStep`), except that a death in a call is a
  death at the prompt; a tracee that died in a call keeps its svc and its foreign
  registers for ever, and the commands that still run do not look (`OrphanStep`).

`CallsLeaveNoTrace` carries the guarantees of `Debugger` over to sessions with
calls: an invariant proved of `Debugger` is an invariant of what is seen, and at
the prompt of a living tracee what is seen is the tracee.

- `SvcInv` for `MprotFindsItsSvc`, of four variables only: outside an `mmap` a page that is known
  holds the svc or was sealed. In an `mmap` the old page may be forgotten already; its return
  sets both anew.
- `Inv` of `SyscallTracerProofs`: the types, `Pending` (what a stop that was not handled
  yet says of the process: at an enter stop it is inside a call, at an event it
  is a clone), `ToggleRight`, and `Calm`. `ToggleRight` alone is not inductive: that
  the exit of an open call comes under its own number needs `Calm`, which says
  that the open call's number is in x8, that a `cont` in flight is between calls, and
  that the read plugin holds the last call's buffer while a read is open.
  `ShownStopTurns` is the heart of it: what a shown stop does to the toggle. Both
  refinement and buffer property follow from the same invariant.
- `Inv` of `SessionProofs`: the types, `Started` (which processes and statuses each stage of the
  start can have; a status "stopped" needs a process that stopped) and `OneLine`
  (`last_command` is always the last line understood, and `cmd_args` its arguments
  whenever that command takes any). `IssuedAsAsked` speaks only of the moment of
  issue and is not inductive without `OneLine`.
- `HitInv` of `MemCheckerProofs`: in the middle of a round, the counter and the records
  speak of the candidates among the areas already compared (`Judged`), and
  every record holds the last value seen. Areas are listed by address, so what a new area adds lies
  behind everything recorded (`FirstGrows`); an area that is released had no
  candidates, so the end of a round changes no count. `FewHits` adds that a restore
  only starts within the arrays. For the refinement an area is one judgement
  of its words (`CompareJudges`, `PassingJudges`), and a buffered write that arrives
  is a change of memory like any other.

**Sessions with calls implement `OneShot`** (`CallsRefineOneShot`). That `Injection`
implements `Debugger` and `Debugger` implements `OneShot` gives no theorem by itself: an
instance of a module of proofs brings no usable theorems, so the second step is done
again over what is seen. `AwaitedStep`, `IntactStep` and `OneShotStep` of
`DebuggerProofs` are lemmas about one step, without temporal operators. Outside a call what is seen is
what is there (`IntactIsSeen`), and they apply as they are; a step of a call changes nothing that is seen
(`UnseenStep`, `IntactSeen`); what a tracee that died in a call leaves behind is seen
as the text before the call (`OrphanSeen`). The same invariant gives `CallsKeepTheText`.

The same holds of the other properties of run control. What one step of `Debugger` does
to them is stated in `DebuggerProofs` without temporal operators (`KeptStep`, `TrapStep`, `SlotsStep`,
`ClearStep`, `CauseStep`); the theorems `Calls...` of `InjectionProofs` use these lemmas for the steps
outside calls. `KeptSeen` and `ClearSeen` are the two invariants said of the text that is
seen, so that an `mmap`, whose svc covers a word that may be a trap, keeps them. Needed for all of
them is that a call does not leave a stop behind, which the wait of the next
command would take for its own: `AwaitedOutsideCalls`. A tracee that died in a call is the one
state where what is there is not what is seen; it stays dead (`DeadStaysInCalls`), so a
command on it reports no hit.

**The extent of the findings.** Each run that ends in a violation shows one way in which the
code departs from what a line of the repository says. For each of them a theorem says what
remains true, so that what was found is all there is of its kind:

| Run | Theorem | What remains true |
|---|---|---|
| `trap_width` | `FaultsOnlyBehindTraps` | The four zero bytes hurt only the instruction behind a trap, and only while that is armed. |
| `no_svc` | `SvcIsMissedOnlyAfterFailure` | With a page that was got and not sealed, `mprot` always executes its svc. |
| `lost_restore` | `RestoreLacksNoMore`, `NoWriteIsLost` | Of a restore that comes to its end all hits but the last are written; the last waits, with its old value, and the next access through the handle writes it or ends the checker. |
| `follow` | `EventsAreFollowed` | Where the kernel reports an event of the clone, its child is followed; a clone without one, that failed or was made with CLONE_VFORK, is the only way to nobody. |
| `prefix_match` | `CommandsAreAsAsked` | What runs is one of the commands the line begins with, and has the arguments of that line. |
| `bad_number` | `OnlyBadArgumentsAbort` | Besides such a number only the size of a memory read ends a session so: not a wrong count of arguments, not the arguments of an earlier line, not those of `mmap`. |

TLC found each of them true on the constants of a run before it was proved.

**Liveness.** A liveness theorem has the form `FairSpec /\ []X => P`, where `X` is one of the
invariants of section 3 named "never stuck". `X` is not an assumption about the
environment: it speaks of ENABLED alone, which no prover here can take apart, and
TLC checks it on the runs, where it holds of every reachable state (`CallsCanEnd` by way of
`CallComesBack`). What the theorems add, for
every value of the constants, is the rest of the argument: which states the code passes between
the request and the prompt, that no step of the tracee or of the user leads out
of them backwards, that each fair step goes on, and that the fairness of `Fairness` is
all that is needed. The states of each way are `DEFINE`d at the head of the proof;
`DeadSteps` (tracing), `SteppingSteps` and `StartSteps` (session) are the lemmas about one step.
`LastInv` says where the command that runs is the one that will be repeated.

Only model-checked: `WaitsCanEnd`, `CallsCanEnd`, `TracerNeverStuck` and `SessionNeverStuck`
(ENABLED); `StartEnds` as a whole and `LoopsEnd`, whose last step is an
induction over the parameters, the areas or the hits that are left, with a temporal formula as
its predicate, which the library's induction theorems do not take here. What each turn of those loops
does is proved for the start (`ArgumentsAreConsumed`, `StartsEndOnceParsed`). And of course the violations.

## 5. What is not modelled

- More than one thread in the tracee: a poke is seen by all threads, and another
  thread may run through a restored breakpoint.
- Addresses that are not instruction addresses: `bp` takes any number.
- The tracee's data and registers other than the pc: run control does not touch them.
- Kernel details of an injected call: a system call that the stop had interrupted and
  that the kernel would restart, and `exec` in the traced process, which drops the
  private page.
- Self-modifying tracees, and unmapping of text.
- PTRACE_GETREGSET failing on a living process: the registers would then be
  whatever is on the stack (`getRegisters`).
- The memory checker's `observeMemory` and `dumpMemory`, which read and print, and the
  buffer of its handle for reading: an area is taken to be read as it is at that
  moment. Short reads in the middle of an area count as unreadable, as in the code.
- What the traced process's descendants do after the switch to a child, the parent that is left
  stopped, and breakpoints in either.
- Errors of PTRACE_SETOPTIONS and of the checks for hardware registers: the code does
  not ask for their outcome.
- `/proc` access (`Memory.cpp`), output, the help text and pmparser: no state of
  their own, or vendored and unused.

## 6. Plan

The modules of the plan are written, checked and proved as far as section 4 says: run control
(`Tracee`, `Debugger`, `OneShot`), calls (`Injection`), tracing (`SyscallTracer`,
`Plugins`, `CallPairs`), sessions (`Session`) and the memory checker (`MemChecker`,
`Narrowing`). What a later step could add: a second thread of the tracee
in `Tracee`, which changes what a poke means, and a composition of `Session` with
`Debugger`, so that the commands of a session act on text and registers.
