------------------------------ MODULE Session -------------------------------
(***************************************************************************)
(* A session of a64dbg from its arguments to its end: startUpArgs, the     *)
(* start of a process or the attach to one, and the command loop of main   *)
(* with the command parser (src/src/a64dbg.cpp, src/src/src/CmdParser.cpp, *)
(* src/src/src/Utils/Utils.cpp).  Of a command only what the session can   *)
(* tell is kept: its arguments, whether it waits for the process, and      *)
(* where the status of the wait goes.  What the commands do to the process *)
(* is in the modules Debugger, Injection and SyscallTracer.                *)
(***************************************************************************)
EXTENDS Naturals, Sequences

CONSTANTS
  TypedWords,   \* first words of the lines a user types
  PrefixesOf,   \* PrefixesOf[w]: the words of the table that w begins with
  MaxArgs,      \* bound: the most arguments a line has
  MaxParams     \* bound: the most parameters a64dbg is started with

-----------------------------------------------------------------------------
(***************************************************************************)
(* The table `commands'.                                                   *)
(***************************************************************************)

commands == [
  EXIT              |-> [cmd |-> {"q", "quit", "exit"},        args_num |-> 0],
  HELP              |-> [cmd |-> {"?", "help"},                args_num |-> 0],
  NEXT              |-> [cmd |-> {"n", "next"},                args_num |-> 0],
  CONTIN            |-> [cmd |-> {"c", "cont", "continue"},    args_num |-> 0],
  SET_BREAKPOINT    |-> [cmd |-> {"bp", "breakpoint"},         args_num |-> 1],
  SET_HW_BREAKPOINT |-> [cmd |-> {"hbp", "hbreakpoint"},       args_num |-> 2],
  READ_MEMORY       |-> [cmd |-> {"rm", "readm"},              args_num |-> 2],
  SHOW_REGS         |-> [cmd |-> {"re", "regs"},               args_num |-> 0],
  MEM_MPROTECT      |-> [cmd |-> {"mprot"},                    args_num |-> 3],
  MEM_MMAP          |-> [cmd |-> {"mmap"},                     args_num |-> 3]]

Commands == DOMAIN commands

TableWords == UNION {commands[c].cmd : c \in Commands}

ASSUME SessionAssumption ==
  /\ PrefixesOf \in [TypedWords -> SUBSET TableWords]
  /\ MaxArgs \in Nat /\ MaxParams \in Nat

\* The commands one of whose words the line begins with.
Matching(w) == {c \in Commands : commands[c].cmd \cap PrefixesOf[w] # {}}

\* Arguments: how many, and their value: one that stoull cannot read, numbers, or
\* numbers with one for which `new' may have no memory.
Arguments == [num : 0..MaxArgs, value : {"unreadable", "numbers", "huge"}]
NoArguments == [num |-> 0, value |-> "numbers"]

\* What a64dbg is started with: options, a number, the number -1, a name.
Params == {"-f", "-p", "number", "minus one", "name"}

VARIABLES
  stage,         \* where main() is
  argv,          \* the parameters not parsed yet
  follow_fork, attach_mode, target_pid, binary_name,
  process,       \* the traced process
  wait_status,   \* whether WIFSTOPPED holds of it
  input_ended,   \* getline is at the end of the input
  last_command, cmd_args,
  command,       \* what issueCommand runs
  asked          \* history: the last line that was understood, as typed

startVars == <<argv, follow_fork, attach_mode, target_pid, binary_name>>
parserVars == <<last_command, cmd_args, command, asked>>
vars == <<stage, startVars, process, wait_status, input_ended, parserVars>>

-----------------------------------------------------------------------------
(***************************************************************************)
(* startUpArgs, one action for each turn of its loop.  stoull throws       *)
(* std::invalid_argument, and no handler on the way catches it.            *)
(***************************************************************************)

GoesTo(s) == stage' = s /\ UNCHANGED <<process, wait_status, input_ended, parserVars>>

Usage ==
  /\ stage = "started"
  /\ GoesTo(IF argv = <<>> THEN "done" ELSE "args")
  /\ UNCHANGED startVars

ParseFollow ==
  /\ stage = "args" /\ argv # <<>> /\ Head(argv) = "-f"
  /\ follow_fork' = TRUE
  /\ argv' = Tail(argv)
  /\ GoesTo("args")
  /\ UNCHANGED <<attach_mode, target_pid, binary_name>>

ParsePid ==
  /\ stage = "args" /\ argv # <<>> /\ Head(argv) = "-p"
  /\ attach_mode' = TRUE
  /\ \/ /\ Len(argv) = 1
        /\ argv' = <<>>
        /\ GoesTo("done")
        /\ UNCHANGED target_pid
     \/ /\ Len(argv) > 1
        /\ argv' = SubSeq(argv, 3, Len(argv))
        /\ \/ argv[2] = "number" /\ target_pid' = "pid" /\ GoesTo("args")
           \/ argv[2] = "minus one" /\ target_pid' = "minus one" /\ GoesTo("done")
           \/ argv[2] \in {"-f", "-p", "name"} /\ GoesTo("aborted") /\ UNCHANGED target_pid
  /\ UNCHANGED <<follow_fork, binary_name>>

ParseBinary ==
  /\ stage = "args" /\ argv # <<>> /\ Head(argv) \notin {"-f", "-p"}
  /\ binary_name' = "given"
  /\ argv' = Tail(argv)
  /\ GoesTo("args")
  /\ UNCHANGED <<follow_fork, attach_mode, target_pid>>

ArgsParsed ==
  /\ stage = "args" /\ argv = <<>>
  /\ binary_name' = IF attach_mode THEN "" ELSE binary_name
  /\ GoesTo("plugins")
  /\ UNCHANGED <<argv, follow_fork, attach_mode, target_pid>>

-----------------------------------------------------------------------------
(***************************************************************************)
(* The rest of the start.                                                  *)
(***************************************************************************)

\* checkForPlugins accepts what is compiled in, or main returns -1.
CheckPlugins ==
  /\ stage = "plugins"
  /\ \E s \in {"start", "done"} : GoesTo(s)
  /\ UNCHANGED startVars

\* A fork that fails leaves -1 in tracee: nothing checks it.
Fork ==
  /\ stage = "start" /\ ~ attach_mode
  /\ process' \in {"starting", "none"}
  /\ stage' = "await"
  /\ UNCHANGED <<startVars, wait_status, input_ended, parserVars>>

\* PTRACE_ATTACH sends the process a stop.
Attach ==
  /\ stage = "start" /\ attach_mode
  /\ process' = "starting"
  /\ stage' = "await"
  /\ UNCHANGED <<startVars, wait_status, input_ended, parserVars>>

AttachFails ==
  /\ stage = "start" /\ attach_mode
  /\ GoesTo("done")
  /\ UNCHANGED startVars

\* execute_debugee: PTRACE_TRACEME and execvp succeed, and exec stops the child.
ExecuteDebugee ==
  /\ process = "starting" /\ ~ attach_mode
  /\ binary_name = "given"
  /\ process' = "stopped"
  /\ UNCHANGED <<stage, startVars, wait_status, input_ended, parserVars>>

\* Either of them fails: the child returns from main() and is gone.
ExecuteDebugeeFails ==
  /\ process = "starting" /\ ~ attach_mode
  /\ process' = "dead"
  /\ UNCHANGED <<stage, startVars, wait_status, input_ended, parserVars>>

\* Mutant of AwaitStart: only a stop ends the wait.
AwaitStop ==
  /\ stage = "await" /\ process = "stopped"
  /\ stage' = "loop"
  /\ wait_status' = "stopped"
  /\ UNCHANGED <<startVars, process, input_ended, parserVars>>

\* The first waitpid.  Where there is no child it fails at once and leaves the
\* zero that wait_status starts with.  PTRACE_SETOPTIONS and the two checks for
\* hardware registers follow; the outcome of none of them is asked.
AwaitStart ==
  /\ stage = "await" /\ process \in {"stopped", "dead", "none"}
  /\ stage' = "loop"
  /\ \/ process = "stopped" /\ wait_status' = "stopped"
     \/ process = "dead" /\ wait_status' = "exited"
     \/ process = "none" /\ UNCHANGED wait_status
  /\ UNCHANGED <<startVars, process, input_ended, parserVars>>

-----------------------------------------------------------------------------
(***************************************************************************)
(* The command loop.                                                       *)
(***************************************************************************)

\* Mutant of Loop: the first command is read before the status is asked.
LoopAsksLate ==
  /\ stage = "loop"
  /\ GoesTo(IF wait_status # "exited" THEN "prompt" ELSE "done")
  /\ UNCHANGED startVars

\* while (WIFSTOPPED(wait_status))
Loop ==
  /\ stage = "loop"
  /\ GoesTo(IF wait_status = "stopped" THEN "prompt" ELSE "done")
  /\ UNCHANGED startVars

\* Mutant of parseArgs: the arguments of the line before are not cleared.
parseArgsAppends(args) ==
  cmd_args' = [num |-> cmd_args.num + args.num, value |-> args.value]

parseArgs(args) == cmd_args' = args

Issues(c) ==
  /\ stage' = "issue"
  /\ command' = c
  /\ UNCHANGED <<startVars, process, wait_status, input_ended>>

\* Mutant of Understood: only commands with arguments are repeated.
UnderstoodWithArgs(c, args) ==
  \/ commands[c].args_num # 0 /\ parseArgs(args) /\ last_command' = c
  \/ commands[c].args_num = 0 /\ UNCHANGED <<cmd_args, last_command>>

Understood(c, args) ==
  /\ \/ commands[c].args_num # 0 /\ parseArgs(args)
     \/ commands[c].args_num = 0 /\ UNCHANGED cmd_args
  /\ last_command' = c

\* getCmd on a line with words.  The table is an unordered_map: which of several
\* matching commands comes first is not specified.
getCmd(w, args) ==
  /\ stage = "prompt" /\ ~ input_ended
  /\ \E c \in Matching(w) :
       /\ Understood(c, args)
       /\ asked' = [word |-> w, args |-> args]
       /\ Issues(c)

\* A line that is empty, or the line that is read behind the end of the input.
RepeatLast ==
  /\ stage = "prompt"
  /\ last_command # "NONE"
  /\ Issues(last_command)
  /\ UNCHANGED <<last_command, cmd_args, asked>>

InputEnds ==
  /\ stage = "prompt" /\ ~ input_ended
  /\ input_ended' = TRUE
  /\ UNCHANGED <<stage, startVars, process, wait_status, parserVars>>

-----------------------------------------------------------------------------
(***************************************************************************)
(* issueCommand.                                                           *)
(***************************************************************************)

Exit ==
  /\ stage = "issue" /\ command = "EXIT"
  /\ GoesTo("done")
  /\ UNCHANGED startVars

\* Commands that neither have arguments nor wait.
Show ==
  /\ stage = "issue" /\ command \in {"HELP", "SHOW_REGS"}
  /\ GoesTo("loop")
  /\ UNCHANGED startVars

\* The handlers that ask for their arguments count them first.
Counts == command \in {"SET_BREAKPOINT", "SET_HW_BREAKPOINT", "READ_MEMORY", "MEM_MPROTECT"}
RightCount == cmd_args.num = commands[command].args_num
Readable == cmd_args.value # "unreadable"

WrongCount ==
  /\ stage = "issue" /\ Counts /\ ~ RightCount
  /\ GoesTo("loop")
  /\ UNCHANGED startVars

\* stringToU64 catches a const char*, which stoull never throws.
stringToU64Throws ==
  /\ stage = "issue" /\ Counts /\ RightCount /\ ~ Readable
  /\ GoesTo("aborted")
  /\ UNCHANGED startVars

\* readTraceeMemory asks for the size it was given, and no handler on the way
\* catches what `new' throws where it cannot have it.
ReadMemoryThrows ==
  /\ stage = "issue" /\ command = "READ_MEMORY" /\ RightCount
  /\ cmd_args.value = "huge"
  /\ GoesTo("aborted")
  /\ UNCHANGED startVars

\* Breakpoints, and a memory read that got its buffer.
ActAtOnce ==
  /\ stage = "issue" /\ Counts /\ RightCount /\ Readable
  /\ command # "MEM_MPROTECT"
  /\ GoesTo("loop")
  /\ UNCHANGED startVars

\* mprot gives up where mmap was never run, or a number is -1; mmap, which
\* ignores its arguments, and mprot give up on a process that is gone.
Injects ==
  \/ command = "MEM_MMAP"
  \/ command = "MEM_MPROTECT" /\ RightCount /\ Readable

InjectionGivesUp ==
  /\ stage = "issue" /\ Injects
  /\ command = "MEM_MPROTECT" \/ process = "dead"
  /\ GoesTo("loop")
  /\ UNCHANGED startVars

\* The commands that resume the process and wait for it.
Resumes ==
  /\ stage = "issue" /\ process = "stopped"
  /\ command \in {"NEXT", "CONTIN"} \/ Injects
  /\ process' = "running"
  /\ stage' = "waiting"
  /\ UNCHANGED <<startVars, wait_status, input_ended, parserVars>>

\* On a process that is gone Continue returns with the status it had ...
ContinueFails ==
  /\ stage = "issue" /\ command = "CONTIN" /\ process = "dead"
  /\ GoesTo("loop")
  /\ UNCHANGED startVars

\* Mutant of SingleStepFails: it does as Continue does.
SingleStepKeepsStatus ==
  /\ stage = "issue" /\ command = "NEXT" /\ process = "dead"
  /\ GoesTo("loop")
  /\ UNCHANGED startVars

\* ... and doSingleStep with -1, which is not the status of a stop.
SingleStepFails ==
  /\ stage = "issue" /\ command = "NEXT" /\ process = "dead"
  /\ stage' = "loop"
  /\ wait_status' = "exited"
  /\ UNCHANGED <<startVars, process, input_ended, parserVars>>

\* The status of an injected step is the Connector's own.
WaitReturns ==
  /\ stage = "waiting" /\ process # "running"
  /\ stage' = "loop"
  /\ \/ Injects /\ UNCHANGED wait_status
     \/ ~ Injects /\ wait_status' = IF process = "stopped" THEN "stopped" ELSE "exited"
  /\ UNCHANGED <<startVars, process, input_ended, parserVars>>

-----------------------------------------------------------------------------
(***************************************************************************)
(* The process.                                                            *)
(***************************************************************************)

ProcessStops ==
  /\ process = "running" \/ (process = "starting" /\ attach_mode)
  /\ process' = "stopped"
  /\ UNCHANGED <<stage, startVars, wait_status, input_ended, parserVars>>

ProcessDies ==
  /\ process \in {"starting", "running", "stopped"}
  /\ process' = "dead"
  /\ UNCHANGED <<stage, startVars, wait_status, input_ended, parserVars>>

-----------------------------------------------------------------------------

Init ==
  /\ stage = "started"
  /\ argv \in UNION {[1..n -> Params] : n \in 0..MaxParams}
  /\ follow_fork = FALSE /\ attach_mode = FALSE
  /\ target_pid = "zero" /\ binary_name = ""
  /\ process = "none"
  /\ wait_status = "zero"
  /\ input_ended = FALSE
  /\ last_command = "NONE" /\ command = "NONE"
  /\ cmd_args = NoArguments
  /\ asked = [word |-> "NONE", args |-> NoArguments]

startUpArgs == Usage \/ ParseFollow \/ ParsePid \/ ParseBinary \/ ArgsParsed

StartProcess ==
  CheckPlugins \/ Fork \/ Attach \/ AttachFails \/ AwaitStart

issueCommand ==
  \/ Exit \/ Show \/ WrongCount \/ stringToU64Throws \/ ReadMemoryThrows \/ ActAtOnce
  \/ InjectionGivesUp \/ Resumes \/ ContinueFails \/ SingleStepFails

Process == ExecuteDebugee \/ ExecuteDebugeeFails \/ ProcessStops \/ ProcessDies

Next ==
  \/ startUpArgs \/ StartProcess
  \/ Loop
  \/ \E w \in TypedWords, args \in Arguments : getCmd(w, args)
  \/ RepeatLast \/ InputEnds
  \/ issueCommand \/ WaitReturns
  \/ Process

Spec == Init /\ [][Next]_vars

\* The debugger runs on, reads what there is to read, and its waits return; a
\* child executes its program or fails; an attached process gets its stop.
\* Nothing is assumed of the user before the end of the input.
Fairness ==
  /\ WF_vars(startUpArgs \/ StartProcess \/ Loop \/ issueCommand \/ WaitReturns)
  /\ WF_vars(input_ended /\ RepeatLast)
  /\ WF_vars(process = "starting" /\ Process)

FairSpec == Spec /\ Fairness

-----------------------------------------------------------------------------
(***************************************************************************)
(* Properties.                                                             *)
(***************************************************************************)

Stages == {"started", "args", "plugins", "start", "await", "loop", "prompt", "issue",
           "waiting", "done", "aborted"}

StartTypeOK ==
  /\ argv \in Seq(Params)
  /\ follow_fork \in BOOLEAN /\ attach_mode \in BOOLEAN
  /\ target_pid \in {"zero", "pid", "minus one"}
  /\ binary_name \in {"", "given"}

ParserTypeOK ==
  /\ last_command \in Commands \cup {"NONE"} /\ command \in Commands \cup {"NONE"}
  /\ cmd_args \in Arguments
  /\ asked \in [word : TypedWords \cup {"NONE"}, args : Arguments]

TypeOK ==
  /\ stage \in Stages
  /\ process \in {"none", "starting", "stopped", "running", "dead"}
  /\ wait_status \in {"zero", "stopped", "exited"}
  /\ input_ended \in BOOLEAN
  /\ StartTypeOK
  /\ ParserTypeOK

\* What is run is the last line that was understood, as a whole: however lines
\* with and without arguments, unknown lines, empty ones and the end of the
\* input follow each other, the command is one whose word that line begins with,
\* and no command gets the arguments of another line (CmdParser.cpp 7-22,
\* 96-136).
IssuedAsAsked ==
  stage = "issue" =>
    /\ command \in Matching(asked.word)
    /\ commands[command].args_num # 0 => cmd_args = asked.args

\* A command is read, and runs, only when the start has led to a process that
\* stopped: whatever the parameters, and whether fork, exec, attach or the
\* plugins fail, no failed start ends at a prompt (a64dbg.cpp 303-361).
PromptNeedsProcess ==
  stage \in {"prompt", "issue", "waiting"} =>
    wait_status = "stopped" /\ process \notin {"none", "starting"}

\* main() has somewhere to go from everywhere but its two waits: whatever the
\* parameters, the failed steps of the start, the command, its arguments and the
\* state of the process, some branch of the code takes it, and at the end of the
\* input the last command is read again (a64dbg.cpp 25-34, 236-376, CmdParser.cpp
\* 96-136).
SessionNeverStuck ==
  /\ \/ stage \in {"prompt", "done", "aborted"}
     \/ stage = "await" /\ process = "starting"
     \/ stage = "waiting" /\ process = "running"
     \/ ENABLED <<startUpArgs \/ StartProcess \/ Loop \/ issueCommand \/ WaitReturns>>_vars
  /\ process = "starting" => ENABLED <<process = "starting" /\ Process>>_vars
  /\ stage = "prompt" /\ input_ended /\ last_command # "NONE"
       => ENABLED <<input_ended /\ RepeatLast>>_vars

\* A start comes to a prompt or ends: main() waits for no process that does not
\* exist, and not for the stop of one that has failed (a64dbg.cpp 310-361).
StartEnds ==
  stage \in {"started", "args", "plugins", "start", "await"}
    ~> stage \in {"prompt", "done", "aborted"}

\* With `next' to repeat at the end of the input, a process that is gone ends
\* the session: the loop of main() does not run on over it (CmdParser.cpp
\* 101-105, a64dbg.cpp 271, 361).
SteppingEnds ==
  input_ended /\ last_command = "NEXT" /\ process = "dead" ~> stage = "done"

\* A number of a command that cannot be read is reported, "Could not convert to
\* u64" (Utils.cpp 35), and the session goes on.
MistypedNumbersAreReported ==
  [][stage = "issue" /\ ~ Readable => stage' # "aborted"]_vars
=============================================================================
