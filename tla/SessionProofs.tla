--------------------------- MODULE SessionProofs ----------------------------
(***************************************************************************)
(* What a session guarantees for any words and any parameters.             *)
(***************************************************************************)
EXTENDS Session, SequenceTheorems, TLAPS

\* The status that was waited for, and what the start has brought so far.
Started ==
  /\ stage \in {"started", "args", "plugins", "start"} => process = "none"
  /\ stage \in {"started", "args", "plugins", "start", "await"} => wait_status = "zero"
  /\ wait_status = "stopped" => process \notin {"none", "starting"}

\* The parser keeps one line, the last that was understood.
OneLine ==
  /\ last_command # "NONE" =>
       /\ last_command \in Matching(asked.word)
       /\ commands[last_command].args_num # 0 => cmd_args = asked.args
  /\ stage = "issue" => command = last_command /\ command # "NONE"

Inv == TypeOK /\ PromptNeedsProcess /\ Started /\ OneLine

LEMMA InvInit == Init => Inv
<1> SUFFICES ASSUME Init PROVE Inv
  OBVIOUS
<1>1. argv \in Seq(Params)
  <2>1. Seq(Params) = UNION {[1..n -> Params] : n \in Nat}
    BY SeqDef
  <2>2. 0..MaxParams \subseteq Nat
    BY SessionAssumption
  <2> QED BY <2>1, <2>2 DEF Init
<1>2. NoArguments \in Arguments
  BY SessionAssumption DEF NoArguments, Arguments
<1> QED
  BY <1>1, <1>2
  DEF Init, Inv, TypeOK, StartTypeOK, ParserTypeOK, Stages, PromptNeedsProcess, Started,
      OneLine

-----------------------------------------------------------------------------
(***************************************************************************)
(* Types.                                                                  *)
(***************************************************************************)

LEMMA StartTypeKept == StartTypeOK /\ UNCHANGED startVars => StartTypeOK'
BY DEF StartTypeOK, startVars

LEMMA ParserTypeKept == ParserTypeOK /\ UNCHANGED parserVars => ParserTypeOK'
BY DEF ParserTypeOK, parserVars

LEMMA StartUpTypes ==
  ASSUME TypeOK, startUpArgs
  PROVE  TypeOK'
<1> USE DEF TypeOK, Stages
<1>1. argv \in Seq(Params)
  BY DEF StartTypeOK
<1>2. argv # <<>> => Tail(argv) \in Seq(Params)
  BY <1>1, HeadTailProperties
<1>3. SubSeq(argv, 3, Len(argv)) \in Seq(Params)
  <2>1. Len(argv) \in Nat /\ \A i \in 1..Len(argv) : argv[i] \in Params
    BY <1>1, LenProperties, ElementOfSeq
  <2>2. \A i \in 3..Len(argv) : argv[i] \in Params
    BY <2>1
  <2> QED BY <2>1, <2>2, SubSeqProperties
<1>4. <<>> \in Seq(Params)
  OBVIOUS
<1>5. ASSUME NEW s \in Stages, GoesTo(s), StartTypeOK' PROVE TypeOK'
  BY <1>5, ParserTypeKept DEF GoesTo
<1>6. CASE Usage
  <2>1. StartTypeOK'
    BY <1>6, StartTypeKept DEF Usage
  <2>2. GoesTo("done") \/ GoesTo("args")
    BY <1>6 DEF Usage, GoesTo
  <2> QED BY <1>5, <2>1, <2>2
<1>7. CASE ParseFollow
  <2>1. StartTypeOK'
    BY <1>2, <1>7 DEF ParseFollow, StartTypeOK
  <2> QED BY <1>5, <1>7, <2>1 DEF ParseFollow
<1>8. CASE ParsePid
  <2>1. StartTypeOK'
    BY <1>3, <1>4, <1>8 DEF ParsePid, StartTypeOK
  <2>2. GoesTo("done") \/ GoesTo("args") \/ GoesTo("aborted")
    BY <1>8 DEF ParsePid
  <2> QED BY <1>5, <2>1, <2>2
<1>9. CASE ParseBinary
  <2>1. StartTypeOK'
    BY <1>2, <1>9 DEF ParseBinary, StartTypeOK
  <2> QED BY <1>5, <1>9, <2>1 DEF ParseBinary
<1>10. CASE ArgsParsed
  <2>1. StartTypeOK'
    BY <1>10 DEF ArgsParsed, StartTypeOK
  <2> QED BY <1>5, <1>10, <2>1 DEF ArgsParsed
<1> QED BY <1>6, <1>7, <1>8, <1>9, <1>10 DEF startUpArgs

LEMMA TypeStep == TypeOK /\ Next => TypeOK'
<1> SUFFICES ASSUME TypeOK, Next PROVE TypeOK'
  OBVIOUS
<1> USE DEF TypeOK, Stages
<1>1. ASSUME startVars' = startVars, parserVars' = parserVars,
             stage' \in Stages, input_ended' \in BOOLEAN,
             process' \in {"none", "starting", "stopped", "running", "dead"},
             wait_status' \in {"zero", "stopped", "exited"}
      PROVE  TypeOK'
  BY <1>1, StartTypeKept, ParserTypeKept
<1>2. CASE StartProcess
  BY <1>1, <1>2 DEF StartProcess, CheckPlugins, Fork, Attach, AttachFails,
                    AwaitStart, GoesTo
<1>3. CASE Loop
  BY <1>1, <1>3 DEF Loop, GoesTo
<1>4. ASSUME NEW w \in TypedWords, NEW args \in Arguments, getCmd(w, args)
      PROVE  TypeOK'
  <2>1. PICK c \in Matching(w) :
          Understood(c, args) /\ asked' = [word |-> w, args |-> args] /\ Issues(c)
    BY <1>4 DEF getCmd
  <2>2. c \in Commands
    BY DEF Matching
  <2>3. ParserTypeOK'
    BY <2>1, <2>2 DEF ParserTypeOK, Understood, parseArgs, Issues
  <2>4. StartTypeOK'
    BY <2>1, StartTypeKept DEF Issues
  <2> QED BY <2>1, <2>3, <2>4 DEF Issues
<1>5. CASE RepeatLast
  <2>1. ParserTypeOK'
    BY <1>5 DEF ParserTypeOK, RepeatLast, Issues
  <2>2. StartTypeOK'
    BY <1>5, StartTypeKept DEF RepeatLast, Issues
  <2> QED BY <1>5, <2>1, <2>2 DEF RepeatLast, Issues
<1>6. CASE InputEnds
  BY <1>1, <1>6 DEF InputEnds
<1>7. CASE issueCommand
  BY <1>1, <1>7 DEF issueCommand, Exit, Show, WrongCount, stringToU64Throws,
     ReadMemoryThrows, ActAtOnce, InjectionGivesUp, Resumes, ContinueFails,
     SingleStepFails, GoesTo
<1>8. CASE WaitReturns
  BY <1>1, <1>8 DEF WaitReturns
<1>9. CASE Process
  BY <1>1, <1>9 DEF Process, ExecuteDebugee, ExecuteDebugeeFails, ProcessStops,
                    ProcessDies
<1> QED BY StartUpTypes, <1>2, <1>3, <1>4, <1>5, <1>6, <1>7, <1>8, <1>9 DEF Next

\* The variables keep their types.
THEOREM TypesCorrect == Spec => []TypeOK
<1>1. Init => TypeOK
  BY InvInit DEF Inv
<1>2. TypeOK /\ UNCHANGED vars => TypeOK'
  BY StartTypeKept, ParserTypeKept DEF TypeOK, vars
<1> QED BY <1>1, <1>2, TypeStep, PTL DEF Spec

-----------------------------------------------------------------------------
(***************************************************************************)
(* The start and the line that is run.                                     *)
(***************************************************************************)

LEMMA StartedStep == Inv /\ Next => (PromptNeedsProcess /\ Started)'
<1> SUFFICES ASSUME Inv, Next PROVE (PromptNeedsProcess /\ Started)'
  OBVIOUS
<1> USE DEF Inv, TypeOK, PromptNeedsProcess, Started
<1>1. CASE startUpArgs
  <2>1. /\ stage \in {"started", "args"}
        /\ stage' \in {"args", "plugins", "done", "aborted"}
        /\ process' = process /\ wait_status' = wait_status
    BY <1>1 DEF startUpArgs, Usage, ParseFollow, ParsePid, ParseBinary, ArgsParsed,
                GoesTo
  <2> QED BY <2>1
<1>2. CASE StartProcess
  BY <1>2 DEF StartProcess, CheckPlugins, Fork, Attach, AttachFails, AwaitStart,
              GoesTo
<1>3. CASE Loop
  BY <1>3 DEF Loop, GoesTo
<1>4. ASSUME NEW w \in TypedWords, NEW args \in Arguments, getCmd(w, args)
      PROVE  (PromptNeedsProcess /\ Started)'
  BY <1>4 DEF getCmd, Issues
<1>5. CASE RepeatLast \/ InputEnds
  BY <1>5 DEF RepeatLast, InputEnds, Issues
<1>6. CASE issueCommand
  BY <1>6 DEF issueCommand, Exit, Show, WrongCount, stringToU64Throws, ReadMemoryThrows,
              ActAtOnce, InjectionGivesUp, Resumes, ContinueFails, SingleStepFails, GoesTo
<1>7. CASE WaitReturns
  BY <1>7 DEF WaitReturns
<1>8. CASE Process
  BY <1>8 DEF Process, ExecuteDebugee, ExecuteDebugeeFails, ProcessStops, ProcessDies
<1> QED BY <1>1, <1>2, <1>3, <1>4, <1>5, <1>6, <1>7, <1>8 DEF Next

LEMMA OneLineStep == Inv /\ Next => OneLine'
<1> SUFFICES ASSUME Inv, Next PROVE OneLine'
  OBVIOUS
<1> USE DEF Inv, OneLine
<1>1. ASSUME NEW w \in TypedWords, NEW args \in Arguments, getCmd(w, args)
      PROVE  OneLine'
  <2>1. PICK c \in Matching(w) :
          /\ last_command' = c /\ command' = c
          /\ commands[c].args_num # 0 => cmd_args' = args
          /\ asked' = [word |-> w, args |-> args]
    BY <1>1 DEF getCmd, Understood, parseArgs, Issues
  <2>2. c # "NONE"
    BY <2>1 DEF Matching, Commands, commands
  <2> QED BY <2>1, <2>2
<1>2. CASE RepeatLast
  BY <1>2 DEF RepeatLast, Issues
<1>3. ASSUME UNCHANGED <<last_command, cmd_args, command, asked>>,
             stage' # "issue" \/ stage' = stage
      PROVE  OneLine'
  BY <1>3
<1>4. CASE startUpArgs
  <2>1. UNCHANGED <<last_command, cmd_args, command, asked>> /\ stage' # "issue"
    BY <1>4 DEF startUpArgs, Usage, ParseFollow, ParsePid, ParseBinary, ArgsParsed,
                GoesTo, parserVars
  <2> QED BY <1>3, <2>1
<1>5. CASE StartProcess \/ Loop \/ InputEnds
  BY <1>3, <1>5 DEF StartProcess, CheckPlugins, Fork, Attach, AttachFails,
     AwaitStart, Loop, InputEnds, GoesTo, parserVars
<1>6. CASE issueCommand \/ WaitReturns
  BY <1>3, <1>6 DEF issueCommand, Exit, Show, WrongCount, stringToU64Throws,
     ReadMemoryThrows, ActAtOnce, InjectionGivesUp, Resumes, ContinueFails,
     SingleStepFails, WaitReturns, GoesTo, parserVars
<1>7. CASE Process
  BY <1>3, <1>7 DEF Process, ExecuteDebugee, ExecuteDebugeeFails, ProcessStops,
     ProcessDies, parserVars
<1> QED BY <1>1, <1>2, <1>4, <1>5, <1>6, <1>7 DEF Next

LEMMA InvHolds == Spec => []Inv
<1>1. Inv /\ Next => Inv'
  BY TypeStep, StartedStep, OneLineStep DEF Inv
<1>2. Inv /\ UNCHANGED vars => Inv'
  BY StartTypeKept, ParserTypeKept
  DEF Inv, TypeOK, PromptNeedsProcess, Started, OneLine, vars, parserVars
<1> QED BY InvInit, <1>1, <1>2, PTL DEF Spec

\* The command that runs is one of the line that was understood last, and its
\* arguments are that line's.
THEOREM CommandsAreAsAsked == Spec => []IssuedAsAsked
<1>1. Inv => IssuedAsAsked
  BY DEF Inv, OneLine, IssuedAsAsked
<1> QED BY <1>1, InvHolds, PTL

\* No failed start ends at a prompt.
THEOREM PromptsNeedAProcess == Spec => []PromptNeedsProcess
<1>1. Inv => PromptNeedsProcess
  BY DEF Inv
<1> QED BY <1>1, InvHolds, PTL

\* What remains of MistypedNumbersAreReported (Utils.cpp 35): only an argument that
\* the code does not check ends a session so.  It is the one behind -p that is no
\* number, before there is a process; or it is in the last line that was understood,
\* which has as many arguments as its command wants: one that is no number, of a
\* command that reads its arguments (mmap reads none), or a size for which a memory
\* read gets no buffer (a64dbg.cpp 83).
AbortsOnlyOnBadArguments ==
  [][stage # "aborted" /\ stage' = "aborted" =>
       \/ /\ stage = "args" /\ process = "none"
          /\ Head(argv) = "-p" /\ Len(argv) > 1 /\ argv[2] \in {"-f", "-p", "name"}
       \/ /\ stage = "issue" /\ process \notin {"none", "starting"}
          /\ command \in Matching(asked.word)
          /\ commands[command].args_num # 0
          /\ asked.args.num = commands[command].args_num
          /\ \/ asked.args.value = "unreadable" /\ command # "MEM_MMAP"
             \/ asked.args.value = "huge" /\ command = "READ_MEMORY"]_vars

THEOREM OnlyBadArgumentsAbort == Spec => AbortsOnlyOnBadArguments
<1> DEFINE BadPid ==
             /\ stage = "args" /\ process = "none"
             /\ Head(argv) = "-p" /\ Len(argv) > 1 /\ argv[2] \in {"-f", "-p", "name"}
           BadLine ==
             /\ stage = "issue" /\ process \notin {"none", "starting"}
             /\ command \in Matching(asked.word)
             /\ commands[command].args_num # 0
             /\ asked.args.num = commands[command].args_num
             /\ \/ asked.args.value = "unreadable" /\ command # "MEM_MMAP"
                \/ asked.args.value = "huge" /\ command = "READ_MEMORY"
<1>1. ASSUME Inv, ParsePid, stage' = "aborted" PROVE BadPid
  BY <1>1 DEF ParsePid, GoesTo, Inv, Started
<1>2. ASSUME Inv, stringToU64Throws \/ ReadMemoryThrows PROVE BadLine
  <2>1. /\ stage = "issue" /\ last_command = command
        /\ command \in {"SET_BREAKPOINT", "SET_HW_BREAKPOINT", "READ_MEMORY", "MEM_MPROTECT"}
        /\ cmd_args.num = commands[command].args_num
        /\ \/ cmd_args.value = "unreadable"
           \/ cmd_args.value = "huge" /\ command = "READ_MEMORY"
    BY <1>2 DEF stringToU64Throws, ReadMemoryThrows, Counts, RightCount, Readable,
                Inv, OneLine
  <2>2. commands[command].args_num # 0 /\ command \notin {"MEM_MMAP", "NONE"}
    BY <2>1 DEF Commands, commands
  <2>3. cmd_args = asked.args /\ command \in Matching(asked.word)
    BY <1>2, <2>1, <2>2 DEF Inv, OneLine
  <2>4. process \notin {"none", "starting"}
    BY <1>2, <2>1 DEF Inv, PromptNeedsProcess
  <2> QED BY <2>1, <2>2, <2>3, <2>4
<1>3. ASSUME Next, stage # "aborted", stage' = "aborted"
      PROVE  ParsePid \/ stringToU64Throws \/ ReadMemoryThrows
  <2>1. CASE startUpArgs
    BY <1>3, <2>1
    DEF startUpArgs, Usage, ParseFollow, ParseBinary, ArgsParsed, GoesTo
  <2>2. CASE StartProcess \/ Loop
    BY <1>3, <2>2
    DEF StartProcess, CheckPlugins, Fork, Attach, AttachFails, AwaitStart, Loop, GoesTo
  <2>3. CASE issueCommand
    BY <1>3, <2>3
    DEF issueCommand, Exit, Show, WrongCount, ActAtOnce, InjectionGivesUp, Resumes,
        ContinueFails, SingleStepFails, GoesTo
  <2>4. ASSUME NEW w \in TypedWords, NEW args \in Arguments, getCmd(w, args)
        PROVE  FALSE
    BY <1>3, <2>4 DEF getCmd, Issues
  <2>5. CASE RepeatLast \/ InputEnds \/ WaitReturns \/ Process
    BY <1>3, <2>5
    DEF RepeatLast, InputEnds, Issues, WaitReturns, Process, ExecuteDebugee,
        ExecuteDebugeeFails, ProcessStops, ProcessDies
  <2> QED BY <1>3, <2>1, <2>2, <2>3, <2>4, <2>5 DEF Next
<1>4. Inv /\ [Next]_vars
        => [stage # "aborted" /\ stage' = "aborted" => BadPid \/ BadLine]_vars
  BY <1>1, <1>2, <1>3
<1> QED BY <1>4, InvHolds, PTL DEF Spec, AbortsOnlyOnBadArguments

-----------------------------------------------------------------------------
(***************************************************************************)
(* Liveness.  ENABLED is out of the provers' reach: that main() has        *)
(* somewhere to go, SessionNeverStuck, is a hypothesis, and an invariant   *)
(* of the run.                                                             *)
(***************************************************************************)

\* Where the last command can be what.
LastInv ==
  /\ stage \in {"started", "args", "plugins", "start", "await"} => last_command = "NONE"
  /\ stage \in {"issue", "waiting"} => command = last_command
  /\ stage = "aborted" => last_command # "NEXT"

LEMMA LastStep ==
  ASSUME LastInv, [Next]_vars
  PROVE  LastInv'
<1> USE DEF LastInv
<1>1. CASE startUpArgs
  <2>1. /\ stage \in {"started", "args"} /\ UNCHANGED <<last_command, command>>
        /\ stage' \in {"args", "plugins", "done", "aborted"}
    BY <1>1 DEF startUpArgs, Usage, ParseFollow, ParsePid, ParseBinary, ArgsParsed,
                GoesTo, parserVars
  <2> QED BY <2>1
<1>2. CASE StartProcess \/ Loop
  BY <1>2 DEF StartProcess, CheckPlugins, Fork, Attach, AttachFails, AwaitStart, Loop,
              GoesTo, parserVars
<1>3. ASSUME NEW w \in TypedWords, NEW args \in Arguments, getCmd(w, args)
      PROVE  LastInv'
  BY <1>3 DEF getCmd, Understood, Issues
<1>4. CASE RepeatLast \/ InputEnds
  BY <1>4 DEF RepeatLast, InputEnds, Issues, parserVars
<1>5. CASE issueCommand
  BY <1>5 DEF issueCommand, Exit, Show, WrongCount, stringToU64Throws, ReadMemoryThrows,
              ActAtOnce, InjectionGivesUp, Resumes, ContinueFails, SingleStepFails, Counts,
              GoesTo, parserVars
<1>6. CASE WaitReturns \/ Process
  BY <1>6 DEF WaitReturns, Process, ExecuteDebugee, ExecuteDebugeeFails, ProcessStops,
              ProcessDies, parserVars
<1>7. CASE UNCHANGED vars
  BY <1>7 DEF vars, parserVars
<1> QED BY <1>1, <1>2, <1>3, <1>4, <1>5, <1>6, <1>7 DEF Next

LEMMA LastInvHolds == Spec => []LastInv
<1>1. Init => LastInv
  BY DEF Init, LastInv
<1> QED BY <1>1, LastStep, PTL DEF Spec

\* Nothing is left but to repeat `next' on a process that is gone.
Stepping == input_ended /\ last_command = "NEXT" /\ process = "dead"

\* The way of such a session: waiting, or the prompt and the command again, to the
\* loop with a status that is no stop, and out.
LEMMA SteppingSteps ==
  ASSUME TypeOK, LastInv, [Next]_vars, Stepping
  PROVE  /\ Stepping' /\ stage \in {"loop", "prompt", "issue", "waiting", "done"}
         /\ stage \in {"prompt", "done"} => stage' = stage \/ stage' = "issue"
         /\ stage = "done" => stage' = "done"
         /\ stage = "loop" => UNCHANGED <<stage, wait_status>> \/ stage' \in {"prompt", "done"}
         /\ stage = "loop" /\ wait_status = "exited"
              => stage' = "done" \/ UNCHANGED <<stage, wait_status>>
         /\ stage \in {"issue", "waiting"}
              => stage' = stage \/ (stage' = "loop" /\ wait_status' = "exited")
<1> USE DEF Stepping, LastInv
<1>1. stage \in {"loop", "prompt", "issue", "waiting", "done"}
  BY DEF TypeOK, Stages
<1>2. CASE startUpArgs \/ StartProcess
  <2>1. stage \in {"started", "args", "plugins", "start", "await"}
    BY <1>2 DEF startUpArgs, Usage, ParseFollow, ParsePid, ParseBinary, ArgsParsed,
                StartProcess, CheckPlugins, Fork, Attach, AttachFails, AwaitStart
  <2> QED BY <1>1, <2>1
<1>3. CASE Loop
  BY <1>3 DEF Loop, GoesTo, parserVars
<1>4. ASSUME NEW w \in TypedWords, NEW args \in Arguments, getCmd(w, args)
      PROVE  FALSE
  BY <1>4 DEF getCmd
<1>5. CASE RepeatLast \/ InputEnds
  BY <1>5 DEF RepeatLast, InputEnds, Issues
<1>6. CASE issueCommand
  <2>1. stage = "issue" /\ command = "NEXT"
    BY <1>6 DEF issueCommand, Exit, Show, WrongCount, stringToU64Throws, ReadMemoryThrows,
                ActAtOnce, InjectionGivesUp, Resumes, ContinueFails, SingleStepFails
  <2>2. ~ Counts /\ ~ Injects
    BY <2>1 DEF Counts, Injects
  <2>3. SingleStepFails
    BY <1>6, <2>1, <2>2 DEF issueCommand, Exit, Show, WrongCount, stringToU64Throws,
       ReadMemoryThrows, ActAtOnce, InjectionGivesUp, Resumes, ContinueFails
  <2> QED BY <2>1, <2>3 DEF SingleStepFails, parserVars
<1>7. CASE WaitReturns
  BY <1>7 DEF WaitReturns, Injects, parserVars
<1>8. CASE Process
  BY <1>8 DEF Process, ExecuteDebugee, ExecuteDebugeeFails, ProcessStops, ProcessDies
<1>9. CASE UNCHANGED vars
  BY <1>1, <1>9 DEF vars, parserVars
<1> QED BY <1>1, <1>2, <1>3, <1>4, <1>5, <1>6, <1>7, <1>8, <1>9 DEF Next

\* At the end of the input `next' ends the session of a process that is gone.
THEOREM SteppingSessionsEnd == FairSpec /\ []SessionNeverStuck => SteppingEnds
<1> DEFINE Busy     == Stepping /\ stage \in {"issue", "waiting"}
           Leaving  == Stepping /\ stage = "loop" /\ wait_status = "exited"
           AtLoop   == Stepping /\ stage = "loop"
           AtPrompt == Stepping /\ stage = "prompt"
           Done     == stage = "done"
<1>1. /\ Inv /\ LastInv /\ Busy /\ [Next]_vars => Busy' \/ Leaving'
      /\ Inv /\ LastInv /\ Leaving /\ [Next]_vars => Leaving' \/ Done'
      /\ Inv /\ LastInv /\ AtLoop /\ [Next]_vars => AtLoop' \/ AtPrompt' \/ Done'
      /\ Inv /\ LastInv /\ AtPrompt /\ [Next]_vars => AtPrompt' \/ Busy'
  BY SteppingSteps DEF Inv
<1>2. /\ Inv /\ LastInv /\ Busy
           /\ <<startUpArgs \/ StartProcess \/ Loop \/ issueCommand \/ WaitReturns>>_vars
             => Leaving'
      /\ Inv /\ LastInv /\ AtLoop
           /\ <<startUpArgs \/ StartProcess \/ Loop \/ issueCommand \/ WaitReturns>>_vars
             => AtPrompt' \/ Done'
      /\ Inv /\ LastInv /\ Leaving
           /\ <<startUpArgs \/ StartProcess \/ Loop \/ issueCommand \/ WaitReturns>>_vars
             => Done'
  <2> SUFFICES ASSUME Inv, LastInv, Busy \/ AtLoop,
                      startUpArgs \/ StartProcess \/ Loop \/ issueCommand \/ WaitReturns
               PROVE  /\ stage' # stage
                      /\ Busy => Leaving'
                      /\ AtLoop => AtPrompt' \/ Done'
                      /\ Leaving => Done'
    OBVIOUS
  <2>1. stage' # stage
    BY DEF Stepping, startUpArgs, Usage, ParseFollow, ParsePid, ParseBinary, ArgsParsed,
           StartProcess, CheckPlugins, Fork, Attach, AttachFails, AwaitStart, Loop,
           issueCommand, Exit, Show, WrongCount, stringToU64Throws, ReadMemoryThrows,
           ActAtOnce, InjectionGivesUp, Resumes, ContinueFails, SingleStepFails,
           WaitReturns, GoesTo
  <2> QED BY <2>1, SteppingSteps DEF Next, Inv
<1>3. AtPrompt /\ <<input_ended /\ RepeatLast>>_vars => Busy'
  BY DEF Stepping, RepeatLast, Issues
<1>4. /\ Busy \/ AtLoop \/ Leaving
           => /\ ~ (stage \in {"prompt", "done", "aborted"})
              /\ ~ (stage = "await" /\ process = "starting")
              /\ ~ (stage = "waiting" /\ process = "running")
      /\ AtPrompt => stage = "prompt" /\ input_ended /\ last_command # "NONE"
  BY DEF Stepping
<1>5. Inv /\ LastInv /\ input_ended /\ last_command = "NEXT" /\ process = "dead"
        => Busy \/ AtLoop \/ AtPrompt \/ Done
  BY DEF Inv, TypeOK, Stages, LastInv, Stepping
<1> QED
  BY <1>1, <1>2, <1>3, <1>4, <1>5, InvHolds, LastInvHolds, PTL
  DEF FairSpec, Spec, Fairness, SessionNeverStuck, SteppingEnds

\* What a turn of the loop of startUpArgs leaves is shorter.
LEMMA ShorterArgs ==
  ASSUME Inv, argv # <<>>
  PROVE  /\ Len(argv) \in Nat \ {0}
         /\ Len(Tail(argv)) \in Nat /\ Len(Tail(argv)) < Len(argv)
         /\ Len(SubSeq(argv, 3, Len(argv))) \in Nat
         /\ Len(SubSeq(argv, 3, Len(argv))) < Len(argv)
<1>1. argv \in Seq(Params)
  BY DEF Inv, TypeOK, StartTypeOK
<1>2. Len(argv) \in Nat \ {0} /\ Len(Tail(argv)) = Len(argv) - 1
  BY <1>1, HeadTailProperties, EmptySeq, LenProperties
<1>3. \A i \in 3..Len(argv) : argv[i] \in Params
  BY <1>1, <1>2, ElementOfSeq
<1>4. Len(SubSeq(argv, 3, Len(argv)))
        = IF 3 <= Len(argv) THEN Len(argv) - 3 + 1 ELSE 0
  BY <1>2, <1>3, SubSeqProperties
<1> QED BY <1>2, <1>4

\* What the steps of main() do on the way from the parameters to a prompt.
LEMMA StartSteps ==
  ASSUME Inv, [Next]_vars
  PROVE  /\ stage = "args"
              => \/ stage' = "args" /\ (argv' = argv \/ Len(argv') < Len(argv))
                 \/ stage' \in {"plugins", "done", "aborted"}
         /\ stage = "plugins" => stage' \in {"plugins", "start", "done"}
         /\ stage = "start" => stage' \in {"start", "await", "done"}
         /\ stage = "await"
              => \/ stage' = "await" /\ (process' = process \/ process' # "starting")
                 \/ stage' = "loop"
         /\ stage = "loop" => stage' \in {"loop", "prompt", "done"}
<1>1. CASE startUpArgs
  <2>1. stage \in {"started", "args"}
    BY <1>1 DEF startUpArgs, Usage, ParseFollow, ParsePid, ParseBinary, ArgsParsed
  <2>2. CASE ArgsParsed
    BY <2>1, <2>2 DEF ArgsParsed, GoesTo
  <2>3. CASE Usage
    BY <2>1, <2>3 DEF Usage
  <2>5. CASE ParseFollow \/ ParseBinary
    BY <2>1, <2>5, ShorterArgs DEF ParseFollow, ParseBinary, GoesTo
  <2>6. CASE ParsePid
    BY <2>1, <2>6, ShorterArgs DEF ParsePid, GoesTo
  <2> QED BY <1>1, <2>2, <2>3, <2>5, <2>6 DEF startUpArgs
<1>2. CASE StartProcess \/ Loop
  BY <1>2 DEF StartProcess, CheckPlugins, Fork, Attach, AttachFails, AwaitStart, Loop,
              GoesTo
<1>3. ASSUME NEW w \in TypedWords, NEW args \in Arguments, getCmd(w, args)
      PROVE  stage = "prompt"
  BY <1>3 DEF getCmd
<1>4. CASE RepeatLast \/ InputEnds
  BY <1>4 DEF RepeatLast, InputEnds
<1>5. CASE issueCommand \/ WaitReturns
  <2>1. stage \in {"issue", "waiting"}
    BY <1>5 DEF issueCommand, Exit, Show, WrongCount, stringToU64Throws, ReadMemoryThrows,
                ActAtOnce, InjectionGivesUp, Resumes, ContinueFails, SingleStepFails,
                WaitReturns
  <2> QED BY <2>1
<1>6. CASE Process
  BY <1>6 DEF Process, ExecuteDebugee, ExecuteDebugeeFails, ProcessStops, ProcessDies,
              startVars
<1>7. CASE UNCHANGED vars
  BY <1>7 DEF vars, startVars
<1> QED BY <1>1, <1>2, <1>3, <1>4, <1>5, <1>6, <1>7 DEF Next

\* A turn of the loop of startUpArgs takes a parameter, or ends the loop.
LEMMA ArgsAreTaken ==
  ASSUME Inv, startUpArgs, stage = "args", stage' = "args"
  PROVE  Len(argv') # Len(argv)
<1>1. argv # <<>> /\ argv' \in {Tail(argv), SubSeq(argv, 3, Len(argv))}
  BY DEF startUpArgs, Usage, ParseFollow, ParsePid, ParseBinary, ArgsParsed, GoesTo
<1>2. Len(argv') < Len(argv) /\ Len(argv) \in Nat /\ Len(argv') \in Nat
  BY <1>1, ShorterArgs
<1> QED BY <1>2

\* The loop of startUpArgs goes on: with so many parameters left it comes to fewer,
\* to the end of the start, or to the plugins.
THEOREM ArgumentsAreConsumed ==
  ASSUME NEW n \in Nat
  PROVE  FairSpec /\ []SessionNeverStuck =>
           (stage = "args" /\ Len(argv) = n
              ~> (stage = "args" /\ Len(argv) < n) \/ stage \in {"plugins", "done", "aborted"})
<1> DEFINE Left   == stage = "args" /\ Len(argv) = n
           Fewer  == stage = "args" /\ Len(argv) < n
           Parsed == stage \in {"plugins", "done", "aborted"}
<1>1. Inv /\ Left /\ [Next]_vars => Left' \/ Fewer' \/ Parsed'
  BY StartSteps
<1>2. Inv /\ Left /\ <<startUpArgs \/ StartProcess \/ Loop \/ issueCommand \/ WaitReturns>>_vars
        => Fewer' \/ Parsed'
  <2> SUFFICES ASSUME Inv, Left,
                      startUpArgs \/ StartProcess \/ Loop \/ issueCommand \/ WaitReturns
               PROVE  Fewer' \/ Parsed'
    OBVIOUS
  <2>1. startUpArgs
    BY DEF StartProcess, CheckPlugins, Fork, Attach, AttachFails, AwaitStart, Loop,
           issueCommand, Exit, Show, WrongCount, stringToU64Throws, ReadMemoryThrows,
           ActAtOnce, InjectionGivesUp, Resumes, ContinueFails, SingleStepFails,
           WaitReturns
  <2>2. stage' = "args" => Len(argv') # Len(argv)
    BY <2>1, ArgsAreTaken
  <2> QED BY <2>1, <2>2, StartSteps DEF Next
<1>3. Left => /\ ~ (stage \in {"prompt", "done", "aborted"})
              /\ ~ (stage = "await" /\ process = "starting")
              /\ ~ (stage = "waiting" /\ process = "running")
  OBVIOUS
<1> QED
  BY <1>1, <1>2, <1>3, InvHolds, PTL DEF FairSpec, Spec, Fairness, SessionNeverStuck

\* Once its parameters are parsed, a start comes to a prompt or ends.
THEOREM StartsEndOnceParsed ==
  FairSpec /\ []SessionNeverStuck =>
    (stage \in {"plugins", "start", "await"} ~> stage \in {"prompt", "done", "aborted"})
<1> DEFINE Plugged  == stage = "plugins"
           AtStart  == stage = "start"
           Starting == stage = "await" /\ process = "starting"
           Awaiting == stage = "await" /\ ~ (process = "starting")
           AtLoop   == stage = "loop"
           Ended    == stage \in {"prompt", "done", "aborted"}
<1>1. /\ Inv /\ Plugged /\ [Next]_vars => Plugged' \/ AtStart' \/ Ended'
      /\ Inv /\ AtStart /\ [Next]_vars => AtStart' \/ Starting' \/ Awaiting' \/ Ended'
      /\ Inv /\ Starting /\ [Next]_vars => Starting' \/ Awaiting' \/ AtLoop'
      /\ Inv /\ Awaiting /\ [Next]_vars => Awaiting' \/ AtLoop'
      /\ Inv /\ AtLoop /\ [Next]_vars => AtLoop' \/ Ended'
  BY StartSteps
<1>2. /\ Inv /\ Plugged
           /\ <<startUpArgs \/ StartProcess \/ Loop \/ issueCommand \/ WaitReturns>>_vars
             => AtStart' \/ Ended'
      /\ Inv /\ AtStart
           /\ <<startUpArgs \/ StartProcess \/ Loop \/ issueCommand \/ WaitReturns>>_vars
             => Starting' \/ Awaiting' \/ Ended'
      /\ Inv /\ Awaiting
           /\ <<startUpArgs \/ StartProcess \/ Loop \/ issueCommand \/ WaitReturns>>_vars
             => AtLoop'
      /\ Inv /\ AtLoop
           /\ <<startUpArgs \/ StartProcess \/ Loop \/ issueCommand \/ WaitReturns>>_vars
             => Ended'
  <2> SUFFICES ASSUME Inv, Plugged \/ AtStart \/ Awaiting \/ AtLoop,
                      startUpArgs \/ StartProcess \/ Loop \/ issueCommand \/ WaitReturns
               PROVE  /\ Plugged => AtStart' \/ Ended'
                      /\ AtStart => Starting' \/ Awaiting' \/ Ended'
                      /\ Awaiting => AtLoop'
                      /\ AtLoop => Ended'
    OBVIOUS
  <2>1. stage' # stage
    BY DEF startUpArgs, Usage, ParseFollow, ParsePid, ParseBinary, ArgsParsed,
           StartProcess, CheckPlugins, Fork, Attach, AttachFails, AwaitStart, Loop,
           issueCommand, Exit, Show, WrongCount, stringToU64Throws, ReadMemoryThrows,
           ActAtOnce, InjectionGivesUp, Resumes, ContinueFails, SingleStepFails,
           WaitReturns, GoesTo
  <2> QED BY <2>1, StartSteps DEF Next
<1>3. Starting /\ <<process = "starting" /\ Process>>_vars => Awaiting' \/ AtLoop'
  BY DEF Process, ExecuteDebugee, ExecuteDebugeeFails, ProcessStops, ProcessDies
<1>4. /\ Plugged \/ AtStart \/ Awaiting \/ AtLoop
           => /\ ~ (stage \in {"prompt", "done", "aborted"})
              /\ ~ (stage = "await" /\ process = "starting")
              /\ ~ (stage = "waiting" /\ process = "running")
      /\ Starting => process = "starting"
      /\ stage \in {"plugins", "start", "await"}
           => Plugged \/ AtStart \/ Starting \/ Awaiting
  OBVIOUS
<1> QED
  BY <1>1, <1>2, <1>3, <1>4, InvHolds, PTL
  DEF FairSpec, Spec, Fairness, SessionNeverStuck
=============================================================================
