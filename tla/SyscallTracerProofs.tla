------------------------ MODULE SyscallTracerProofs -------------------------
(***************************************************************************)
(* What syscall tracing guarantees for any table of calls and any plugins. *)
(***************************************************************************)
EXTENDS SyscallTracer, TLAPS

\* What a stop that was not handled yet says of the process.
Pending ==
  /\ stop # "none" => tstate = "stopped"
  /\ tstate = "running" => dbg \in {"wait", "cont"}
  /\ tstate = "starting" => dbg \notin {"wait", "cont", "handle"}
  /\ dbg \in {"start", "prompt", "again"} => stop = "none"
  /\ dbg = "handle" /\ tstate = "stopped" => stop \in Traps
  /\ stop = "enter" => place = "inside"
  /\ stop \in {"exit", "trap"} => place = "user"
  /\ stop = "event" => follow_fork /\ place # "user" /\ x8 \in {Clone, Outside}

\* What the history allows to say of the toggle beyond ToggleRight: `cont' runs
\* between calls, and while a call is open x8 and the read plugin know it.
Calm ==
  /\ dbg = "start" => syscall_enter
  /\ calm /\ dbg = "cont" => syscall_enter
  /\ calm /\ dbg = "cont" /\ tstate = "stopped" => place = "user"
  /\ calm /\ stop = "trap" => dbg = "cont"
  /\ calm /\ ~ syscall_enter => x8 \in Counted
  /\ calm /\ ~ syscall_enter /\ Dispatches(x8) => held = "last"

Inv == TypeOK /\ Pending /\ ToggleRight /\ Calm

LEMMA InvInit == Init => Inv
BY PluginAssumption, NumbersAssumption
DEF Init, Inv, TypeOK, PluginTypeOK, Holds, Traps, Numbers, Counted, Pending,
    ToggleRight, InShownCall, Calm

-----------------------------------------------------------------------------
(***************************************************************************)
(* Types.                                                                  *)
(***************************************************************************)

LEMMA TypeStep == TypeOK /\ Next => TypeOK'
<1> SUFFICES ASSUME TypeOK, Next PROVE TypeOK'
  OBVIOUS
<1> USE DEF TypeOK, PluginTypeOK, Holds, Traps
<1>1. CASE TraceeStep
  <2>1. ASSUME NEW n \in Numbers, EnterSyscall(n) PROVE TypeOK'
    BY <2>1 DEF EnterSyscall, StopFor, NewCall, tracerVars
  <2>2. ASSUME NEW n \in Numbers, ExitSyscall(n) PROVE TypeOK'
    BY <2>2 DEF ExitSyscall, StopFor, tracerVars
  <2>3. ASSUME NEW n \in Numbers, OwnTrap(n) PROVE TypeOK'
    BY <2>3 DEF OwnTrap, StopFor, tracerVars
  <2>4. CASE CloneEvent \/ Signal
    BY <2>4 DEF CloneEvent, Signal, StopFor, tracerVars
  <2>5. CASE Die \/ ChildStops
    BY <2>5 DEF Die, ChildStops, tracerVars
  <2> QED BY <1>1, <2>1, <2>2, <2>3, <2>4, <2>5 DEF TraceeStep
<1>2. ASSUME NEW enabled \in SUBSET PluginNames,
             Start(enabled) \/ StartRefused(enabled)
      PROVE  TypeOK'
  BY <1>2 DEF Start, StartRefused, checkForPlugins, kernelVars, tracerVars
<1>3. CASE ContinueOrStep \/ ContinueReturns \/ SingleStepFails \/ Quit
  BY <1>3 DEF ContinueOrStep, ContinueReturns, SingleStepFails, Quit, kernelVars,
              tracerVars
<1>4. ASSUME NEW strace \in BOOLEAN, syscallContinue(strace) PROVE TypeOK'
  BY <1>4 DEF syscallContinue, Request, RequestFails
<1>5. CASE Again
  BY <1>5 DEF Again, Request, RequestFails, tracerVars
<1>6. CASE SyscallStop \/ OtherSignal \/ TraceeGone
  BY <1>6 DEF SyscallStop, OtherSignal, TraceeGone, kernelVars, tracerVars
<1>7. CASE SkippedStop \/ UnnamedStop \/ CrashBehindTable
  BY <1>7 DEF SkippedStop, UnnamedStop, CrashBehindTable, LoopOrReturn, kernelVars,
              tracerVars
<1>8. ASSUME NEW n \in Counted \cup {Outside}, ShownStop(n) PROVE TypeOK'
  <2>1. held' \in Holds
    BY <1>8 DEF ShownStop, callBefore, callAfter, beforeSyscall, afterSyscall, Whose
  <2>2. /\ followed' \in {"parent", "child", "nobody"}
        /\ tstate' \in {"stopped", "running", "starting", "dead"}
        /\ place' \in {"user", "inside", "cloned"}
    BY <1>8 DEF ShownStop, Follow
  <2>3. syscall_enter' \in BOOLEAN /\ calm' \in BOOLEAN
    BY <1>8 DEF ShownStop
  <2> QED BY <1>8, <2>1, <2>2, <2>3 DEF ShownStop, LoopOrReturn
<1> QED BY <1>1, <1>2, <1>3, <1>4, <1>5, <1>6, <1>7, <1>8 DEF Next, Handle

\* The variables keep their types.
THEOREM TypesCorrect == Spec => []TypeOK
<1>1. Init => TypeOK
  BY InvInit DEF Inv
<1>2. TypeOK /\ [Next]_vars => TypeOK'
  <2>1. TypeOK /\ UNCHANGED vars => TypeOK'
    BY DEF TypeOK, PluginTypeOK, vars, kernelVars, tracerVars
  <2> QED BY <2>1, TypeStep
<1> QED BY <1>1, <1>2, PTL DEF Spec

-----------------------------------------------------------------------------
(***************************************************************************)
(* The toggle.                                                             *)
(***************************************************************************)

\* What is open is in Counted, and the number of an event that is counted is
\* the clone's.
LEMMA CountedNumbers ==
  /\ Clone \in Counted /\ Unlisted \notin Counted /\ Outside \notin Counted
  /\ Counted \subseteq Numbers
BY NumbersAssumption DEF Counted, Numbers

LEMMA TraceeKeeps == Inv /\ TraceeStep => (Pending /\ ToggleRight /\ Calm)'
<1> SUFFICES ASSUME Inv, TraceeStep PROVE (Pending /\ ToggleRight /\ Calm)'
  OBVIOUS
<1> USE DEF Inv, TypeOK, Pending, ToggleRight, Calm, InShownCall, Traps
<1>1. ASSUME NEW n \in Numbers, EnterSyscall(n)
      PROVE  (Pending /\ ToggleRight /\ Calm)'
  <2>1. /\ tstate = "running" /\ place = "user" /\ stop = "none"
        /\ dbg' = dbg /\ calm' = calm /\ syscall_enter' = syscall_enter
        /\ follow_fork' = follow_fork /\ place' = "inside"
        /\ dbg \in {"wait", "cont"}
    BY <1>1 DEF EnterSyscall, tracerVars
  <2>2. calm => syscall_enter
    BY <2>1
  <2>3. IF dbg = "wait" THEN tstate' = "stopped" /\ stop' = "enter"
                        ELSE tstate' = tstate /\ stop' = stop
    BY <1>1 DEF EnterSyscall, StopFor, Traced
  <2>4. Pending'
    BY <2>1, <2>3
  <2>5. ToggleRight'
    BY <2>1, <2>2, <2>3
  <2>6. Calm'
    BY <2>1, <2>2, <2>3
  <2> QED BY <2>4, <2>5, <2>6
<1>2. ASSUME NEW n \in Numbers, ExitSyscall(n)
      PROVE  (Pending /\ ToggleRight /\ Calm)'
  <2>1. /\ tstate = "running" /\ place # "user" /\ stop = "none"
        /\ dbg' = dbg /\ calm' = (calm /\ (n = x8 \/ dbg # "wait"))
        /\ syscall_enter' = syscall_enter
        /\ x8' = n /\ place' = "user" /\ registered' = registered /\ held' = held
        /\ dbg \in {"wait", "cont"}
    BY <1>2 DEF ExitSyscall, tracerVars, Traced
  <2>2. IF dbg = "wait" THEN tstate' = "stopped" /\ stop' = "exit"
                        ELSE tstate' = tstate /\ stop' = stop
    BY <1>2 DEF ExitSyscall, StopFor, Traced
  <2>3. Pending'
    BY <2>1, <2>2
  <2>4. ToggleRight'
    BY <2>1, <2>2
  <2>5. Calm'
    BY <2>1, <2>2 DEF Dispatches
  <2> QED BY <2>3, <2>4, <2>5
<1>3. CASE CloneEvent
  <2>1. /\ tstate = "running" /\ place = "inside" /\ stop = "none"
        /\ x8 \in {Clone, Outside} /\ follow_fork
        /\ dbg' = dbg /\ calm' = (calm /\ dbg = "wait")
        /\ syscall_enter' = syscall_enter /\ follow_fork' = follow_fork
        /\ x8' = x8 /\ place' = "cloned"
        /\ tstate' = "stopped" /\ stop' = "event"
        /\ registered' = registered /\ held' = held
        /\ dbg \in {"wait", "cont"}
    BY <1>3 DEF CloneEvent, tracerVars, Traced, StopFor
  <2> QED BY <2>1 DEF Dispatches
<1>4. ASSUME NEW n \in Numbers, OwnTrap(n)
      PROVE  (Pending /\ ToggleRight /\ Calm)'
  <2>1. /\ tstate = "running" /\ place = "user" /\ stop = "none"
        /\ dbg' = dbg /\ calm' = (calm /\ dbg # "wait")
        /\ syscall_enter' = syscall_enter
        /\ place' = "user" /\ tstate' = "stopped" /\ stop' = "trap"
        /\ dbg \in {"wait", "cont"}
    BY <1>4 DEF OwnTrap, tracerVars, Traced, StopFor
  <2> QED BY <2>1
<1>5. CASE Signal
  <2>1. /\ tstate = "running" /\ place = "user" /\ stop = "none"
        /\ dbg' = dbg /\ calm' = calm
        /\ syscall_enter' = syscall_enter /\ x8' = x8
        /\ place' = "user" /\ tstate' = "stopped" /\ stop' = "signal"
        /\ dbg \in {"wait", "cont"}
        /\ registered' = registered /\ held' = held
    BY <1>5 DEF Signal, tracerVars, StopFor
  <2> QED BY <2>1 DEF Dispatches
<1>6. CASE Die \/ ChildStops
  <2>1. /\ dbg' = dbg /\ calm' = calm /\ syscall_enter' = syscall_enter
        /\ x8' = x8 /\ place' = place
        /\ registered' = registered /\ held' = held
        /\ follow_fork' = follow_fork
        /\ \/ tstate' = "dead" /\ stop' = "none"
           \/ tstate = "starting" /\ tstate' = "stopped" /\ stop' = stop
    BY <1>6 DEF Die, ChildStops, tracerVars
  <2> QED BY <2>1 DEF Dispatches
<1> QED BY <1>1, <1>2, <1>3, <1>4, <1>5, <1>6 DEF TraceeStep

LEMMA CommandKeeps ==
  ASSUME Inv,
         \/ \E enabled \in SUBSET PluginNames : Start(enabled) \/ StartRefused(enabled)
         \/ ContinueOrStep \/ ContinueReturns \/ SingleStepFails \/ Quit
         \/ \E strace \in BOOLEAN : syscallContinue(strace)
         \/ Again
         \/ SyscallStop \/ OtherSignal \/ TraceeGone
  PROVE  (Pending /\ ToggleRight /\ Calm)'
<1> USE DEF Inv, TypeOK, Pending, ToggleRight, Calm, InShownCall, Traps
<1>1. ASSUME NEW enabled \in SUBSET PluginNames,
             Start(enabled) \/ StartRefused(enabled)
      PROVE  (Pending /\ ToggleRight /\ Calm)'
  BY <1>1 DEF Start, StartRefused, kernelVars, tracerVars
<1>2. CASE ContinueOrStep
  BY <1>2 DEF ContinueOrStep, tracerVars
<1>3. CASE ContinueReturns
  BY <1>3 DEF ContinueReturns, tracerVars, Dispatches
<1>4. CASE SingleStepFails \/ Quit
  BY <1>4 DEF SingleStepFails, Quit, kernelVars, tracerVars, Dispatches
<1>5. ASSUME Request, syscall_enter' = syscall_enter, calm' = calm,
             dbg \in {"prompt", "again"}, x8' = x8, place' = place,
             follow_fork' = follow_fork, registered' = registered, held' = held
      PROVE  (Pending /\ ToggleRight /\ Calm)'
  BY <1>5 DEF Request, RequestFails, Dispatches
<1>6. ASSUME NEW strace \in BOOLEAN, syscallContinue(strace)
      PROVE  (Pending /\ ToggleRight /\ Calm)'
  BY <1>5, <1>6 DEF syscallContinue
<1>7. CASE Again
  BY <1>5, <1>7 DEF Again, tracerVars
<1>8. CASE SyscallStop
  BY <1>8 DEF SyscallStop, kernelVars, tracerVars, Dispatches
<1>9. CASE OtherSignal
  BY <1>9 DEF OtherSignal, tracerVars, Dispatches
<1>10. CASE TraceeGone
  BY <1>10 DEF TraceeGone, kernelVars, tracerVars, Dispatches
<1> QED BY <1>1, <1>2, <1>3, <1>4, <1>6, <1>7, <1>8, <1>9, <1>10

\* A shown stop of a process that is there, with a toggle that is right: an
\* entry opens a call, anything else closes it, and a clone switches to a child
\* that is in none.
LEMMA ShownStopTurns ==
  ASSUME Inv, NEW n \in Counted \cup {Outside}, ShownStop(n), calm'
  PROVE  /\ n = x8 /\ x8 \in Counted /\ tstate = "stopped"
         /\ \/ /\ syscall_enter /\ stop = "enter"
               /\ place' = "inside" /\ tstate' = tstate
            \/ /\ ~ syscall_enter /\ stop \in {"exit", "event"}
               /\ place' = "user"
<1> USE DEF Inv, TypeOK, Pending, ToggleRight, Calm, InShownCall, Traps
<1>1. /\ dbg = "handle" /\ tstate = "stopped" /\ calm /\ n # Outside
      /\ n = x8 \/ tstate = "dead"
  BY DEF ShownStop, ReadsNumber
<1>2. n = x8 /\ x8 \in Counted
  BY <1>1
<1>3. stop \in {"enter", "exit", "event"}
  BY <1>1
<1>4. CASE stop = "enter"
  <2>1. syscall_enter /\ ~ Follows(n)
    BY <1>1, <1>4 DEF Follows
  <2> QED BY <1>1, <1>2, <1>4, <2>1 DEF ShownStop
<1>5. CASE stop = "exit"
  <2>1. ~ syscall_enter
    BY <1>1, <1>2, <1>5
  <2>2. place' = "user"
    BY <1>5 DEF ShownStop, Follow
  <2> QED BY <1>1, <1>2, <1>5, <2>1, <2>2
<1>6. CASE stop = "event"
  <2>1. ~ syscall_enter
    BY <1>1, <1>2, <1>6
  <2>2. x8 = Clone
    BY <1>1, <1>2, <1>6
  <2>3. Follows(n)
    BY <1>2, <1>6, <2>1, <2>2 DEF Follows
  <2>4. place' = "user"
    BY <2>3 DEF ShownStop, Follow
  <2> QED BY <1>1, <1>2, <1>6, <2>1, <2>4
<1> QED BY <1>3, <1>4, <1>5, <1>6

LEMMA ShownStopKeeps ==
  ASSUME Inv, NEW n \in Counted \cup {Outside}, ShownStop(n)
  PROVE  (Pending /\ ToggleRight /\ Calm)'
<1> USE DEF Inv, TypeOK, Pending, ToggleRight, Calm, InShownCall, Traps
<1>1. /\ dbg' \in {"again", "prompt"} /\ stop' = "none" /\ x8' = x8
      /\ registered' = registered /\ syscall_enter' = ~ syscall_enter
      /\ dbg = "handle"
  BY DEF ShownStop, LoopOrReturn
<1>2. tstate' = tstate \/ tstate' \in {"starting", "dead"}
  BY DEF ShownStop, Follow
<1>3. tstate' # "running"
  BY <1>1, <1>2
<1>4. Pending'
  BY <1>1, <1>3
<1>5. CASE ~ calm'
  BY <1>1, <1>4, <1>5
<1>6. CASE calm' /\ stop = "enter"
  <2>1. /\ n = x8 /\ x8 \in Counted /\ syscall_enter
        /\ place' = "inside" /\ stop = "enter"
    BY <1>6, ShownStopTurns
  <2>2. Dispatches(x8) => held' = "last"
    BY <2>1 DEF ShownStop, callBefore, beforeSyscall, Whose
  <2>3. Dispatches(x8)' => Dispatches(x8)
    BY <1>1 DEF Dispatches
  <2> QED BY <1>1, <1>4, <2>1, <2>2, <2>3
<1>7. CASE calm' /\ stop # "enter"
  <2>1. ~ syscall_enter /\ place' = "user"
    BY <1>7, ShownStopTurns
  <2> QED BY <1>1, <1>4, <2>1
<1> QED BY <1>5, <1>6, <1>7

LEMMA OtherStopKeeps ==
  ASSUME Inv, SkippedStop \/ UnnamedStop \/ CrashBehindTable
  PROVE  (Pending /\ ToggleRight /\ Calm)'
<1> USE DEF Inv, TypeOK, Pending, ToggleRight, Calm, InShownCall, Traps
<1>1. CASE CrashBehindTable
  BY <1>1 DEF CrashBehindTable, kernelVars, tracerVars
<1>2. CASE SkippedStop \/ UnnamedStop
  <2>1. /\ dbg = "handle" /\ dbg' \in {"again", "prompt"} /\ stop' = "none"
        /\ tstate' = tstate /\ place' = place /\ x8' = x8
        /\ syscall_enter' = syscall_enter /\ follow_fork' = follow_fork
        /\ registered' = registered /\ held' = held
        /\ calm' => calm /\ tstate = "stopped"
    BY <1>2 DEF SkippedStop, UnnamedStop, LoopOrReturn, tracerVars
  <2>2. calm' => x8 \notin Counted
    BY <1>2, CountedNumbers DEF SkippedStop, UnnamedStop, ReadsNumber, Counted
  <2> QED BY <2>1, <2>2 DEF Dispatches
<1> QED BY <1>1, <1>2

LEMMA InvStep == Inv /\ [Next]_vars => Inv'
<1>1. Inv /\ Next => (Pending /\ ToggleRight /\ Calm)'
  BY TraceeKeeps, CommandKeeps, ShownStopKeeps, OtherStopKeeps DEF Next, Handle
<1>2. Inv /\ Next => Inv'
  BY <1>1, TypeStep DEF Inv
<1>3. Inv /\ UNCHANGED vars => Inv'
  BY DEF Inv, TypeOK, PluginTypeOK, Pending, ToggleRight, Calm, InShownCall,
         Dispatches, vars, kernelVars, tracerVars
<1> QED BY <1>2, <1>3

LEMMA InvHolds == Spec => []Inv
BY InvInit, InvStep, PTL DEF Spec

\* While nothing but stops of calls was reported, the toggle is right.
THEOREM ToggleIsRight == Spec => []ToggleRight
<1>1. Inv => ToggleRight
  BY DEF Inv
<1> QED BY <1>1, InvHolds, PTL

-----------------------------------------------------------------------------
(***************************************************************************)
(* What is shown.                                                          *)
(***************************************************************************)

\* What is dumped after a read is the buffer of that read.
THEOREM ReadsShowTheirOwnBuffer == Spec => ReadShowsItsOwnBuffer
<1>1. Inv => (dbg = "handle" /\ calm /\ calm' /\ ~ syscall_enter /\ syscall_enter'
              /\ Dispatches(x8) => held = "last")
  BY DEF Inv, Calm
<1> QED BY <1>1, InvHolds, PTL DEF ReadShowsItsOwnBuffer

\* What remains of FollowsTheChild, "on return from clone we need to follow the
\* child" (a64dbg.cpp 212): with a toggle that is right, every event of a clone
\* switches to the child the event names, and no other stop switches but the exit
\* of a clone, which switches to nobody.  A clone that the tracer sees exit made no
\* event: it failed, or it made a child with CLONE_VFORK, of which the options of
\* line 345 ask no event.  That child is not followed.
FollowsEveryEvent ==
  [][calm' =>
       /\ dbg = "handle" /\ dbg' # "handle" /\ stop = "event" /\ x8 = Clone
            => followed' = "child" /\ tstate' = "starting"
       /\ followed' # followed
            => /\ dbg = "handle" /\ follow_fork /\ x8 = Clone /\ ~ syscall_enter
               /\ \/ stop = "event" /\ followed' = "child"
                  \/ stop = "exit" /\ followed' = "nobody"]_vars

THEOREM EventsAreFollowed == Spec => FollowsEveryEvent
<1> DEFINE Switch ==
      calm' =>
        /\ dbg = "handle" /\ dbg' # "handle" /\ stop = "event" /\ x8 = Clone
             => followed' = "child" /\ tstate' = "starting"
        /\ followed' # followed
             => /\ dbg = "handle" /\ follow_fork /\ x8 = Clone /\ ~ syscall_enter
                /\ \/ stop = "event" /\ followed' = "child"
                   \/ stop = "exit" /\ followed' = "nobody"
<1>1. ASSUME Inv, NEW n \in Counted \cup {Outside}, ShownStop(n), calm'
      PROVE  Switch
  <2>1. n = x8 /\ (~ syscall_enter => stop \in {"exit", "event"})
        /\ (syscall_enter => stop = "enter")
    BY <1>1, ShownStopTurns
  <2>2. stop = "event" /\ x8 = Clone => Follows(n)
    BY <1>1, <2>1 DEF Inv, TypeOK, Pending, Follows
  <2>3. followed' # followed => Follows(n)
    BY <1>1 DEF ShownStop
  <2>4. Follows(n) => Follow
    BY <1>1 DEF ShownStop
  <2> QED BY <1>1, <2>1, <2>2, <2>3, <2>4 DEF Follows, Follow, ShownStop
<1>2. ASSUME Inv, SkippedStop \/ UnnamedStop \/ CrashBehindTable, calm'
      PROVE  Switch
  <2>1. followed' = followed
    BY <1>2 DEF SkippedStop, UnnamedStop, CrashBehindTable, tracerVars
  <2>2. x8 # Clone
    BY <1>2, CountedNumbers
    DEF SkippedStop, UnnamedStop, CrashBehindTable, ReadsNumber, Counted, Inv, Pending
  <2> QED BY <2>1, <2>2
<1>3. ASSUME Next, ~ Handle
      PROVE  followed' = followed /\ (dbg = "handle" => dbg' = "handle")
  BY <1>3
  DEF Next, TraceeStep, EnterSyscall, ExitSyscall, OwnTrap, CloneEvent, Signal, Die,
      ChildStops, Start, StartRefused, ContinueOrStep, ContinueReturns,
      SingleStepFails, Quit, syscallContinue, Again, SyscallStop, OtherSignal,
      TraceeGone, tracerVars
<1>4. Inv /\ [Next]_vars => [Switch]_vars
  BY <1>1, <1>2, <1>3 DEF Handle
<1> QED BY <1>4, InvHolds, PTL DEF Spec, FollowsEveryEvent

LEMMA PairsStart == Init => Pairs!PairInit
BY DEF Init, Pairs!PairInit

LEMMA PairsStep == Inv /\ [Next]_vars => [Pairs!PairNext]_Pairs!pairVars
<1> SUFFICES ASSUME Inv, [Next]_vars PROVE [Pairs!PairNext]_Pairs!pairVars
  OBVIOUS
<1> DEFINE open == IF syscall_enter \/ ~ calm THEN Unlisted ELSE x8
<1> USE DEF Inv, TypeOK
<1>1. calm \in BOOLEAN /\ calm' \in BOOLEAN /\ syscall_enter \in BOOLEAN
  BY InvStep
<1>2. CASE ~ calm
  <2>1. ~ calm'
    BY <1>2 DEF Next, TraceeStep, EnterSyscall, ExitSyscall, OwnTrap, CloneEvent,
         Signal, Die, ChildStops, Start, StartRefused, ContinueOrStep,
         ContinueReturns, SingleStepFails, Quit, syscallContinue, Again,
         SyscallStop, OtherSignal, TraceeGone, Handle, SkippedStop, UnnamedStop,
         CrashBehindTable, ShownStop, vars
  <2> QED BY <1>1, <1>2, <2>1 DEF Pairs!pairVars
<1>3. CASE calm /\ ~ calm'
  BY <1>1, <1>3 DEF Pairs!PairNext, Pairs!Lose
<1>4. CASE calm /\ calm'
  <2>1. ASSUME NEW n \in Counted \cup {Outside}, ShownStop(n)
        PROVE  Pairs!PairNext
    <3>1. /\ x8 \in Counted /\ x8 # Unlisted /\ x8' = x8
          /\ syscall_enter' = ~ syscall_enter
      BY <1>4, <2>1, ShownStopTurns, CountedNumbers DEF ShownStop
    <3>2. CASE syscall_enter
      BY <1>4, <3>1, <3>2 DEF Pairs!PairNext, Pairs!Before
    <3>3. CASE ~ syscall_enter
      BY <1>4, <3>1, <3>3 DEF Pairs!PairNext, Pairs!After
    <3> QED BY <3>2, <3>3
  <2>2. ASSUME syscall_enter' = syscall_enter, syscall_enter \/ x8' = x8
        PROVE  UNCHANGED Pairs!pairVars
    BY <1>4, <2>2 DEF Pairs!pairVars
  <2>3. ASSUME NEW n \in Numbers, EnterSyscall(n) \/ ExitSyscall(n) \/ OwnTrap(n)
        PROVE  UNCHANGED Pairs!pairVars
    <3>1. syscall_enter' = syscall_enter
      BY <2>3 DEF EnterSyscall, ExitSyscall, OwnTrap, tracerVars
    <3>2. tstate = "running" /\ dbg \in {"wait", "cont"} /\ stop = "none"
      BY <2>3 DEF EnterSyscall, ExitSyscall, OwnTrap, Pending
    <3>3. CASE EnterSyscall(n)
      <4>1. syscall_enter
        BY <1>4, <3>2, <3>3 DEF EnterSyscall, ToggleRight, InShownCall, Calm
      <4> QED BY <2>2, <3>1, <4>1
    <3>4. CASE ExitSyscall(n)
      <4>1. syscall_enter \/ x8' = x8
        BY <1>4, <3>2, <3>4 DEF ExitSyscall, Calm, Traced
      <4> QED BY <2>2, <3>1, <4>1
    <3>5. CASE OwnTrap(n)
      <4>1. syscall_enter
        BY <1>4, <3>2, <3>5 DEF OwnTrap, Calm, Traced
      <4> QED BY <2>2, <3>1, <4>1
    <3> QED BY <2>3, <3>3, <3>4, <3>5
  <2>4. CASE CloneEvent \/ Signal \/ Die \/ ChildStops
    BY <2>2, <2>4 DEF CloneEvent, Signal, Die, ChildStops, tracerVars
  <2>5. ASSUME NEW enabled \in SUBSET PluginNames,
               Start(enabled) \/ StartRefused(enabled)
        PROVE  UNCHANGED Pairs!pairVars
    BY <2>2, <2>5 DEF Start, StartRefused, kernelVars, tracerVars
  <2>6. CASE ContinueOrStep \/ ContinueReturns \/ SingleStepFails \/ Quit
    BY <2>2, <2>6 DEF ContinueOrStep, ContinueReturns, SingleStepFails, Quit,
                      kernelVars, tracerVars
  <2>7. CASE (\E strace \in BOOLEAN : syscallContinue(strace)) \/ Again
    BY <2>2, <2>7 DEF syscallContinue, Again, tracerVars
  <2>8. CASE SyscallStop \/ OtherSignal \/ TraceeGone
    BY <2>2, <2>8 DEF SyscallStop, OtherSignal, TraceeGone, kernelVars, tracerVars
  <2>9. CASE SkippedStop \/ UnnamedStop \/ CrashBehindTable
    BY <2>2, <2>9 DEF SkippedStop, UnnamedStop, CrashBehindTable, kernelVars,
                      tracerVars
  <2>10. CASE UNCHANGED vars
    BY <2>2, <2>10 DEF vars, kernelVars, tracerVars
  <2> QED BY <2>1, <2>3, <2>4, <2>5, <2>6, <2>7, <2>8, <2>9, <2>10
          DEF Next, TraceeStep, Handle
<1> QED BY <1>1, <1>2, <1>3, <1>4

\* Entries and exits are shown in pairs.
THEOREM RefinesCallPairs == Spec => ImplementsCallPairs
BY PairsStart, PairsStep, InvHolds, PTL DEF Spec, ImplementsCallPairs, Pairs!PairSpec

-----------------------------------------------------------------------------
(***************************************************************************)
(* Liveness.  ENABLED is out of the provers' reach: that the debugger's    *)
(* fair actions can be taken when they are due, TracerNeverStuck, is a     *)
(* hypothesis, and an invariant of the run.                                *)
(***************************************************************************)

\* What the debugger does while its process is gone: to the next of the three
\* places, to the prompt, or out.
LEMMA DeadSteps ==
  ASSUME Inv, [Next]_vars, tstate = "dead"
  PROVE  /\ dbg = "wait" => dbg' = "done" \/ (dbg' = "wait" /\ tstate' = "dead")
         /\ dbg = "handle" => \/ dbg' = "handle" /\ tstate' = "dead"
                              \/ dbg' = "again" /\ tstate' = "dead"
                              \/ dbg' \in {"prompt", "done"}
         /\ dbg = "again" => dbg' = "prompt" \/ (dbg' = "again" /\ tstate' = "dead")
<1>1. stop = "none"
  BY DEF Inv, Pending
<1>2. CASE TraceeStep
  BY <1>2 DEF TraceeStep, EnterSyscall, ExitSyscall, CloneEvent, OwnTrap, Signal, Die,
              ChildStops
<1>3. ASSUME NEW enabled \in SUBSET PluginNames,
             Start(enabled) \/ StartRefused(enabled)
      PROVE  dbg = "start"
  BY <1>3 DEF Start, StartRefused
<1>4. CASE ContinueOrStep \/ ContinueReturns \/ SingleStepFails \/ Quit
  BY <1>4 DEF ContinueOrStep, ContinueReturns, SingleStepFails, Quit
<1>5. ASSUME NEW strace \in BOOLEAN, syscallContinue(strace) PROVE dbg = "prompt"
  BY <1>5 DEF syscallContinue
<1>6. CASE Again
  BY <1>6 DEF Again, Request, RequestFails
<1>7. CASE SyscallStop \/ OtherSignal \/ TraceeGone
  BY <1>7 DEF SyscallStop, OtherSignal, TraceeGone, kernelVars
<1>8. CASE SkippedStop \/ UnnamedStop \/ CrashBehindTable
  BY <1>8 DEF SkippedStop, UnnamedStop, CrashBehindTable, LoopOrReturn, kernelVars
<1>9. ASSUME NEW n \in Counted \cup {Outside}, ShownStop(n)
      PROVE  /\ dbg = "handle" /\ tstate' = "dead"
             /\ dbg' \in {"again", "prompt"}
  BY <1>1, <1>9 DEF ShownStop, Follow, LoopOrReturn
<1>10. CASE UNCHANGED vars
  BY <1>10 DEF vars, kernelVars
<1> QED
  BY <1>2, <1>3, <1>4, <1>5, <1>6, <1>7, <1>8, <1>9, <1>10 DEF Next, Handle

\* A process that is gone ends the loop of strace mode.
THEOREM StraceLoopEnds == FairSpec /\ []TracerNeverStuck => StraceEnds
<1> DEFINE Waits   == dbg = "wait" /\ tstate = "dead"
           Handles == dbg = "handle" /\ tstate = "dead"
           Asks    == dbg = "again" /\ tstate = "dead"
           Back    == dbg \in {"prompt", "done"}
<1>1. /\ Inv /\ Waits /\ [Next]_vars => Waits' \/ Back'
      /\ Inv /\ Handles /\ [Next]_vars => Handles' \/ Asks' \/ Back'
      /\ Inv /\ Asks /\ [Next]_vars => Asks' \/ Back'
  BY DeadSteps
<1>2. Waits /\ <<SyscallStop \/ OtherSignal \/ TraceeGone>>_vars => Back'
  BY DEF SyscallStop, OtherSignal, TraceeGone
<1>3. Inv /\ Handles /\ <<Handle>>_vars => Asks' \/ Back'
  <2> SUFFICES ASSUME Inv, Handles, Handle
               PROVE  Asks' \/ Back'
    OBVIOUS
  <2>1. dbg' # "handle"
    BY DEF Handle, SkippedStop, UnnamedStop, CrashBehindTable, ShownStop, LoopOrReturn
  <2> QED BY <2>1, DeadSteps DEF Next
<1>4. Asks /\ <<Again>>_vars => Back'
  BY DEF Again, Request, RequestFails
<1>5. /\ Waits => dbg = "wait" /\ tstate \in {"stopped", "dead"}
      /\ dbg \in {"wait", "handle", "again"} /\ tstate = "dead"
           => Waits \/ Handles \/ Asks
  OBVIOUS
<1> QED
  BY <1>1, <1>2, <1>3, <1>4, <1>5, InvHolds, PTL
  DEF FairSpec, Spec, Fairness, TracerNeverStuck, StraceEnds
=============================================================================
