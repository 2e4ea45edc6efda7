-------------------------- MODULE InjectionProofs --------------------------
(***************************************************************************)
(* That run control does not notice `mmap' and `mprot', for every text,    *)
(* every choice of sites and any number of hardware registers.             *)
(***************************************************************************)
EXTENDS InjectionRefinement, DebuggerProofs

CleanText == \A x \in Text : mem[x] # "svc"

(***************************************************************************)
(* The inductive invariant.  A svc in the text stands where the call found *)
(* the pc, with its zero half behind it in the text, and what the call     *)
(* needs to undo itself is in regs_save and orig_inst.  Only the death of  *)
(* the tracee lets a call end with foreign registers or a svc left behind. *)
(***************************************************************************)
CallInv ==
  /\ InjectionTypeOK
  /\ Text \ LateText \subseteq mapped
  /\ dbg = "prompt" => sig = NoSignal /\ ~ stepping
  /\ dbg \in {"cont", "step"} /\ tstate = "stopped" => sig \in Stops
  /\ regs = "program" => pc \in mapped /\ CleanText
  /\ regs # "program" => tstate = "dead" \/ InCall
  /\ regs # "program" => regs_save.pc \in mapped
  /\ tstate = "running" \/ InCall => dbg \in {"cont", "step", "mmap", "mprot"}
  /\ InCall => regs # "program"
  /\ \A x \in Text : mem[x] = "svc" => x = regs_save.pc
  /\ dbg = "mmap" => /\ mem[regs_save.pc] = "svc"
                     /\ {regs_save.pc, regs_save.pc + 1} \subseteq mapped
                     /\ tstate = "running" => pc = regs_save.pc
  /\ dbg = "mprot" => /\ CleanText
                      /\ private_memory # NoMemory
                      /\ tstate = "running" => pc = private_memory

\* The addresses that are not text are none of the text.
LEMMA CallAddresses ==
  /\ Text \subseteq Int /\ MmapAt \subseteq Text
  /\ SwSites \subseteq Text /\ HwSites \subseteq Text
  /\ Private \subseteq Int /\ Private \cap Text = {}
  /\ PageAddr + 1 \notin Text /\ TextLen \notin Text /\ PageAddr \notin Text
  /\ PageAddr + 1 \in Int /\ TextLen \in Int
BY TraceeAssumption, SitesAssumption, MmapAssumption
DEF Text, Private, NoMemory, NullAddr, ErrorAddr, PageAddr

\* What a peek into clean text finds can be put back.
LEMMA PeekClean ==
  ASSUME CallInv, CleanText \/ tstate = "dead", NEW a
  PROVE  Peek(a) \in Dword
<1>1. CASE {a, a + 1} \subseteq mapped /\ tstate = "stopped"
  BY <1>1 DEF CallInv, InjectionTypeOK, CleanText, Peek, Dword, Word
<1>2. CASE ~ ({a, a + 1} \subseteq mapped /\ tstate = "stopped")
  BY <1>2 DEF Peek, Dword, Word
<1> QED BY <1>1, <1>2

\* Writing words that are no svc adds none, and takes away the one written over.
LEMMA PokedClean ==
  ASSUME CallInv, NEW a \in Text, NEW d \in Dword
  PROVE  /\ Poked(a, d) \in [Text -> Word \cup {"svc"}]
         /\ \A x \in Text : Poked(a, d)[x] = "svc" => mem[x] = "svc"
         /\ tstate = "stopped" /\ a \in mapped => Poked(a, d)[a] # "svc"
<1>1. d.lo \in Word /\ d.hi \in Word /\ "svc" \notin Word
  BY DEF Dword, Word
<1> QED BY <1>1 DEF CallInv, InjectionTypeOK, Poked

\* Needs ReadableCalls: an unread word could not be restored.
LEMMA CallInvariant ==
  ASSUME ReadableCalls
  PROVE  InjectionSpec => []CallInv
<1>1. InjectionInit => CallInv
  <2> SUFFICES ASSUME InjectionInit
               PROVE  CallInv
    OBVIOUS
  <2> USE DEF InjectionInit, Init, TraceeInit
  <2>1. /\ mem \in [Text -> Word \cup {"svc"}] /\ CleanText
        /\ pc \in Text /\ hw \in [Slots -> Text \cup {NoAddr}]
        /\ orig_inst \in Dword /\ private_memory \in Private
    BY DEF CleanText, Word, Dword, TrapWord, Private
  <2>2. /\ DOMAIN BreakPoints \subseteq SwSites
        /\ BreakPoints \in [DOMAIN BreakPoints -> Dword]
    OBVIOUS
  <2>3. regs_save \in [pc : Text \cup {NoAddr}, regs : {"program"}]
    OBVIOUS
  <2> QED
    BY <2>1, <2>2, <2>3
    DEF CallInv, InjectionTypeOK, InCall, Stops, NoSignal, CleanText
<1>2. CallInv /\ [InjectionNext]_injectionVars => CallInv'
  <2> SUFFICES ASSUME CallInv, [InjectionNext]_injectionVars
               PROVE  CallInv'
    OBVIOUS
  <2>1. ASSUME ~ InCall, Next, UNCHANGED callVars
        PROVE  CallInv'
    <3> USE <2>1 DEF callVars
    <3>1. ASSUME NEW a \in SwSites, setBreakPoint(a)
          PROVE  CallInv'
      <4>1. CleanText \/ tstate = "dead"
        BY DEF CallInv
      <4>2. Peek(a) \in Dword /\ TrapWord \in Dword /\ a \in Text
        BY <4>1, PeekClean, CallAddresses DEF TrapWord, Dword, Word
      <4>3. /\ mem' \in [Text -> Word \cup {"svc"}]
            /\ \A x \in Text : mem'[x] = "svc" => mem[x] = "svc"
        BY <3>1, <4>2, PokedClean DEF setBreakPoint
      <4>4. /\ DOMAIN BreakPoints' \subseteq SwSites
            /\ BreakPoints' \in [DOMAIN BreakPoints' -> Dword]
        BY <3>1, <4>2 DEF setBreakPoint, Insert, CallInv, InjectionTypeOK
      <4> QED
        BY <3>1, <4>3, <4>4
        DEF setBreakPoint, CallInv, InjectionTypeOK, CleanText, InCall
    <3>2. ASSUME NEW a \in HwSites, NEW n \in Slots, setHwBreakpoint(a, n)
          PROVE  CallInv'
      BY <3>2, CallAddresses
      DEF setHwBreakpoint, dbgVars, CallInv, InjectionTypeOK, CleanText, InCall
    <3>3. CASE Quit \/ Continue \/ doSingleStep \/ SingleStepFails
      <4> USE DEF CallInv, InjectionTypeOK, CleanText, InCall, Stops, NoSignal
      <4>1. CASE Quit \/ SingleStepFails
        BY <4>1 DEF Quit, SingleStepFails, traceeVars
      <4>2. CASE Continue \/ doSingleStep
        <5>1. /\ tstate' = "running" /\ dbg' \in {"cont", "step"}
              /\ stepping' \in BOOLEAN /\ tstate # "dead" /\ dbg = "prompt"
              /\ UNCHANGED <<mem, mapped, pc, hw, sig, BreakPoints, wait_status>>
          BY <4>2 DEF Continue, doSingleStep, Resume
        <5> QED BY <5>1
      <4> QED BY <3>3, <4>1, <4>2
    <3>4. CASE BreakpointHit
      <4>1. pc \in Text /\ BreakPoints[pc] \in Dword
        BY <3>4, CallAddresses DEF BreakpointHit, CallInv, InjectionTypeOK
      <4>2. /\ mem' \in [Text -> Word \cup {"svc"}]
            /\ \A x \in Text : mem'[x] = "svc" => mem[x] = "svc"
        BY <3>4, <4>1, PokedClean DEF BreakpointHit, Restored
      <4> QED
        BY <3>4, <4>2
        DEF BreakpointHit, Reported, CallInv, InjectionTypeOK, CleanText, InCall,
            Stops
    <3>5. CASE HwBreakpointCheck
      BY <3>5, CallAddresses
      DEF HwBreakpointCheck, Reported, CallInv, InjectionTypeOK, CleanText, InCall,
          Stops
    <3>6. CASE OtherSignal \/ TraceeGone \/ SingleStepReturns
      <4> USE DEF Reported, CallInv, InjectionTypeOK, CleanText, InCall, Stops, NoSignal
      <4>1. CASE OtherSignal
        BY <4>1 DEF OtherSignal
      <4>2. CASE TraceeGone
        BY <4>2 DEF TraceeGone
      <4>3. CASE SingleStepReturns
        BY <4>3 DEF SingleStepReturns
      <4> QED BY <3>6, <4>1, <4>2, <4>3
    <3>7. CASE TraceeStep /\ UNCHANGED dbgVars
      <4> USE DEF dbgVars, CallInv, InjectionTypeOK, CleanText, InCall, Stops
      <4>1. CASE HwTrap \/ BrkTrap \/ UndefinedInstruction \/ SignalStop
        BY <3>7, <4>1
        DEF HwTrap, BrkTrap, UndefinedInstruction, SignalStop, StopWith
      <4>2. CASE Execute
        BY <3>7, <4>2 DEF Execute
      <4>3. CASE MapLateText \/ Die
        BY <3>7, <4>3 DEF MapLateText, Die
      <4> QED BY <3>7, <4>1, <4>2, <4>3 DEF TraceeStep, CpuTrap
    <3> QED
      BY <3>1, <3>2, <3>3, <3>4, <3>5, <3>6, <3>7 DEF Next, ContinueReturns
  <2>2. CASE mmap
    <3>1. /\ regs = "program" /\ CleanText /\ pc \in mapped
          /\ {pc, pc + 1} \subseteq mapped /\ pc \in Text /\ pc \in Int
      BY <2>2, CallAddresses
      DEF mmap, StepInto, CallInv, InCall, ReadableCalls, InjectionTypeOK
    <3>2. orig_inst' \in Dword
      BY <2>2, <3>1, PeekClean DEF mmap
    <3>3. /\ mem' \in [Text -> Word \cup {"svc"}]
          /\ mem'[pc] = "svc"
          /\ \A x \in Text : mem'[x] = "svc" => x = pc
      BY <2>2, <3>1 DEF mmap, StepInto, Poked, SvcWord, CleanText, CallInv,
                        InjectionTypeOK, Word
    <3> QED
      BY <2>2, <3>1, <3>2, <3>3
      DEF mmap, StepInto, CallInv, InjectionTypeOK, InCall
  <2>3. CASE mmapReturns
    <3>1. /\ regs_save.regs = "program" /\ regs_save.pc \in mapped
          /\ regs_save.pc \in Text /\ orig_inst \in Dword
      BY <2>3 DEF mmapReturns, CallInv, InCall, InjectionTypeOK
    <3>2. mem' \in [Text -> Word \cup {"svc"}] /\ CleanText'
      BY <2>3, <3>1, PokedClean DEF mmapReturns, CleanText, CallInv
    <3>3. private_memory' \in Private
      BY <2>3 DEF mmapReturns, Results, Private
    <3> QED
      BY <2>3, <3>1, <3>2, <3>3
      DEF mmapReturns, Reported, CallInv, InjectionTypeOK, InCall, CleanText
  <2>4. CASE mprot
    <3> USE DEF CallInv, InCall
    <3>1. /\ regs = "program" /\ pc \in mapped /\ pc \in Text /\ CleanText
          /\ private_memory # NoMemory /\ InjectionTypeOK
      BY <2>4 DEF mprot, StepInto, InjectionTypeOK
    <3>2. /\ regs_save' = [pc |-> pc, regs |-> "program"] /\ regs' = "arguments"
          /\ tstate' = "running" /\ stepping' = TRUE /\ dbg' = "mprot"
          /\ pc' = private_memory
          /\ UNCHANGED <<mem, orig_inst, mapped, hw, sig, BreakPoints, wait_status,
                         private_memory, page>>
      BY <2>4, <3>1 DEF mprot, StepInto
    <3>3. InjectionTypeOK'
      BY <3>1, <3>2 DEF InjectionTypeOK
    <3> QED BY <3>1, <3>2, <3>3 DEF CleanText
  <2>5. CASE mprotReturns
    <3>1. /\ regs_save.regs = "program" /\ regs_save.pc \in mapped
          /\ regs_save.pc \in Text /\ CleanText
      BY <2>5 DEF mprotReturns, CallInv, InCall, InjectionTypeOK
    <3>2. InjectionTypeOK'
      BY <2>5, <3>1 DEF mprotReturns, Reported, CallInv, InjectionTypeOK
    <3> QED
      BY <2>5, <3>1, <3>2 DEF mprotReturns, Reported, CallInv, InCall, CleanText
  <2>6. CASE CallLosesTracee
    <3>1. InjectionTypeOK'
      BY <2>6 DEF CallLosesTracee, Reported, CallInv, InjectionTypeOK
    <3> QED
      BY <2>6, <3>1 DEF CallLosesTracee, Reported, CallInv, InCall, CleanText
  <2>7. CASE SvcRuns
    <3>1. InjectionTypeOK'
      BY <2>7, CallAddresses
      DEF SvcRuns, Fetched, dbgVars, CallInv, InjectionTypeOK, InCall, Stops
    <3> QED
      BY <2>7, <3>1 DEF SvcRuns, dbgVars, CallInv, InCall, CleanText
  <2>8. CASE StepFaults \/ StepTrapped \/ StepSignalled \/ TraceeDies
    <3>1. /\ InCall /\ UNCHANGED <<mem, mapped, pc, hw, stepping, dbgVars, callVars>>
          /\ \/ tstate = "running" /\ tstate' = "stopped" /\ sig' \in Stops
             \/ tstate' = "dead" /\ sig' = sig
      BY <2>8
      DEF StepFaults, StepTrapped, StepSignalled, TraceeDies, HwTrap, SignalStop, Die, StopWith,
          Stops
    <3>2. InjectionTypeOK'
      BY <3>1 DEF dbgVars, callVars, CallInv, InjectionTypeOK
    <3> QED BY <3>1, <3>2 DEF dbgVars, callVars, CallInv, InCall, CleanText
  <2>9. CASE UNCHANGED injectionVars
    BY <2>9
    DEF injectionVars, callVars, vars, traceeVars, CallInv, InjectionTypeOK,
        InCall, CleanText
  <2> QED
    BY <2>1, <2>2, <2>3, <2>4, <2>5, <2>6, <2>7, <2>8, <2>9
    DEF InjectionNext, CallStep
<1> QED BY <1>1, <1>2, PTL DEF InjectionSpec

-----------------------------------------------------------------------------
(***************************************************************************)
(* The refinement.  While the program owns its registers the mapping is    *)
(* the identity, so the steps of run control map to themselves; the steps  *)
(* of a call change nothing that is seen, but for the death of the tracee. *)
(***************************************************************************)

\* Without a svc in the text the text is seen as it is.
LEMMA CleanSeen == CallInv /\ CleanText => TextSeen = mem
<1> SUFFICES ASSUME CallInv, CleanText
             PROVE  TextSeen = mem
  OBVIOUS
<1>1. \A x \in Text : TextSeen[x] = mem[x]
  BY CallAddresses DEF TextSeen, CleanText
<1> QED BY <1>1 DEF TextSeen, CallInv, InjectionTypeOK

ProgramIsSeen ==
  /\ TextSeen = mem /\ PcSeen = pc /\ StateSeen = tstate
  /\ SigSeen = sig /\ SteppingSeen = stepping /\ DbgSeen = dbg

LEMMA ProgramSeen == CallInv /\ regs = "program" => ProgramIsSeen
<1> SUFFICES ASSUME CallInv, regs = "program"
             PROVE  ProgramIsSeen
  OBVIOUS
<1>1. ~ InCall /\ CleanText /\ stepping \in BOOLEAN
  BY DEF CallInv, InjectionTypeOK
<1> QED
  BY <1>1, CleanSeen
  DEF ProgramIsSeen, PcSeen, StateSeen, SigSeen, SteppingSeen, DbgSeen

\* The same after a step.
LEMMA SeenLater ==
  /\ (CallInv /\ regs = "program" => ProgramIsSeen)'
  /\ (CallInv /\ CleanText => TextSeen = mem)'
BY ProgramSeen, CleanSeen, PTL

\* A step of run control while the program owns its registers.
LEMMA OwnStep ==
  ASSUME ProgramIsSeen, ProgramIsSeen', Next
  PROVE  RunControl!Next
<1> USE DEF ProgramIsSeen
<1>1. ASSUME NEW a \in SwSites, setBreakPoint(a)
      PROVE  RunControl!setBreakPoint(a)
  BY <1>1
  DEF setBreakPoint, Poked, Peek, Insert, TrapWord,
      RunControl!setBreakPoint, RunControl!Poked, RunControl!Peek,
      RunControl!Insert, RunControl!TrapWord, RunControl!Text, Text
<1>2. ASSUME NEW a \in HwSites, NEW n \in Slots, setHwBreakpoint(a, n)
      PROVE  RunControl!setHwBreakpoint(a, n)
  BY <1>2
  DEF setHwBreakpoint, dbgVars, RunControl!setHwBreakpoint, RunControl!dbgVars
<1>3. Quit \/ SingleStepFails => RunControl!Quit \/ RunControl!SingleStepFails
  BY DEF Quit, SingleStepFails, traceeVars,
         RunControl!Quit, RunControl!SingleStepFails, RunControl!traceeVars
<1>4. Continue => RunControl!Continue
  BY DEF Continue, Resume, RunControl!Continue, RunControl!Resume
<1>5. doSingleStep => RunControl!doSingleStep
  BY DEF doSingleStep, Resume, RunControl!doSingleStep, RunControl!Resume
<1>6. BreakpointHit => RunControl!BreakpointHit
  BY DEF BreakpointHit, Restored, Poked, Reported, NoSignal, Text,
         RunControl!BreakpointHit, RunControl!Restored, RunControl!Poked,
         RunControl!Reported, RunControl!NoSignal, RunControl!Text
<1>7. HwBreakpointCheck => RunControl!HwBreakpointCheck
  BY DEF HwBreakpointCheck, ClearedBy, Reported, NoSignal, Slots, NoAddr,
         RunControl!HwBreakpointCheck, RunControl!ClearedBy,
         RunControl!Reported, RunControl!NoSignal, RunControl!Slots,
         RunControl!NoAddr
<1>8. OtherSignal => RunControl!OtherSignal
  BY DEF OtherSignal, Reported, NoSignal,
         RunControl!OtherSignal, RunControl!Reported, RunControl!NoSignal
<1>9. TraceeGone => RunControl!TraceeGone
  BY DEF TraceeGone, Reported, NoSignal,
         RunControl!TraceeGone, RunControl!Reported, RunControl!NoSignal
<1>10. SingleStepReturns => RunControl!SingleStepReturns
  BY DEF SingleStepReturns, Reported, NoSignal,
         RunControl!SingleStepReturns, RunControl!Reported, RunControl!NoSignal
<1>11. TraceeStep => RunControl!TraceeStep
  <2>1. HwArmedAt(pc) <=> RunControl!HwArmedAt(PcSeen)
    BY DEF HwArmedAt, RunControl!HwArmedAt, Slots, RunControl!Slots
  <2>2. \A s : StopWith(s) => RunControl!StopWith(s)
    BY DEF StopWith, RunControl!StopWith
  <2>3. HwTrap => RunControl!HwTrap
    BY <2>1, <2>2 DEF HwTrap, RunControl!HwTrap
  <2>4. BrkTrap => RunControl!BrkTrap
    BY <2>1, <2>2 DEF BrkTrap, RunControl!BrkTrap
  <2>5. UndefinedInstruction => RunControl!UndefinedInstruction
    BY <2>1, <2>2 DEF UndefinedInstruction, RunControl!UndefinedInstruction
  <2>6. Execute => RunControl!Execute
    BY <2>1 DEF Execute, RunControl!Execute
  <2>7. SignalStop => RunControl!SignalStop
    BY <2>2 DEF SignalStop, RunControl!SignalStop
  <2>8. MapLateText \/ Die => RunControl!MapLateText \/ RunControl!Die
    BY DEF MapLateText, Die, Text, RunControl!MapLateText, RunControl!Die,
           RunControl!Text
  <2> QED
    BY <2>3, <2>4, <2>5, <2>6, <2>7, <2>8
    DEF TraceeStep, CpuTrap, RunControl!TraceeStep, RunControl!CpuTrap
<1>12. UNCHANGED dbgVars => UNCHANGED RunControl!dbgVars
  BY DEF dbgVars, RunControl!dbgVars
<1> QED
  BY <1>1, <1>2, <1>3, <1>4, <1>5, <1>6, <1>7, <1>8, <1>9, <1>10, <1>11, <1>12
  DEF Next, ContinueReturns, RunControl!Next, RunControl!ContinueReturns,
      Slots, RunControl!Slots

\* The debugger on a tracee that died in a call: the text stays as it is.
LEMMA OrphanText ==
  ASSUME CallInv, regs # "program", ~ InCall, Next
  PROVE  /\ tstate = "dead" /\ ~ InCall'
         /\ UNCHANGED <<mem, mapped, pc, hw, tstate>>
         /\ \/ \E a \in SwSites : setBreakPoint(a)
            \/ Quit \/ SingleStepFails \/ TraceeGone \/ SingleStepReturns
<1>1. tstate = "dead" /\ InjectionTypeOK
  BY DEF CallInv
<1>2. ASSUME NEW a \in SwSites, setBreakPoint(a)
      PROVE  mem' = mem
  BY <1>1, <1>2 DEF setBreakPoint, Poked, InjectionTypeOK
<1>3. /\ \/ \E a \in SwSites : setBreakPoint(a)
         \/ Quit \/ SingleStepFails \/ TraceeGone \/ SingleStepReturns
      /\ UNCHANGED <<mapped, pc, hw, tstate>>
  BY <1>1
  DEF Next, ContinueReturns, setBreakPoint, setHwBreakpoint, Quit, Continue,
      Resume, BreakpointHit, HwBreakpointCheck, OtherSignal, TraceeGone,
      doSingleStep, SingleStepFails, SingleStepReturns, TraceeStep, CpuTrap,
      HwTrap, BrkTrap, UndefinedInstruction, Execute, SignalStop, MapLateText,
      Die, traceeVars
<1> QED
  BY <1>1, <1>2, <1>3
  DEF InCall, setBreakPoint, Quit, SingleStepFails, TraceeGone,
      SingleStepReturns, traceeVars

\* Nothing is ever erased from BreakPoints, or replaced in it.
LEMMA EntriesStay ==
  ASSUME Next
  PROVE  /\ DOMAIN BreakPoints \subseteq DOMAIN BreakPoints'
         /\ \A b \in DOMAIN BreakPoints : BreakPoints'[b] = BreakPoints[b]
BY DEF Next, ContinueReturns, setBreakPoint, Insert, setHwBreakpoint, Quit,
       Continue, Resume, BreakpointHit, HwBreakpointCheck, OtherSignal, TraceeGone,
       doSingleStep, SingleStepFails, SingleStepReturns, dbgVars, traceeVars

\* A step of the debugger on a tracee that died in a call.
LEMMA OrphanStep ==
  ASSUME CallInv, regs # "program", ~ InCall, Next, UNCHANGED callVars
  PROVE  RunControl!Next
<1>1. tstate = "dead" /\ InjectionTypeOK
  BY DEF CallInv
<1>2. /\ \/ \E a \in SwSites : setBreakPoint(a)
         \/ Quit \/ SingleStepFails \/ TraceeGone \/ SingleStepReturns
      /\ ~ InCall'
      /\ UNCHANGED <<mem, mapped, pc, hw, tstate>>
  BY OrphanText
<1>3. /\ UNCHANGED <<TextSeen, PcSeen>>
      /\ StateSeen = "dead" /\ StateSeen' = "dead"
      /\ SigSeen = sig /\ SigSeen' = sig'
      /\ SteppingSeen = stepping /\ SteppingSeen' = stepping'
      /\ DbgSeen = dbg /\ DbgSeen' = dbg'
  <2>1. stepping \in BOOLEAN /\ stepping' \in BOOLEAN
    BY <1>1, <1>2
    DEF InjectionTypeOK, setBreakPoint, Quit, SingleStepFails, TraceeGone,
        SingleStepReturns, Reported, traceeVars
  <2> QED
    BY <1>1, <1>2, <2>1
    DEF TextSeen, PcSeen, StateSeen, SigSeen, SteppingSeen, DbgSeen, callVars
<1>4. ASSUME NEW a \in SwSites, setBreakPoint(a)
      PROVE  RunControl!setBreakPoint(a)
  <2>1. RunControl!Peek(a) = Peek(a)
    BY <1>1, <1>3 DEF Peek, RunControl!Peek
  <2>2. RunControl!Poked(a, RunControl!TrapWord) = TextSeen
    BY <1>3 DEF RunControl!Poked, TextSeen, Text, RunControl!Text
  <2> QED
    BY <1>2, <1>3, <1>4, <2>1, <2>2
    DEF setBreakPoint, Insert, RunControl!setBreakPoint, RunControl!Insert
<1>5. Quit \/ SingleStepFails => RunControl!Quit \/ RunControl!SingleStepFails
  BY <1>1, <1>2, <1>3
  DEF Quit, SingleStepFails, traceeVars,
      RunControl!Quit, RunControl!SingleStepFails, RunControl!traceeVars
<1>6. TraceeGone => RunControl!TraceeGone
  BY <1>1, <1>2, <1>3
  DEF TraceeGone, Reported, NoSignal,
      RunControl!TraceeGone, RunControl!Reported, RunControl!NoSignal
<1>7. SingleStepReturns => RunControl!SingleStepReturns
  BY <1>1, <1>2, <1>3
  DEF SingleStepReturns, Reported, NoSignal,
      RunControl!SingleStepReturns, RunControl!Reported, RunControl!NoSignal
<1> QED
  BY <1>2, <1>4, <1>5, <1>6, <1>7 DEF RunControl!Next, RunControl!ContinueReturns

\* A step of a call: nothing that is seen moves, unless the tracee dies.
LEMMA UnseenStep ==
  ASSUME CallInv, CallInv', ReadableCalls, CallStep
  PROVE  /\ RunControl!Next \/ UNCHANGED RunControl!vars
         /\ UNCHANGED <<TextSeen, PcSeen, SigSeen, SteppingSeen, BreakPoints>>
         /\ DbgSeen = "prompt" /\ DbgSeen' = "prompt"
<1> USE DEF RunControl!vars, RunControl!traceeVars
<1>1. CASE mmap
  <2>1. /\ regs = "program" /\ regs' = "arguments" /\ regs_save'.pc = pc
        /\ tstate = "stopped" /\ tstate' = "running" /\ stepping \in BOOLEAN
        /\ dbg = "prompt" /\ dbg' = "mmap" /\ sig = NoSignal /\ ~ stepping
        /\ UNCHANGED <<mapped, hw, BreakPoints, wait_status>>
    BY <1>1 DEF mmap, StepInto, CallInv, InCall, InjectionTypeOK
  <2>2. ProgramIsSeen
    BY <2>1, ProgramSeen
  <2>3. /\ pc \in Text /\ pc + 1 \in Text /\ pc \in Int
        /\ {pc, pc + 1} \subseteq mapped /\ CleanText
    BY <1>1, <2>1, CallAddresses DEF mmap, ReadableCalls, CallInv
  <2>4. /\ orig_inst' = [lo |-> mem[pc], hi |-> mem[pc + 1]]
        /\ \A x \in Text : mem'[x] = IF x = pc THEN "svc"
                                     ELSE IF x = pc + 1 THEN "zero" ELSE mem[x]
    BY <1>1, <2>1, <2>3 DEF mmap, Peek, Poked, SvcWord
  <2>5. \A x \in Text : TextSeen'[x] = mem[x]
    BY <2>1, <2>3, <2>4, CallAddresses DEF TextSeen, CleanText
  <2>6. TextSeen' = mem
    BY <2>5 DEF TextSeen, CallInv, InjectionTypeOK
  <2> QED
    BY <2>1, <2>2, <2>6
    DEF ProgramIsSeen, PcSeen, StateSeen, SigSeen, SteppingSeen, DbgSeen, InCall
<1>2. CASE mmapReturns
  <2>1. /\ regs # "program" /\ regs' = "program" /\ pc' = regs_save.pc
        /\ tstate = "stopped" /\ tstate' = "stopped"
        /\ dbg = "mmap" /\ dbg' = "prompt" /\ sig' = NoSignal /\ stepping' = FALSE
        /\ UNCHANGED <<mapped, hw, BreakPoints, wait_status>>
    BY <1>2 DEF mmapReturns, Reported, CallInv, InCall, InjectionTypeOK
  <2>2. ProgramIsSeen'
    BY <2>1, SeenLater
  <2> DEFINE a == regs_save.pc
  <2>3. /\ a \in Text /\ a \in Int /\ mem[a] = "svc" /\ {a, a + 1} \subseteq mapped
        /\ \A x \in Text : mem[x] = "svc" => x = a
    BY <2>1, CallAddresses DEF CallInv, InjectionTypeOK
  <2>4. \A x \in Text : mem'[x] = IF x = a THEN orig_inst.lo
                                 ELSE IF x = a + 1 THEN orig_inst.hi ELSE mem[x]
    BY <1>2, <2>1, <2>3 DEF mmapReturns, Poked
  <2>5. \A x \in Text : TextSeen[x] = mem'[x]
    BY <2>3, <2>4, CallAddresses DEF TextSeen
  <2>6. TextSeen = mem'
    BY <2>5 DEF TextSeen, CallInv, InjectionTypeOK
  <2> QED
    BY <2>1, <2>2, <2>6
    DEF ProgramIsSeen, PcSeen, StateSeen, SigSeen, SteppingSeen, DbgSeen, InCall
<1>3. CASE mprot
  <2>1. /\ regs = "program" /\ regs' = "arguments" /\ regs_save'.pc = pc
        /\ tstate = "stopped" /\ tstate' = "running" /\ stepping \in BOOLEAN
        /\ dbg = "prompt" /\ dbg' = "mprot" /\ sig = NoSignal /\ ~ stepping
        /\ UNCHANGED <<mem, mapped, hw, BreakPoints, wait_status>>
    BY <1>3 DEF mprot, StepInto, CallInv, InCall, InjectionTypeOK
  <2>2. ProgramIsSeen
    BY <2>1, ProgramSeen
  <2>3. CleanText'
    BY <2>1 DEF CallInv
  <2>4. TextSeen' = mem'
    BY <2>3, SeenLater
  <2> QED
    BY <2>1, <2>2, <2>4
    DEF ProgramIsSeen, PcSeen, StateSeen, SigSeen, SteppingSeen, DbgSeen, InCall
<1>4. CASE mprotReturns
  <2>1. /\ regs # "program" /\ regs' = "program" /\ pc' = regs_save.pc
        /\ tstate = "stopped" /\ tstate' = "stopped"
        /\ dbg = "mprot" /\ dbg' = "prompt" /\ sig' = NoSignal /\ stepping' = FALSE
        /\ UNCHANGED <<mem, mapped, hw, BreakPoints, wait_status>>
    BY <1>4 DEF mprotReturns, Reported, CallInv, InCall, InjectionTypeOK
  <2>2. ProgramIsSeen'
    BY <2>1, SeenLater
  <2>3. TextSeen = mem
    BY <2>1, CleanSeen DEF CallInv
  <2> QED
    BY <2>1, <2>2, <2>3
    DEF ProgramIsSeen, PcSeen, StateSeen, SigSeen, SteppingSeen, DbgSeen, InCall
<1>5. CASE CallLosesTracee \/ SvcRuns \/ StepFaults \/ StepTrapped \/ StepSignalled
  <2>1. /\ regs # "program" /\ regs' # "program" /\ InCall
        /\ \/ tstate = "dead" /\ tstate' = "dead" /\ dbg' = "prompt"
              /\ sig' = NoSignal /\ stepping' = FALSE
           \/ tstate = "running" /\ tstate' = "stopped" /\ dbg' = dbg
        /\ UNCHANGED <<mem, mapped, hw, BreakPoints, wait_status, regs_save,
                       orig_inst>>
    BY <1>5
    DEF CallLosesTracee, SvcRuns, StepFaults, StepTrapped, StepSignalled, HwTrap, SignalStop,
        StopWith, Reported, dbgVars, callVars, CallInv, InCall
  <2>2. UNCHANGED <<TextSeen, PcSeen>>
    BY <2>1 DEF TextSeen, PcSeen
  <2> QED
    BY <2>1, <2>2 DEF StateSeen, SigSeen, SteppingSeen, DbgSeen, InCall
<1>6. CASE TraceeDies
  <2>1. /\ regs # "program" /\ InCall /\ tstate # "dead" /\ tstate' = "dead"
        /\ tstate \in {"running", "stopped"}
        /\ UNCHANGED <<mem, mapped, hw, dbg, BreakPoints, wait_status, regs,
                       regs_save, orig_inst>>
    BY <1>6 DEF TraceeDies, Die, dbgVars, callVars, CallInv, InjectionTypeOK
  <2>2. UNCHANGED <<TextSeen, PcSeen>>
    BY <2>1 DEF TextSeen, PcSeen
  <2>3. /\ StateSeen = "stopped" /\ StateSeen' = "dead" /\ DbgSeen = "prompt"
        /\ UNCHANGED <<SigSeen, SteppingSeen, DbgSeen>>
    BY <2>1 DEF StateSeen, SigSeen, SteppingSeen, DbgSeen, InCall
  <2> QED
    BY <2>1, <2>2, <2>3
    DEF RunControl!Next, RunControl!TraceeStep, RunControl!Die, RunControl!dbgVars
<1> QED BY <1>1, <1>2, <1>3, <1>4, <1>5, <1>6 DEF CallStep

\* Sessions with `mmap' and `mprot' are sessions of run control without them.
THEOREM CallsLeaveNoTrace ==
  ASSUME ReadableCalls
  PROVE  InjectionSpec => CallsAreInvisible
<1>1. InjectionInit => RunControl!Init
  <2> SUFFICES ASSUME InjectionInit
               PROVE  RunControl!Init
    OBVIOUS
  <2>1. ProgramIsSeen
    <3>1. \A x \in Text : TextSeen[x] = "orig"
      BY CallAddresses DEF InjectionInit, Init, TraceeInit, TextSeen
    <3>2. TextSeen = mem
      BY <3>1 DEF InjectionInit, Init, TraceeInit, TextSeen
    <3> QED
      BY <3>2
      DEF InjectionInit, Init, TraceeInit, ProgramIsSeen, PcSeen, StateSeen, SigSeen,
          SteppingSeen, DbgSeen, InCall
  <2> QED
    BY <2>1
    DEF InjectionInit, Init, TraceeInit, ProgramIsSeen, TrapWord, Text, Slots, NoAddr,
        NoSignal, RunControl!Init, RunControl!TraceeInit, RunControl!TrapWord,
        RunControl!Text, RunControl!Slots, RunControl!NoAddr, RunControl!NoSignal
<1>2. CallInv /\ CallInv' /\ [InjectionNext]_injectionVars
      => [RunControl!Next]_RunControl!vars
  <2> SUFFICES ASSUME CallInv, CallInv', [InjectionNext]_injectionVars
               PROVE  RunControl!Next \/ UNCHANGED RunControl!vars
    OBVIOUS
  <2>1. CASE ~ InCall /\ Next /\ UNCHANGED callVars
    <3>1. CASE regs = "program"
      BY <2>1, <3>1, ProgramSeen, SeenLater, OwnStep DEF callVars
    <3>2. CASE regs # "program"
      BY <2>1, <3>2, OrphanStep
    <3> QED BY <3>1, <3>2
  <2>2. CASE CallStep
    BY <2>2, UnseenStep
  <2>3. CASE UNCHANGED injectionVars
    BY <2>3
    DEF injectionVars, vars, traceeVars, callVars, TextSeen, PcSeen, StateSeen,
        SigSeen, SteppingSeen, DbgSeen, InCall, RunControl!vars,
        RunControl!traceeVars
  <2> QED BY <2>1, <2>2, <2>3 DEF InjectionNext
<1> QED
  BY <1>1, <1>2, CallInvariant, PTL
  DEF InjectionSpec, CallsAreInvisible, RunControl!Spec

\* A call executes its own svc or nothing.
THEOREM ForeignRegistersRunNoCode ==
  ASSUME ReadableCalls
  PROVE  InjectionSpec => []OnlySvcRuns
<1>1. CallInv => OnlySvcRuns
  BY CallAddresses
  DEF CallInv, OnlySvcRuns, InCall, Fetched, InjectionTypeOK
<1> QED BY <1>1, CallInvariant, PTL

\* The variables of the model keep their types.
THEOREM CallTypesCorrect ==
  ASSUME ReadableCalls
  PROVE  InjectionSpec => []InjectionTypeOK
<1>1. CallInv => InjectionTypeOK
  BY DEF CallInv
<1> QED BY <1>1, CallInvariant, PTL

\* Whatever happens in a call, a living tracee comes back with the registers, the
\* pc and the text it had.
THEOREM CallsRestore ==
  ASSUME ReadableCalls
  PROVE  InjectionSpec => []CallLeavesNothing
<1> DEFINE Covered(x) == x \in DOMAIN BreakPoints \/ x - 1 \in DOMAIN BreakPoints
           SeenConfined == \A x \in Text : TextSeen[x] # "orig" => Covered(x)
<1>1. InjectionInit => SeenConfined
  BY CallAddresses DEF InjectionInit, Init, TraceeInit, TextSeen
<1>2. CallInv /\ CallInv' /\ SeenConfined /\ [InjectionNext]_injectionVars
      => SeenConfined'
  <2> SUFFICES ASSUME CallInv, CallInv', SeenConfined, [InjectionNext]_injectionVars
               PROVE  SeenConfined'
    OBVIOUS
  <2>1. CASE ~ InCall /\ Next /\ UNCHANGED callVars
    <3>1. CASE regs = "program"
      <4>1. ProgramIsSeen /\ ProgramIsSeen'
        BY <2>1, <3>1, ProgramSeen, SeenLater DEF callVars
      <4>2. TypeOK
        BY <2>1, <3>1
        DEF CallInv, InjectionTypeOK, CleanText, InCall, TypeOK, TraceeTypeOK
      <4>3. DamageConfined
        BY <4>1 DEF ProgramIsSeen, DamageConfined
      <4>4. DamageConfined'
        BY <2>1, <4>2, <4>3, DamageStep
      <4> QED BY <4>1, <4>4 DEF ProgramIsSeen, DamageConfined
    <3>2. CASE regs # "program"
      <4>1. tstate = "dead" /\ mem' = mem
        BY <2>1, <3>2, OrphanText
      <4>2. DOMAIN BreakPoints \subseteq DOMAIN BreakPoints'
        BY <2>1, <4>1, EntriesStay
      <4>3. TextSeen' = TextSeen
        BY <2>1, <4>1 DEF TextSeen, callVars
      <4> QED BY <4>2, <4>3
    <3> QED BY <3>1, <3>2
  <2>2. CASE CallStep
    <3>1. UNCHANGED <<TextSeen, BreakPoints>>
      BY <2>2, UnseenStep
    <3> QED BY <3>1
  <2>3. CASE UNCHANGED injectionVars
    BY <2>3 DEF injectionVars, vars, traceeVars, callVars, TextSeen
  <2> QED BY <2>1, <2>2, <2>3 DEF InjectionNext
<1>3. CallInv /\ SeenConfined => CallLeavesNothing
  <2> SUFFICES ASSUME CallInv, SeenConfined, dbg = "prompt", tstate = "stopped"
               PROVE  regs = "program" /\ pc \in mapped /\ DamageConfined
    BY DEF CallLeavesNothing
  <2>1. regs = "program"
    BY DEF CallInv, InCall
  <2> QED BY <2>1, ProgramSeen DEF ProgramIsSeen, CallInv, DamageConfined
<1> QED BY <1>1, <1>2, <1>3, CallInvariant, PTL DEF InjectionSpec

-----------------------------------------------------------------------------
(***************************************************************************)
(* What run control promises, in sessions with calls.  What is seen of the *)
(* text stays intact: through a call nothing that is seen moves, and while *)
(* the program owns its registers run control's own lemmas apply.          *)
(***************************************************************************)

\* Run control's steps neither begin nor end in a call.
LEMMA NextStaysOutside == Next /\ ~ InCall => ~ InCall'
BY DEF Next, ContinueReturns, setBreakPoint, setHwBreakpoint, Quit, Continue,
       BreakpointHit, HwBreakpointCheck, OtherSignal, TraceeGone, doSingleStep,
       SingleStepFails, SingleStepReturns, dbgVars, InCall

\* Outside calls the tracee runs only while it is waited for, as without them: no
\* injected step leaves a stop for the wait of a later `cont' or `next'.
THEOREM AwaitedOutsideCalls ==
  ASSUME ReadableCalls
  PROVE  InjectionSpec => [](~ InCall => RunsOnlyWhileAwaited)
<1>1. InjectionInit => RunsOnlyWhileAwaited
  BY DEF InjectionInit, Init, TraceeInit, RunsOnlyWhileAwaited
<1>2. CallInv /\ CallInv' /\ (~ InCall => RunsOnlyWhileAwaited)
      /\ [InjectionNext]_injectionVars => (~ InCall => RunsOnlyWhileAwaited)'
  <2> SUFFICES ASSUME CallInv, ~ InCall => RunsOnlyWhileAwaited, ~ InCall',
                      [InjectionNext]_injectionVars
               PROVE  RunsOnlyWhileAwaited'
    OBVIOUS
  <2>1. CASE ~ InCall /\ Next
    BY <2>1, AwaitedStep
  <2>2. CASE mmapReturns \/ mprotReturns \/ CallLosesTracee
    BY <2>2 DEF mmapReturns, mprotReturns, CallLosesTracee, Reported,
                RunsOnlyWhileAwaited, NoSignal
  <2>3. CASE mmap \/ mprot \/ SvcRuns \/ StepFaults \/ StepTrapped \/ StepSignalled \/ TraceeDies
    BY <2>3 DEF mmap, mprot, StepInto, SvcRuns, StepFaults, StepTrapped, StepSignalled,
                TraceeDies, dbgVars, InCall
  <2>4. CASE UNCHANGED injectionVars
    BY <2>4 DEF injectionVars, vars, traceeVars, RunsOnlyWhileAwaited, InCall
  <2> QED BY <2>1, <2>2, <2>3, <2>4 DEF InjectionNext, CallStep
<1> QED BY <1>1, <1>2, CallInvariant, PTL DEF InjectionSpec

IntactSeen ==
  /\ \A x \in Text :
       /\ TextSeen[x] = "orig" \/ x \in ArmedSeen
          \/ (x - 1 \in ArmedSeen /\ TextSeen[x] = "zero")
       /\ x \in ArmedSeen => /\ x \in DOMAIN BreakPoints
                             /\ BreakPoints[x] = OrigDword
  /\ \A b \in ArmedSeen : TextSeen[b + 1] = "zero"
  /\ tstate # "dead" => \A b \in DOMAIN BreakPoints : BreakPoints[b] = OrigDword

\* While the program owns its registers this is run control's own invariant.
LEMMA IntactIsSeen ==
  ASSUME CallInv, ProgramIsSeen
  PROVE  IntactSeen <=> IntactInv
<1>1. ArmedSeen = Armed
  BY DEF ArmedSeen, Armed, ProgramIsSeen
<1> QED BY <1>1 DEF IntactSeen, IntactInv, TextIntact, ProgramIsSeen, CallInv

LEMMA IntactIsSeenLater ==
  (CallInv /\ ProgramIsSeen => (IntactSeen <=> IntactInv))'
BY IntactIsSeen, PTL

\* The invariants of run control, where its own steps start.
LEMMA OwnInvariants ==
  ASSUME CallInv, regs = "program", ~ InCall => RunsOnlyWhileAwaited
  PROVE  ~ InCall /\ ProgramIsSeen /\ TypeOK /\ RunsOnlyWhileAwaited
<1>1. ~ InCall /\ ProgramIsSeen
  BY ProgramSeen DEF CallInv
<1> QED
  BY <1>1 DEF CallInv, InjectionTypeOK, CleanText, InCall, TypeOK, TraceeTypeOK

\* The dead do not change what is seen of the text.
LEMMA OrphanSeen ==
  ASSUME CallInv, regs # "program", ~ InCall, Next, UNCHANGED callVars
  PROVE  UNCHANGED <<TextSeen, ArmedSeen, PcSeen>>
<1>1. mem' = mem
  BY OrphanText
<1> QED BY <1>1 DEF TextSeen, ArmedSeen, PcSeen, callVars

\* No step of a call revives a dead tracee.
LEMMA DeadStaysInCalls == CallStep /\ tstate = "dead" => tstate' = "dead"
BY DEF CallStep, mmap, mprot, StepInto, mmapReturns, mprotReturns, CallLosesTracee,
       SvcRuns, StepFaults, StepTrapped, StepSignalled, HwTrap, SignalStop, TraceeDies, Die

LEMMA IntactSeenInvariant ==
  ASSUME ReadableCalls, MappedSites, SpacedSites
  PROVE  InjectionSpec => []IntactSeen
<1> DEFINE Awaited == ~ InCall => RunsOnlyWhileAwaited
<1>1. InjectionInit => IntactSeen
  BY CallAddresses
  DEF InjectionInit, Init, TraceeInit, TextSeen, ArmedSeen, IntactSeen
<1>2. CallInv /\ CallInv' /\ Awaited /\ IntactSeen /\ [InjectionNext]_injectionVars
      => IntactSeen'
  <2> SUFFICES ASSUME CallInv, CallInv', Awaited, IntactSeen,
                      [InjectionNext]_injectionVars
               PROVE  IntactSeen'
    OBVIOUS
  <2>1. CASE ~ InCall /\ Next /\ UNCHANGED callVars
    <3>1. CASE regs = "program"
      <4>1. /\ ProgramIsSeen /\ TypeOK /\ RunsOnlyWhileAwaited
            /\ regs' = "program"
        BY <2>1, <3>1, OwnInvariants DEF callVars
      <4>2. ProgramIsSeen'
        BY <4>1, SeenLater
      <4>3. IntactInv'
        BY <2>1, <4>1, IntactIsSeen, IntactStep
      <4> QED BY <4>2, <4>3, IntactIsSeenLater
    <3>2. CASE regs # "program"
      <4>1. UNCHANGED <<TextSeen, ArmedSeen>> /\ tstate' = "dead"
        BY <2>1, <3>2, OrphanSeen, OrphanText
      <4> QED BY <2>1, <4>1, EntriesStay DEF IntactSeen
    <3> QED BY <3>1, <3>2
  <2>2. CASE CallStep
    <3>1. UNCHANGED <<TextSeen, BreakPoints>>
      BY <2>2, UnseenStep
    <3>2. tstate' # "dead" => tstate # "dead"
      BY <2>2, DeadStaysInCalls
    <3> QED BY <3>1, <3>2 DEF IntactSeen, ArmedSeen
  <2>3. CASE UNCHANGED injectionVars
    BY <2>3 DEF injectionVars, vars, traceeVars, callVars, TextSeen, ArmedSeen,
                IntactSeen
  <2> QED BY <2>1, <2>2, <2>3 DEF InjectionNext
<1> QED
  BY <1>1, <1>2, CallInvariant, AwaitedOutsideCalls, PTL DEF InjectionSpec

\* Whatever the calls borrowed, between them the real text is what run control
\* alone has made of it.
THEOREM CallsKeepTheText ==
  ASSUME ReadableCalls, MappedSites, SpacedSites
  PROVE  InjectionSpec => []TextIntactBetweenCalls
<1>1. CallInv /\ IntactSeen => TextIntactBetweenCalls
  <2> SUFFICES ASSUME CallInv, IntactSeen, ~ InCall, tstate # "dead"
               PROVE  TextIntact
    BY DEF TextIntactBetweenCalls
  <2>1. ProgramIsSeen
    BY ProgramSeen DEF CallInv
  <2> QED BY <2>1, IntactIsSeen DEF IntactInv
<1> QED BY <1>1, CallInvariant, IntactSeenInvariant, PTL

\* A trap that is seen, under a svc or not, goes only when `cont' reports the stop at
\* it: the real text alone loses a trap for the time of an mmap.
THEOREM CallsSpareTraps ==
  ASSUME ReadableCalls, MappedSites, SpacedSites
  PROVE  InjectionSpec => RunControl!TrapGoesOnlyByItsHit
<1> DEFINE Awaited == ~ InCall => RunsOnlyWhileAwaited
           Hit(a)  == TextSeen[a] = "brk" /\ TextSeen'[a] # "brk"
                        => DbgSeen = "cont" /\ SigSeen = "TRAP" /\ PcSeen = a
<1>1. CallInv /\ CallInv' /\ Awaited /\ IntactSeen /\ [InjectionNext]_injectionVars
      => [\A a \in RunControl!Text : Hit(a)]_RunControl!vars
  <2> SUFFICES ASSUME CallInv, CallInv', Awaited, IntactSeen,
                      [InjectionNext]_injectionVars,
                      NEW a \in Text, TextSeen[a] = "brk", TextSeen'[a] # "brk"
               PROVE  DbgSeen = "cont" /\ SigSeen = "TRAP" /\ PcSeen = a
    BY DEF Text, RunControl!Text
  <2>1. CASE ~ InCall /\ Next /\ UNCHANGED callVars
    <3>1. CASE regs = "program"
      <4>1. /\ ProgramIsSeen /\ TypeOK /\ RunsOnlyWhileAwaited
            /\ regs' = "program"
        BY <2>1, <3>1, OwnInvariants DEF callVars
      <4>2. mem[a] = "brk" /\ mem'[a] # "brk"
        BY <4>1, SeenLater DEF ProgramIsSeen
      <4>3. dbg = "cont" /\ sig = "TRAP" /\ pc = a
        BY <2>1, <4>1, <4>2, IntactIsSeen, TrapStep
      <4> QED BY <4>1, <4>3 DEF ProgramIsSeen
    <3>2. CASE regs # "program"
      BY <2>1, <3>2, OrphanSeen
    <3> QED BY <3>1, <3>2
  <2>2. CASE CallStep
    BY <2>2, UnseenStep
  <2>3. CASE UNCHANGED injectionVars
    BY <2>3 DEF injectionVars, vars, traceeVars, callVars, TextSeen
  <2> QED BY <2>1, <2>2, <2>3 DEF InjectionNext
<1> QED
  BY <1>1, CallInvariant, AwaitedOutsideCalls, IntactSeenInvariant, PTL
  DEF InjectionSpec, RunControl!TrapGoesOnlyByItsHit

\* What KeptInv says, of the text that is seen.
KeptSeen ==
  /\ \A x \in Text : TextSeen[x] # "orig" /\ Readable(x) => Kept(x)
  /\ tstate # "dead"
       => \A b \in DOMAIN BreakPoints : \A x \in {b, b + 1} : Readable(x) => Kept(x)

LEMMA KeptIsSeen ==
  ASSUME CallInv, ProgramIsSeen
  PROVE  KeptSeen <=> KeptInv
BY DEF KeptSeen, KeptInv, OriginalKept, ProgramIsSeen, CallInv

LEMMA KeptIsSeenLater == (CallInv /\ ProgramIsSeen => (KeptSeen <=> KeptInv))'
BY KeptIsSeen, PTL

\* Also with calls between them, overlapping, repeated and re-armed breakpoints
\* never lose the instruction a poke replaced: what an mmap peeks and puts back
\* is never an entry, and no entry is taken from its svc.
THEOREM CallsKeepOriginals ==
  ASSUME ReadableCalls
  PROVE  InjectionSpec => [](~ InCall /\ tstate # "dead" => OriginalKept)
<1> DEFINE Awaited == ~ InCall => RunsOnlyWhileAwaited
<1>1. InjectionInit => KeptSeen
  BY CallAddresses DEF InjectionInit, Init, TraceeInit, TextSeen, KeptSeen
<1>2. CallInv /\ CallInv' /\ Awaited /\ KeptSeen /\ [InjectionNext]_injectionVars
      => KeptSeen'
  <2> SUFFICES ASSUME CallInv, CallInv', Awaited, KeptSeen,
                      [InjectionNext]_injectionVars
               PROVE  KeptSeen'
    OBVIOUS
  <2>1. CASE ~ InCall /\ Next /\ UNCHANGED callVars
    <3>1. CASE regs = "program"
      <4>1. /\ ProgramIsSeen /\ TypeOK /\ RunsOnlyWhileAwaited
            /\ regs' = "program"
        BY <2>1, <3>1, OwnInvariants DEF callVars
      <4>2. ProgramIsSeen'
        BY <4>1, SeenLater
      <4>3. KeptInv'
        BY <2>1, <4>1, KeptIsSeen, KeptStep
      <4> QED BY <4>2, <4>3, KeptIsSeenLater
    <3>2. CASE regs # "program"
      <4>1. UNCHANGED TextSeen /\ tstate' = "dead"
        BY <2>1, <3>2, OrphanSeen, OrphanText
      <4>2. \A x : Kept(x) => Kept(x)'
        BY <2>1, EntriesStay DEF Kept
      <4> QED BY <4>1, <4>2 DEF KeptSeen, Readable
    <3> QED BY <3>1, <3>2
  <2>2. CASE CallStep
    <3>1. UNCHANGED <<TextSeen, BreakPoints>>
      BY <2>2, UnseenStep
    <3>2. tstate' # "dead" => tstate # "dead"
      BY <2>2, DeadStaysInCalls
    <3> QED BY <3>1, <3>2 DEF KeptSeen, Kept, Readable
  <2>3. CASE UNCHANGED injectionVars
    BY <2>3 DEF injectionVars, vars, traceeVars, callVars, TextSeen, KeptSeen, Kept,
                Readable
  <2> QED BY <2>1, <2>2, <2>3 DEF InjectionNext
<1>3. CallInv /\ KeptSeen => (~ InCall /\ tstate # "dead" => OriginalKept)
  BY ProgramSeen, KeptIsSeen DEF CallInv, KeptInv
<1> QED
  BY <1>1, <1>2, <1>3, CallInvariant, AwaitedOutsideCalls, PTL DEF InjectionSpec

\* What ClearInv says, of the text that is seen.
ClearSeen ==
  /\ \A i \in Slots : hw[i] \in HwSites \cup {NoAddr}
  /\ \A x \in Text : TextSeen[x] = "brk" => x \in DOMAIN BreakPoints
  /\ \A b \in DOMAIN BreakPoints :
       /\ BreakPoints[b].lo # "brk"
       /\ BreakPoints[b].hi = "brk" => b + 1 \in DOMAIN BreakPoints

LEMMA ClearIsSeen ==
  ASSUME ProgramIsSeen
  PROVE  ClearSeen <=> ClearInv
BY DEF ClearSeen, ClearInv, ProgramIsSeen

LEMMA ClearIsSeenLater == (ProgramIsSeen => (ClearSeen <=> ClearInv))'
BY ClearIsSeen, PTL

LEMMA ClearSeenInvariant ==
  ASSUME ReadableCalls
  PROVE  InjectionSpec => []ClearSeen
<1> DEFINE Awaited == ~ InCall => RunsOnlyWhileAwaited
<1>1. InjectionInit => ClearSeen
  BY CallAddresses DEF InjectionInit, Init, TraceeInit, TextSeen, ClearSeen
<1>2. CallInv /\ CallInv' /\ Awaited /\ ClearSeen /\ [InjectionNext]_injectionVars
      => ClearSeen'
  <2> SUFFICES ASSUME CallInv, CallInv', Awaited, ClearSeen,
                      [InjectionNext]_injectionVars
               PROVE  ClearSeen'
    OBVIOUS
  <2>1. CASE ~ InCall /\ Next /\ UNCHANGED callVars
    <3>1. CASE regs = "program"
      <4>1. ProgramIsSeen /\ TypeOK /\ regs' = "program"
        BY <2>1, <3>1, OwnInvariants DEF callVars
      <4>2. ProgramIsSeen'
        BY <4>1, SeenLater
      <4>3. ClearInv'
        BY <2>1, <4>1, ClearIsSeen, ClearStep
      <4> QED BY <4>2, <4>3, ClearIsSeenLater
    <3>2. CASE regs # "program"
      <4>1. UNCHANGED <<TextSeen, hw>> /\ tstate = "dead"
        BY <2>1, <3>2, OrphanSeen, OrphanText
      <4>2. \/ BreakPoints' = BreakPoints
            \/ \E a \in SwSites : BreakPoints' = Insert(a, Peek(a))
        BY <2>1, <3>2, OrphanText
        DEF setBreakPoint, Quit, SingleStepFails, TraceeGone, SingleStepReturns
      <4>3. \A a : Peek(a).lo = "ones" /\ Peek(a).hi = "ones"
        BY <4>1 DEF Peek
      <4> QED BY <4>1, <4>2, <4>3 DEF ClearSeen, Insert
    <3> QED BY <3>1, <3>2
  <2>2. CASE CallStep
    <3>1. UNCHANGED <<TextSeen, BreakPoints, hw>>
      BY <2>2, UnseenStep
      DEF CallStep, mmap, mprot, StepInto, mmapReturns, mprotReturns,
          CallLosesTracee, SvcRuns, StepFaults, StepTrapped, StepSignalled, HwTrap, SignalStop,
          StopWith, TraceeDies, Die
    <3> QED BY <3>1 DEF ClearSeen
  <2>3. CASE UNCHANGED injectionVars
    BY <2>3 DEF injectionVars, vars, traceeVars, callVars, TextSeen, ClearSeen
  <2> QED BY <2>1, <2>2, <2>3 DEF InjectionNext
<1> QED BY <1>1, <1>2, CallInvariant, AwaitedOutsideCalls, PTL DEF InjectionSpec

\* One-shot in sessions with calls: no mmap or mprot between the hit and the next
\* `cont' puts back the trap, or the register, that was cleared.
THEOREM CallsClearCauses ==
  ASSUME ReadableCalls, DisjointSites
  PROVE  InjectionSpec => CauseCleared
<1> DEFINE Awaited == ~ InCall => RunsOnlyWhileAwaited
<1>1. CallInv /\ Awaited /\ ClearSeen /\ [InjectionNext]_injectionVars
      => [dbg = "cont" /\ dbg' = "prompt" /\ sig = "TRAP"
            => mem'[pc] # "brk" /\ ~ HwArmedAt(pc)']_vars
  <2> SUFFICES ASSUME CallInv, Awaited, ClearSeen, [InjectionNext]_injectionVars,
                      dbg = "cont", dbg' = "prompt", sig = "TRAP"
               PROVE  mem'[pc] # "brk" /\ ~ HwArmedAt(pc)'
    OBVIOUS
  <2>1. ~ InCall /\ Next /\ UNCHANGED callVars
    BY DEF InjectionNext, CallStep, mmap, mprot, StepInto, mmapReturns, mprotReturns,
           CallLosesTracee, SvcRuns, StepFaults, StepTrapped, StepSignalled, TraceeDies, InCall,
           injectionVars, vars
  <2>2. regs = "program"
    BY <2>1, OrphanText
    DEF setBreakPoint, Quit, SingleStepFails, TraceeGone, SingleStepReturns
  <2> QED BY <2>1, <2>2, OwnInvariants, ClearIsSeen, CauseStep
<1> QED
  BY <1>1, CallInvariant, AwaitedOutsideCalls, ClearSeenInvariant, PTL
  DEF InjectionSpec, CauseCleared

\* A call empties no breakpoint register, for any pc at which it was given.
THEOREM CallsSpareSlots == InjectionSpec => HwSlotsAboveHitSurvive
<1>1. InjectionInit => HwType
  BY DEF InjectionInit, Init, TraceeInit, HwType
<1>2. CallStep => UNCHANGED hw
  BY DEF CallStep, mmap, mprot, StepInto, mmapReturns, mprotReturns,
         CallLosesTracee, SvcRuns, StepFaults, StepTrapped, StepSignalled, HwTrap, SignalStop,
         StopWith, TraceeDies, Die
<1>3. UNCHANGED injectionVars => UNCHANGED hw
  BY DEF injectionVars, vars, traceeVars
<1>4. HwType /\ [InjectionNext]_injectionVars => HwType'
  <2> SUFFICES ASSUME HwType, Next
               PROVE  HwType'
    BY <1>2, <1>3 DEF InjectionNext, HwType
  <2> QED
    BY HwSteps, CallAddresses DEF setHwBreakpoint, HwBreakpointCheck, HwType
<1>5. HwType /\ [InjectionNext]_injectionVars
      => [\A j \in Slots :
            hw[j] # NoAddr /\ hw'[j] = NoAddr
              => /\ dbg = "cont" /\ sig = "TRAP"
                 /\ \E i \in Slots : i >= j /\ hw[i] = pc]_vars
  BY <1>2, <1>3, SlotsStep DEF InjectionNext
<1> QED BY <1>1, <1>4, <1>5, PTL DEF InjectionSpec, HwSlotsAboveHitSurvive

\* One-shot breakpoints over what is seen are those over the real text while the
\* program owns its registers.
LEMMA SamePromise ==
  ASSUME ProgramIsSeen, ProgramIsSeen', ~ InCall, ~ InCall',
         Abstract!Next \/ UNCHANGED Abstract!vars
  PROVE  Promise!Next \/ UNCHANGED Promise!vars
<1>1. /\ ArmedSeen = Armed /\ ArmedSeen' = Armed'
      /\ PhaseSeen = Phase /\ PhaseSeen' = Phase'
  BY DEF ProgramIsSeen, ArmedSeen, Armed, PhaseSeen
<1> USE <1>1 DEF ProgramIsSeen
<1>2. ASSUME NEW a \in SwSites, Abstract!Arm(a) PROVE Promise!Arm(a)
  BY <1>2 DEF Abstract!Arm, Promise!Arm
<1>3. Abstract!Resume => Promise!Resume
  BY DEF Abstract!Resume, Promise!Resume
<1>4. Abstract!Execute => Promise!Execute
  BY DEF Abstract!Execute, Abstract!Shadow, Promise!Execute, Promise!Shadow
<1>5. Abstract!Trap \/ Abstract!Fault \/ Abstract!Intercept
      => Promise!Trap \/ Promise!Fault \/ Promise!Intercept
  BY DEF Abstract!Trap, Abstract!Fault, Abstract!Intercept, Abstract!StopWith,
         Abstract!Shadow, Promise!Trap, Promise!Fault, Promise!Intercept,
         Promise!StopWith, Promise!Shadow
<1>6. Abstract!Report => Promise!Report
  BY DEF Abstract!Report, Promise!Report
<1>7. Abstract!Vanish \/ Abstract!End => Promise!Vanish \/ Promise!End
  BY DEF Abstract!Vanish, Abstract!End, Promise!Vanish, Promise!End
<1>8. UNCHANGED Abstract!vars => UNCHANGED Promise!vars
  BY DEF Abstract!vars, Promise!vars
<1> QED
  BY <1>2, <1>3, <1>4, <1>5, <1>6, <1>7, <1>8 DEF Abstract!Next, Promise!Next

\* Sessions with calls implement one-shot breakpoints.
THEOREM CallsRefineOneShot ==
  ASSUME ReadableCalls, MappedSites, SpacedSites
  PROVE  InjectionSpec => CallsKeepThePromise
<1> DEFINE Awaited == ~ InCall => RunsOnlyWhileAwaited
<1>1. InjectionInit => Promise!Init
  <2> SUFFICES ASSUME InjectionInit
               PROVE  Promise!Init
    OBVIOUS
  <2> USE DEF InjectionInit, Init, TraceeInit, InCall
  <2>1. ArmedSeen = {}
    BY CallAddresses DEF TextSeen, ArmedSeen
  <2>2. PhaseSeen = "prompt"
    BY DEF PhaseSeen, Phase
  <2> QED
    BY <2>1, <2>2 DEF Promise!Init, PcSeen, SigSeen, SteppingSeen, NoSignal
<1>2. CallInv /\ CallInv' /\ Awaited /\ IntactSeen /\ [InjectionNext]_injectionVars
      => [Promise!Next]_Promise!vars
  <2> SUFFICES ASSUME CallInv, CallInv', Awaited, IntactSeen,
                      [InjectionNext]_injectionVars
               PROVE  Promise!Next \/ UNCHANGED Promise!vars
    OBVIOUS
  <2>1. CASE ~ InCall /\ Next /\ UNCHANGED callVars
    <3>1. CASE regs = "program"
      <4>1. /\ ProgramIsSeen /\ TypeOK /\ RunsOnlyWhileAwaited
            /\ regs' = "program" /\ ~ InCall'
        BY <2>1, <3>1, OwnInvariants, NextStaysOutside DEF callVars
      <4>2. ProgramIsSeen' /\ IntactInv
        BY <4>1, SeenLater, IntactIsSeen
      <4> QED BY <2>1, <4>1, <4>2, OneShotStep, SamePromise
    <3>2. CASE regs # "program"
      <4>1. UNCHANGED <<ArmedSeen, PcSeen>>
        BY <2>1, <3>2, OrphanSeen
      <4>2. /\ ~ InCall' /\ tstate = "dead" /\ tstate' = "dead"
            /\ \/ \E a \in SwSites : setBreakPoint(a)
               \/ Quit \/ SingleStepFails \/ TraceeGone \/ SingleStepReturns
        BY <2>1, <3>2, OrphanText
      <4>3. stepping \in BOOLEAN
        BY DEF CallInv, InjectionTypeOK
      <4>4. CASE \E a \in SwSites : setBreakPoint(a)
        <5>1. UNCHANGED <<sig, stepping, dbg, tstate>>
          BY <4>4 DEF setBreakPoint
        <5>2. UNCHANGED <<PhaseSeen, SigSeen, SteppingSeen>>
          BY <5>1 DEF PhaseSeen, Phase, SigSeen, SteppingSeen, InCall
        <5> QED BY <4>1, <5>2 DEF Promise!vars
      <4>5. CASE Quit \/ SingleStepFails \/ TraceeGone \/ SingleStepReturns
        <5>1. /\ dbg \in {"prompt", "cont", "step"} /\ dbg' = "done"
              /\ sig' = NoSignal /\ stepping' = FALSE
          BY <4>2, <4>5 DEF Quit, SingleStepFails, TraceeGone, SingleStepReturns,
             Reported, traceeVars, CallInv, InjectionTypeOK
        <5>2. /\ PhaseSeen \in {"prompt", "gone"} /\ PhaseSeen' = "over"
              /\ SigSeen' = "none" /\ SteppingSeen' = FALSE
          BY <2>1, <4>2, <5>1
          DEF PhaseSeen, Phase, SigSeen, SteppingSeen, InCall, NoSignal
        <5> QED BY <4>1, <5>2 DEF Promise!Next, Promise!End
      <4> QED BY <4>2, <4>4, <4>5
    <3> QED BY <3>1, <3>2
  <2>2. CASE CallStep
    <3>1. /\ UNCHANGED <<TextSeen, PcSeen, SigSeen, SteppingSeen>>
          /\ DbgSeen = "prompt" /\ DbgSeen' = "prompt"
      BY <2>2, UnseenStep
    <3>2. UNCHANGED <<ArmedSeen, PhaseSeen>>
      BY <3>1 DEF ArmedSeen, PhaseSeen, Phase, DbgSeen
    <3> QED BY <3>1, <3>2 DEF Promise!vars
  <2>3. CASE UNCHANGED injectionVars
    BY <2>3 DEF injectionVars, vars, traceeVars, callVars, TextSeen, ArmedSeen,
                PcSeen, PhaseSeen, Phase, SigSeen, SteppingSeen, InCall, Promise!vars
  <2> QED BY <2>1, <2>2, <2>3 DEF InjectionNext
<1> QED
  BY <1>1, <1>2, CallInvariant, AwaitedOutsideCalls, IntactSeenInvariant, PTL
  DEF InjectionSpec, CallsKeepThePromise, Promise!Spec

-----------------------------------------------------------------------------
(***************************************************************************)
(* The page and its svc.  While an mmap runs, the page of the one before   *)
(* may be forgotten already; its return sets both anew.                    *)
(***************************************************************************)

SvcInv ==
  private_memory = PageAddr /\ tstate # "dead" /\ dbg # "mmap"
    => page \in {"svc", "sealed"}

LEMMA SvcInvariant == InjectionSpec => []SvcInv
<1>1. InjectionInit => SvcInv
  BY TraceeAssumption DEF InjectionInit, SvcInv, NoMemory, PageAddr
<1>2. SvcInv /\ [InjectionNext]_injectionVars => SvcInv'
  <2> SUFFICES ASSUME SvcInv, [InjectionNext]_injectionVars
               PROVE  SvcInv'
    OBVIOUS
  <2>1. CASE ~ InCall /\ Next /\ UNCHANGED callVars
    <3>1. tstate = "dead" => tstate' = "dead"
      BY <2>1
      DEF Next, ContinueReturns, setBreakPoint, setHwBreakpoint, Quit, Continue,
          Resume, BreakpointHit, HwBreakpointCheck, OtherSignal, TraceeGone,
          doSingleStep, SingleStepFails, SingleStepReturns, TraceeStep, CpuTrap,
          HwTrap, BrkTrap, UndefinedInstruction, Execute, SignalStop, MapLateText,
          Die, StopWith, traceeVars
    <3> QED BY <2>1, <3>1 DEF SvcInv, InCall, callVars, PageAddr
  <2>2. CASE mmap \/ CallLosesTracee
    BY <2>2 DEF mmap, StepInto, CallLosesTracee, SvcInv
  <2>3. CASE mmapReturns
    <3>1. private_memory' = PageAddr => regs = "success"
      BY <2>3, TraceeAssumption 
      DEF mmapReturns, Results, PageAddr, ErrorAddr, NullAddr, NoMemory
    <3> QED BY <2>3, <3>1 DEF mmapReturns, SvcInv, PageAddr
  <2>4. CASE mprot \/ mprotReturns
    BY <2>4 DEF mprot, StepInto, mprotReturns, SvcInv, PageAddr
  <2>5. CASE SvcRuns
    BY <2>5 DEF SvcRuns, InCall, SvcInv, PageAddr, dbgVars
  <2>6. CASE StepFaults \/ StepTrapped \/ StepSignalled \/ TraceeDies
    BY <2>6 DEF StepFaults, StepTrapped, StepSignalled, HwTrap, SignalStop,
                StopWith, TraceeDies, Die, SvcInv, PageAddr, dbgVars, callVars
  <2>7. CASE UNCHANGED injectionVars
    BY <2>7 DEF injectionVars, vars, traceeVars, callVars, SvcInv, PageAddr
  <2> QED BY <2>1, <2>2, <2>3, <2>4, <2>5, <2>6, <2>7 DEF InjectionNext, CallStep
<1> QED BY <1>1, <1>2, PTL DEF InjectionSpec

\* mprot finds the svc it was promised, unless an mprot took it away; for any
\* pc at which the calls were given, readable or not.
THEOREM SvcStaysUntilSealed == InjectionSpec => []MprotFindsItsSvc
<1>1. SvcInv => MprotFindsItsSvc
  BY DEF SvcInv, MprotFindsItsSvc
<1> QED BY <1>1, SvcInvariant, PTL

\* Where the note "private memory already contains the svc instruction" is wrong
\* (Connector.cpp 198): mprot steps onto the private memory and finds its svc there,
\* unless the last mmap failed or was stopped before its svc, or an mprot sealed
\* the page.
SvcMissedOnlyAfterFailure ==
  dbg = "mprot" /\ tstate = "running"
    => /\ pc = private_memory
       /\ \/ Fetched = "svc"
          \/ private_memory \in {NullAddr, ErrorAddr}
          \/ page = "sealed"

THEOREM SvcIsMissedOnlyAfterFailure ==
  ASSUME ReadableCalls
  PROVE  InjectionSpec => []SvcMissedOnlyAfterFailure
<1>1. CallInv /\ SvcInv => SvcMissedOnlyAfterFailure
  BY CallAddresses
  DEF CallInv, InjectionTypeOK, SvcInv, SvcMissedOnlyAfterFailure, Fetched, Private
<1> QED BY <1>1, CallInvariant, SvcInvariant, PTL

-----------------------------------------------------------------------------
(***************************************************************************)
(* Liveness, as in DebuggerProofs: that a call's fair actions can be taken *)
(* when they are due is a hypothesis.  A run in which CallComesBack holds  *)
(* shows it of its instance: in a state where a due action is not enabled  *)
(* a fair behaviour could stop.                                            *)
(***************************************************************************)

CallsCanEnd ==
  /\ InCall /\ tstate = "running"
       => ENABLED <<SvcRuns \/ StepFaults \/ StepTrapped>>_injectionVars
  /\ InCall /\ tstate # "running"
       => ENABLED <<mmapReturns \/ mprotReturns \/ CallLosesTracee>>_injectionVars

\* The injected step ends, one way or another, and its wait gives the prompt back.
THEOREM CallsComeBack == InjectionFairSpec /\ []CallsCanEnd => CallComesBack
<1> DEFINE Stepped == InCall /\ tstate = "running"
           Halted  == InCall /\ tstate # "running"
           Back    == dbg = "prompt"
<1>1. Stepped /\ [InjectionNext]_injectionVars => Stepped' \/ Halted'
  BY DEF InjectionNext, CallStep, mmap, mprot, StepInto, mmapReturns, mprotReturns,
         CallLosesTracee, SvcRuns, StepFaults, StepTrapped, StepSignalled, HwTrap, SignalStop,
         StopWith, TraceeDies, Die, InCall, dbgVars, injectionVars, vars, traceeVars
<1>2. Stepped /\ <<SvcRuns \/ StepFaults \/ StepTrapped>>_injectionVars
      => Halted'
  BY DEF SvcRuns, StepFaults, StepTrapped, HwTrap, StopWith, InCall, dbgVars
<1>3. Halted /\ [InjectionNext]_injectionVars => Halted' \/ Back'
  BY DEF InjectionNext, CallStep, mmap, mprot, StepInto, mmapReturns, mprotReturns,
         CallLosesTracee, SvcRuns, StepFaults, StepTrapped, StepSignalled, HwTrap, SignalStop,
         StopWith, TraceeDies, Die, InCall, dbgVars, injectionVars, vars, traceeVars
<1>4. <<mmapReturns \/ mprotReturns \/ CallLosesTracee>>_injectionVars => Back'
  BY DEF mmapReturns, mprotReturns, CallLosesTracee
<1>5. tstate # "running" <=> ~ (tstate = "running")
  OBVIOUS
<1> QED
  BY <1>1, <1>2, <1>3, <1>4, <1>5, PTL
  DEF InjectionFairSpec, InjectionSpec, InjectionFairness, CallsCanEnd, CallComesBack
=============================================================================
