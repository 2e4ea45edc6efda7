--------------------------- MODULE DebuggerProofs ---------------------------
(***************************************************************************)
(* What Debugger guarantees for every text, every choice of sites and any  *)
(* number of hardware registers.                                           *)
(***************************************************************************)
EXTENDS DebuggerRefinement, TLAPS

\* The addresses of the text and of the sites are integers; NoAddr is none.
LEMMA Addresses ==
  /\ Text \subseteq Int /\ Slots \subseteq Int
  /\ NoAddr \in Int /\ NoAddr \notin Text
  /\ SwSites \subseteq Text /\ HwSites \subseteq Text
BY TraceeAssumption, SitesAssumption DEF Text, Slots, NoAddr

LEMMA PeekType ==
  ASSUME TypeOK, NEW a \in Text
  PROVE  Peek(a) \in Dword
BY DEF TypeOK, TraceeTypeOK, Peek, Dword, Word

LEMMA PokedType ==
  ASSUME TypeOK, NEW a \in Text, NEW d \in Dword
  PROVE  Poked(a, d) \in [Text -> Word]
BY DEF TypeOK, TraceeTypeOK, Poked, Dword, Word

\* std::map::insert: the key is there afterwards, what was there is unchanged.
LEMMA InsertFacts ==
  ASSUME NEW a, NEW d
  PROVE  /\ DOMAIN Insert(a, d) = DOMAIN BreakPoints \cup {a}
         /\ \A x \in DOMAIN BreakPoints : Insert(a, d)[x] = BreakPoints[x]
         /\ a \notin DOMAIN BreakPoints => Insert(a, d)[a] = d
BY DEF Insert

LEMMA InsertType ==
  ASSUME TypeOK, NEW a \in SwSites, NEW d \in Dword
  PROVE  /\ DOMAIN Insert(a, d) \subseteq SwSites
         /\ Insert(a, d) \in [DOMAIN Insert(a, d) -> Dword]
BY DEF TypeOK, Insert

\* No step lets the tracee run unawaited, or leaves a stop for a later wait.
LEMMA AwaitedStep ==
  ASSUME RunsOnlyWhileAwaited, [Next]_vars
  PROVE  RunsOnlyWhileAwaited'
<1> USE DEF RunsOnlyWhileAwaited
<1>1. CASE \/ \E a \in SwSites : setBreakPoint(a)
           \/ \E a \in HwSites, n \in Slots : setHwBreakpoint(a, n)
           \/ Quit
  BY <1>1 DEF setBreakPoint, setHwBreakpoint, Quit, traceeVars, dbgVars
<1>2. CASE Continue \/ doSingleStep
  BY <1>2 DEF Continue, doSingleStep, Resume
<1>3. CASE ContinueReturns
  BY <1>3 DEF ContinueReturns, BreakpointHit, HwBreakpointCheck, OtherSignal,
              TraceeGone, Reported, traceeVars
<1>4. CASE SingleStepFails \/ SingleStepReturns
  BY <1>4 DEF SingleStepFails, SingleStepReturns, Reported, traceeVars
<1>5. CASE TraceeStep /\ UNCHANGED dbgVars
  BY <1>5 DEF TraceeStep, CpuTrap, HwTrap, BrkTrap, UndefinedInstruction,
              Execute, SignalStop, MapLateText, Die, StopWith, Stops, dbgVars
<1>6. CASE UNCHANGED vars
  BY <1>6 DEF vars, traceeVars, dbgVars
<1> QED BY <1>1, <1>2, <1>3, <1>4, <1>5, <1>6 DEF Next

\* A command runs on a process that is stopped or dead, and the wait is for
\* the request that was made.
THEOREM AwaitedWhileRunning == Spec => []RunsOnlyWhileAwaited
<1>1. Init => RunsOnlyWhileAwaited
  BY DEF Init, TraceeInit, RunsOnlyWhileAwaited
<1>2. RunsOnlyWhileAwaited /\ [Next]_vars => RunsOnlyWhileAwaited'
  BY AwaitedStep
<1> QED BY <1>1, <1>2, PTL DEF Spec

\* The variables of the model keep their types.
THEOREM TypeCorrect == Spec => []TypeOK
<1>1. Init => TypeOK
  BY Addresses DEF Init, TraceeInit, TypeOK, TraceeTypeOK, Word, Stops, NoSignal
<1>2. TypeOK /\ RunsOnlyWhileAwaited /\ [Next]_vars => TypeOK'
  <2> SUFFICES ASSUME TypeOK, RunsOnlyWhileAwaited, [Next]_vars
               PROVE  TypeOK'
    OBVIOUS
  <2>1. ASSUME NEW a \in SwSites, setBreakPoint(a)
        PROVE  TypeOK'
    <3>1. a \in Text /\ TrapWord \in Dword
      BY Addresses DEF TrapWord, Dword, Word
    <3>2. mem' \in [Text -> Word]
      BY <2>1, <3>1, PokedType DEF setBreakPoint
    <3>3. /\ DOMAIN BreakPoints' \subseteq SwSites
          /\ BreakPoints' \in [DOMAIN BreakPoints' -> Dword]
      BY <2>1, <3>1, PeekType, InsertType DEF setBreakPoint
    <3> QED BY <2>1, <3>2, <3>3 DEF setBreakPoint, TypeOK, TraceeTypeOK
  <2>2. ASSUME NEW a \in HwSites, NEW n \in Slots, setHwBreakpoint(a, n)
        PROVE  TypeOK'
    BY <2>2, Addresses
    DEF setHwBreakpoint, TypeOK, TraceeTypeOK, dbgVars
  <2>3. CASE Quit
    BY <2>3 DEF Quit, TypeOK, TraceeTypeOK, traceeVars
  <2>4. CASE Continue
    BY <2>4 DEF Continue, Resume, TypeOK, TraceeTypeOK
  <2>5. CASE BreakpointHit
    <3>1. pc \in Text /\ BreakPoints[pc] \in Dword
      BY <2>5 DEF BreakpointHit, TypeOK, TraceeTypeOK
    <3>2. mem' \in [Text -> Word]
      BY <2>5, <3>1, PokedType DEF BreakpointHit, Restored
    <3> QED
      BY <2>5, <3>2 DEF BreakpointHit, Reported, TypeOK, TraceeTypeOK, Stops
  <2>6. CASE HwBreakpointCheck
    BY <2>6 DEF HwBreakpointCheck, Reported, RunsOnlyWhileAwaited, TypeOK,
                TraceeTypeOK, NoSignal, Stops
  <2>7. CASE OtherSignal
    BY <2>7 DEF OtherSignal, Reported, RunsOnlyWhileAwaited, TypeOK,
                TraceeTypeOK, NoSignal, Stops
  <2>8. CASE TraceeGone
    BY <2>8 DEF TraceeGone, Reported, RunsOnlyWhileAwaited, TypeOK,
                TraceeTypeOK, NoSignal, Stops
  <2>9. CASE doSingleStep
    BY <2>9 DEF doSingleStep, Resume, TypeOK, TraceeTypeOK
  <2>10. CASE SingleStepFails
    BY <2>10 DEF SingleStepFails, TypeOK, TraceeTypeOK, traceeVars
  <2>11. CASE SingleStepReturns
    BY <2>11 DEF SingleStepReturns, Reported, RunsOnlyWhileAwaited, TypeOK,
                TraceeTypeOK, NoSignal, Stops
  <2>12. CASE TraceeStep /\ UNCHANGED dbgVars
    BY <2>12
    DEF TraceeStep, CpuTrap, HwTrap, BrkTrap, UndefinedInstruction, Execute,
        SignalStop, MapLateText, Die, StopWith, dbgVars, TypeOK, TraceeTypeOK,
        Stops
  <2>13. CASE UNCHANGED vars
    BY <2>13 DEF vars, traceeVars, TypeOK, TraceeTypeOK
  <2> QED
    BY <2>1, <2>2, <2>3, <2>4, <2>5, <2>6, <2>7, <2>8, <2>9, <2>10, <2>11,
       <2>12, <2>13 DEF Next, ContinueReturns
<1> QED BY <1>1, <1>2, AwaitedWhileRunning, PTL DEF Spec

-----------------------------------------------------------------------------
(***************************************************************************)
(* Which steps touch what.                                                 *)
(***************************************************************************)

\* Text and entries change only in `bp' and in the report of a breakpoint.
LEMMA TextSteps ==
  ASSUME [Next]_vars
  PROVE  \/ \E a \in SwSites : setBreakPoint(a)
         \/ BreakpointHit
         \/ UNCHANGED <<mem, BreakPoints>>
BY DEF Next, ContinueReturns, setHwBreakpoint, Quit, Continue, Resume,
       HwBreakpointCheck, OtherSignal, TraceeGone, doSingleStep, SingleStepFails,
       SingleStepReturns, TraceeStep, CpuTrap, HwTrap, BrkTrap,
       UndefinedInstruction, Execute, SignalStop, MapLateText, Die, StopWith,
       Reported, vars, traceeVars, dbgVars

\* What is mapped stays mapped, and the dead stay dead.
LEMMA MappingSteps ==
  ASSUME TypeOK, [Next]_vars
  PROVE  mapped \subseteq mapped' /\ (tstate = "dead" => tstate' = "dead")
BY DEF TypeOK, TraceeTypeOK, Next, ContinueReturns, setBreakPoint,
       setHwBreakpoint, Quit, Continue, Resume, BreakpointHit,
       HwBreakpointCheck, OtherSignal, TraceeGone, doSingleStep, SingleStepFails,
       SingleStepReturns, TraceeStep, CpuTrap, HwTrap, BrkTrap,
       UndefinedInstruction, Execute, SignalStop, MapLateText, Die, StopWith,
       Reported, vars, traceeVars, dbgVars

LEMMA DamageStep ==
  ASSUME TypeOK, DamageConfined, [Next]_vars
  PROVE  DamageConfined'
<1> SUFFICES ASSUME NEW x \in Text, mem'[x] # "orig"
             PROVE  x \in DOMAIN BreakPoints' \/ x - 1 \in DOMAIN BreakPoints'
  BY DEF DamageConfined
<1>0. x \in Int
  BY Addresses
<1>1. ASSUME NEW a \in SwSites, setBreakPoint(a)
      PROVE  x \in DOMAIN BreakPoints' \/ x - 1 \in DOMAIN BreakPoints'
  <2>1. a \in Int /\ DOMAIN BreakPoints' = DOMAIN BreakPoints \cup {a}
    BY <1>1, InsertFacts, Addresses DEF setBreakPoint
  <2>2. CASE x = a \/ x = a + 1
    BY <1>0, <2>1, <2>2
  <2>3. CASE x # a /\ x # a + 1
    BY <1>1, <2>1, <2>3 DEF setBreakPoint, Poked, DamageConfined
  <2> QED BY <2>2, <2>3
<1>2. CASE BreakpointHit
  <2>1. pc \in Int /\ pc \in DOMAIN BreakPoints
    BY <1>2, Addresses DEF BreakpointHit, TypeOK, TraceeTypeOK
  <2>2. CASE x = pc \/ x = pc + 1
    BY <1>0, <1>2, <2>1, <2>2 DEF BreakpointHit
  <2>3. CASE x # pc /\ x # pc + 1
    BY <1>2, <2>3 DEF BreakpointHit, Restored, Poked, DamageConfined
  <2> QED BY <2>2, <2>3
<1>3. CASE UNCHANGED <<mem, BreakPoints>>
  BY <1>3 DEF DamageConfined
<1> QED BY <1>1, <1>2, <1>3, TextSteps

\* Foreign words are found only at and right behind the addresses of the map.
THEOREM DamageIsConfined == Spec => []DamageConfined
<1>1. Init => DamageConfined
  BY DEF Init, TraceeInit, DamageConfined
<1>2. TypeOK /\ DamageConfined /\ [Next]_vars => DamageConfined'
  BY DamageStep
<1> QED BY <1>1, <1>2, TypeCorrect, PTL DEF Spec

-----------------------------------------------------------------------------
(***************************************************************************)
(* The original is never lost.  OriginalKept alone is not inductive: when  *)
(* a known breakpoint is set or restored again, both of its words are      *)
(* overwritten without a new entry, so both must be held by some entry     *)
(* already, whatever the text holds at that moment.                        *)
(***************************************************************************)

KeptInv ==
  /\ Text \ LateText \subseteq mapped
  /\ OriginalKept
  /\ tstate # "dead"
       => \A b \in DOMAIN BreakPoints : \A x \in {b, b + 1} : Readable(x) => Kept(x)

\* Entries are never replaced, so what was kept stays kept.
LEMMA KeptStays ==
  ASSUME [Next]_vars, NEW x, Kept(x)
  PROVE  Kept(x)'
<1>1. /\ DOMAIN BreakPoints \subseteq DOMAIN BreakPoints'
      /\ \A b \in DOMAIN BreakPoints : BreakPoints'[b] = BreakPoints[b]
  BY TextSteps DEF setBreakPoint, BreakpointHit, Insert
<1> QED BY <1>1 DEF Kept

\* A step keeps the original.
LEMMA KeptStep ==
  ASSUME TypeOK, RunsOnlyWhileAwaited, KeptInv, [Next]_vars
  PROVE  KeptInv'
<1>1. Text \ LateText \subseteq mapped'
  BY MappingSteps DEF KeptInv
<1>2. ASSUME NEW a \in SwSites, setBreakPoint(a), tstate = "stopped",
             NEW x \in {a, a + 1}, Readable(x)
      PROVE  Kept(x)'
  <2>1. CASE a \in DOMAIN BreakPoints
    BY <1>2, <2>1, KeptStays DEF KeptInv
  <2>2. CASE a \notin DOMAIN BreakPoints
    <3>1. /\ {a, a + 1} \subseteq mapped /\ {a, a + 1} \subseteq Text
          /\ a \in Int /\ (a + 1) - 1 = a
      BY <1>2, Addresses DEF Readable, KeptInv
    <3>2. /\ a \in DOMAIN BreakPoints'
          /\ BreakPoints'[a] = [lo |-> mem[a], hi |-> mem[a + 1]]
      BY <1>2, <2>2, <3>1, InsertFacts DEF setBreakPoint, Peek
    <3>3. mem[x] = "orig" => Kept(x)'
      BY <1>2, <3>1, <3>2 DEF Kept
    <3>4. mem[x] # "orig" => Kept(x)'
      BY <1>2, <3>1, KeptStays DEF KeptInv, OriginalKept
    <3> QED BY <3>3, <3>4
  <2> QED BY <2>1, <2>2
<1>3. OriginalKept'
  <2> SUFFICES ASSUME NEW x \in Text, mem'[x] # "orig", Readable(x)
               PROVE  Kept(x)'
    BY DEF OriginalKept, Readable
  <2>1. CASE mem'[x] = mem[x]
    BY <2>1, KeptStays DEF KeptInv, OriginalKept
  <2>2. ASSUME NEW a \in SwSites, setBreakPoint(a), mem'[x] # mem[x]
        PROVE  Kept(x)'
    <3>1. tstate = "stopped" /\ (x = a \/ x = a + 1)
      BY <2>2 DEF setBreakPoint, Poked
    <3> QED BY <1>2, <2>2, <3>1
  <2>3. CASE BreakpointHit /\ mem'[x] # mem[x]
    <3>1. /\ pc \in DOMAIN BreakPoints /\ tstate # "dead"
          /\ x = pc \/ x = pc + 1
      BY <2>3 DEF BreakpointHit, Restored, Poked
    <3> QED BY <3>1, KeptStays DEF KeptInv
  <2> QED BY <2>1, <2>2, <2>3, TextSteps
<1>4. ASSUME tstate' # "dead", NEW b \in DOMAIN BreakPoints',
             NEW x \in {b, b + 1}, Readable(x)
      PROVE  Kept(x)'
  <2>1. tstate # "dead"
    BY <1>4, MappingSteps
  <2>2. CASE b \in DOMAIN BreakPoints
    BY <1>4, <2>1, <2>2, KeptStays DEF KeptInv
  <2>3. ASSUME NEW a \in SwSites, setBreakPoint(a), b \notin DOMAIN BreakPoints
        PROVE  Kept(x)'
    <3>1. b = a
      BY <1>4, <2>3 DEF setBreakPoint, Insert
    <3>2. tstate = "stopped"
      BY <2>1, <2>3 DEF setBreakPoint, RunsOnlyWhileAwaited, TypeOK, TraceeTypeOK
    <3> QED BY <1>2, <1>4, <2>3, <3>1, <3>2
  <2> QED BY <1>4, <2>2, <2>3, TextSteps DEF BreakpointHit
<1> QED BY <1>1, <1>3, <1>4 DEF KeptInv, Readable

\* The instruction a poke replaced can always be found in the map, for every word
\* whose breakpoints could be read from the start: overlapping, repeated and
\* re-armed breakpoints included, and breakpoints elsewhere that could not.
THEOREM OriginalIsKept == Spec => []OriginalKept
<1>1. Init => KeptInv
  BY DEF Init, TraceeInit, KeptInv, OriginalKept
<1>2. TypeOK /\ RunsOnlyWhileAwaited /\ KeptInv /\ [Next]_vars => KeptInv'
  BY KeptStep
<1>3. KeptInv => OriginalKept
  BY DEF KeptInv
<1> QED BY <1>1, <1>2, <1>3, TypeCorrect, AwaitedWhileRunning, PTL DEF Spec

-----------------------------------------------------------------------------
(***************************************************************************)
(* Spaced sites.  Every entry was taken from clean text and so holds the   *)
(* program's own two words; an armed site is one trap and one zero word.   *)
(***************************************************************************)

IntactInv ==
  /\ Text \ LateText \subseteq mapped
  /\ TextIntact
  /\ \A b \in Armed : mem[b + 1] = "zero"
  /\ tstate # "dead" => \A b \in DOMAIN BreakPoints : BreakPoints[b] = OrigDword

\* What `bp' does on spaced sites: arm one address and blank the next.
LEMMA ArmingStep ==
  ASSUME MappedSites, SpacedSites, TypeOK, RunsOnlyWhileAwaited, IntactInv,
         NEW a \in SwSites, setBreakPoint(a), tstate # "dead"
  PROVE  /\ mem' = [mem EXCEPT ![a] = "brk", ![a + 1] = "zero"]
         /\ Armed' = Armed \cup {a}
         /\ DOMAIN BreakPoints' = DOMAIN BreakPoints \cup {a}
         /\ \A b \in DOMAIN BreakPoints' : BreakPoints'[b] = OrigDword
<1>1. tstate = "stopped"
  BY DEF setBreakPoint, RunsOnlyWhileAwaited, TypeOK, TraceeTypeOK
<1>2. /\ {a, a + 1} \subseteq mapped /\ {a, a + 1} \subseteq Text /\ a \in Int
      /\ a + 1 # a /\ (a + 1) - 1 = a /\ a + 1 \notin SwSites /\ a - 1 \notin SwSites
  BY Addresses DEF MappedSites, SpacedSites, IntactInv
<1>3. mem' = [mem EXCEPT ![a] = "brk", ![a + 1] = "zero"]
  BY <1>1, <1>2
  DEF setBreakPoint, Poked, TrapWord, TypeOK, TraceeTypeOK
<1>4. Armed' = Armed \cup {a}
  BY <1>2, <1>3, Addresses DEF Armed, TypeOK, TraceeTypeOK
<1>5. DOMAIN BreakPoints' = DOMAIN BreakPoints \cup {a}
  BY InsertFacts DEF setBreakPoint
<1>6. a \notin DOMAIN BreakPoints => Peek(a) = OrigDword
  <2> SUFFICES ASSUME a \notin DOMAIN BreakPoints
               PROVE  mem[a] = "orig" /\ mem[a + 1] = "orig"
    BY <1>1, <1>2 DEF Peek, OrigDword
  <2>1. a \notin Armed
    BY <1>2 DEF IntactInv, TextIntact
  <2> QED BY <1>2, <2>1 DEF IntactInv, TextIntact, Armed
<1>7. \A b \in DOMAIN BreakPoints' : BreakPoints'[b] = OrigDword
  BY <1>5, <1>6 DEF setBreakPoint, Insert, IntactInv
<1> QED BY <1>3, <1>4, <1>5, <1>7

\* What the report of a breakpoint does on spaced sites: disarm the pc.
LEMMA DisarmingStep ==
  ASSUME MappedSites, SpacedSites, TypeOK, IntactInv, BreakpointHit
  PROVE  /\ pc \in SwSites /\ pc + 1 \in Text
         /\ mem' = [mem EXCEPT ![pc] = "orig", ![pc + 1] = "orig"]
         /\ Armed' = Armed \ {pc}
<1>1. /\ pc \in SwSites /\ pc \in Int /\ tstate = "stopped"
      /\ BreakPoints[pc] = OrigDword
  BY Addresses DEF Reported, BreakpointHit, TypeOK, IntactInv
<1>2. /\ {pc, pc + 1} \subseteq mapped /\ {pc, pc + 1} \subseteq Text
      /\ pc + 1 # pc /\ pc + 1 \notin SwSites
  BY <1>1, Addresses DEF MappedSites, SpacedSites, IntactInv
<1>3. mem' = [mem EXCEPT ![pc] = "orig", ![pc + 1] = "orig"]
  <2>1. mem' = [x \in Text |-> IF x = pc \/ x = pc + 1 THEN "orig" ELSE mem[x]]
    <3>1. mem' = Poked(pc, OrigDword)
      BY <1>1, Zenon DEF BreakpointHit, Restored
    <3>2. OrigDword.lo = "orig" /\ OrigDword.hi = "orig"
      BY DEF OrigDword
    <3>3. tstate = "stopped" /\ pc \in mapped /\ pc + 1 \in mapped /\ pc + 1 # pc
      BY <1>1, <1>2
    <3> QED BY <3>1, <3>2, <3>3 DEF Poked
  <2> QED BY <1>2, <2>1 DEF TypeOK, TraceeTypeOK
<1>4. Armed' = Armed \ {pc}
  BY <1>1, <1>2, <1>3, Addresses DEF Armed, TypeOK, TraceeTypeOK
<1> QED BY <1>1, <1>2, <1>3, <1>4

\* A dead process is not written to: an entry may still be added, no text
\* changes.
LEMMA DeadStep ==
  ASSUME TypeOK, [Next]_vars, tstate = "dead"
  PROVE  /\ mem' = mem
         /\ \A b \in DOMAIN BreakPoints : /\ b \in DOMAIN BreakPoints'
                                          /\ BreakPoints'[b] = BreakPoints[b]
<1>1. ASSUME NEW a
      PROVE  Poked(a, TrapWord) = mem
  BY DEF Poked, TypeOK, TraceeTypeOK
<1> QED BY <1>1, TextSteps DEF setBreakPoint, BreakpointHit, Insert

\* A step keeps the text intact.
LEMMA IntactStep ==
  ASSUME MappedSites, SpacedSites, TypeOK, RunsOnlyWhileAwaited, IntactInv, [Next]_vars
  PROVE  IntactInv'
<1>1. Text \ LateText \subseteq mapped'
  BY MappingSteps DEF IntactInv
<1>2. ASSUME NEW a \in SwSites, setBreakPoint(a), tstate # "dead"
      PROVE  IntactInv'
  <2>1. /\ mem' = [mem EXCEPT ![a] = "brk", ![a + 1] = "zero"]
        /\ Armed' = Armed \cup {a}
        /\ DOMAIN BreakPoints' = DOMAIN BreakPoints \cup {a}
        /\ \A b \in DOMAIN BreakPoints' : BreakPoints'[b] = OrigDword
    BY <1>2, ArmingStep
  <2>2. /\ a \in Int /\ a \in Text /\ a + 1 \in Text /\ a + 1 \notin SwSites
        /\ a - 1 \notin SwSites
    BY Addresses DEF MappedSites, SpacedSites
  <2>3. /\ mem' \in [Text -> Word] /\ mem'[a] = "brk" /\ mem'[a + 1] = "zero"
        /\ \A x \in Text \ {a, a + 1} : mem'[x] = mem[x]
    BY <2>1, <2>2 DEF TypeOK, TraceeTypeOK, Word
  <2>4. Armed' \subseteq DOMAIN BreakPoints'
    <3>1. Armed \subseteq Text
      BY Addresses DEF Armed
    <3> QED BY <2>1, <3>1 DEF IntactInv, TextIntact
  <2>5. Armed' = Armed \cup {a}
    BY <2>1
  <2>6. ASSUME NEW x \in Text
        PROVE  mem'[x] = "orig" \/ x \in Armed' \/ (x - 1 \in Armed' /\ mem'[x] = "zero")
    <3>1. x \in Int
      BY Addresses
    <3>2. CASE x = a
      BY <3>2, <2>5
    <3>3. CASE x = a + 1
      BY <3>1, <3>3, <2>2, <2>3, <2>5
    <3>4. CASE x \notin {a, a + 1}
      BY <3>4, <2>3, <2>5 DEF IntactInv, TextIntact
    <3> QED BY <3>2, <3>3, <3>4
  <2>7. \A b \in Armed' : mem'[b + 1] = "zero"
    <3> SUFFICES ASSUME NEW b \in Armed, b # a
                 PROVE  mem'[b + 1] = "zero"
      BY <2>3, <2>5
    <3>1. b \in SwSites /\ b \in Int /\ b + 1 \in Text /\ b + 1 \notin SwSites
      BY Addresses DEF Armed, MappedSites, SpacedSites
    <3>2. a \in SwSites /\ b + 1 # a /\ b + 1 # a + 1
      BY <2>2, <3>1
    <3> QED BY <2>3, <3>1, <3>2 DEF IntactInv
  <2> QED BY <1>1, <2>1, <2>4, <2>6, <2>7 DEF IntactInv, TextIntact
<1>3. CASE BreakpointHit
  <2>1. /\ pc \in SwSites /\ pc + 1 \in Text
        /\ mem' = [mem EXCEPT ![pc] = "orig", ![pc + 1] = "orig"]
        /\ Armed' = Armed \ {pc}
    BY <1>3, DisarmingStep
  <2>2. BreakPoints' = BreakPoints /\ tstate' = tstate /\ tstate = "stopped"
    BY <1>3 DEF BreakpointHit
  <2>3. /\ pc \in Int /\ pc \in SwSites /\ pc \in Text /\ pc + 1 \notin SwSites
        /\ mem'[pc] = "orig" /\ mem'[pc + 1] = "orig"
        /\ \A x \in Text \ {pc, pc + 1} : mem'[x] = mem[x]
    BY <2>1, Addresses DEF TypeOK, TraceeTypeOK, SpacedSites
  <2>4. Armed' = Armed \ {pc}
    BY <2>1
  <2>5. ASSUME NEW x \in Text
        PROVE  mem'[x] = "orig" \/ x \in Armed' \/ (x - 1 \in Armed' /\ mem'[x] = "zero")
    <3>1. x \in Int
      BY Addresses
    <3>2. CASE x \in {pc, pc + 1}
      BY <3>2, <2>3
    <3>3. CASE x \notin {pc, pc + 1}
      <4>1. x # pc /\ x - 1 # pc /\ mem'[x] = mem[x]
        BY <3>1, <3>3, <2>3
      <4> QED BY <4>1, <2>4 DEF IntactInv, TextIntact
    <3> QED BY <3>2, <3>3
  <2>6. \A b \in Armed' : mem'[b + 1] = "zero"
    <3> SUFFICES ASSUME NEW b \in Armed, b # pc
                 PROVE  mem'[b + 1] = "zero"
      BY <2>4
    <3>1. b \in SwSites /\ b \in Int /\ b + 1 \in Text /\ b + 1 \notin SwSites
      BY Addresses DEF Armed, MappedSites, SpacedSites
    <3>2. b + 1 # pc /\ b + 1 # pc + 1
      BY <2>3, <3>1
    <3> QED BY <2>3, <3>1, <3>2 DEF IntactInv
  <2>7. /\ Armed' \subseteq DOMAIN BreakPoints
        /\ \A b \in DOMAIN BreakPoints' : BreakPoints'[b] = OrigDword
    <3>1. Armed \subseteq Text
      BY Addresses DEF Armed
    <3> QED BY <2>2, <2>4, <3>1 DEF IntactInv, TextIntact
  <2> QED BY <1>1, <2>2, <2>5, <2>6, <2>7 DEF IntactInv, TextIntact
<1>4. CASE mem' = mem /\ tstate = "dead"
  <2>1. tstate' = "dead" /\ Armed' = Armed
    BY <1>4, MappingSteps DEF Armed
  <2>2. \A b \in DOMAIN BreakPoints : /\ b \in DOMAIN BreakPoints'
                                      /\ BreakPoints'[b] = BreakPoints[b]
    BY <1>4, DeadStep
  <2> QED BY <1>1, <1>4, <2>1, <2>2 DEF IntactInv, TextIntact
<1>5. CASE UNCHANGED <<mem, BreakPoints>>
  <2>1. Armed' = Armed /\ (tstate' # "dead" => tstate # "dead")
    BY <1>5, MappingSteps DEF Armed
  <2> QED BY <1>1, <1>5, <2>1 DEF IntactInv, TextIntact
<1> QED BY <1>2, <1>3, <1>4, <1>5, TextSteps, DeadStep

LEMMA IntactInvariant ==
  ASSUME MappedSites, SpacedSites
  PROVE  Spec => []IntactInv
<1>1. Init => IntactInv
  <2> SUFFICES ASSUME Init
               PROVE  IntactInv
    OBVIOUS
  <2>1. /\ mem = [x \in Text |-> "orig"] /\ Text \ LateText \subseteq mapped
        /\ DOMAIN BreakPoints = {}
    BY DEF Init, TraceeInit
  <2>2. Armed = {}
    BY <2>1, Addresses DEF Armed
  <2> QED BY <2>1, <2>2 DEF IntactInv, TextIntact
<1>2. TypeOK /\ RunsOnlyWhileAwaited /\ IntactInv /\ [Next]_vars => IntactInv'
  BY IntactStep
<1> QED BY <1>1, <1>2, TypeCorrect, AwaitedWhileRunning, PTL DEF Spec

\* Spaced breakpoints leave the program's text whole: what is foreign belongs to
\* an armed one, whose entry puts the right words back (setBreakPoint, Continue).
THEOREM TextIsIntact ==
  ASSUME MappedSites, SpacedSites
  PROVE  Spec => []TextIntact
<1>1. IntactInv => TextIntact
  BY DEF IntactInv
<1> QED BY <1>1, IntactInvariant, PTL

\* A step takes no trap from the text but the one `cont' reports the stop at.
LEMMA TrapStep ==
  ASSUME MappedSites, SpacedSites, TypeOK, RunsOnlyWhileAwaited, IntactInv, [Next]_vars,
         NEW a \in Text, mem[a] = "brk", mem'[a] # "brk"
  PROVE  dbg = "cont" /\ sig = "TRAP" /\ pc = a
<1>1. a \in Armed
  BY DEF IntactInv, TextIntact, Armed
<1>2. tstate # "dead"
  BY DeadStep
<1>3. ~ \E b \in SwSites : setBreakPoint(b)
  <2> SUFFICES ASSUME NEW b \in SwSites, setBreakPoint(b)
               PROVE  FALSE
    OBVIOUS
  <2>1. a \in Armed'
    BY <1>1, <1>2, ArmingStep
  <2> QED BY <2>1 DEF Armed
<1>4. CASE BreakpointHit
  <2>1. Armed' = Armed \ {pc}
    BY <1>4, DisarmingStep
  <2>2. a = pc
    BY <1>1, <2>1 DEF Armed
  <2> QED BY <1>4, <2>2 DEF BreakpointHit
<1> QED BY <1>3, <1>4, TextSteps

\* On spaced sites a trap leaves the text only when `cont' reports the stop at it.
THEOREM TrapsGoByTheirHits ==
  ASSUME MappedSites, SpacedSites
  PROVE  Spec => TrapGoesOnlyByItsHit
<1>1. TypeOK /\ RunsOnlyWhileAwaited /\ IntactInv /\ [Next]_vars
      => [\A a \in Text : mem[a] = "brk" /\ mem'[a] # "brk"
                          => dbg = "cont" /\ sig = "TRAP" /\ pc = a]_vars
  BY TrapStep
<1> QED
  BY <1>1, TypeCorrect, AwaitedWhileRunning, IntactInvariant, PTL
  DEF Spec, TrapGoesOnlyByItsHit

\* How far the poke of eight bytes reaches (Connector.cpp, setBreakPoint): on spaced
\* sites a stop by an illegal instruction is one right behind a trap still armed.
FaultsBehindTraps == tstate = "stopped" /\ sig = "ILL" => pc - 1 \in Armed

\* That is all NoForeignFault is violated by: a program with spaced breakpoints
\* never faults on text that no armed breakpoint covers.
THEOREM FaultsOnlyBehindTraps ==
  ASSUME MappedSites, SpacedSites
  PROVE  Spec => []FaultsBehindTraps
<1>1. Init => FaultsBehindTraps
  BY DEF Init, TraceeInit, FaultsBehindTraps, NoSignal
<1>2. /\ TypeOK /\ RunsOnlyWhileAwaited /\ IntactInv /\ FaultsBehindTraps
      /\ [Next]_vars
      => FaultsBehindTraps'
  <2> SUFFICES ASSUME TypeOK, RunsOnlyWhileAwaited, IntactInv, FaultsBehindTraps,
                      [Next]_vars, tstate' = "stopped", sig' = "ILL"
               PROVE  (pc - 1 \in Armed)'
    BY DEF FaultsBehindTraps
  <2>1. CASE UndefinedInstruction
    <3>1. mem[pc] \in {"zero", "ones"} /\ mem' = mem /\ pc' = pc /\ pc \in Text
      BY <2>1 DEF UndefinedInstruction, StopWith, TypeOK, TraceeTypeOK
    <3>2. pc - 1 \in Armed
      BY <3>1 DEF IntactInv, TextIntact, Armed
    <3> QED BY <3>1, <3>2 DEF Armed
  <2>2. CASE ~ UndefinedInstruction
    <3>1. tstate = "stopped" /\ sig = "ILL" /\ UNCHANGED <<mem, pc>>
      BY <2>2
      DEF RunsOnlyWhileAwaited, NoSignal, Next, ContinueReturns, setBreakPoint,
          setHwBreakpoint, Quit, Continue, Resume, BreakpointHit, HwBreakpointCheck,
          OtherSignal, TraceeGone, doSingleStep, SingleStepFails, SingleStepReturns,
          Reported, TraceeStep, CpuTrap, HwTrap, BrkTrap, Execute, SignalStop,
          MapLateText, Die, StopWith, dbgVars, vars, traceeVars
    <3> QED BY <3>1 DEF FaultsBehindTraps, Armed
  <2> QED BY <2>1, <2>2
<1> QED
  BY <1>1, <1>2, TypeCorrect, AwaitedWhileRunning, IntactInvariant, PTL DEF Spec

-----------------------------------------------------------------------------
(***************************************************************************)
(* Hardware breakpoints.                                                   *)
(***************************************************************************)

\* Registers change only in `hbp' and in the report of a stop off the map.
LEMMA HwSteps ==
  ASSUME [Next]_vars
  PROVE  \/ \E a \in HwSites, n \in Slots : setHwBreakpoint(a, n)
         \/ HwBreakpointCheck
         \/ UNCHANGED hw
BY DEF Next, ContinueReturns, setBreakPoint, Quit, Continue, Resume,
       BreakpointHit, OtherSignal, TraceeGone, doSingleStep, SingleStepFails,
       SingleStepReturns, TraceeStep, CpuTrap, HwTrap, BrkTrap,
       UndefinedInstruction, Execute, SignalStop, MapLateText, Die, StopWith,
       Reported, vars, traceeVars, dbgVars

HwType == hw \in [Slots -> Text \cup {NoAddr}]

\* What a step that empties a register is: the report of a hit on it or above it.
LEMMA SlotsStep ==
  ASSUME HwType, [Next]_vars, NEW j \in Slots, hw[j] # NoAddr, hw'[j] = NoAddr
  PROVE  /\ dbg = "cont" /\ sig = "TRAP"
         /\ \E i \in Slots : i >= j /\ hw[i] = pc
<1>1. ASSUME NEW a \in HwSites, NEW n \in Slots, setHwBreakpoint(a, n)
      PROVE  FALSE
  BY <1>1, Addresses DEF setHwBreakpoint, HwType
<1>2. CASE HwBreakpointCheck
  <2>1. PICK i \in Slots : hw[i] = pc /\ j \in ClearedBy(i)
    BY <1>2 DEF HwBreakpointCheck
  <2>2. i >= j
    BY <2>1, Addresses DEF ClearedBy
  <2> QED BY <1>2, <2>1, <2>2 DEF HwBreakpointCheck
<1> QED BY <1>1, <1>2, HwSteps

\* A hit empties its own register and the ones below it, never one above, and
\* no other command empties any.
THEOREM SlotsAboveHitSurvive == Spec => HwSlotsAboveHitSurvive
<1>1. TypeOK /\ [Next]_vars
      => [\A j \in Slots :
            hw[j] # NoAddr /\ hw'[j] = NoAddr
              => /\ dbg = "cont" /\ sig = "TRAP"
                 /\ \E i \in Slots : i >= j /\ hw[i] = pc]_vars
  BY SlotsStep DEF TypeOK, TraceeTypeOK, HwType
<1> QED BY <1>1, TypeCorrect, PTL DEF Spec, HwSlotsAboveHitSurvive

-----------------------------------------------------------------------------
(***************************************************************************)
(* One shot.  CauseCleared speaks of one address; that the text under it   *)
(* is clean when `cont' returns rests on what the entries hold: an entry   *)
(* never has a trap in its own word, and a trap in its neighbour's word    *)
(* belongs to a neighbour that the map knows too.                          *)
(***************************************************************************)

ClearInv ==
  /\ \A i \in Slots : hw[i] \in HwSites \cup {NoAddr}
  /\ \A x \in Text : mem[x] = "brk" => x \in DOMAIN BreakPoints
  /\ \A b \in DOMAIN BreakPoints :
       /\ BreakPoints[b].lo # "brk"
       /\ BreakPoints[b].hi = "brk" => b + 1 \in DOMAIN BreakPoints

\* What `bp' reads holds a trap only where the map has an entry.
LEMMA PeekFindsKnownTraps ==
  ASSUME TypeOK, ClearInv, NEW a \in SwSites
  PROVE  /\ Peek(a).lo = "brk" => a \in DOMAIN BreakPoints
         /\ Peek(a).hi = "brk" => a + 1 \in DOMAIN BreakPoints
<1>1. CASE tstate = "stopped" /\ {a, a + 1} \subseteq mapped
  <2>1. a \in Text /\ a + 1 \in Text
    BY <1>1 DEF TypeOK, TraceeTypeOK
  <2>2. Peek(a).lo = mem[a] /\ Peek(a).hi = mem[a + 1]
    BY <1>1 DEF Peek
  <2> QED BY <2>1, <2>2 DEF ClearInv
<1>2. CASE ~ (tstate = "stopped" /\ {a, a + 1} \subseteq mapped)
  <2>1. Peek(a).lo = "ones" /\ Peek(a).hi = "ones"
    BY <1>2 DEF Peek
  <2> QED BY <2>1
<1> QED BY <1>1, <1>2

\* A step keeps the entries free of traps nobody knows.
LEMMA ClearStep ==
  ASSUME TypeOK, ClearInv, [Next]_vars
  PROVE  ClearInv'
<1>1. \A i \in Slots : hw'[i] \in HwSites \cup {NoAddr}
  BY HwSteps DEF setHwBreakpoint, HwBreakpointCheck, ClearInv, TypeOK, TraceeTypeOK
<1>2. ASSUME NEW a \in SwSites, setBreakPoint(a)
      PROVE  ClearInv'
  <2>1. /\ DOMAIN BreakPoints' = DOMAIN BreakPoints \cup {a}
        /\ \A b \in DOMAIN BreakPoints : BreakPoints'[b] = BreakPoints[b]
        /\ a \notin DOMAIN BreakPoints => BreakPoints'[a] = Peek(a)
    BY <1>2, SMT DEF setBreakPoint, Insert
  <2>2. \A x \in Text : mem'[x] = "brk" => x = a \/ mem[x] = "brk"
    BY <1>2 DEF setBreakPoint, Poked, TrapWord
  <2>3. \A x \in Text : mem'[x] = "brk" => x \in DOMAIN BreakPoints'
    BY <2>1, <2>2 DEF ClearInv
  <2>4. ASSUME NEW b \in DOMAIN BreakPoints'
        PROVE  /\ BreakPoints'[b].lo # "brk"
               /\ BreakPoints'[b].hi = "brk" => b + 1 \in DOMAIN BreakPoints'
    BY <2>1, PeekFindsKnownTraps DEF ClearInv
  <2> QED BY <1>1, <2>3, <2>4 DEF ClearInv
<1>3. CASE BreakpointHit
  <2>1. BreakPoints' = BreakPoints /\ pc \in DOMAIN BreakPoints
    BY <1>3 DEF BreakpointHit
  <2>2. ASSUME NEW x \in Text, mem'[x] = "brk"
        PROVE  x \in DOMAIN BreakPoints
    <3>1. \/ mem'[x] = mem[x]
          \/ x = pc /\ mem'[x] = BreakPoints[pc].lo
          \/ x = pc + 1 /\ mem'[x] = BreakPoints[pc].hi
      BY <1>3 DEF BreakpointHit, Restored, Poked
    <3> QED BY <2>1, <2>2, <3>1 DEF ClearInv
  <2> QED BY <1>1, <2>1, <2>2 DEF ClearInv
<1>4. CASE UNCHANGED <<mem, BreakPoints>>
  BY <1>1, <1>4 DEF ClearInv
<1> QED BY <1>2, <1>3, <1>4, TextSteps

LEMMA ClearInvariant == Spec => []ClearInv
<1>1. Init => ClearInv
  BY DEF Init, TraceeInit, ClearInv
<1>2. TypeOK /\ ClearInv /\ [Next]_vars => ClearInv'
  BY ClearStep
<1> QED BY <1>1, <1>2, TypeCorrect, PTL DEF Spec

\* The report of a SIGTRAP leaves no cause of it at the pc.
LEMMA CauseStep ==
  ASSUME DisjointSites, TypeOK, ClearInv, [Next]_vars,
         dbg = "cont", dbg' = "prompt", sig = "TRAP"
  PROVE  mem'[pc] # "brk" /\ ~ HwArmedAt(pc)'
<1> SUFFICES mem'[pc] # "brk" /\ \A i \in Slots : hw'[i] # pc'
  BY DEF HwArmedAt
<1>1. BreakpointHit \/ HwBreakpointCheck
  BY DEF Next, ContinueReturns, setBreakPoint, setHwBreakpoint, Quit, Continue,
         OtherSignal, TraceeGone, doSingleStep, SingleStepFails,
         SingleStepReturns, vars, dbgVars
<1>2. CASE BreakpointHit
  <2>1. /\ pc \in DOMAIN BreakPoints /\ pc \in Text /\ pc \in mapped
        /\ tstate = "stopped" /\ hw' = hw /\ pc' = pc
    BY <1>2 DEF BreakpointHit, TypeOK, TraceeTypeOK
  <2>2. mem'[pc] = BreakPoints[pc].lo
    BY <1>2, <2>1 DEF BreakpointHit, Restored, Poked
  <2>3. pc \notin HwSites /\ pc # NoAddr
    BY <2>1, Addresses DEF DisjointSites, TypeOK
  <2> QED BY <2>1, <2>2, <2>3 DEF ClearInv
<1>3. CASE HwBreakpointCheck
  <2>1. mem'[pc] # "brk" /\ pc' = pc /\ pc # NoAddr
    BY <1>3, Addresses DEF HwBreakpointCheck, ClearInv, TypeOK, TraceeTypeOK
  <2>2. ASSUME NEW i \in Slots
        PROVE  hw'[i] # pc
    <3>1. i \in ClearedBy(i)
      BY Addresses DEF ClearedBy
    <3> QED BY <1>3, <2>1, <3>1 DEF HwBreakpointCheck
  <2> QED BY <2>1, <2>2
<1> QED BY <1>1, <1>2, <1>3

\* With disjoint sites a `cont' that reports SIGTRAP leaves nothing at the pc that
\* stops the next `cont' before it executed an instruction.
THEOREM CauseIsCleared ==
  ASSUME DisjointSites
  PROVE  Spec => CauseCleared
<1>1. TypeOK /\ ClearInv /\ [Next]_vars
      => [dbg = "cont" /\ dbg' = "prompt" /\ sig = "TRAP"
            => mem'[pc] # "brk" /\ ~ HwArmedAt(pc)']_vars
  BY CauseStep
<1> QED BY <1>1, TypeCorrect, ClearInvariant, PTL DEF Spec, CauseCleared

-----------------------------------------------------------------------------
(***************************************************************************)
(* Refinement.                                                             *)
(***************************************************************************)

\* A step of the command loop is one of one-shot breakpoints or a stutter.
LEMMA OneShotStep ==
  ASSUME MappedSites, SpacedSites, TypeOK, RunsOnlyWhileAwaited, IntactInv, [Next]_vars
  PROVE  Abstract!Next \/ UNCHANGED Abstract!vars
<1>1. Armed' = Armed \/ mem' # mem
  BY DEF Armed
<1>2. ASSUME NEW a \in SwSites, setBreakPoint(a)
      PROVE  Abstract!Next \/ UNCHANGED Abstract!vars
  <2>1. UNCHANGED <<pc, tstate, sig, stepping, dbg>> /\ dbg = "prompt"
    BY <1>2 DEF setBreakPoint
  <2>2. Phase = "prompt" /\ Phase' = Phase
    BY <2>1 DEF Phase
  <2>3. CASE tstate = "dead"
    BY <1>1, <2>1, <2>2, <2>3, DeadStep DEF Abstract!vars
  <2>4. CASE tstate # "dead"
    <3>1. Armed' = Armed \cup {a}
      BY <1>2, <2>4, ArmingStep
    <3> QED BY <2>1, <2>2, <3>1 DEF Abstract!Next, Abstract!Arm
  <2> QED BY <2>3, <2>4
<1>3. CASE BreakpointHit
  <2>1. Armed' = Armed \ {pc}
    BY <1>3, DisarmingStep
  <2>2. /\ ~ stepping /\ sig = "TRAP" /\ pc' = pc
        /\ sig' = "none" /\ stepping' = FALSE
    BY <1>3 DEF BreakpointHit, Reported, NoSignal, RunsOnlyWhileAwaited
  <2>3. Phase = "stopped" /\ Phase' = "prompt"
    BY <1>3 DEF BreakpointHit, Phase
  <2> QED BY <2>1, <2>2, <2>3 DEF Abstract!Next, Abstract!Report
<1>4. CASE HwBreakpointCheck
  <2>1. /\ ~ stepping /\ sig = "TRAP" /\ UNCHANGED <<pc, mem>>
        /\ sig' = "none" /\ stepping' = FALSE
    BY <1>4 DEF HwBreakpointCheck, Reported, NoSignal, RunsOnlyWhileAwaited
  <2>2. pc \notin Armed /\ Armed' = Armed
    BY <1>1, <1>4, <2>1
    DEF HwBreakpointCheck, IntactInv, TextIntact, TypeOK, TraceeTypeOK
  <2>3. Phase = "stopped" /\ Phase' = "prompt"
    BY <1>4 DEF HwBreakpointCheck, Phase
  <2> QED BY <2>1, <2>2, <2>3 DEF Abstract!Next, Abstract!Report
<1>5. CASE OtherSignal
  <2>1. /\ sig # "TRAP" /\ UNCHANGED <<pc, mem>>
        /\ sig' = "none" /\ stepping' = FALSE
    BY <1>5 DEF OtherSignal, Reported, NoSignal
  <2>2. Phase = "stopped" /\ Phase' = "prompt"
    BY <1>5 DEF OtherSignal, Phase
  <2> QED BY <1>1, <2>1, <2>2 DEF Abstract!Next, Abstract!Report
<1>6. CASE SingleStepReturns
  <2>1. /\ stepping /\ UNCHANGED <<pc, mem, tstate>>
        /\ sig' = "none" /\ stepping' = FALSE
    BY <1>6 DEF SingleStepReturns, Reported, NoSignal, RunsOnlyWhileAwaited
  <2>2. \/ Phase = "stopped" /\ Phase' = "prompt"
        \/ Phase = "gone" /\ Phase' = "over"
    BY <1>6 DEF SingleStepReturns, Phase, TypeOK, TraceeTypeOK
  <2> QED BY <1>1, <2>1, <2>2 DEF Abstract!Next, Abstract!Report, Abstract!End
<1>7. CASE Quit \/ TraceeGone \/ SingleStepFails
  <2>1. UNCHANGED <<pc, mem>> /\ sig' = "none" /\ stepping' = FALSE
    BY <1>7 DEF Quit, TraceeGone, SingleStepFails, traceeVars, Reported, NoSignal,
                RunsOnlyWhileAwaited, TypeOK, TraceeTypeOK
  <2>2. Phase \in {"prompt", "gone"} /\ Phase' = "over"
    BY <1>7 DEF Quit, TraceeGone, SingleStepFails, Phase
  <2> QED BY <1>1, <2>1, <2>2 DEF Abstract!Next, Abstract!End
<1>8. CASE Continue \/ doSingleStep
  <2>1. UNCHANGED <<pc, sig, mem>> /\ stepping' \in BOOLEAN
    BY <1>8 DEF Continue, doSingleStep, Resume
  <2>2. Phase = "prompt" /\ Phase' = "running"
    BY <1>8 DEF Continue, doSingleStep, Resume, Phase
  <2> QED BY <1>1, <2>1, <2>2 DEF Abstract!Next, Abstract!Resume
<1>9. CASE TraceeStep /\ UNCHANGED dbgVars
  <2>1. mem' = mem /\ dbg' = dbg /\ stepping' = stepping
    BY <1>9 DEF TraceeStep, CpuTrap, HwTrap, BrkTrap, UndefinedInstruction,
                Execute, SignalStop, MapLateText, Die, StopWith, dbgVars
  <2>2. tstate = "running" => Phase = "running"
    BY DEF RunsOnlyWhileAwaited, Phase
  <2>3. tstate = "running" /\ tstate' = "stopped" => Phase' = "stopped"
    BY <2>1 DEF RunsOnlyWhileAwaited, Phase
  <2>4. CASE HwTrap \/ SignalStop
    <3>1. /\ tstate = "running" /\ tstate' = "stopped" /\ pc' = pc
          /\ sig' \in {"TRAP", "OTHER"}
      BY <2>4 DEF HwTrap, SignalStop, StopWith
    <3> QED
      BY <1>1, <2>1, <2>2, <2>3, <3>1
      DEF Abstract!Next, Abstract!Intercept, Abstract!StopWith
  <2>5. CASE BrkTrap
    <3>1. /\ tstate = "running" /\ tstate' = "stopped" /\ pc' = pc
          /\ sig' = "TRAP" /\ mem[pc] = "brk"
      BY <2>5 DEF BrkTrap, StopWith
    <3>2. pc \in Armed
      BY <3>1 DEF IntactInv, TextIntact, TypeOK, TraceeTypeOK
    <3> QED
      BY <1>1, <2>1, <2>2, <2>3, <3>1, <3>2
      DEF Abstract!Next, Abstract!Trap, Abstract!StopWith
  <2>6. CASE UndefinedInstruction
    <3>1. /\ tstate = "running" /\ tstate' = "stopped" /\ pc' = pc
          /\ sig' = "ILL" /\ mem[pc] \in {"zero", "ones"}
      BY <2>6 DEF UndefinedInstruction, StopWith
    <3>2. pc - 1 \in Armed
      BY <3>1 DEF IntactInv, TextIntact, TypeOK, TraceeTypeOK, Armed
    <3>3. (pc - 1) + 1 = pc
      BY Addresses DEF TypeOK, TraceeTypeOK
    <3>4. pc \in Abstract!Shadow
      BY <3>2, <3>3 DEF Abstract!Shadow
    <3> QED
      BY <1>1, <2>1, <2>2, <2>3, <3>1, <3>4
      DEF Abstract!Next, Abstract!Fault, Abstract!StopWith
  <2>7. CASE Execute
    <3>1. /\ tstate = "running" /\ mem[pc] = "orig" /\ pc' \in Text
          /\ \/ stepping /\ tstate' = "stopped" /\ sig' = "TRAP"
             \/ ~ stepping /\ UNCHANGED <<tstate, sig>>
      BY <2>7 DEF Execute, TypeOK, TraceeTypeOK
    <3>2. pc \notin Armed
      BY <3>1 DEF Armed
    <3>3. pc \notin Abstract!Shadow
      BY <3>1 DEF Abstract!Shadow, IntactInv
    <3>4. UNCHANGED tstate => Phase' = Phase
      BY <2>1 DEF Phase
    <3> QED
      BY <1>1, <2>1, <2>2, <2>3, <3>1, <3>2, <3>3, <3>4
      DEF Abstract!Next, Abstract!Execute
  <2>8. CASE MapLateText
    <3>1. UNCHANGED <<pc, tstate, sig>> /\ Phase' = Phase
      BY <2>1, <2>8 DEF MapLateText, Phase
    <3> QED BY <1>1, <2>1, <3>1 DEF Abstract!vars
  <2>9. CASE Die
    <3>1. tstate # "dead" /\ tstate' = "dead" /\ UNCHANGED <<pc, sig>>
      BY <2>9 DEF Die
    <3>2. \/ Phase \in {"running", "stopped"} /\ Phase' = "gone"
          \/ Phase' = Phase
      BY <2>1, <3>1 DEF Phase, TypeOK, TraceeTypeOK
    <3> QED BY <1>1, <2>1, <3>1, <3>2 DEF Abstract!Next, Abstract!Vanish, Abstract!vars
  <2> QED
    BY <1>9, <2>4, <2>5, <2>6, <2>7, <2>8, <2>9 DEF TraceeStep, CpuTrap
<1>10. CASE \E a \in HwSites, n \in Slots : setHwBreakpoint(a, n)
  <2>1. UNCHANGED <<mem, pc, tstate, sig, stepping, dbg>>
    BY <1>10 DEF setHwBreakpoint, dbgVars
  <2> QED BY <1>1, <2>1 DEF Phase, Abstract!vars
<1>11. CASE UNCHANGED vars
  <2>1. UNCHANGED <<mem, pc, tstate, sig, stepping, dbg>>
    BY <1>11 DEF vars, traceeVars, dbgVars
  <2> QED BY <1>1, <2>1 DEF Phase, Abstract!vars
<1> QED
  BY <1>2, <1>3, <1>4, <1>5, <1>6, <1>7, <1>8, <1>9, <1>10, <1>11
  DEF Next, ContinueReturns

\* On spaced and mapped sites the command loop over a real text implements
\* one-shot breakpoints over none.
THEOREM RefinesOneShot ==
  ASSUME MappedSites, SpacedSites
  PROVE  Spec => ImplementsOneShot
<1>1. Init => Abstract!Init
  BY Addresses
  DEF Init, TraceeInit, Abstract!Init, Armed, Phase, NoSignal
<1>2. /\ TypeOK /\ RunsOnlyWhileAwaited /\ IntactInv /\ [Next]_vars
      => [Abstract!Next]_Abstract!vars
  BY OneShotStep
<1> QED
  BY <1>1, <1>2, TypeCorrect, AwaitedWhileRunning, IntactInvariant, PTL
  DEF Spec, ImplementsOneShot, Abstract!Spec

-----------------------------------------------------------------------------
(***************************************************************************)
(* Liveness.  ENABLED is out of the provers' reach: what the fair actions  *)
(* need in order to be taken, WaitsCanEnd, is a hypothesis here, and an    *)
(* invariant of the runs.  From it and the fairness of the specification   *)
(* each wait goes through a chain of states no step leaves but forwards.   *)
(***************************************************************************)

\* Every step while a request waits, of the tracee or of a return: the wait goes on,
\* with the tracee where it was or with the tracee halted, or it has returned.
LEMMA AwaitedSteps ==
  ASSUME TypeOK, [Next]_vars, dbg \in {"cont", "step"}
  PROVE  /\ tstate # "running"
              => (dbg' = dbg /\ tstate' # "running") \/ dbg' \in {"prompt", "done"}
         /\ tstate = "dead" => (dbg' = dbg /\ tstate' = "dead") \/ dbg' = "done"
         /\ tstate = "running" => dbg' = dbg
         /\ tstate = "running" /\ (stepping \/ TrapAhead)
              => \/ UNCHANGED <<tstate, stepping>> /\ TrapAhead' = TrapAhead
                 \/ tstate' # "running"
BY DEF Next, ContinueReturns, setBreakPoint, setHwBreakpoint, Quit, Continue,
       BreakpointHit, HwBreakpointCheck, OtherSignal, TraceeGone, doSingleStep,
       SingleStepFails, SingleStepReturns, TraceeStep, CpuTrap, HwTrap, BrkTrap,
       UndefinedInstruction, Execute, SignalStop, MapLateText, Die, StopWith,
       TrapAhead, HwArmedAt, dbgVars, vars, traceeVars

\* What a trap ahead of a waiting request leads to: the tracee is halted.
LEMMA TrapStops ==
  ASSUME CpuTrap, UNCHANGED dbgVars
  PROVE  tstate' # "running" /\ dbg' = dbg
BY DEF CpuTrap, HwTrap, BrkTrap, UndefinedInstruction, StopWith, dbgVars

\* A `next' in front of a trap is stopped by it or something else, one in front of an
\* instruction that completes is stopped behind it, and the wait for a tracee that
\* is stopped or dead returns.
THEOREM NextComesBack == FairSpec /\ []WaitsCanEnd => NextReturns
<1> DEFINE AtTrap  == dbg = "step" /\ tstate = "running" /\ TrapAhead
           Stepped == dbg = "step" /\ tstate = "running" /\ stepping /\ ~ TrapAhead
           Halted  == dbg = "step" /\ tstate # "running"
           Back    == dbg \in {"prompt", "done"}
<1>1. TypeOK /\ AtTrap /\ [Next]_vars => AtTrap' \/ Halted'
  BY AwaitedSteps
<1>2. AtTrap /\ <<CpuTrap /\ UNCHANGED dbgVars>>_vars => Halted'
  BY TrapStops
<1>3. TypeOK /\ Stepped /\ [Next]_vars => Stepped' \/ Halted'
  BY AwaitedSteps
<1>4. Stepped /\ <<Execute /\ UNCHANGED dbgVars>>_vars => Halted'
  BY DEF Execute, dbgVars
<1>5. TypeOK /\ Halted /\ [Next]_vars => Halted' \/ Back'
  BY AwaitedSteps
<1>6. Halted /\ <<SingleStepReturns>>_vars => Back'
  BY DEF SingleStepReturns
<1>7. RunsOnlyWhileAwaited => (dbg = "step" => AtTrap \/ Stepped \/ Halted)
  BY DEF RunsOnlyWhileAwaited
<1>8. /\ AtTrap => tstate = "running" /\ TrapAhead
      /\ Stepped => tstate = "running" /\ stepping /\ ~ TrapAhead
      /\ Halted => dbg = "step" /\ tstate # "running"
      /\ dbg = "step" /\ (TrapAhead \/ tstate # "running") => AtTrap \/ Halted
  OBVIOUS
<1> HIDE DEF AtTrap, Stepped, Halted
<1> QED
  BY <1>1, <1>2, <1>3, <1>4, <1>5, <1>6, <1>7, <1>8, TypeCorrect,
     AwaitedWhileRunning, PTL
  DEF FairSpec, Spec, Fairness, WaitsCanEnd, NextReturns, InstructionsComplete

\* The end of a tracee is what the wait of `cont', and that of `next', returns with.
THEOREM ExitsEndTheSession == FairSpec /\ []WaitsCanEnd => ExitEndsSession
<1> DEFINE ContGone == dbg = "cont" /\ tstate = "dead"
           StepGone == dbg = "step" /\ tstate = "dead"
           Over     == dbg = "done"
<1>1. /\ TypeOK /\ ContGone /\ [Next]_vars => ContGone' \/ Over'
      /\ TypeOK /\ StepGone /\ [Next]_vars => StepGone' \/ Over'
  BY AwaitedSteps
<1>2. ContGone /\ <<ContinueReturns>>_vars => Over'
  BY DEF ContinueReturns, BreakpointHit, HwBreakpointCheck, OtherSignal, TraceeGone
<1>3. StepGone /\ <<SingleStepReturns>>_vars => Over'
  BY DEF SingleStepReturns
<1>4. /\ ContGone => dbg = "cont" /\ tstate # "running"
      /\ StepGone => dbg = "step" /\ tstate # "running"
      /\ dbg \in {"cont", "step"} /\ tstate = "dead" => ContGone \/ StepGone
  OBVIOUS
<1> HIDE DEF ContGone, StepGone
<1> QED
  BY <1>1, <1>2, <1>3, <1>4, TypeCorrect, PTL
  DEF FairSpec, Spec, Fairness, WaitsCanEnd, ExitEndsSession

\* A `cont' that came to a trap is stopped by it, and a `cont' whose tracee is
\* stopped or gone returns.
THEOREM ContinuesComeBack == FairSpec /\ []WaitsCanEnd => ContinueComesBack
<1> DEFINE AtTrap == dbg = "cont" /\ tstate = "running" /\ TrapAhead
           Halted == dbg = "cont" /\ tstate # "running"
           Back   == dbg # "cont"
<1>1. TypeOK /\ AtTrap /\ [Next]_vars => AtTrap' \/ Halted'
  BY AwaitedSteps
<1>2. AtTrap /\ <<CpuTrap /\ UNCHANGED dbgVars>>_vars => Halted'
  BY TrapStops
<1>3. TypeOK /\ Halted /\ [Next]_vars => Halted' \/ Back'
  BY AwaitedSteps
<1>4. <<ContinueReturns>>_vars => Back'
  BY DEF ContinueReturns, BreakpointHit, HwBreakpointCheck, OtherSignal, TraceeGone
<1>5. /\ AtTrap => tstate = "running" /\ TrapAhead
      /\ Halted => dbg = "cont" /\ tstate # "running"
      /\ dbg = "cont" /\ (TrapAhead \/ tstate # "running") => AtTrap \/ Halted
  OBVIOUS
<1> HIDE DEF AtTrap, Halted
<1> QED
  BY <1>1, <1>2, <1>3, <1>4, <1>5, TypeCorrect, PTL
  DEF FairSpec, Spec, Fairness, WaitsCanEnd, ContinueComesBack
=============================================================================
