----------------------------- MODULE MemChecker -----------------------------
(***************************************************************************)
(* The memory checker, src/src/src/Utils/mem_checker.c: it reads areas of  *)
(* a process that goes on running, keeps the words that changed, or did    *)
(* not change, from one reading to the next, and writes words back.        *)
(*                                                                         *)
(* It is one thread.  A step reads one area, or takes one turn of the loop *)
(* over the hits; the process changes its memory, and maps and unmaps      *)
(* areas, between any two of them.                                         *)
(***************************************************************************)
EXTENDS Integers, FiniteSets

CONSTANTS
  NumWords,     \* 64-bit words in the observed areas, numbered by address
  NumAreas,     \* observed areas, in the order of obs_list
  AreaOf,       \* the area a word lies in
  Values,       \* what a word can hold
  MaxHits,      \* MAX_HIT_PRINT, how many hits are recorded
  UserAddrs     \* the addresses the user gives to `w'

Words == 1 .. NumWords
Areas == 1 .. NumAreas

\* A user may name any address; this one lies in no area.
Elsewhere == 0

\* Areas are listed by their addresses, as /proc/<pid>/maps lists them.
ASSUME MemCheckerAssumption ==
  /\ NumWords \in Nat /\ NumAreas \in Nat /\ MaxHits \in Nat
  /\ AreaOf \in [Words -> Areas]
  /\ \A v, w \in Words : v < w => AreaOf[v] <= AreaOf[w]
  /\ "none" \notin Values
  /\ UserAddrs \subseteq Words \cup {Elsewhere}

VARIABLES
  memory,       \* the memory of the process
  readable,     \* the areas it has mapped
  mem_ptr,      \* per word: the value it was last seen with
  cmp_ptr,      \* the words that are out
  invalid,      \* the areas that are skipped
  hits,         \* number of hits of the last round
  orig,         \* recorded hit -> value before the last round
  modd,         \* recorded hit -> value in the last round
  pending,      \* what the FILE proc_mem_write still holds in its buffer
  mode,         \* what the last round asked for
  at,           \* where the checker is
  area_i,       \* the next area of a round
  to_restore    \* the recorded hits that restoreMemory has yet to write

process == <<memory, readable>>
areas   == <<mem_ptr, cmp_ptr, invalid>>
hitVars == <<hits, orig, modd>>
vars    == <<process, areas, hitVars, pending, mode, at, area_i, to_restore>>

InArea(a) == {w \in Words : AreaOf[w] = a}

NoValue   == "none"
NoWrite   == [addr |-> Elsewhere, value |-> NoValue]

\* The words still in the search.
Candidates == {w \in Words : AreaOf[w] \notin invalid /\ w \notin cmp_ptr}

-----------------------------------------------------------------------------
(***************************************************************************)
(* The handle for writing is a buffered FILE: fwrite leaves its eight      *)
(* bytes in the buffer, and the next fseek on the handle, or exit, hands   *)
(* them to the kernel.  fseek fails when that write fails.                 *)
(***************************************************************************)

Arrives == pending # NoWrite /\ pending.addr # Elsewhere
           /\ AreaOf[pending.addr] \in readable

\* Whether that write can succeed, and whether it can fail.  Elsewhere may be mapped.
FlushResults ==
  IF pending = NoWrite \/ Arrives THEN {TRUE}
  ELSE IF pending.addr = Elsewhere THEN BOOLEAN ELSE {FALSE}

Flushed ==
  IF Arrives THEN [memory EXCEPT ![pending.addr] = pending.value] ELSE memory

\* seekToMem and fwrite of one word: a failed fseek ends the checker, exit(-2).
SeekAndWrite(w, v, next) ==
  /\ memory' = Flushed
  /\ \E ok \in FlushResults :
       IF ok THEN pending' = [addr |-> w, value |-> v] /\ at' = next
             ELSE pending' = NoWrite /\ at' = "done"

-----------------------------------------------------------------------------
(***************************************************************************)
(* Reading.                                                                *)
(***************************************************************************)

\* Mutant of initialMemoryread: the loop runs one area too far.
initialMemoryreadOneMore ==
  /\ at = "read" /\ area_i <= NumAreas + 1
  /\ IF area_i \in readable
     THEN /\ mem_ptr' = [w \in Words |-> IF AreaOf[w] = area_i THEN memory[w]
                                         ELSE mem_ptr[w]]
          /\ invalid' = invalid \ {area_i}
     ELSE /\ invalid' = invalid \cup {area_i}
          /\ UNCHANGED mem_ptr
  /\ area_i' = area_i + 1
  /\ UNCHANGED <<process, cmp_ptr, hitVars, pending, mode, at, to_restore>>

\* initialMemoryread, one area.
initialMemoryread ==
  /\ at = "read" /\ area_i \in Areas
  /\ IF area_i \in readable
     THEN /\ mem_ptr' = [w \in Words |-> IF AreaOf[w] = area_i THEN memory[w]
                                         ELSE mem_ptr[w]]
          /\ invalid' = invalid \ {area_i}
     ELSE /\ invalid' = invalid \cup {area_i}
          /\ UNCHANGED mem_ptr
  /\ area_i' = area_i + 1
  /\ UNCHANGED <<process, cmp_ptr, hitVars, pending, mode, at, to_restore>>

\* `c' or `u' at the prompt.
StartRound(m) ==
  /\ at = "prompt"
  /\ mode' = m
  /\ hits' = 0
  /\ orig' = [w \in {} |-> NoValue] /\ modd' = [w \in {} |-> NoValue]
  /\ at' = "check" /\ area_i' = 1
  /\ UNCHANGED <<process, areas, pending, to_restore>>

\* Mutant of Survivors: a word that is out is looked at again.
SurvivorsOfAll(a) ==
  {w \in InArea(a) : IF mode = "changed" THEN mem_ptr[w] # memory[w]
                                         ELSE mem_ptr[w] = memory[w]}

\* The words of an area that are not out and that behave as asked.
Survivors(a) ==
  {w \in InArea(a) \ cmp_ptr : IF mode = "changed" THEN mem_ptr[w] # memory[w]
                                                   ELSE mem_ptr[w] = memory[w]}

\* hits < MAX_HIT_PRINT: the first hits are recorded, by address.
Recorded(S) ==
  {w \in S : hits + Cardinality({v \in S : v < w}) < MaxHits}

\* Mutant of CompareArea: the value seen is not kept for the next round.
CompareAreaKeepsOld ==
  LET S == Survivors(area_i) IN
  /\ cmp_ptr' = cmp_ptr \cup (InArea(area_i) \ S)
  /\ orig' = [w \in DOMAIN orig \cup Recorded(S) |->
                IF w \in S THEN mem_ptr[w] ELSE orig[w]]
  /\ modd' = [w \in DOMAIN modd \cup Recorded(S) |->
                IF w \in S THEN memory[w] ELSE modd[w]]
  /\ hits' = hits + Cardinality(S)
  /\ UNCHANGED <<mem_ptr, invalid>>

\* An area that was read: everything in it that does not fit is out, what does
\* is a hit, is recorded while there is room, and its new value is kept.
CompareArea ==
  LET S == Survivors(area_i) IN
  /\ cmp_ptr' = cmp_ptr \cup (InArea(area_i) \ S)
  /\ orig' = [w \in DOMAIN orig \cup Recorded(S) |->
                IF w \in S THEN mem_ptr[w] ELSE orig[w]]
  /\ modd' = [w \in DOMAIN modd \cup Recorded(S) |->
                IF w \in S THEN memory[w] ELSE modd[w]]
  /\ hits' = hits + Cardinality(S)
  /\ mem_ptr' = [w \in Words |-> IF w \in S THEN memory[w] ELSE mem_ptr[w]]
  /\ UNCHANGED invalid

\* Mutant of checkForChanges: a skipped area is not counted by the loop.
checkForChangesStays ==
  /\ at = "check" /\ area_i \in Areas
  /\ \/ area_i \in invalid /\ UNCHANGED <<areas, hitVars>>
     \/ area_i \in readable \ invalid /\ CompareArea
     \/ /\ area_i \notin readable \cup invalid
        /\ invalid' = invalid \cup {area_i}
        /\ UNCHANGED <<mem_ptr, cmp_ptr, hitVars>>
  /\ area_i' = IF area_i \in invalid THEN area_i ELSE area_i + 1
  /\ UNCHANGED <<process, pending, mode, at, to_restore>>

\* checkForChanges, one area.  One that cannot be read is invalid from now on.
checkForChanges ==
  /\ at = "check" /\ area_i \in Areas
  /\ \/ area_i \in invalid /\ UNCHANGED <<areas, hitVars>>
     \/ area_i \in readable \ invalid /\ CompareArea
     \/ /\ area_i \notin readable \cup invalid
        /\ invalid' = invalid \cup {area_i}
        /\ UNCHANGED <<mem_ptr, cmp_ptr, hitVars>>
  /\ area_i' = area_i + 1
  /\ UNCHANGED <<process, pending, mode, at, to_restore>>

\* The areas all of whose words are out; invalidateMemory releases them.
Exhausted == {a \in Areas \ invalid : InArea(a) \subseteq cmp_ptr}

\* The loop over the areas is through.
RoundEnds ==
  /\ at \in {"read", "check"} /\ area_i \notin Areas
  /\ at' = "prompt"
  /\ invalid' = IF at = "check" THEN invalid \cup Exhausted ELSE invalid
  /\ UNCHANGED <<process, mem_ptr, cmp_ptr, hitVars, pending, mode, area_i,
                 to_restore>>

-----------------------------------------------------------------------------
(***************************************************************************)
(* Writing.                                                                *)
(***************************************************************************)

\* `w': any address, any value.
writeMemory(w, v) ==
  /\ at = "prompt"
  /\ SeekAndWrite(w, v, "prompt")
  /\ UNCHANGED <<readable, areas, hitVars, mode, area_i, to_restore>>

\* Mutant of TooMany: one hit more than is recorded.
TooManyForArrays == hits > MaxHits + 1

TooMany == hits > MaxHits

\* `r', refused when not every hit was recorded.
restoreMemory ==
  /\ at = "prompt" /\ ~ TooMany
  /\ to_restore' = DOMAIN orig
  /\ at' = "restore"
  /\ UNCHANGED <<process, areas, hitVars, pending, mode, area_i>>

\* Mutant of RestoreHit: the new value is written, not the old one.
RestoreHitWritesNew ==
  /\ at = "restore"
  /\ \E w \in to_restore :
       /\ \A v \in to_restore : w <= v
       /\ SeekAndWrite(w, modd[w], "restore")
       /\ to_restore' = to_restore \ {w}
  /\ UNCHANGED <<readable, areas, hitVars, mode, area_i>>

\* Its loop, in the order the hits were recorded.
RestoreHit ==
  /\ at = "restore"
  /\ \E w \in to_restore :
       /\ \A v \in to_restore : w <= v
       /\ SeekAndWrite(w, orig[w], "restore")
       /\ to_restore' = to_restore \ {w}
  /\ UNCHANGED <<readable, areas, hitVars, mode, area_i>>

RestoreEnds ==
  /\ at = "restore" /\ to_restore = {}
  /\ at' = "prompt"
  /\ UNCHANGED <<process, areas, hitVars, pending, mode, area_i, to_restore>>

\* `q' is exit(0), which flushes.
Quit ==
  /\ at = "prompt"
  /\ memory' = Flushed
  /\ pending' = NoWrite
  /\ at' = "done"
  /\ UNCHANGED <<readable, areas, hitVars, mode, area_i, to_restore>>

-----------------------------------------------------------------------------
(***************************************************************************)
(* The process, which nobody stops.                                        *)
(***************************************************************************)

ProcessWrites ==
  /\ \E w \in Words, v \in Values :
       /\ AreaOf[w] \in readable
       /\ memory' = [memory EXCEPT ![w] = v]
  /\ UNCHANGED <<readable, areas, hitVars, pending, mode, at, area_i, to_restore>>

\* munmap and mmap of an area; munmap of one after the other when it exits.
ProcessMaps ==
  /\ \E a \in Areas : readable' \in {readable \cup {a}, readable \ {a}}
  /\ UNCHANGED <<memory, areas, hitVars, pending, mode, at, area_i, to_restore>>

-----------------------------------------------------------------------------

\* The flags and pointers the caller left in its list are not read before
\* initialMemoryread has set them.
Init ==
  /\ memory \in [Words -> Values]
  /\ readable \in SUBSET Areas
  /\ mem_ptr = [w \in Words |-> NoValue]
  /\ cmp_ptr = {}
  /\ invalid = Areas
  /\ hits = 0 /\ orig = [w \in {} |-> NoValue] /\ modd = [w \in {} |-> NoValue]
  /\ pending = NoWrite
  /\ mode = "first"
  /\ at = "read" /\ area_i = 1
  /\ to_restore = {}

runMemChecking ==
  \/ initialMemoryread
  \/ \E m \in {"changed", "unchanged"} : StartRound(m)
  \/ checkForChanges
  \/ RoundEnds
  \/ \E w \in UserAddrs, v \in Values : writeMemory(w, v)
  \/ restoreMemory
  \/ RestoreHit
  \/ RestoreEnds
  \/ Quit

Next == runMemChecking \/ ProcessWrites \/ ProcessMaps

Spec == Init /\ [][Next]_vars

\* The checker is given the CPU while it is inside one of its loops.  Nothing
\* is assumed of the user and of the process.
Fairness ==
  WF_vars(initialMemoryread \/ checkForChanges \/ RoundEnds
          \/ RestoreHit \/ RestoreEnds)

FairSpec == Spec /\ Fairness

-----------------------------------------------------------------------------
(***************************************************************************)
(* Properties.                                                             *)
(***************************************************************************)

TypeOK ==
  /\ memory \in [Words -> Values] /\ readable \subseteq Areas
  /\ mem_ptr \in [Words -> Values \cup {NoValue}]
  /\ cmp_ptr \subseteq Words /\ invalid \subseteq Areas
  /\ hits \in Nat
  /\ DOMAIN orig \subseteq Words /\ orig \in [DOMAIN orig -> Values]
  /\ modd \in [DOMAIN orig -> Values]
  /\ pending \in [addr : Words \cup {Elsewhere}, value : Values] \cup {NoWrite}
  /\ mode \in {"first", "changed", "unchanged"}
  /\ at \in {"read", "prompt", "check", "restore", "done"}
  /\ area_i \in 1 .. NumAreas + 1
  /\ to_restore \subseteq DOMAIN orig

RoundOver == mode # "first" /\ at \in {"prompt", "restore"}

\* The first MaxHits candidates, by address.
Shown == {w \in Candidates : Cardinality({v \in Candidates : v < w}) < MaxHits}

\* After a round the counter is the number of words still in the search, and the
\* arrays hold the first of them with the values they were last seen with,
\* whatever became invalid before, during or after the round: the counter, the
\* arrays, the masks and the flags, set in four places, tell the same story
\* (mem_checker.c 149-204, 120-147).
HitsAreCandidates ==
  RoundOver =>
    /\ hits = Cardinality(Candidates)
    /\ DOMAIN orig = Shown
    /\ \A w \in Shown : /\ modd[w] = mem_ptr[w]
                        /\ mode = "changed" <=> orig[w] # modd[w]

\* The records a restore writes from are exactly the words still in the search: the
\* test before it (>) and the test before recording (<) leave no count at which
\* a hit was left out because the arrays were full (mem_checker.c 189, 239).
RestoreCoversAllHits ==
  at = "restore" /\ mode # "first" => DOMAIN orig = Candidates

\* When a restore is over, every word it wrote has reached the process: "restore
\* all hits from the last round" (mem_checker.c 244).
RestoreReachesTheProcess ==
  [][at = "restore" /\ at' = "prompt" => pending' = NoWrite]_vars

\* The hits the running restore has taken from its list.
Written == DOMAIN orig \ to_restore

IsLast(w, S) == w \in S /\ \A v \in S : v <= w

\* How much of a restore can be missing: one that goes on has the hit before the one
\* it writes now in the memory of the process, with its old value; one that is over
\* has all but the last behind it, and that one in the buffer
\* (mem_checker.c 245-253).
RestoreLacksOnlyItsLast ==
  [][at = "restore" =>
       /\ at' = "restore" /\ to_restore' # to_restore /\ Written # {}
            => /\ IsLast(pending.addr, Written)
               /\ memory'[pending.addr] = orig[pending.addr]
       /\ at' = "prompt" /\ DOMAIN orig # {}
            => /\ IsLast(pending'.addr, DOMAIN orig)
               /\ pending'.value = orig[pending'.addr]]_vars

\* What a user sees of the search: the candidates with their values, and the
\* words the loop over the areas has not come to.
Last == [w \in Candidates |-> mem_ptr[w]]
Due  == {w \in Words : at \in {"read", "check"} /\ AreaOf[w] >= area_i}

Narrowed == INSTANCE Narrowing WITH last <- Last, due <- Due, asked <- mode

\* Every behaviour of the checker is one of the search: a round judges every
\* word by the memory of the process against the value of the round before,
\* what is out never comes back, and writing and restoring change no judgement
\* (mem_checker.c 95-254).
ImplementsNarrowing == Narrowed!Search

InLoop == at \in {"read", "check", "restore"}

\* The checker gets back to its prompt out of every loop, or ends, also when
\* areas come, go and are released while it is in one (mem_checker.c 98-117,
\* 152-207, 245-253).
LoopsEnd == InLoop ~> at \in {"prompt", "done"}
=============================================================================
