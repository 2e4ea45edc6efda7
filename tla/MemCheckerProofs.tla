-------------------------- MODULE MemCheckerProofs --------------------------
(***************************************************************************)
(* What MemChecker guarantees for any number of areas and words, any       *)
(* values and any room for hits.                                           *)
(***************************************************************************)
EXTENDS MemChecker, FiniteSetTheorems, TLAPS

\* The words of the areas are numbered by address.
LEMMA Numbers ==
  /\ NumWords \in Nat /\ NumAreas \in Nat /\ MaxHits \in Nat
  /\ Words \subseteq Nat /\ Areas \subseteq Nat
  /\ \A w \in Words : AreaOf[w] \in Areas
  /\ \A a \in Areas : 1 <= a /\ a <= NumAreas
  /\ \A v, w \in Words : AreaOf[v] < AreaOf[w] => v < w
<1>1. \A v, w \in Words : AreaOf[v] < AreaOf[w] => v < w
  <2> SUFFICES ASSUME NEW v \in Words, NEW w \in Words, AreaOf[v] < AreaOf[w],
                      ~ (v < w)
               PROVE  FALSE
    OBVIOUS
  <2>1. w = v \/ w < v
    BY MemCheckerAssumption DEF Words
  <2>2. AreaOf[w] <= AreaOf[v]
    BY <2>1, MemCheckerAssumption DEF Areas
  <2> QED BY <2>2, MemCheckerAssumption DEF Areas
<1> QED BY <1>1, MemCheckerAssumption DEF Words, Areas

\* Sets of words are finite.
LEMMA WordsFinite ==
  ASSUME NEW S \in SUBSET Words
  PROVE  IsFiniteSet(S) /\ Cardinality(S) \in Nat
<1>1. IsFiniteSet(Words)
  BY FS_Interval, Numbers DEF Words
<1> QED BY <1>1, FS_Subset, FS_CardinalityType

\* The first MaxHits words of a set.
First(C) == {w \in C : Cardinality({v \in C : v < w}) < MaxHits}

\* Words that lie behind a set can be counted, and recorded, after it.
LEMMA FirstGrows ==
  ASSUME NEW C \in SUBSET Words, NEW S \in SUBSET Words,
         \A v \in C, w \in S : v < w
  PROVE  /\ Cardinality(C \cup S) = Cardinality(C) + Cardinality(S)
         /\ First(C \cup S) =
              First(C) \cup
              {w \in S : Cardinality(C) + Cardinality({v \in S : v < w})
                           < MaxHits}
<1>1. ASSUME NEW D \in SUBSET S
      PROVE  Cardinality(C \cup D) = Cardinality(C) + Cardinality(D)
  <2>1. C \cap D = {}
    BY Numbers
  <2>2. IsFiniteSet(C) /\ IsFiniteSet(D)
    BY WordsFinite
  <2>3. Cardinality(C \cup D) = Cardinality(C) + Cardinality(D) - 0
    BY <2>1, <2>2, FS_Union, FS_EmptySet
  <2>4. Cardinality(C) \in Nat /\ Cardinality(D) \in Nat
    BY WordsFinite
  <2> QED BY <2>3, <2>4
<1>2. ASSUME NEW w \in C
      PROVE  {v \in C \cup S : v < w} = {v \in C : v < w}
  <2>1. \A v \in S : w < v /\ v \in Nat /\ w \in Nat
    BY Numbers
  <2>2. \A v \in S : ~ (v < w)
    BY <2>1
  <2> QED BY <2>2
<1>3. ASSUME NEW w \in S
      PROVE  Cardinality({v \in C \cup S : v < w}) =
               Cardinality(C) + Cardinality({v \in S : v < w})
  <2>1. {v \in C \cup S : v < w} = C \cup {v \in S : v < w}
    OBVIOUS
  <2> QED BY <1>1, <2>1
<1>4. First(C \cup S) =
        {w \in C : Cardinality({v \in C \cup S : v < w}) < MaxHits}
        \cup {w \in S : Cardinality({v \in C \cup S : v < w}) < MaxHits}
  BY DEF First
<1>5. First(C \cup S) = First(C) \cup
        {w \in S : Cardinality({v \in C \cup S : v < w}) < MaxHits}
  BY <1>2, <1>4 DEF First
<1> QED BY <1>1, <1>3, <1>5

-----------------------------------------------------------------------------

\* A word of an area that is scanned has been read.
Seen == \A w \in Words : AreaOf[w] \notin invalid => mem_ptr[w] \in Values

\* Outside of a restore nothing is left to restore; a prompt is behind a loop.
Idle ==
  /\ at \in {"read", "prompt", "check"} => to_restore = {}
  /\ at \in {"prompt", "restore"} => area_i = NumAreas + 1
  /\ at = "read" => mode = "first" /\ cmp_ptr = {}
  /\ at = "check" => mode # "first"

TypeInv == TypeOK /\ Seen /\ Idle

LEMMA FlushedType ==
  ASSUME TypeOK
  PROVE  Flushed \in [Words -> Values]
BY DEF TypeOK, Flushed, Arrives, Elsewhere

LEMMA SurvivorsAreCandidates ==
  ASSUME TypeOK, NEW a \in Areas
  PROVE  Survivors(a) \subseteq InArea(a) \ cmp_ptr /\ InArea(a) \subseteq Words
BY DEF Survivors, InArea

LEMMA CompareTypes ==
  ASSUME TypeInv, at = "check", area_i \in readable \ invalid, CompareArea
  PROVE  /\ mem_ptr' \in [Words -> Values \cup {NoValue}]
         /\ cmp_ptr' \subseteq Words /\ invalid' = invalid
         /\ hits' \in Nat
         /\ DOMAIN orig' \subseteq Words /\ orig' \in [DOMAIN orig' -> Values]
         /\ modd' \in [DOMAIN orig' -> Values]
         /\ \A w \in Words : mem_ptr'[w] = memory[w] \/ mem_ptr'[w] = mem_ptr[w]
         /\ DOMAIN orig \subseteq DOMAIN orig'
<1> DEFINE S == Survivors(area_i)
<1>1. area_i \in Areas /\ S \in SUBSET Words /\ InArea(area_i) \subseteq Words
  BY SurvivorsAreCandidates DEF TypeInv, TypeOK
<1>2. \A w \in S : mem_ptr[w] \in Values /\ memory[w] \in Values
  <2>1. \A w \in S : w \in Words /\ AreaOf[w] = area_i
    BY DEF Survivors, InArea
  <2> QED BY <2>1 DEF TypeInv, TypeOK, Seen
<1>3. Recorded(S) \subseteq S
  BY DEF Recorded
<1>4. Cardinality(S) \in Nat
  BY <1>1, WordsFinite
<1> HIDE DEF S
<1>5. /\ cmp_ptr' = cmp_ptr \cup (InArea(area_i) \ S)
      /\ orig' = [w \in DOMAIN orig \cup Recorded(S) |->
                    IF w \in S THEN mem_ptr[w] ELSE orig[w]]
      /\ modd' = [w \in DOMAIN modd \cup Recorded(S) |->
                    IF w \in S THEN memory[w] ELSE modd[w]]
      /\ hits' = hits + Cardinality(S)
      /\ mem_ptr' = [w \in Words |-> IF w \in S THEN memory[w] ELSE mem_ptr[w]]
      /\ invalid' = invalid
  BY DEF CompareArea, S
<1>6. /\ DOMAIN orig' = DOMAIN orig \cup Recorded(S)
      /\ orig' \in [DOMAIN orig' -> Values]
  BY <1>2, <1>3, <1>5 DEF TypeInv, TypeOK
<1>7. DOMAIN modd = DOMAIN orig
  BY DEF TypeInv, TypeOK
<1>8. modd' \in [DOMAIN orig' -> Values]
  BY <1>2, <1>3, <1>5, <1>6, <1>7 DEF TypeInv, TypeOK
<1>9. hits' \in Nat
  BY <1>4, <1>5 DEF TypeInv, TypeOK
<1>10. mem_ptr' \in [Words -> Values \cup {NoValue}]
  BY <1>2, <1>5 DEF TypeInv, TypeOK
<1>11. cmp_ptr' \subseteq Words
  BY <1>1, <1>5 DEF TypeInv, TypeOK
<1>12. DOMAIN orig' \subseteq Words
  BY <1>1, <1>3, <1>6 DEF TypeInv, TypeOK
<1> QED BY <1>5, <1>6, <1>8, <1>9, <1>10, <1>11, <1>12 DEF TypeInv, TypeOK

LEMMA TypeInit == Init => TypeInv
<1> SUFFICES ASSUME Init PROVE TypeInv
  OBVIOUS
<1>1. TypeOK
  BY Numbers DEF Init, TypeOK, Areas, NoWrite
<1>2. Seen /\ Idle
  BY Numbers DEF Init, Seen, Idle
<1> QED BY <1>1, <1>2 DEF TypeInv

LEMMA TypeStep == TypeInv /\ [Next]_vars => TypeInv'
<1> SUFFICES ASSUME TypeInv, [Next]_vars PROVE TypeInv'
  OBVIOUS
<1> USE DEF TypeInv
<1>1. CASE initialMemoryread
  <2>1. area_i \in 1 .. NumAreas + 1 /\ area_i' \in 1 .. NumAreas + 1
    BY <1>1, Numbers DEF initialMemoryread, TypeOK, Areas
  <2>2. CASE area_i \in readable
    <3>1. /\ mem_ptr' = [w \in Words |-> IF AreaOf[w] = area_i THEN memory[w]
                                        ELSE mem_ptr[w]]
          /\ invalid' = invalid \ {area_i}
      BY <1>1, <2>2 DEF initialMemoryread
    <3>2. TypeOK'
      BY <1>1, <2>1, <3>1 DEF initialMemoryread, TypeOK, process, hitVars
    <3>3. Seen'
      BY <3>1 DEF TypeOK, Seen
    <3> QED BY <1>1, <3>2, <3>3 DEF initialMemoryread, Idle
  <2>3. CASE area_i \notin readable
    <3>1. mem_ptr' = mem_ptr /\ invalid' = invalid \cup {area_i}
      BY <1>1, <2>3 DEF initialMemoryread
    <3>2. TypeOK'
      BY <1>1, <2>1, <3>1 DEF initialMemoryread, TypeOK, process, hitVars
    <3>3. Seen'
      BY <3>1 DEF Seen
    <3> QED BY <1>1, <3>2, <3>3 DEF initialMemoryread, Idle
  <2> QED BY <2>2, <2>3
<1>2. ASSUME NEW m \in {"changed", "unchanged"}, StartRound(m)
      PROVE  TypeInv'
  <2>1. TypeOK'
    BY <1>2, Numbers DEF StartRound, TypeOK, process, areas, Idle
  <2> QED BY <1>2, <2>1 DEF StartRound, Seen, Idle, areas
<1>3. CASE checkForChanges
  <2>1. area_i \in 1 .. NumAreas + 1 /\ area_i' \in 1 .. NumAreas + 1
    BY <1>3, Numbers DEF checkForChanges, TypeOK, Areas
  <2>2. Idle'
    BY <1>3 DEF checkForChanges, Idle
  <2>3. CASE area_i \in invalid
    <3>1. UNCHANGED <<areas, hitVars>>
      BY <1>3, <2>3 DEF checkForChanges
    <3> QED BY <1>3, <2>1, <2>2, <3>1
            DEF checkForChanges, TypeOK, Seen, areas, hitVars, process
  <2>4. CASE area_i \in readable \ invalid
    <3>1. CompareArea
      BY <1>3, <2>4 DEF checkForChanges
    <3>2. at = "check"
      BY <1>3 DEF checkForChanges
    <3>3. TypeOK'
      BY <1>3, <2>1, <2>4, <3>1, <3>2, CompareTypes
      DEF checkForChanges, TypeOK, process
    <3>4. Seen'
      BY <2>4, <3>1, <3>2, CompareTypes DEF Seen, TypeOK
    <3> QED BY <2>2, <3>3, <3>4
  <2>5. CASE area_i \notin readable /\ area_i \notin invalid
    <3>1. /\ invalid' = invalid \cup {area_i}
          /\ UNCHANGED <<mem_ptr, cmp_ptr, hitVars>>
      BY <1>3, <2>5 DEF checkForChanges
    <3>2. TypeOK'
      BY <1>3, <2>1, <3>1 DEF checkForChanges, TypeOK, hitVars, process
    <3> QED BY <2>2, <3>1, <3>2 DEF Seen
  <2> QED BY <2>3, <2>4, <2>5
<1>4. CASE RoundEnds
  <2>1. area_i = NumAreas + 1
    BY <1>4, Numbers DEF RoundEnds, TypeOK, Areas
  <2>2. invalid \subseteq invalid' /\ invalid' \subseteq Areas
    BY <1>4 DEF RoundEnds, TypeOK, Exhausted
  <2>3. TypeOK'
    BY <1>4, <2>2 DEF RoundEnds, TypeOK, process, hitVars
  <2> QED BY <1>4, <2>1, <2>2, <2>3 DEF RoundEnds, Seen, Idle
<1>5. ASSUME NEW w \in Words \cup {Elsewhere}, NEW v \in Values, NEW next,
             SeekAndWrite(w, v, next)
      PROVE  /\ memory' \in [Words -> Values]
             /\ pending' \in [addr : Words \cup {Elsewhere}, value : Values]
                            \cup {NoWrite}
             /\ at' \in {next, "done"}
  BY <1>5, FlushedType DEF SeekAndWrite
<1>6. ASSUME NEW w \in UserAddrs, NEW v \in Values, writeMemory(w, v)
      PROVE  TypeInv'
  <2>1. w \in Words \cup {Elsewhere}
    BY MemCheckerAssumption
  <2>2. TypeOK'
    BY <1>5, <1>6, <2>1 DEF writeMemory, TypeOK, areas, hitVars
  <2>3. at' \in {"prompt", "done"}
    BY <1>5, <1>6, <2>1 DEF writeMemory
  <2> QED BY <1>6, <2>2, <2>3 DEF writeMemory, Seen, Idle, areas
<1>7. CASE restoreMemory
  <2>1. TypeOK'
    BY <1>7 DEF restoreMemory, TypeOK, process, areas, hitVars
  <2> QED BY <1>7, <2>1 DEF restoreMemory, Seen, Idle, areas
<1>8. CASE RestoreHit
  <2>1. PICK w \in to_restore : /\ SeekAndWrite(w, orig[w], "restore")
                               /\ to_restore' = to_restore \ {w}
    BY <1>8 DEF RestoreHit
  <2>2. w \in Words /\ orig[w] \in Values
    BY DEF TypeOK
  <2>3. TypeOK'
    BY <1>5, <1>8, <2>1, <2>2 DEF RestoreHit, TypeOK, areas, hitVars
  <2>4. at' \in {"restore", "done"}
    BY <1>5, <2>1, <2>2
  <2> QED BY <1>8, <2>3, <2>4 DEF RestoreHit, Seen, Idle, areas
<1>9. CASE RestoreEnds
  BY <1>9 DEF RestoreEnds, TypeOK, Seen, Idle, process, areas, hitVars
<1>10. CASE Quit
  <2>1. TypeOK'
    BY <1>10, FlushedType DEF Quit, TypeOK, areas, hitVars
  <2> QED BY <1>10, <2>1 DEF Quit, Seen, Idle, areas
<1>11. CASE ProcessWrites
  <2>1. memory' \in [Words -> Values]
    BY <1>11 DEF ProcessWrites, TypeOK
  <2> QED BY <1>11, <2>1 DEF ProcessWrites, TypeOK, Seen, Idle, areas, hitVars
<1>12. CASE ProcessMaps
  <2>1. readable' \subseteq Areas
    BY <1>12 DEF ProcessMaps, TypeOK
  <2> QED BY <1>12, <2>1 DEF ProcessMaps, TypeOK, Seen, Idle, areas, hitVars
<1>13. CASE UNCHANGED vars
  BY <1>13 DEF vars, process, areas, hitVars, TypeOK, Seen, Idle
<1> QED BY <1>1, <1>2, <1>3, <1>4, <1>6, <1>7, <1>8, <1>9, <1>10, <1>11, <1>12,
          <1>13 DEF Next, runMemChecking

LEMMA TypeInvHolds == Spec => []TypeInv
BY TypeInit, TypeStep, PTL DEF Spec

\* The variables of the model keep their types.
THEOREM TypesCorrect == Spec => []TypeOK
<1>1. TypeInv => TypeOK
  BY DEF TypeInv
<1> QED BY <1>1, TypeInvHolds, PTL

-----------------------------------------------------------------------------

\* The candidates a round has come to.
Judged == {w \in Candidates : AreaOf[w] < area_i}

\* What HitsAreCandidates says of the end of a round, at every point of it.
HitInv ==
  mode # "first" /\ at \in {"check", "prompt", "restore"} =>
    /\ hits = Cardinality(Judged)
    /\ DOMAIN orig = First(Judged)
    /\ \A w \in DOMAIN orig : /\ modd[w] = mem_ptr[w]
                              /\ mode = "changed" <=> orig[w] # modd[w]

\* An area that was compared adds its survivors, and nothing else, to what
\* the round has judged, and its recorded survivors to the hits.
LEMMA CompareJudges ==
  ASSUME TypeInv, HitInv, at = "check", area_i \in readable \ invalid,
         CompareArea, area_i' = area_i + 1, mode' = mode
  PROVE  /\ hits' = Cardinality(Judged')
         /\ DOMAIN orig' = First(Judged)'
         /\ \A w \in DOMAIN orig' : /\ modd'[w] = mem_ptr'[w]
                                    /\ mode = "changed" <=> orig'[w] # modd'[w]
<1> DEFINE S == Survivors(area_i)
<1>1. area_i \in Areas /\ area_i \in Nat /\ S \in SUBSET Words
  BY SurvivorsAreCandidates, Numbers DEF TypeInv, TypeOK
<1>2. \A w \in S : /\ w \in Words /\ AreaOf[w] = area_i /\ w \notin cmp_ptr
                   /\ mode = "changed" <=> mem_ptr[w] # memory[w]
  BY DEF Survivors, InArea, TypeInv, TypeOK, Idle
<1>3. /\ cmp_ptr' = cmp_ptr \cup (InArea(area_i) \ S)
      /\ orig' = [w \in DOMAIN orig \cup Recorded(S) |->
                    IF w \in S THEN mem_ptr[w] ELSE orig[w]]
      /\ modd' = [w \in DOMAIN modd \cup Recorded(S) |->
                    IF w \in S THEN memory[w] ELSE modd[w]]
      /\ hits' = hits + Cardinality(S)
      /\ mem_ptr' = [w \in Words |-> IF w \in S THEN memory[w] ELSE mem_ptr[w]]
      /\ invalid' = invalid
  BY DEF CompareArea
<1>4. Judged \in SUBSET Words /\ \A w \in Judged : AreaOf[w] < area_i
  BY DEF Judged, Candidates
<1> HIDE DEF S
<1>5. Judged' = Judged \cup S
  <2>1. \A w \in Words : AreaOf[w] \in Nat
    BY Numbers
  <2>2. \A w \in Words : AreaOf[w] < area_i + 1
                         <=> AreaOf[w] < area_i \/ AreaOf[w] = area_i
    BY <1>1, <2>1
  <2>3. \A w \in Words : AreaOf[w] < area_i => ~ (AreaOf[w] = area_i)
    BY <1>1, <2>1
  <2>4. Judged' = {w \in Words : /\ AreaOf[w] \notin invalid
                                 /\ w \notin cmp_ptr \cup (InArea(area_i) \ S)
                                 /\ AreaOf[w] < area_i + 1}
    BY <1>3 DEF Judged, Candidates
  <2>5. ASSUME NEW w \in Words
        PROVE  w \in Judged' <=> w \in Judged \cup S
    <3>1. CASE AreaOf[w] = area_i
      BY <1>2, <2>2, <2>3, <2>4, <3>1 DEF Judged, Candidates, InArea
    <3>2. CASE AreaOf[w] # area_i
      BY <1>2, <2>2, <2>4, <3>2 DEF Judged, Candidates, InArea
    <3> QED BY <3>1, <3>2
  <2>6. Judged' \subseteq Words
    BY <2>4
  <2> QED BY <1>1, <1>4, <2>5, <2>6
<1>6. \A v \in Judged, w \in S : v < w
  BY <1>2, <1>4, Numbers
<1>7. /\ hits = Cardinality(Judged)
      /\ DOMAIN orig = First(Judged)
      /\ \A w \in DOMAIN orig : /\ modd[w] = mem_ptr[w]
                                /\ mode = "changed" <=> orig[w] # modd[w]
  BY DEF HitInv, TypeInv, Idle
<1>8. hits' = Cardinality(Judged')
  BY <1>1, <1>3, <1>4, <1>5, <1>6, <1>7, FirstGrows
<1>9. Recorded(S) = {w \in S : Cardinality(Judged)
                                 + Cardinality({v \in S : v < w}) < MaxHits}
  BY <1>7 DEF Recorded
<1>10. First(Judged \cup S) = First(Judged) \cup Recorded(S)
  <2>1. First(Judged \cup S) =
          First(Judged) \cup
          {w \in S : Cardinality(Judged) + Cardinality({v \in S : v < w})
                       < MaxHits}
    BY <1>1, <1>4, <1>6, FirstGrows
  <2> QED BY <1>9, <2>1
<1>11. First(Judged)' = First(Judged')
  BY DEF First
<1>12. DOMAIN orig' = First(Judged)'
  BY <1>3, <1>5, <1>7, <1>10, <1>11
<1>13. Recorded(S) \subseteq S /\ DOMAIN modd = DOMAIN orig
  BY DEF Recorded, TypeInv, TypeOK
<1>14. ASSUME NEW w \in DOMAIN orig'
       PROVE  /\ modd'[w] = mem_ptr'[w]
              /\ mode = "changed" <=> orig'[w] # modd'[w]
  <2>1. w \in DOMAIN orig \cup Recorded(S) /\ w \in DOMAIN modd \cup Recorded(S)
    BY <1>3, <1>13, <1>14
  <2>2. CASE w \in S
    BY <1>1, <1>2, <1>3, <2>1, <2>2
  <2>3. CASE w \notin S
    <3>1. w \in DOMAIN orig /\ w \in Words
      BY <1>13, <2>1, <2>3 DEF TypeInv, TypeOK
    <3> QED BY <1>3, <1>7, <2>1, <2>3, <3>1
  <2> QED BY <2>2, <2>3
<1> QED BY <1>8, <1>12, <1>14

\* Nothing changes in what a round has judged when the loop passes over an area
\* that is, or becomes, invalid, or releases the areas that are exhausted.
LEMMA PassingJudges ==
  ASSUME TypeInv, mem_ptr' = mem_ptr, cmp_ptr' = cmp_ptr,
         \/ area_i \in Areas /\ invalid' = invalid \cup {area_i}
            /\ area_i' = area_i + 1
         \/ invalid' = invalid \cup Exhausted /\ area_i' = area_i
         \/ invalid' = invalid /\ area_i' = area_i
  PROVE  Judged' = Judged /\ First(Judged)' = First(Judged)
<1>1. Judged' = {w \in Words : /\ AreaOf[w] \notin invalid'
                               /\ w \notin cmp_ptr
                               /\ AreaOf[w] < area_i'}
  BY DEF Judged, Candidates
<1>2. Judged' = Judged
  <2>1. CASE area_i \in Areas /\ invalid' = invalid \cup {area_i}
             /\ area_i' = area_i + 1
    <3>0. area_i \in Nat /\ \A w \in Words : AreaOf[w] \in Nat
      BY <2>1, Numbers
    <3>1. \A w \in Words : AreaOf[w] < area_i + 1
                           <=> AreaOf[w] < area_i \/ AreaOf[w] = area_i
      BY <3>0
    <3>2. \A w \in Words : AreaOf[w] < area_i => AreaOf[w] # area_i
      BY <3>0
    <3> QED BY <1>1, <2>1, <3>1, <3>2 DEF Judged, Candidates
  <2>2. CASE invalid' = invalid \cup Exhausted /\ area_i' = area_i
    BY <1>1, <2>2, Numbers DEF Judged, Candidates, Exhausted, InArea
  <2>3. CASE invalid' = invalid /\ area_i' = area_i
    BY <1>1, <2>3 DEF Judged, Candidates
  <2> QED BY <2>1, <2>2, <2>3
<1>3. First(Judged)' = First(Judged')
  BY DEF First
<1> QED BY <1>2, <1>3

LEMMA HitStep == TypeInv /\ HitInv /\ [Next]_vars => HitInv'
<1> SUFFICES ASSUME TypeInv, HitInv, [Next]_vars PROVE HitInv'
  OBVIOUS
<1>1. CASE initialMemoryread
  BY <1>1 DEF initialMemoryread, HitInv, TypeInv, Idle
<1>2. ASSUME NEW m \in {"changed", "unchanged"}, StartRound(m)
      PROVE  HitInv'
  <2>0. \A w \in Words : ~ (AreaOf[w] < 1)
    <3>1. \A w \in Words : AreaOf[w] \in Nat /\ 1 <= AreaOf[w]
      BY Numbers
    <3> QED BY <3>1
  <2>1. Judged' = {}
    BY <1>2, <2>0 DEF StartRound, Judged, Candidates
  <2>2. First(Judged)' = {}
    BY <2>1 DEF First
  <2>3. Cardinality(Judged') = 0
    BY <2>1, FS_EmptySet
  <2> QED BY <1>2, <2>2, <2>3 DEF StartRound, HitInv
<1>3. CASE checkForChanges
  <2>1. at = "check" /\ mode # "first" /\ mode' = mode /\ area_i \in Areas
        /\ area_i' = area_i + 1
    BY <1>3 DEF checkForChanges, TypeInv, Idle
  <2>2. CASE CompareArea /\ area_i \in readable \ invalid
    BY <2>1, <2>2, CompareJudges DEF HitInv
  <2>3. CASE /\ mem_ptr' = mem_ptr /\ cmp_ptr' = cmp_ptr
             /\ UNCHANGED hitVars /\ invalid' = invalid \cup {area_i}
    BY <2>1, <2>3, PassingJudges DEF HitInv, hitVars
  <2> QED BY <1>3, <2>2, <2>3 DEF checkForChanges, areas
<1>4. CASE RoundEnds
  <2>1. CASE at = "check"
    <3>1. /\ mem_ptr' = mem_ptr /\ cmp_ptr' = cmp_ptr /\ area_i' = area_i
          /\ invalid' = invalid \cup Exhausted
      BY <1>4, <2>1 DEF RoundEnds
    <3>2. Judged' = Judged /\ First(Judged)' = First(Judged)
      BY <3>1, PassingJudges
    <3> QED BY <1>4, <2>1, <3>1, <3>2 DEF RoundEnds, HitInv, hitVars
  <2>2. CASE at = "read"
    BY <1>4, <2>2 DEF RoundEnds, HitInv, TypeInv, Idle
  <2> QED BY <1>4, <2>1, <2>2 DEF RoundEnds
<1>5. ASSUME areas' = areas, hitVars' = hitVars, mode' = mode, area_i' = area_i,
             \/ at' = at \/ at' = "done"
             \/ at \in {"prompt", "restore"} /\ at' \in {"prompt", "restore"}
      PROVE  HitInv'
  <2>1. mem_ptr' = mem_ptr /\ cmp_ptr' = cmp_ptr /\ invalid' = invalid
        /\ area_i' = area_i
    BY <1>5 DEF areas
  <2>2. Judged' = Judged /\ First(Judged)' = First(Judged)
    BY <2>1, PassingJudges
  <2> QED BY <1>5, <2>1, <2>2 DEF HitInv, hitVars
<1>6. ASSUME NEW w \in UserAddrs, NEW v \in Values, writeMemory(w, v)
      PROVE  HitInv'
  <2>1. /\ at' = at \/ at' = "done"
        /\ areas' = areas /\ hitVars' = hitVars
        /\ mode' = mode /\ area_i' = area_i
    BY <1>6 DEF writeMemory, SeekAndWrite
  <2> QED BY <1>5, <2>1
<1>7. CASE restoreMemory \/ RestoreEnds \/ Quit \/ ProcessWrites \/ ProcessMaps
  <2>1. /\ \/ at' = at \/ at' = "done"
           \/ at \in {"prompt", "restore"} /\ at' \in {"prompt", "restore"}
        /\ areas' = areas /\ hitVars' = hitVars
        /\ mode' = mode /\ area_i' = area_i
    BY <1>7 DEF restoreMemory, RestoreEnds, Quit, ProcessWrites, ProcessMaps
  <2> QED BY <1>5, <2>1
<1>8. CASE RestoreHit
  <2>1. /\ at' = at \/ at' = "done"
        /\ areas' = areas /\ hitVars' = hitVars
        /\ mode' = mode /\ area_i' = area_i
    BY <1>8 DEF RestoreHit, SeekAndWrite
  <2> QED BY <1>5, <2>1
<1>9. CASE UNCHANGED vars
  BY <1>5, <1>9 DEF vars
<1> QED BY <1>1, <1>2, <1>3, <1>4, <1>6, <1>7, <1>8, <1>9 DEF Next, runMemChecking

LEMMA HitInvHolds == Spec => [](TypeInv /\ HitInv)
<1>1. Init => HitInv
  BY DEF Init, HitInv
<1> QED BY <1>1, TypeInvHolds, HitStep, PTL DEF Spec

\* At the end of a round the loop has come to every candidate.
LEMMA AllJudged ==
  ASSUME TypeInv, at \in {"prompt", "restore"}
  PROVE  Judged = Candidates
<1>1. area_i = NumAreas + 1
  BY DEF TypeInv, Idle
<1>2. \A w \in Words : /\ AreaOf[w] \in Nat /\ NumAreas \in Nat
                       /\ AreaOf[w] <= NumAreas
  BY Numbers
<1>3. \A w \in Words : AreaOf[w] < area_i
  BY <1>1, <1>2
<1> QED BY <1>3 DEF Judged, Candidates

\* After a round counter and arrays agree with the masks and flags.
THEOREM HitsCountCandidates == Spec => []HitsAreCandidates
<1>1. TypeInv /\ HitInv => HitsAreCandidates
  <2> SUFFICES ASSUME TypeInv, HitInv, RoundOver PROVE HitsAreCandidates
    BY DEF HitsAreCandidates
  <2>1. Judged = Candidates
    BY AllJudged DEF RoundOver
  <2>2. First(Judged) = Shown
    BY <2>1 DEF First, Shown
  <2> QED BY <2>1, <2>2 DEF HitInv, HitsAreCandidates, RoundOver
<1> QED BY <1>1, HitInvHolds, PTL

\* A set that fits into the arrays is recorded to the last word.
LEMMA FirstOfFew ==
  ASSUME NEW C \in SUBSET Words, Cardinality(C) <= MaxHits
  PROVE  First(C) = C
<1>1. ASSUME NEW w \in C
      PROVE  Cardinality({v \in C : v < w}) < MaxHits
  <2> DEFINE Below == {v \in C : v < w}
  <2>1. IsFiniteSet(C) /\ Cardinality(C) \in Nat
    BY WordsFinite
  <2>2. IsFiniteSet(C \ {w}) /\ Cardinality(C \ {w}) = Cardinality(C) - 1
    BY <2>1, FS_RemoveElement
  <2>3. w \in Nat
    BY Numbers
  <2>4. Below \in SUBSET (C \ {w})
    BY <2>3
  <2>5. Cardinality(Below) <= Cardinality(C \ {w})
    BY <2>2, <2>4, FS_Subset
  <2>6. Cardinality(Below) \in Nat /\ MaxHits \in Nat
    BY <2>4, WordsFinite, Numbers
  <2> QED BY <2>1, <2>2, <2>5, <2>6
<1> QED BY <1>1 DEF First

\* A restore was let in only with every hit recorded.
FewHits == at = "restore" => hits <= MaxHits

LEMMA FewHitsStep == TypeInv /\ FewHits /\ [Next]_vars => FewHits'
<1> SUFFICES ASSUME TypeInv, FewHits, [Next]_vars PROVE FewHits'
  OBVIOUS
<1> USE DEF FewHits
<1>1. CASE initialMemoryread \/ RoundEnds \/ RestoreEnds \/ Quit
           \/ checkForChanges
  BY <1>1 DEF initialMemoryread, RoundEnds, RestoreEnds, Quit, checkForChanges
<1>2. ASSUME NEW m \in {"changed", "unchanged"}, StartRound(m)
      PROVE  FewHits'
  BY <1>2 DEF StartRound
<1>3. ASSUME NEW w \in UserAddrs, NEW v \in Values, writeMemory(w, v)
      PROVE  FewHits'
  BY <1>3 DEF writeMemory, SeekAndWrite
<1>4. CASE restoreMemory
  <2>1. hits \in Nat /\ MaxHits \in Nat /\ hits' = hits /\ ~ (hits > MaxHits)
    BY <1>4, Numbers DEF restoreMemory, hitVars, TooMany, TypeInv, TypeOK
  <2> QED BY <2>1
<1>5. CASE RestoreHit
  BY <1>5 DEF RestoreHit, hitVars
<1>6. CASE ProcessWrites \/ ProcessMaps
  BY <1>6 DEF ProcessWrites, ProcessMaps, hitVars
<1>7. CASE UNCHANGED vars
  BY <1>7 DEF vars, hitVars
<1> QED BY <1>1, <1>2, <1>3, <1>4, <1>5, <1>6, <1>7 DEF Next, runMemChecking

\* The records of a restore are the words still in the search: none was left out.
THEOREM RestoreCovers == Spec => []RestoreCoversAllHits
<1>1. Init => FewHits
  BY DEF Init, FewHits
<1>2. TypeInv /\ HitInv /\ FewHits => RestoreCoversAllHits
  <2> SUFFICES ASSUME TypeInv, HitInv, FewHits, at = "restore", mode # "first"
               PROVE  DOMAIN orig = Candidates
    BY DEF RestoreCoversAllHits
  <2>1. Judged = Candidates /\ Judged \in SUBSET Words
    BY AllJudged DEF Candidates
  <2>2. Cardinality(Judged) <= MaxHits /\ DOMAIN orig = First(Judged)
    BY DEF HitInv, FewHits
  <2> QED BY <2>1, <2>2, FirstOfFew
<1> QED BY <1>1, <1>2, FewHitsStep, HitInvHolds, PTL DEF Spec

-----------------------------------------------------------------------------
(***************************************************************************)
(* How much of a restore can be missing.  RestoreReachesTheProcess is      *)
(* violated, and by exactly one word: a restore writes its hits from the   *)
(* lowest address up, each one's fseek hands over the one before, and only *)
(* the last is left in the buffer.                                         *)
(***************************************************************************)

LastWaits ==
  at = "restore" =>
    /\ \A v \in to_restore, w \in Written : w < v
    /\ Written # {} => /\ IsLast(pending.addr, Written)
                       /\ pending.value = orig[pending.addr]

LEMMA LastWaitsStep == TypeInv /\ LastWaits /\ [Next]_vars => LastWaits'
<1> SUFFICES ASSUME TypeInv, LastWaits, [Next]_vars, at' = "restore"
             PROVE  /\ \A v \in to_restore', w \in Written' : w < v
                    /\ Written' # {} => /\ IsLast(pending'.addr, Written')
                                        /\ pending'.value = orig'[pending'.addr]
  BY DEF LastWaits, IsLast
<1>1. CASE restoreMemory
  BY <1>1 DEF restoreMemory, Written, hitVars
<1>2. CASE RestoreHit
  <2>1. PICK w \in to_restore :
          /\ \A v \in to_restore : w <= v
          /\ SeekAndWrite(w, orig[w], "restore")
          /\ to_restore' = to_restore \ {w}
    BY <1>2 DEF RestoreHit
  <2>2. pending' = [addr |-> w, value |-> orig[w]]
    BY <2>1 DEF SeekAndWrite
  <2>3. orig' = orig /\ at = "restore"
    BY <1>2 DEF RestoreHit, hitVars
  <2>4. /\ Written' = Written \cup {w}
        /\ DOMAIN orig \subseteq Nat /\ to_restore \subseteq DOMAIN orig
    BY <2>1, <2>3, Numbers DEF Written, TypeInv, TypeOK
  <2>5. \A v \in Written : v < w
    BY <2>1, <2>3 DEF LastWaits
  <2>6. w \in Nat /\ Written \subseteq Nat /\ to_restore \subseteq Nat
    BY <2>1, <2>4 DEF Written
  <2>7. \A v \in to_restore', x \in Written' : x < v
    <3> SUFFICES ASSUME NEW v \in to_restore \ {w}, NEW x \in Written \cup {w}
                 PROVE  x < v
      BY <2>1, <2>4
    <3>1. w < v
      BY <2>1, <2>6
    <3>2. x = w \/ x < w
      BY <2>5
    <3> QED BY <2>6, <3>1, <3>2
  <2>8. IsLast(w, Written')
    BY <2>4, <2>5, <2>6 DEF IsLast
  <2> QED BY <2>2, <2>3, <2>7, <2>8
<1>3. CASE ProcessWrites \/ ProcessMaps \/ UNCHANGED vars
  <2>1. UNCHANGED <<orig, pending, to_restore, at>>
    BY <1>3 DEF ProcessWrites, ProcessMaps, vars, hitVars
  <2> QED BY <2>1 DEF LastWaits, Written, IsLast
<1>4. CASE \/ initialMemoryread \/ checkForChanges \/ RoundEnds \/ RestoreEnds \/ Quit
           \/ \E m \in {"changed", "unchanged"} : StartRound(m)
           \/ \E w \in UserAddrs, v \in Values : writeMemory(w, v)
  BY <1>4 DEF initialMemoryread, checkForChanges, RoundEnds, RestoreEnds, Quit,
              StartRound, writeMemory, SeekAndWrite
<1> QED BY <1>1, <1>2, <1>3, <1>4 DEF Next, runMemChecking

\* A restore writes its hits one behind the other, with their old values, and
\* leaves only the last of them in the buffer.
THEOREM RestoreLacksNoMore == Spec => RestoreLacksOnlyItsLast
<1>1. Init => LastWaits
  BY DEF Init, LastWaits
<1>2. TypeInv /\ LastWaits /\ [Next]_vars
      => [at = "restore" =>
            /\ at' = "restore" /\ to_restore' # to_restore /\ Written # {}
                 => /\ IsLast(pending.addr, Written)
                    /\ memory'[pending.addr] = orig[pending.addr]
            /\ at' = "prompt" /\ DOMAIN orig # {}
                 => /\ IsLast(pending'.addr, DOMAIN orig)
                    /\ pending'.value = orig[pending'.addr]]_vars
  <2> SUFFICES ASSUME TypeInv, LastWaits, Next, at = "restore"
               PROVE  /\ at' = "restore" /\ to_restore' # to_restore /\ Written # {}
                           => /\ IsLast(pending.addr, Written)
                              /\ memory'[pending.addr] = orig[pending.addr]
                      /\ at' = "prompt" /\ DOMAIN orig # {}
                           => /\ IsLast(pending'.addr, DOMAIN orig)
                              /\ pending'.value = orig[pending'.addr]
    BY DEF vars
  <2>1. CASE RestoreHit
    <3>1. SUFFICES ASSUME at' = "restore", Written # {}
                   PROVE  /\ IsLast(pending.addr, Written)
                          /\ memory'[pending.addr] = orig[pending.addr]
      BY <2>1 DEF RestoreHit, SeekAndWrite
    <3>2. /\ IsLast(pending.addr, Written)
          /\ pending.value = orig[pending.addr]
      BY <3>1 DEF LastWaits
    <3>3. pending.addr \in Words /\ pending # NoWrite /\ pending.addr # Elsewhere
      BY <3>2, Numbers DEF IsLast, Written, TypeInv, TypeOK, NoWrite, Elsewhere, Words
    <3>4. memory' = Flushed /\ TRUE \in FlushResults
      BY <2>1, <3>1 DEF RestoreHit, SeekAndWrite
    <3>5. Arrives
      BY <3>3, <3>4 DEF FlushResults
    <3> QED BY <3>2, <3>3, <3>4, <3>5 DEF Flushed, TypeInv, TypeOK
  <2>2. CASE RestoreEnds
    <3>1. at' = "prompt" /\ pending' = pending /\ Written = DOMAIN orig
      BY <2>2 DEF RestoreEnds, Written
    <3> QED BY <3>1 DEF LastWaits
  <2>3. CASE ProcessWrites \/ ProcessMaps
    BY <2>3 DEF ProcessWrites, ProcessMaps
  <2> QED
    BY <2>1, <2>2, <2>3
    DEF Next, runMemChecking, initialMemoryread, checkForChanges, RoundEnds, Quit,
        StartRound, writeMemory, restoreMemory
<1> QED
  BY <1>1, <1>2, LastWaitsStep, TypeInvHolds, PTL DEF Spec, RestoreLacksOnlyItsLast

\* No write to an observed word is lost on the way: what leaves the buffer is in the
\* memory of the process, or the checker has ended over it (fseek fails, exit(-2)).
WritesArrive ==
  [][pending.addr # Elsewhere /\ pending' # pending /\ at' # "done"
       => memory' = [memory EXCEPT ![pending.addr] = pending.value]]_vars

THEOREM NoWriteIsLost == Spec => WritesArrive
<1>1. ASSUME Next, pending.addr # Elsewhere, pending' # pending, at' # "done"
      PROVE  memory' = [memory EXCEPT ![pending.addr] = pending.value]
  <2>1. \E w, v, next : SeekAndWrite(w, v, next)
    BY <1>1
    DEF Next, runMemChecking, initialMemoryread, StartRound, checkForChanges,
        RoundEnds, writeMemory, restoreMemory, RestoreHit, RestoreEnds, Quit,
        ProcessWrites, ProcessMaps
  <2>2. memory' = Flushed /\ TRUE \in FlushResults
    BY <1>1, <2>1 DEF SeekAndWrite
  <2>3. pending # NoWrite
    BY <1>1 DEF NoWrite
  <2> QED BY <1>1, <2>2, <2>3 DEF FlushResults, Flushed
<1>2. [Next]_vars
      => [pending.addr # Elsewhere /\ pending' # pending /\ at' # "done"
            => memory' = [memory EXCEPT ![pending.addr] = pending.value]]_vars
  BY <1>1
<1> QED BY <1>2, PTL DEF Spec, WritesArrive

-----------------------------------------------------------------------------

\* An area the loop comes to is judged as a whole.
LEMMA AreaIsDue ==
  ASSUME TypeInv, at \in {"read", "check"}, at' = at, area_i \in Areas,
         area_i' = area_i + 1
  PROVE  /\ InArea(area_i) \in SUBSET Due
         /\ Due' = Due \ InArea(area_i)
<1>1. area_i \in Nat /\ \A w \in Words : AreaOf[w] \in Nat
  BY Numbers
<1>2. \A w \in Words : /\ AreaOf[w] = area_i => AreaOf[w] >= area_i
                       /\ AreaOf[w] >= area_i + 1
                            <=> AreaOf[w] >= area_i /\ AreaOf[w] # area_i
  BY <1>1
<1> QED BY <1>2 DEF Due, InArea

\* When the loop is through, nothing is due.
LEMMA NothingDue ==
  ASSUME TypeInv, at \notin {"read", "check"} \/ area_i \notin Areas
  PROVE  Due = {}
<1>1. CASE at \notin {"read", "check"}
  BY <1>1 DEF Due
<1>2. CASE area_i \notin Areas
  <2>1. area_i = NumAreas + 1 /\ NumAreas \in Nat
    BY <1>2, Numbers DEF TypeInv, TypeOK, Areas
  <2>2. \A w \in Words : AreaOf[w] \in Nat /\ AreaOf[w] <= NumAreas
    BY Numbers
  <2>3. \A w \in Words : ~ (AreaOf[w] >= area_i)
    BY <2>1, <2>2
  <2> QED BY <2>3 DEF Due
<1> QED BY <1>1, <1>2

\* Reading an area, comparing it, or losing it, is judging its words.
LEMMA AreaStepJudges ==
  ASSUME TypeInv, at \in {"read", "check"}, at' = at, area_i \in Areas,
         area_i' = area_i + 1, memory' = memory, mode' = mode,
         NEW R \in {InArea(area_i), {}},
         Candidates' = (Candidates \ InArea(area_i))
                         \cup {x \in R : Narrowed!Fits(x)},
         \A w \in Candidates' :
           mem_ptr'[w] = IF w \in InArea(area_i) THEN memory[w] ELSE mem_ptr[w]
  PROVE  Narrowed!Judge
<1> DEFINE S == InArea(area_i)
           D == (Candidates \ S) \cup {x \in R : Narrowed!Fits(x)}
<1>1. S \in SUBSET Due /\ Due' = Due \ S
  BY AreaIsDue
<1>2. DOMAIN Last = Candidates
  BY DEF Last
<1>3. Last' = [w \in Candidates' |-> mem_ptr'[w]]
  BY DEF Last
<1>4. Candidates' = D
  OBVIOUS
<1>5. ASSUME NEW w \in D
      PROVE  mem_ptr'[w] = IF w \in S THEN memory[w] ELSE Last[w]
  <2>1. mem_ptr'[w] = IF w \in S THEN memory[w] ELSE mem_ptr[w]
    BY <1>4, <1>5
  <2>2. w \notin S => w \in Candidates
    <3>1. R \subseteq S
      OBVIOUS
    <3> QED BY <1>5, <3>1
  <2> QED BY <2>1, <2>2 DEF Last
<1>6. Last' = [w \in D |-> IF w \in S THEN memory[w] ELSE Last[w]]
  BY <1>3, <1>4, <1>5
<1> QED BY <1>1, <1>2, <1>6 DEF Narrowed!Judge

LEMMA SearchStart == Init => Narrowed!Start
<1> SUFFICES ASSUME Init PROVE Narrowed!Start
  OBVIOUS
<1>1. Candidates = {}
  BY Numbers DEF Init, Candidates
<1>2. \A w \in Words : AreaOf[w] >= 1
  <2>1. \A w \in Words : AreaOf[w] \in Nat /\ 1 <= AreaOf[w]
    BY Numbers
  <2> QED BY <2>1
<1>3. Due = Words
  BY <1>2 DEF Init, Due
<1>4. Last = [w \in {} |-> memory[w]]
  BY <1>1 DEF Last
<1> QED BY <1>3, <1>4 DEF Init, Narrowed!Start

LEMMA SearchStep ==
  TypeInv /\ [Next]_vars
    => [Narrowed!Judge \/ Narrowed!Ask \/ Narrowed!MemoryChanges]_(Narrowed!searchVars)
<1> SUFFICES ASSUME TypeInv, [Next]_vars
             PROVE  \/ Narrowed!Judge \/ Narrowed!Ask \/ Narrowed!MemoryChanges
                    \/ UNCHANGED Narrowed!searchVars
  OBVIOUS
<1>1. CASE initialMemoryread
  <2>1. /\ at = "read" /\ at' = at /\ area_i \in Areas /\ area_i' = area_i + 1
        /\ memory' = memory /\ mode' = mode /\ mode = "first"
        /\ cmp_ptr = {} /\ cmp_ptr' = {}
    BY <1>1 DEF initialMemoryread, process, TypeInv, Idle
  <2>2. \A x : Narrowed!Fits(x)
    BY <2>1 DEF Narrowed!Fits
  <2>3. CASE area_i \in readable
    <3>1. Candidates' = (Candidates \ InArea(area_i)) \cup InArea(area_i)
      BY <1>1, <2>1, <2>3 DEF initialMemoryread, Candidates, InArea
    <3>2. \A w \in Candidates' :
            mem_ptr'[w] = IF w \in InArea(area_i) THEN memory[w] ELSE mem_ptr[w]
      BY <1>1, <2>3 DEF initialMemoryread, Candidates, InArea
    <3>3. {x \in InArea(area_i) : Narrowed!Fits(x)} = InArea(area_i)
      BY <2>2
    <3> QED BY <2>1, <3>1, <3>2, <3>3, AreaStepJudges
  <2>4. CASE area_i \notin readable
    <3>1. Candidates' = (Candidates \ InArea(area_i)) \cup {}
      BY <1>1, <2>1, <2>4 DEF initialMemoryread, Candidates, InArea
    <3>2. \A w \in Candidates' :
            mem_ptr'[w] = IF w \in InArea(area_i) THEN memory[w] ELSE mem_ptr[w]
      BY <1>1, <2>4, <3>1 DEF initialMemoryread
    <3>3. {x \in {} : Narrowed!Fits(x)} = {}
      OBVIOUS
    <3> QED BY <2>1, <3>1, <3>2, <3>3, AreaStepJudges
  <2> QED BY <2>3, <2>4
<1>2. ASSUME NEW m \in {"changed", "unchanged"}, StartRound(m)
      PROVE  Narrowed!Ask
  <2>1. Due = {}
    BY <1>2, NothingDue DEF StartRound
  <2>2. \A w \in Words : AreaOf[w] >= 1
    <3>1. \A w \in Words : AreaOf[w] \in Nat /\ 1 <= AreaOf[w]
      BY Numbers
    <3> QED BY <3>1
  <2>3. Due' = Words
    BY <1>2, <2>2 DEF StartRound, Due
  <2>4. Last' = Last
    BY <1>2 DEF StartRound, Last, Candidates, areas
  <2> QED BY <1>2, <2>1, <2>3, <2>4 DEF StartRound, process, Narrowed!Ask
<1>3. CASE checkForChanges
  <2>1. /\ at = "check" /\ at' = at /\ area_i \in Areas /\ area_i' = area_i + 1
        /\ memory' = memory /\ mode' = mode /\ mode \in {"changed", "unchanged"}
    BY <1>3 DEF checkForChanges, process, TypeInv, TypeOK, Idle
  <2>2. CASE CompareArea /\ area_i \in readable \ invalid
    <3> DEFINE S == Survivors(area_i)
    <3>1. /\ cmp_ptr' = cmp_ptr \cup (InArea(area_i) \ S)
          /\ mem_ptr' = [w \in Words |-> IF w \in S THEN memory[w] ELSE mem_ptr[w]]
          /\ invalid' = invalid
      BY <2>2 DEF CompareArea
    <3>2. S = {x \in InArea(area_i) : Narrowed!Fits(x)}
      <4>1. \A x \in InArea(area_i) : x \in Candidates <=> x \notin cmp_ptr
        BY <2>2 DEF Candidates, InArea
      <4>2. DOMAIN Last = Candidates /\ \A x \in Candidates : Last[x] = mem_ptr[x]
        BY DEF Last
      <4>3. CASE mode = "changed"
        BY <4>1, <4>2, <4>3 DEF Survivors, Narrowed!Fits
      <4>4. CASE mode = "unchanged"
        BY <4>1, <4>2, <4>4 DEF Survivors, Narrowed!Fits
      <4> QED BY <2>1, <4>3, <4>4
    <3>3. S \subseteq InArea(area_i) \ cmp_ptr
      BY DEF Survivors
    <3> HIDE DEF S
    <3>4. Candidates' = (Candidates \ InArea(area_i)) \cup S
      BY <2>2, <3>1, <3>3 DEF Candidates, InArea
    <3>5. \A w \in Candidates' :
            mem_ptr'[w] = IF w \in InArea(area_i) THEN memory[w] ELSE mem_ptr[w]
      BY <3>1, <3>3, <3>4 DEF Candidates, InArea
    <3> QED BY <2>1, <3>2, <3>4, <3>5, AreaStepJudges
  <2>3. CASE /\ invalid' = invalid \cup {area_i}
             /\ mem_ptr' = mem_ptr /\ cmp_ptr' = cmp_ptr
    <3>1. Candidates' = (Candidates \ InArea(area_i)) \cup {}
      BY <2>3 DEF Candidates, InArea
    <3>2. \A w \in Candidates' :
            mem_ptr'[w] = IF w \in InArea(area_i) THEN memory[w] ELSE mem_ptr[w]
      BY <2>3, <3>1
    <3>3. {x \in {} : Narrowed!Fits(x)} = {}
      OBVIOUS
    <3> QED BY <2>1, <3>1, <3>2, <3>3, AreaStepJudges
  <2> QED BY <1>3, <2>2, <2>3 DEF checkForChanges, areas
<1>4. CASE RoundEnds
  <2>1. at' = "prompt" /\ area_i \notin Areas /\ area_i' = area_i
        /\ memory' = memory /\ mode' = mode
        /\ mem_ptr' = mem_ptr /\ cmp_ptr' = cmp_ptr
        /\ invalid' \in {invalid, invalid \cup Exhausted}
    BY <1>4 DEF RoundEnds, process
  <2>2. Due = {} /\ Due' = {}
    BY <2>1, NothingDue DEF Due
  <2>3. Candidates' = Candidates
    BY <2>1, Numbers DEF Candidates, Exhausted, InArea
  <2>4. Last' = Last
    BY <2>1, <2>3 DEF Last
  <2> QED BY <2>1, <2>2, <2>4 DEF Narrowed!searchVars
<1>5. ASSUME memory' \in [Words -> Values], areas' = areas, mode' = mode,
             \/ at' = at /\ area_i' = area_i
             \/ at \in {"prompt", "restore"} /\ at' \in {"prompt", "restore", "done"}
      PROVE  Narrowed!MemoryChanges
  <2>1. Last' = Last
    BY <1>5 DEF Last, Candidates, areas
  <2>2. Due' = Due
    BY <1>5 DEF Due
  <2> QED BY <1>5, <2>1, <2>2 DEF Narrowed!MemoryChanges
<1>6. memory \in [Words -> Values] /\ Flushed \in [Words -> Values]
  BY FlushedType DEF TypeInv, TypeOK
<1>7. ASSUME NEW w \in UserAddrs, NEW v \in Values, writeMemory(w, v)
      PROVE  Narrowed!MemoryChanges
  <2>1. /\ memory' = Flushed /\ areas' = areas /\ mode' = mode
        /\ at = "prompt" /\ (at' = "prompt" \/ at' = "done")
    BY <1>7 DEF writeMemory, SeekAndWrite
  <2> QED BY <1>5, <1>6, <2>1
<1>8. CASE RestoreHit
  <2>1. /\ memory' = Flushed /\ areas' = areas /\ mode' = mode
        /\ at = "restore" /\ (at' = "restore" \/ at' = "done")
    BY <1>8 DEF RestoreHit, SeekAndWrite
  <2> QED BY <1>5, <1>6, <2>1
<1>9. CASE restoreMemory \/ RestoreEnds \/ Quit
  <2>1. /\ memory' = memory \/ memory' = Flushed
        /\ areas' = areas /\ mode' = mode
        /\ at \in {"prompt", "restore"} /\ at' \in {"prompt", "restore", "done"}
    BY <1>9 DEF restoreMemory, RestoreEnds, Quit, process
  <2> QED BY <1>5, <1>6, <2>1
<1>10. CASE ProcessWrites \/ ProcessMaps
  <2>1. memory' \in [Words -> Values]
    BY <1>6, <1>10 DEF ProcessWrites, ProcessMaps
  <2>2. areas' = areas /\ mode' = mode /\ at' = at /\ area_i' = area_i
    BY <1>10 DEF ProcessWrites, ProcessMaps
  <2> QED BY <1>5, <2>1, <2>2
<1>11. CASE UNCHANGED vars
  BY <1>11 DEF vars, process, areas, Narrowed!searchVars, Last, Due, Candidates
<1> QED BY <1>1, <1>2, <1>3, <1>4, <1>7, <1>8, <1>9, <1>10, <1>11
        DEF Next, runMemChecking

\* The checker implements the search.
THEOREM RefinesNarrowing == Spec => ImplementsNarrowing
BY SearchStart, SearchStep, TypeInvHolds, PTL
DEF Spec, ImplementsNarrowing, Narrowed!Search
=============================================================================
