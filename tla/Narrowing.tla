------------------------------ MODULE Narrowing ------------------------------
(***************************************************************************)
(* What the memory search of mem_checker.c promises, without areas, masks, *)
(* hit lists and files: a set of candidate words, each with the value it   *)
(* had when it was last looked at.  In a round every word is judged once,  *)
(* by what the memory of the process holds at that moment; a candidate     *)
(* that did not behave as asked, or that cannot be read, is out for good.  *)
(***************************************************************************)
CONSTANTS
  Words,    \* the words that are searched
  Values    \* what a word can hold

VARIABLES
  memory,   \* the memory of the process
  last,     \* candidate -> the value it was last seen with
  due,      \* the words that are still to be judged in this round
  asked     \* what the user asked for in this round

searchVars == <<memory, last, due, asked>>

\* Did word w behave as asked?  In the first round there is nothing to ask.
Fits(w) ==
  asked # "first" =>
    w \in DOMAIN last /\ (asked = "changed" <=> memory[w] # last[w])

Start ==
  /\ memory \in [Words -> Values]
  /\ last = [w \in {} |-> memory[w]]
  /\ due = Words
  /\ asked = "first"

\* Some words are judged together; all of them can be read, or none.
Judge ==
  \E S \in SUBSET due : \E readable \in {S, {}} :
    /\ due' = due \ S
    /\ last' = [w \in (DOMAIN last \ S) \cup {x \in readable : Fits(x)} |->
                  IF w \in S THEN memory[w] ELSE last[w]]
    /\ UNCHANGED <<memory, asked>>

Ask ==
  /\ due = {}
  /\ due' = Words
  /\ asked' \in {"changed", "unchanged"}
  /\ UNCHANGED <<memory, last>>

\* The process runs all the time, and the user may write to it.
MemoryChanges ==
  /\ memory' \in [Words -> Values]
  /\ UNCHANGED <<last, due, asked>>

Search == Start /\ [][Judge \/ Ask \/ MemoryChanges]_searchVars
=============================================================================
