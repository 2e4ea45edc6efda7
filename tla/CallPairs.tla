----------------------------- MODULE CallPairs ------------------------------
(***************************************************************************)
(* What syscall tracing promises: every call that is shown as entered is   *)
(* shown as left, under the same name, before another one is shown.  The   *)
(* promise ends when the tracer is told of a stop it cannot tell from that *)
(* of a system call.                                                       *)
(***************************************************************************)
CONSTANTS
  Calls,   \* the calls that are shown
  NoCall   \* none of them

VARIABLES
  open,   \* the call that was shown as entered and not yet as left
  lost    \* the promise has ended

pairVars == <<open, lost>>

PairInit == open = NoCall /\ lost = FALSE

Before(c) ==
  /\ ~ lost /\ open = NoCall
  /\ open' = c
  /\ UNCHANGED lost

After ==
  /\ ~ lost /\ open # NoCall
  /\ open' = NoCall
  /\ UNCHANGED lost

Lose ==
  /\ ~ lost
  /\ lost' = TRUE
  /\ open' = NoCall

PairNext == (\E c \in Calls : Before(c)) \/ After \/ Lose

PairSpec == PairInit /\ [][PairNext]_pairVars
=============================================================================
