------------------------------ MODULE OneShot ------------------------------
(***************************************************************************)
(* What run control promises a user, with no text, no map and no ptrace:   *)
(* a set of armed addresses the program cannot execute, each of which      *)
(* stops it and is disarmed when `cont' reports that stop.                 *)
(*                                                                         *)
(* One blemish of the implementation is part of the promise, because it    *)
(* cannot be hidden: while an address is armed, the instruction after it   *)
(* is gone too, and jumping to it is an illegal instruction.               *)
(***************************************************************************)
EXTENDS Integers

CONSTANTS
  Addresses,  \* where the program's instructions are
  Sites       \* where the user arms breakpoints

VARIABLES
  armed,      \* the armed addresses
  at,         \* the address of the next instruction
  phase,      \* prompt, running, stopped (not reported yet), gone or over
  stop,       \* signal of a stop that was not reported yet
  single      \* is the program resumed for one instruction?

vars == <<armed, at, phase, stop, single>>

Shadow == {a + 1 : a \in armed}

Init ==
  /\ armed = {}
  /\ at \in Addresses
  /\ phase = "prompt"
  /\ stop = "none"
  /\ single = FALSE

Arm(a) ==
  /\ phase = "prompt"
  /\ armed' = armed \cup {a}
  /\ UNCHANGED <<at, phase, stop, single>>

Resume ==
  /\ phase = "prompt"
  /\ phase' = "running"
  /\ single' \in BOOLEAN
  /\ UNCHANGED <<armed, at, stop>>

StopWith(s) ==
  /\ phase' = "stopped"
  /\ stop' = s
  /\ UNCHANGED <<armed, at, single>>

Execute ==
  /\ phase = "running"
  /\ at \notin armed \cup Shadow
  /\ at' \in Addresses
  /\ IF single THEN phase' = "stopped" /\ stop' = "TRAP"
               ELSE UNCHANGED <<phase, stop>>
  /\ UNCHANGED <<armed, single>>

Trap  == phase = "running" /\ at \in armed /\ StopWith("TRAP")
Fault == phase = "running" /\ at \in Shadow /\ StopWith("ILL")

\* A signal, a ptrace event or a hardware breakpoint.
Intercept == phase = "running" /\ \E s \in {"TRAP", "OTHER"} : StopWith(s)

\* The stop reaches the user.
Report ==
  /\ phase = "stopped"
  /\ phase' = "prompt"
  /\ armed' = IF stop = "TRAP" /\ ~ single THEN armed \ {at} ELSE armed
  /\ stop' = "none"
  /\ single' = FALSE
  /\ UNCHANGED at

Vanish ==
  /\ phase \in {"running", "stopped"}
  /\ phase' = "gone"
  /\ UNCHANGED <<armed, at, stop, single>>

End ==
  /\ phase \in {"prompt", "gone"}
  /\ phase' = "over"
  /\ stop' = "none"
  /\ single' = FALSE
  /\ UNCHANGED <<armed, at>>

Next ==
  \/ \E a \in Sites : Arm(a)
  \/ Resume
  \/ Execute \/ Trap \/ Fault \/ Intercept
  \/ Report
  \/ Vanish
  \/ End

Spec == Init /\ [][Next]_vars
=============================================================================
