----------------------------- MODULE MCSession ------------------------------
EXTENDS Session

\* What a user types, with the words of the table it begins with: `readm' begins
\* with words of two commands, `b' and `strace' of the README with none.
TypedPrefixes == [
  q      |-> {"q"},
  regs   |-> {"re", "regs"},
  next   |-> {"n", "next"},
  c      |-> {"c"},
  bp     |-> {"bp"},
  hbp    |-> {"hbp"},
  readm  |-> {"re", "readm"},
  mprot  |-> {"mprot"},
  mmap   |-> {"mmap"},
  b      |-> {},
  strace |-> {}]

Typed == DOMAIN TypedPrefixes

\* A user who types one word only.
BreakpointPrefixes == [bp |-> {"bp"}]
Breakpoint == DOMAIN BreakpointPrefixes

\* `readm <addr> <size>' reads the memory of the process (README.md 17, 35).
ReadmReadsMemory ==
  stage = "issue" /\ asked.word = "readm" => command = "READ_MEMORY"
=============================================================================
