-------------------------- MODULE MCSyscallTracer ---------------------------
EXTENDS SyscallTracer

\* `rea' is accepted for what it begins and never called, `template' refused.
BeginsOf ==
  [p \in {"read", "rea", "template"} |-> IF p = "template" THEN {} ELSE {"read", "readahead"}]
=============================================================================
