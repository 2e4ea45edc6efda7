----------------------------- MODULE MCDebugger -----------------------------
EXTENDS DebuggerRefinement
=============================================================================
