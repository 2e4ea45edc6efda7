---------------------------- MODULE MCMemChecker ----------------------------
EXTENDS MemChecker

\* Two words in the first area and one in the second.
TwoAreas == <<1, 1, 2>>
=============================================================================
