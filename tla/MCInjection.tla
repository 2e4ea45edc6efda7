---------------------------- MODULE MCInjection ----------------------------
EXTENDS InjectionRefinement
=============================================================================
