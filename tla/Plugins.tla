------------------------------ MODULE Plugins -------------------------------
(***************************************************************************)
(* The plugins of a64dbg (src/src/src/Plugins/Plugins.cpp, src/plugins/):  *)
(* objects that are compiled in, checked against the table of system calls *)
(* when the debugger starts, and called before and after the call they are *)
(* named after.  Only the read plugin remembers something in between.      *)
(***************************************************************************)

CONSTANTS
  Named,        \* the names in the table aarch64_syscalls
  PluginNames,  \* the names a plugin may be registered under
  Begins,       \* Begins[p]: the names in the table that begin with p
  Read          \* the name of read(2)

ASSUME PluginAssumption ==
  /\ Begins \in [PluginNames -> SUBSET Named]
  /\ Read \in Named

VARIABLES
  registered,   \* registered_plugins: the names that have a plugin
  held          \* the call whose buffer and size the read plugin keeps: the
                \* one the tracee made last, an older one, or none yet

Holds == {"none", "last", "older"}

PluginTypeOK ==
  /\ registered \subseteq PluginNames
  /\ held \in Holds

\* strncmp over the length of the plugin's name: a prefix will do.
IsSyscall(p) == Begins[p] # {}

\* Mutant of checkForPlugins: a plugin is registered under the call it matched.
checkForPluginsByCall(enabled) ==
  /\ \A p \in enabled : IsSyscall(p)
  /\ registered' = UNION {Begins[p] : p \in enabled}

\* checkForPlugins registers every plugin, or refuses them all.
checkForPlugins(enabled) ==
  /\ \A p \in enabled : IsSyscall(p)
  /\ registered' = enabled

PluginsRefused(enabled) == \E p \in enabled : ~ IsSyscall(p)

\* Mutant of beforeSyscall: the buffer is kept once.
beforeSyscallOnce(whose) == held' = IF held = "none" THEN whose ELSE held

\* ReadPlugin::beforeSyscall keeps the registers x1 and x2, which are the
\* arguments of the call `whose'; afterSyscall dumps what they point to.  The
\* other plugins print and keep nothing.
beforeSyscall(whose) == held' = whose
afterSyscall == UNCHANGED held

Dispatches(n) == n = Read /\ n \in registered

\* PluginHelper::callBefore and callAfter find a plugin by the whole name.
callBefore(n, whose) ==
  IF Dispatches(n) THEN beforeSyscall(whose) ELSE UNCHANGED held

callAfter(n) == IF Dispatches(n) THEN afterSyscall ELSE UNCHANGED held

\* The next call of the tracee makes an older one of the one that was kept.
NewCall == held' = IF held = "last" THEN "older" ELSE held
=============================================================================
