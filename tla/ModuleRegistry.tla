---------------------------- MODULE ModuleRegistry ----------------------------
(***************************************************************************)
(* What MarineCore promises to its callers ("Allows dynamic loading and    *)
(* unloading modules, but never frees resources used for instantiation",   *)
(* core/src/marine_core.rs): names are bound to modules one load at a      *)
(* time, a bound name is never rebound before it is unloaded, a module     *)
(* that was unloaded never comes back, and the memory budget is only       *)
(* spent, never beyond its limit.                                          *)
(***************************************************************************)
EXTENDS Integers

CONSTANTS Names, Ids, None, Budget

VARIABLES
    table,   \* name -> module bound to it, or None
    issued,  \* modules that were ever bound to a name
    spent    \* bytes of the budget handed out

registryVars == <<table, issued, spent>>

RegistryInit ==
    /\ table = [n \in Names |-> None]
    /\ issued = {}
    /\ spent = 0

Publish(n, id) ==
    /\ table[n] = None
    /\ id \notin issued
    /\ table' = [table EXCEPT ![n] = id]
    /\ issued' = issued \cup {id}
    /\ UNCHANGED spent

Remove(n) ==
    /\ table[n] # None
    /\ table' = [table EXCEPT ![n] = None]
    /\ UNCHANGED <<issued, spent>>

Spend ==
    /\ spent' \in spent..Budget
    /\ UNCHANGED <<table, issued>>

RegistryNext ==
    \/ \E n \in Names, id \in Ids : Publish(n, id)
    \/ \E n \in Names : Remove(n)
    \/ Spend

RegistrySpec == RegistryInit /\ [][RegistryNext]_registryVars

=============================================================================
