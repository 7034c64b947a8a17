------------------------------- MODULE MCMarine -------------------------------
(* Small instances of Marine for TLC. *)
EXTENDS Marine, TLC

(* A module that can grow, one that imports "a" and whose start-up code    *)
(* may call it, and one that exports nothing.                              *)
Leaf == [exports |-> {"f"}, imports |-> {}, memory |-> TRUE,
         minMem |-> 1, maxMem |-> 3, minTbl |-> 0, maxTbl |-> 0,
         initialize |-> FALSE, start |-> FALSE]
User == [exports |-> {"f"}, imports |-> {<<"a", "f">>}, memory |-> TRUE,
         minMem |-> 1, maxMem |-> 1, minTbl |-> 0, maxTbl |-> 0,
         initialize |-> FALSE, start |-> TRUE]
Mute == [exports |-> {}, imports |-> {}, memory |-> TRUE,
         minMem |-> 0, maxMem |-> 1, minTbl |-> 1, maxTbl |-> 2,
         initialize |-> FALSE, start |-> FALSE]

(* One of the modules has the name of the function that all export, so     *)
(* that interfaces are found in the cache.                                 *)
MCNames == {"a", "f"}
MCFuncs == {"f"}
MCBinaries == {Leaf, User, Mute}
MCMemGrowths == {2}
MCTblGrowths == {1}
MCParticles == {"p", "q"}

(* Two modules, one module, a module without a binary, and a name that is *)
(* listed twice.                                                           *)
MCConfigs == {
    [order |-> <<"a", "f">>, files |-> ("a" :> Leaf @@ "f" :> User)],
    [order |-> <<"f">>, files |-> ("f" :> Mute)],
    [order |-> <<"a", "f">>, files |-> ("a" :> Leaf)],
    [order |-> <<"a", "a">>, files |-> ("a" :> Leaf)]}

(* Twice the same binary: the code, but not the module, is the same. *)
ClashBinaries == {Leaf}
ClashConfigs == {[order |-> <<"a", "f">>, files |-> ("a" :> Leaf @@ "f" :> Leaf)]}

=============================================================================
