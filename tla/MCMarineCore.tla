----------------------------- MODULE MCMarineCore -----------------------------
(* Small instances of MarineCore for TLC. *)
EXTENDS MarineCore

(* A module without imports that can grow, ... *)
Leaf == [exports |-> {"f"}, imports |-> {}, memory |-> TRUE,
         minMem |-> 2, maxMem |-> 4, minTbl |-> 1, maxTbl |-> 2,
         initialize |-> FALSE, start |-> FALSE]

(* ... one that imports from a module named "a", which its start-up code   *)
(* may call already, ...                                                   *)
User == [exports |-> {"f"}, imports |-> {<<"a", "f">>}, memory |-> TRUE,
         minMem |-> 2, maxMem |-> 2, minTbl |-> 0, maxTbl |-> 0,
         initialize |-> TRUE, start |-> TRUE]

(* ... one that imports from "b": with User loaded as "b" and Leaf unloaded, *)
(* it can be loaded as "a", and the names then import each other, ...        *)
Relay == [User EXCEPT !.imports = {<<"b", "f">>},
                      !.initialize = FALSE, !.start = FALSE]

(* ... one that exports nothing ... *)
Mute == [exports |-> {}, imports |-> {}, memory |-> TRUE,
         minMem |-> 0, maxMem |-> 2, minTbl |-> 3, maxTbl |-> 3,
         initialize |-> FALSE, start |-> TRUE]

(* ... and one without a memory, which a Wasm binary need not have. *)
NoMemory == [Leaf EXCEPT !.memory = FALSE, !.minMem = 0, !.maxMem = 0]

MCNames == {"a", "b"}
MCFuncs == {"f"}
MCBinaries == {Leaf, User, Relay, Mute}
MCAllBinaries == {Leaf, NoMemory}
MCMemGrowths == {2}
MCTblGrowths == {1}

=============================================================================
