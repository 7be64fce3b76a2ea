------------------------------ MODULE MCDataDir ------------------------------
(* Small instances of DataDir: two goroutines and one file of each kind.   *)
EXTENDS DataDir, TLC

CONSTANTS w1, w2, h1, h2, h3, v1, v2

(* A v1 state with a stale server, a v2 state, two of this version, the    *)
(* second with a stale server nobody counted, and one of a newer WellBoard. *)
MCStates ==
    {[version |-> 1, stale |-> TRUE, misses |-> 0, geo |-> ""],
     [version |-> 2, stale |-> TRUE, misses |-> 2, geo |-> "metacubex"],
     [version |-> 3, stale |-> FALSE, misses |-> 0, geo |-> "runetfreedom"],
     [version |-> 3, stale |-> TRUE, misses |-> 0, geo |-> "custom"],
     [version |-> 4, stale |-> FALSE, misses |-> 0, geo |-> "metacubex"]}

(* The goroutines are alike, and so are the identities and the templates. *)
Alike == Permutations(Writers) \cup Permutations(Ids) \cup Permutations(Templates)

MCDocs == MCStates \cup {h1, h2, h3} \cup {v1, v2, Broken}
=============================================================================
