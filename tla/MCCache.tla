------------------------------ MODULE MCCache ------------------------------
(* Cache instantiated for TLC.  Users, readers and mutations are          *)
(* interchangeable in the safety runs.                                    *)
EXTENDS Cache, FiniteSets, TLC

MCSymmetry == Permutations(Users) \cup Permutations(Readers)
                \cup Permutations(Muts)

(* The liveness run cannot use SYMMETRY.  Instead it starts only from     *)
(* initial states whose readers' keys ascend in a fixed order of readers  *)
(* and keys.  Renaming readers maps every behaviour onto one of these:    *)
(* Next and Fairness treat readers alike, and no checked property names   *)
(* a reader.                                                              *)
Rank(S) == CHOOSE f \in [S -> 1..Cardinality(S)] :
               \A x, y \in S : x # y => f[x] # f[y]
ReaderRank == Rank(Readers)
KeyRank    == Rank(CacheKeys)

ReadersAscend ==
    \A r, s \in Readers :
        ReaderRank[r] < ReaderRank[s] => KeyRank[rd[r].key] <= KeyRank[rd[s].key]

MCInit == Init /\ ReadersAscend

MCLiveSpec == MCInit /\ [][Next]_vars /\ Fairness
=============================================================================
