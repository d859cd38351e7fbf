--------------------------- MODULE MCRobinHoodMap ---------------------------
(***************************************************************************)
(* An instance of the hash map with info bytes of a few bits, so that few  *)
(* keys collide often enough to use them up.                               *)
(***************************************************************************)
EXTENDS HashMapProperties, TLC

CONSTANTS o1, o2, o3, o4, o5

Three == {o1, o2, o3}
Two == {o4, o5}

\* With the first multiplier all keys start in the last bucket of a table of eight, in
\* one of sixteen the two are apart from the three; their hash bits differ.  With the
\* second the two start in front of the three, in either table.
Hashes ==
    [k \in Key |-> [m \in 0 .. 1 |->
        CASE k \in Three -> IF m = 0 THEN 28 ELSE 30
          [] k \in Two -> IF m = 0 THEN 62 ELSE 24]]

Symmetry == Permutations(Three) \union Permutations(Two)
=============================================================================
