---------------------------- MODULE MC_PerfectHash ----------------------------
(***************************************************************************)
(* Inputs of PerfectHash for TLC: item lists as perfect_hash.c's main      *)
(* writes them, keys as their bytes, values as the items' indices.        *)
(***************************************************************************)
EXTENDS PerfectHash

ab == <<97, 98>>    cd == <<99, 100>>   ef == <<101, 102>>
gh == <<103, 104>>  ij == <<105, 106>>  kl == <<107, 108>>
This == <<84, 104, 105, 115>>       is == <<105, 115>>
modern == <<109, 111, 100, 101, 114, 110>>
India == <<73, 110, 100, 105, 97>>  Sir == <<83, 105, 114>>

Items(keys) == [j \in 1..Len(keys) |-> [key |-> keys[j], value |-> j]]

\* main's items; the keys of its commented-out list; main's first three
\* and first five items.
MainInputs ==
    { Items(<<ab, cd, ef, gh, ij, kl>>), Items(<<This, is, modern, India, Sir>>),
      Items(<<ab, cd, ef>>), Items(<<ab, cd, ef, gh, ij>>) }

\* main's first four items: all four hash to bucket 2 of 4.
EvenInputs == { Items(<<ab, cd, ef, gh>>) }
=============================================================================
