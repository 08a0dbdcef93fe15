------------------------------- MODULE MCWalk -------------------------------
(* Instances of Walk for TLC.                                              *)
EXTENDS Walk, SequencesExt

CONSTANT Size

(* Every acyclic graph whose edges lead from a greater to a smaller number *)
(* (up to a renaming of the objects these are all acyclic graphs).         *)
IDs == 1..Size

Graphs == {g \in [IDs -> SUBSET IDs] : \A id \in IDs : \A x \in g[id] : x < id}

Starts == {<<Size>>, <<Size, Size - 1>>, <<Size - 1, Size>>, <<Size, Size>>}

Ends == {{}} \cup {{id} : id \in IDs}
=============================================================================
