------------------------------ MODULE MCReads ------------------------------
(* An instance of Reads for TLC.                                           *)
EXTENDS Reads, TLC

CONSTANTS file, dir, sub, top, c1, t1, t2, v1, master
CONSTANT t3     \* a tag that says its commit is a blob

(* Besides, the top tree has a submodule that is held here, too, and t2 is *)
(* a tag of a tag.                                                         *)

MCKind ==
    (file :> "blob") @@ (dir :> "tree") @@ (sub :> "commit") @@ (top :> "tree")
    @@ (c1 :> "commit") @@ (t1 :> "tag") @@ (t2 :> "tag") @@ (t3 :> "tag")

MCTarget == (sub :> dir) @@ (c1 :> top) @@ (t1 :> c1) @@ (t2 :> t1) @@ (t3 :> c1)

MCSays == (t1 :> "commit") @@ (t2 :> "tag") @@ (t3 :> "blob")

MCEntries == (dir :> [f |-> file]) @@ (top :> [d |-> dir, m |-> sub])

MCCalls ==
    {[op |-> "AdvertiseRefs"], [op |-> "FindRef", names |-> <<v1, master>>]}
    \cup [op : {"HasObject"}, id : {file}]
    \cup [op : {"GetCommit", "GetTag", "GetTree"}, id : {t2, t3, file}]
    \cup [op : {"GetPath"}, id : {t2},
          path : {<< >>, <<"d", "f">>, <<"m", "f">>, <<"..", "m">>, <<"d", "..", "m", "g">>,
                  <<"d", "f", "g">>}]
=============================================================================
