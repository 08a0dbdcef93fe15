----------------------------- MODULE MCPackfile -----------------------------
(* Instances of Packfile for TLC.                                          *)
EXTENDS Packfile, TLC

CONSTANTS old, new, blob

Types == (old :> "tree") @@ (new :> "tree") @@ (blob :> "blob")

Plain(size) ==
    {[kind |-> "object", id |-> id, size |-> size] : id \in {old, blob}}
    \cup {[kind |-> "unknown", size |-> size]}

(* Deltas of old that give new, on the right base or the other one, and on *)
(* any entry (which may not be there) or on none.                          *)
Deltas(size) ==
    {[kind |-> "ref", base |-> b, from |-> old, to |-> new, size |-> size] :
        b \in {old, blob}}
    \cup {[kind |-> "ofs", base |-> b, from |-> f, to |-> new, size |-> size] :
        b \in 0..2, f \in {old, new}}

Sound == Plain("exact") \cup Deltas("exact")

Unsound == Plain("short") \cup Deltas("short") \cup Plain("long")

(* Packs of up to three entries, the last of which may have a wrong size,  *)
(* and headers and footers that are not what they should be.               *)
AnyPack ==
    {[pack |-> p, announced |-> Len(p), sum |-> "good"] :
        p \in {<< >>} \cup {<<e>> : e \in Sound \cup Unsound}
              \cup {<<d, e>> : d \in Sound \cup Unsound, e \in Sound \cup Unsound}
              \cup {<<c, d, e>> : c \in Sound, d \in Sound, e \in Sound \cup Unsound}}
    \cup {[pack |-> <<e>>, announced |-> a, sum |-> s] :
        e \in Sound, a \in {None, 0, 1, 2}, s \in {"good", "bad"}}
=============================================================================
