------------------------------- MODULE MCPush -------------------------------
(* Instances of Push for TLC.                                              *)
EXTENDS Push, TLC

CONSTANTS root, left1, right, master, malformed

(* Two commits on top of one.                                              *)
Fork == (root :> {}) @@ (left1 :> {root}) @@ (right :> {root})

Single == {<<[name |-> master, newID |-> id]>> : id \in AnyID}

(* A malformed name beside a good command, and two commands for one ref.   *)
Double ==
    {<<[name |-> malformed, newID |-> root], [name |-> master, newID |-> left1]>>,
     <<[name |-> master, newID |-> right], [name |-> master, newID |-> ZeroID]>>}

AllWishes == Single \cup Double

Clients == Permutations(Client)
=============================================================================
