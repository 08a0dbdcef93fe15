-------------------------------- MODULE Walk --------------------------------
(***************************************************************************)
(* repository.Walk (repository/objects.go): the traversal of the object    *)
(* graph that fetches and pushes rest on, while other goroutines store     *)
(* objects in the same repository.                                         *)
(*                                                                         *)
(* An object's links are part of its contents, hence fixed by its ID, and  *)
(* they form a directed acyclic graph.  An object may link to one that the *)
(* repository does not hold: a submodule, or a push whose objects have not *)
(* all arrived.                                                            *)
(***************************************************************************)
EXTENDS ObjectGraph, Naturals, Sequences, FiniteSets

CONSTANTS
    Graph,        \* the object graphs: id -> the IDs that object id links to
    Start,        \* the values of the argument start
    End           \* the values of the argument end

ASSUME WalkAssumption ==
    /\ IsFiniteSet(ID)
    /\ Graph \subseteq [ID -> SUBSET ID]
    /\ Start \subseteq Seq(ID)
    /\ End \subseteq SUBSET ID

VARIABLES
    from, stop, link,     \* the arguments start and end, and the graph
    pending, visited,     \* the locals of Walk
    called,               \* the IDs walkFn was called with, in order
    followed,             \* those for which it returned nil
    result                \* "walking", then what Walk returns

arguments == <<from, stop, link>>
walkVars == <<arguments, objects, pending, visited, called, followed, result>>

Elements(s) == {s[i] : i \in DOMAIN s}

WalkTypeOK ==
    /\ from \in Seq(ID)
    /\ stop \in SUBSET ID
    /\ link \in [ID -> SUBSET ID]
    /\ objects \in SUBSET ID
    /\ pending \in Seq(ID)
    /\ visited \in SUBSET ID
    /\ called \in Seq(ID)
    /\ followed \in SUBSET ID
    /\ result \in {"walking", "nil", "error"}

(* (As it would be if end were not marked as visited.)                     *)
InitEndForgotten ==
    /\ from \in Start
    /\ stop \in End
    /\ link \in Graph
    /\ objects \in SUBSET ID
    /\ pending = from
    /\ visited = {}
    /\ called = << >>
    /\ followed = {}
    /\ result = "walking"

WalkInit ==
    /\ from \in Start
    /\ stop \in End
    /\ link \in Graph
    /\ objects \in SUBSET ID
    /\ pending = from
    /\ visited = stop
    /\ called = << >>
    /\ followed = {}
    /\ result = "walking"

(* The orders in which an object's links may be pushed: that of a commit   *)
(* is fixed, that of a tree is Go's random order of map iteration.         *)
Orders(S) ==
    {s \in [1..Cardinality(S) -> S] : \A x \in S : \E i \in DOMAIN s : s[i] = x}

Walking == result = "walking" /\ pending # << >>

Top == pending[Len(pending)]

Popped == SubSeq(pending, 1, Len(pending) - 1)

(* (As it would be if a visited object were not popped.)                   *)
PassVisitedUnpopped ==
    /\ Walking
    /\ Top \in visited
    /\ UNCHANGED walkVars

PassVisited ==
    /\ Walking
    /\ Top \in visited
    /\ pending' = Popped
    /\ UNCHANGED <<arguments, objects, visited, called, followed, result>>

(* (As it would be if the objects were not marked.)                        *)
VisitUnmarked ==
    /\ Walking
    /\ Top \notin visited
    /\ called' = Append(called, Top)
    /\ UNCHANGED <<arguments, objects, visited>>

(* Every other object is marked and handed to walkFn, with its contents or *)
(* with the error of GetObject.                                            *)
Visit ==
    /\ Walking
    /\ Top \notin visited
    /\ visited' = visited \cup {Top}
    /\ called' = Append(called, Top)
    /\ UNCHANGED <<arguments, objects>>

(* (As it would be if only one parent of a commit were pushed.)            *)
FollowOne ==
    /\ Visit
    /\ Top \in objects
    /\ \E s \in Orders(link[Top]) :
          pending' = Popped \o SubSeq(s, 1, IF s = << >> THEN 0 ELSE 1)
    /\ followed' = followed \cup {Top}
    /\ UNCHANGED result

(* (As it would be if the links were put under the stack.)                 *)
FollowQueued ==
    /\ Visit
    /\ Top \in objects
    /\ \E s \in Orders(link[Top]) : pending' = s \o Popped
    /\ followed' = followed \cup {Top}
    /\ UNCHANGED result

Follow ==
    /\ Visit
    /\ Top \in objects
    /\ \E s \in Orders(link[Top]) : pending' = Popped \o s
    /\ followed' = followed \cup {Top}
    /\ UNCHANGED result

(* (As it would be if SkipObject did not keep Walk from the links.)        *)
SkipThrough ==
    /\ Visit
    /\ \E s \in Orders(link[Top]) : pending' = Popped \o s
    /\ UNCHANGED <<followed, result>>

Skip ==
    /\ Visit
    /\ pending' = Popped
    /\ UNCHANGED <<followed, result>>

Fail ==
    /\ Visit
    /\ pending' = Popped
    /\ result' = "error"
    /\ UNCHANGED followed

Finish ==
    /\ result = "walking"
    /\ pending = << >>
    /\ result' = "nil"
    /\ UNCHANGED <<arguments, objects, pending, visited, called, followed>>

(* Another goroutine stores an object.                                     *)
PutMeanwhile ==
    /\ \E id \in ID \ objects : objects' = objects \cup {id}
    /\ UNCHANGED <<arguments, pending, visited, called, followed, result>>

WalkStep == PassVisited \/ Follow \/ Skip \/ Fail \/ Finish

WalkNext == WalkStep \/ PutMeanwhile

WalkSpec == WalkInit /\ [][WalkNext]_walkVars

(* Walk is a loop that nothing blocks.                                     *)
FairWalkSpec == WalkSpec /\ WF_walkVars(WalkStep)

-----------------------------------------------------------------------------
(* Properties.                                                             *)

(* walkFn is called once for each object, and never for an object of end,  *)
(* along however many paths and however often an object was pushed.        *)
CalledOnce ==
    /\ \A i, j \in DOMAIN called : called[i] = called[j] => i = j
    /\ \A i \in DOMAIN called : called[i] \notin stop

(* Walk calls walkFn only with objects it was led to: each is an object of *)
(* start or a link of an object passed earlier and not skipped, so that    *)
(* nothing below a skipped object or an object of end is walked unless     *)
(* another path leads there.                                               *)
OnlyReachable ==
    \A i \in DOMAIN called :
        \/ called[i] \in Elements(from)
        \/ \E j \in 1..(i - 1) :
              called[j] \in followed /\ called[i] \in link[called[j]]

(* When Walk returns nil it has missed nothing: what it called walkFn with *)
(* contains start and is closed under the links of the objects that were   *)
(* not skipped, save for end.  It makes the pack UploadPack writes enough  *)
(* for a client that has all that end reaches.                             *)
NothingMissed ==
    result = "nil" =>
        /\ Elements(from) \subseteq Elements(called) \cup stop
        /\ \A id \in followed : link[id] \subseteq Elements(called) \cup stop

(* The links that were pushed when the i-th object was visited.            *)
Pushed(i) == IF called[i] \in followed THEN link[called[i]] ELSE {}

(* "Walk traverses the repository in depth-first order": as long as an     *)
(* object has a link that is still to be visited, every object visited is  *)
(* below it.                                                               *)
DepthFirst ==
    \A a, b, c \in DOMAIN called :
        a < b /\ b < c /\ called[c] \in Pushed(a) =>
            \E d \in a..(b - 1) : called[b] \in Pushed(d)

-----------------------------------------------------------------------------
(* The inductive invariant.                                                *)

VisitedOnce ==
    /\ visited = stop \cup Elements(called)
    /\ followed \subseteq Elements(called)

(* Every pending object is one of start or a link of a followed one ...    *)
PendingIsReachable ==
    \A k \in DOMAIN pending :
        \/ pending[k] \in Elements(from)
        \/ \E j \in DOMAIN called :
              called[j] \in followed /\ pending[k] \in link[called[j]]

(* ... and every one of these is visited or still pending.                 *)
NothingForgotten ==
    /\ Elements(from) \subseteq visited \cup Elements(pending)
    /\ \A id \in followed : link[id] \subseteq visited \cup Elements(pending)

(* An unvisited link of the a-th object is pending, and whatever lies      *)
(* above it on the stack was pushed by the a-th object or a later one.     *)
StackIsNested ==
    \A a \in DOMAIN called : \A c \in Pushed(a) \ visited :
        \E k \in DOMAIN pending :
            /\ pending[k] = c
            /\ \A m \in k..Len(pending) :
                  \E d \in a..Len(called) : pending[m] \in Pushed(d)

(* As long as the a-th object has an unvisited link, Walk is below it.     *)
StaysBelow ==
    \A a, b \in DOMAIN called :
        a < b /\ Pushed(a) \ visited # {} =>
            \E d \in a..(b - 1) : called[b] \in Pushed(d)

(* What the stack and the visited set of Walk record between two steps of  *)
(* its loop, besides the properties above.                                 *)
Inv ==
    /\ WalkTypeOK
    /\ VisitedOnce
    /\ CalledOnce
    /\ PendingIsReachable
    /\ OnlyReachable
    /\ StackIsNested
    /\ NothingForgotten
    /\ NothingMissed
    /\ StaysBelow
    /\ DepthFirst

-----------------------------------------------------------------------------
(* Walk returns, although other goroutines keep storing objects.           *)
Returns == <>(result # "walking")
=============================================================================
