------------------------------- MODULE Reads -------------------------------
(***************************************************************************)
(* The functions that only read a repository: those of package repository  *)
(* that follow links and names, and protocol.AdvertiseRefs.  Each makes    *)
(* several calls of the repository's methods, between which other requests *)
(* store objects, move refs and point HEAD elsewhere.  The repository's    *)
(* methods are single steps; any of them may fail.                         *)
(*                                                                         *)
(* An object is its ID.  What it is and links to are functions of it.      *)
(***************************************************************************)
EXTENDS Naturals, Sequences, SequencesExt, FiniteSets

CONSTANTS
    ID, ZeroID,
    Kind,         \* the type of an object
    Target,       \* the tree of a commit, the object of a tag
    Says,         \* the type that a tag says its object has
    Entries,      \* of a tree, a function from names to IDs
    RefName,      \* the names of refs
    InitHEAD,     \* refs/heads/master
    RefIDs,       \* the IDs that refs are set to
    Calls         \* calls of the functions

Links(x) ==
    IF Kind[x] \in {"commit", "tag"} THEN {Target[x]}
    ELSE IF Kind[x] = "tree" THEN {Entries[x][n] : n \in DOMAIN Entries[x]} ELSE {}

(* An object and all that it leads to.                                     *)
Closure[x \in ID \cup {ZeroID}] ==
    IF x = ZeroID THEN {} ELSE {x} \cup UNION {Closure[y] : y \in Links(x)}

(* The ID of an object is a hash of the IDs it links to, so that links     *)
(* never lead back to it.                                                  *)
ASSUME ReadsAssumption ==
    /\ ZeroID \notin ID
    /\ \A x \in ID : Links(x) \subseteq ID
    /\ \A S \in SUBSET ID : S # {} => \E x \in S : Links(x) \cap S = {}
    /\ RefIDs \subseteq ID
    /\ IsFiniteSet(RefName)
    /\ InitHEAD \in RefName
    /\ RefName \cap {"HEAD", "capabilities"} = {}
    /\ \A c \in Calls :
          /\ c.op \in {"HasObject", "GetCommit", "GetTag", "GetTree", "GetPath",
                      "FindRef", "AdvertiseRefs"}
          /\ c.op \notin {"FindRef", "AdvertiseRefs"} => "id" \in DOMAIN c /\ c.id \in ID \cup {ZeroID}
          /\ c.op = "GetPath" => c.path \in Seq(STRING)
          /\ c.op = "FindRef" => c.names \in Seq(RefName)

VARIABLES
    objects,      \* the IDs of the objects in the repository
    refs,         \* what refs point at, or ZeroID
    HEAD,
    call,         \* the function called and its arguments
    pc,           \* the method called next, or "idle", "done"
    at,           \* the object that is looked up, or was last
    id,           \* GetPath's local of that name
    head,         \* AdvertiseRefs's local HEAD
    todo,         \* what the function's loop has yet to go through
    lines,        \* what AdvertiseRefs has written
    answer,       \* what the function returned
    moved,        \* refs, and "HEAD", that were set during the call
    failed        \* the functions, and of FindRef the refs, for which a method failed

repo == <<objects, refs, HEAD>>
locals == <<at, id, head, todo, lines>>
vars == <<repo, call, pc, locals, answer, moved, failed>>

NoAnswer == [err |-> "pending"]

Init ==
    /\ objects = {}
    /\ refs = [n \in RefName |-> ZeroID]
    /\ HEAD = InitHEAD
    /\ call = [op |-> "none"]
    /\ pc = "idle"
    /\ at = ZeroID /\ id = ZeroID
    /\ head = InitHEAD
    /\ todo = << >> /\ lines = << >>
    /\ answer = NoAnswer
    /\ moved = {}
    /\ failed = {}

-----------------------------------------------------------------------------
(* Other requests.  The objects of a push arrive in any order; a ref is    *)
(* set to an object when all that it leads to is there (Push shows that).  *)

Others == UNCHANGED <<call, pc, locals, answer, failed>>

PutObject ==
    /\ pc # "done"
    /\ \E x \in ID \ objects : objects' = objects \cup {x}
    /\ Others /\ UNCHANGED <<refs, HEAD, moved>>

UpdateRef ==
    /\ pc # "done"
    /\ \E n \in RefName, x \in RefIDs \cup {ZeroID} :
          /\ x # refs[n] /\ Closure[x] \subseteq objects
          /\ refs' = [refs EXCEPT ![n] = x]
          /\ moved' = moved \cup {n}
    /\ Others /\ UNCHANGED <<objects, HEAD>>

(* InitRepository, which the example calls for each request, sets HEAD to  *)
(* InitHEAD.                                                               *)
SetHEAD ==
    /\ pc # "done"
    /\ \E n \in RefName \ {HEAD} : HEAD' = n
    /\ moved' = moved \cup {"HEAD"}
    /\ Others /\ UNCHANGED <<objects, refs>>

-----------------------------------------------------------------------------
(* The beginning and the end of a call.                                    *)

Clean(path) ==
    FoldLeft(LAMBDA acc, c : IF c \in {"", "."} THEN acc
                             ELSE IF c # ".." THEN Append(acc, c)
                             ELSE IF acc = << >> THEN acc ELSE Front(acc),
             << >>, path)

Call ==
    /\ pc = "idle"
    /\ \E c \in Calls :
          /\ call' = c
          /\ pc' = CASE c.op = "AdvertiseRefs" -> "ListRefs"
                     [] c.op = "FindRef"       -> "GetRef"
                     [] OTHER                  -> "GetObject"
          /\ at' = IF "id" \in DOMAIN c THEN c.id ELSE ZeroID
          /\ todo' = CASE c.op = "FindRef" -> c.names
                       [] c.op = "GetPath" -> Clean(c.path)
                       [] OTHER            -> << >>
    /\ moved' = {}
    /\ UNCHANGED <<repo, id, head, lines, answer, failed>>

(* An error comes without an object, save a TypeError, which holds it, and *)
(* that of a tree without an entry, which comes with the tree.             *)
Answer(x, i, err) ==
    [obj |-> IF err \in {"nil", "TypeError", "no such tree entry"} THEN x ELSE ZeroID,
     id |-> i, err |-> err]

Return(x, i, err) ==
    /\ answer' = Answer(x, i, err)
    /\ pc' = "done"

-----------------------------------------------------------------------------
(* GetCommit, GetTag and GetTree go on from tags by the type they say, and *)
(* GetTree from commits.  HasObject looks at one object.                   *)

Mode == CASE call.op = "GetPath"       -> "GetTree"
          [] call.op = "AdvertiseRefs" -> "GetTag"
          [] OTHER                     -> call.op

Wanted(mode, x) ==
    \/ mode = "HasObject"
    \/ mode = "GetCommit" /\ Kind[x] = "commit"
    \/ mode = "GetTree" /\ Kind[x] = "tree"
    \/ mode = "GetTag" /\ Kind[x] = "tag" /\ Says[x] # "tag"

GoesOn(mode, x) ==
    \/ mode = "GetTree" /\ Kind[x] = "commit"
    \/ /\ Kind[x] = "tag"
       /\ Says[x] \in CASE mode = "GetCommit" -> {"commit", "tag"}
                        [] mode = "GetTag"    -> {"tag"}
                        [] mode = "GetTree"   -> {"tree", "commit", "tag"}
                        [] OTHER              -> {}

NotExist == IF call.op = "HasObject" THEN "false" ELSE "ErrObjectNotExist"

(* What is made of the result err of GetCommit, GetTag, GetTree: the end   *)
(* of a call of those, GetPath's next name, or the line for a peeled tag.  *)
Dereferenced(err) ==
    IF call.op = "AdvertiseRefs"
    THEN /\ lines' = IF err # "nil" THEN lines
                     ELSE Append(lines, [name |-> Head(todo).name, peeled |-> TRUE,
                                         id |-> Target[at]])
         /\ todo' = Tail(todo)
         /\ pc' = "line"
         /\ UNCHANGED <<id, answer>>
    ELSE /\ id' = at
         /\ IF call.op = "GetPath" /\ err = "nil" /\ todo # << >>
            THEN pc' = "entry" /\ UNCHANGED answer
            ELSE Return(at, at, err)
         /\ UNCHANGED <<lines, todo>>

(* (As it would be if a tag of a tag were not followed, but given.)        *)
GetTagOnce ==
    /\ pc = "GetObject" /\ Mode = "GetTag"
    /\ Dereferenced(IF at \in objects /\ Kind[at] = "tag" THEN "nil" ELSE NotExist)
    /\ UNCHANGED <<repo, call, head, moved, failed, at>>

GetObject ==
    /\ pc = "GetObject"
    /\ \/ /\ at \in objects /\ GoesOn(Mode, at)
          /\ at' = Target[at]
          /\ UNCHANGED <<pc, id, todo, lines, answer>>
       \/ /\ at \in objects /\ ~ GoesOn(Mode, at)
          /\ Dereferenced(IF Wanted(Mode, at) THEN "nil" ELSE "TypeError")
          /\ UNCHANGED at
       \/ /\ at \notin objects
          /\ Dereferenced(NotExist)
          /\ UNCHANGED at
    /\ UNCHANGED <<repo, call, head, moved, failed>>

-----------------------------------------------------------------------------
(* GetPath: at is a tree that was found.  An entry is looked up by its ID, *)
(* but what is returned with it is the local id, which GetTree set last.   *)

NoEntry ==
    /\ pc = "entry"
    /\ Head(todo) \notin DOMAIN Entries[at]
    /\ Return(at, id, "no such tree entry")
    /\ UNCHANGED <<repo, call, locals, moved, failed>>

(* (As it would be if all names were looked up in the first tree.)         *)
EntryOfRoot ==
    /\ pc = "entry"
    /\ Head(todo) \in DOMAIN Entries[at]
    /\ todo' = Tail(todo)
    /\ IF todo' # << >> THEN UNCHANGED <<pc, answer>>
       ELSE Return(Entries[at][Head(todo)], id, "nil")
    /\ UNCHANGED <<repo, call, at, id, head, lines, moved, failed>>

Entry ==
    /\ pc = "entry"
    /\ Head(todo) \in DOMAIN Entries[at]
    /\ todo' = Tail(todo)
    /\ LET x == Entries[at][Head(todo)]
           more == x \in objects /\ todo' # << >>
       IN \/ /\ more /\ Kind[x] = "tree"
             /\ at' = x
             /\ UNCHANGED <<pc, answer>>
          \/ /\ more /\ Kind[x] = "commit"
             /\ at' = Target[x]
             /\ pc' = "GetObject"
             /\ UNCHANGED answer
          \/ /\ more => Kind[x] \in {"blob", "tag"}
             /\ at' = x
             /\ Return(x, id, IF x \notin objects THEN NotExist
                              ELSE IF more THEN "TypeError" ELSE "nil")
    /\ UNCHANGED <<repo, call, id, head, lines, moved, failed>>

-----------------------------------------------------------------------------
(* FindRef tries one name after the other.                                 *)

(* (As it would be if names that are missing were not gone past.)          *)
TryRefOnce ==
    /\ pc = "GetRef" /\ call.op = "FindRef"
    /\ IF todo = << >> \/ refs[Head(todo)] = ZeroID THEN Return(ZeroID, ZeroID, "ErrRefNotExist")
       ELSE Return(ZeroID, refs[Head(todo)], "nil")
    /\ UNCHANGED <<repo, call, locals, moved, failed>>

TryRef ==
    /\ pc = "GetRef" /\ call.op = "FindRef"
    /\ IF todo = << >> THEN Return(ZeroID, ZeroID, "ErrRefNotExist") /\ UNCHANGED todo
       ELSE IF refs[Head(todo)] # ZeroID
       THEN Return(ZeroID, refs[Head(todo)], "nil") /\ UNCHANGED todo
       ELSE todo' = Tail(todo) /\ UNCHANGED <<pc, answer>>
    /\ UNCHANGED <<repo, call, at, id, head, lines, moved, failed>>

-----------------------------------------------------------------------------
(* AdvertiseRefs.                                                          *)

ListRefs ==
    /\ pc = "ListRefs"
    /\ \E names \in SetToSeqs({n \in RefName : refs[n] # ZeroID}) :
          todo' = [i \in DOMAIN names |-> [name |-> names[i], id |-> refs[names[i]]]]
    /\ pc' = "GetHEAD"
    /\ moved' = {}
    /\ UNCHANGED <<repo, call, at, id, head, lines, answer, failed>>

GetHEAD ==
    /\ pc = "GetHEAD"
    /\ head' = HEAD
    /\ pc' = "GetRef"
    /\ UNCHANGED <<repo, call, at, id, todo, lines, answer, moved, failed>>

(* The list with the line for HEAD, if there is one, and never empty.      *)
WithHEAD(line) ==
    IF line \o todo # << >> THEN line \o todo
    ELSE <<[name |-> "capabilities", id |-> ZeroID]>>

(* (As it would be if HEAD were looked up in the list.)                    *)
GetRefListed ==
    /\ pc = "GetRef" /\ call.op = "AdvertiseRefs"
    /\ todo' = WithHEAD(IF todo = << >> THEN << >>
                        ELSE <<[name |-> "HEAD", id |-> todo[1].id]>>)
    /\ pc' = "line"
    /\ UNCHANGED <<repo, call, at, id, head, lines, answer, moved, failed>>

GetRef ==
    /\ pc = "GetRef" /\ call.op = "AdvertiseRefs"
    /\ todo' = WithHEAD(IF refs[head] = ZeroID THEN << >>
                        ELSE <<[name |-> "HEAD", id |-> refs[head]]>>)
    /\ pc' = "line"
    /\ UNCHANGED <<repo, call, at, id, head, lines, answer, moved, failed>>

WriteLine ==
    /\ pc = "line" /\ todo # << >>
    /\ lines' = Append(lines, [name |-> Head(todo).name, peeled |-> FALSE, id |-> Head(todo).id])
    /\ at' = Head(todo).id
    /\ pc' = "GetObject"
    /\ UNCHANGED <<repo, call, id, head, todo, answer, moved, failed>>

Flush ==
    /\ pc = "line" /\ todo = << >>
    /\ Return(ZeroID, ZeroID, "nil")
    /\ UNCHANGED <<repo, call, locals, moved, failed>>

-----------------------------------------------------------------------------
(* A method fails.  AdvertiseRefs leaves out what it could not look up,    *)
(* unless that is the list, and FindRef takes a ref for one that is not    *)
(* there.                                                                  *)

FailsToDereference ==
    /\ pc = "GetObject"
    /\ Dereferenced("BackendError")
    /\ UNCHANGED <<at, head>>

FailsToFindEntry ==
    /\ pc = "entry" /\ Head(todo) \in DOMAIN Entries[at]
    /\ Return(Entries[at][Head(todo)], id, "BackendError")
    /\ UNCHANGED locals

FailsToFindRef ==
    /\ pc = "GetRef" /\ call.op = "FindRef" /\ todo # << >>
    /\ todo' = Tail(todo)
    /\ UNCHANGED <<pc, at, id, head, lines, answer>>

FailsToListRefs ==
    /\ pc = "ListRefs"
    /\ Return(ZeroID, ZeroID, "BackendError")
    /\ UNCHANGED locals

FailsToGetHEAD ==
    /\ call.op = "AdvertiseRefs" /\ pc \in {"GetHEAD", "GetRef"}
    /\ todo' = WithHEAD(<< >>)
    /\ pc' = "line"
    /\ UNCHANGED <<at, id, head, lines, answer>>

Fail ==
    /\ \/ FailsToDereference \/ FailsToFindEntry \/ FailsToFindRef
       \/ FailsToListRefs \/ FailsToGetHEAD
    /\ failed' = failed \cup {IF call.op = "FindRef" THEN Head(todo) ELSE call.op}
    /\ UNCHANGED <<repo, call, moved>>

Step ==
    \/ GetObject \/ NoEntry \/ Entry \/ TryRef
    \/ ListRefs \/ GetHEAD \/ GetRef \/ WriteLine \/ Flush
    \/ Fail

Next == PutObject \/ UpdateRef \/ SetHEAD \/ Call \/ Step

Spec == Init /\ [][Next]_vars

-----------------------------------------------------------------------------
(* Properties.                                                             *)

Found(x, err) == [obj |-> x, err |-> err]

(* What GetCommit, GetTag or GetTree should make of x in one moment: the   *)
(* object at which they end and the error.                                 *)
Peel(mode, start) ==
    LET peel[x \in ID \cup {ZeroID}] ==
          IF x \notin objects THEN Found(x, NotExist)
          ELSE IF GoesOn(mode, x) THEN peel[Target[x]]
          ELSE Found(x, IF Wanted(mode, x) THEN "nil" ELSE "TypeError")
    IN  peel[start]

(* The object at a path from x: in the tree that x leads to, and from each *)
(* entry on as from a start, save that a tag is not followed there.        *)
PathFrom(start, path) ==
    LET from[s \in (ID \cup {ZeroID}) \X Seq(STRING)] ==
          LET tree == Peel("GetTree", s[1])
              p == s[2]
              y == Entries[tree.obj][Head(p)]
          IN  IF tree.err # "nil" \/ p = << >> THEN tree
              ELSE IF Head(p) \notin DOMAIN Entries[tree.obj]
              THEN Found(tree.obj, "no such tree entry")
              ELSE IF y \notin objects THEN Found(y, NotExist)
              ELSE IF Tail(p) = << >> THEN Found(y, "nil")
              ELSE IF Kind[y] = "tag" THEN Found(y, "TypeError")
              ELSE from[<<y, Tail(p)>>]
    IN  from[<<start, path>>]

(* HasObject, GetCommit, GetTag, GetTree and GetPath read the repository   *)
(* object by object while others store what they are about to look for,    *)
(* and yet answer what is so when they return: the object, the error and   *)
(* the ID.  Of GetPath only the ID of the tree at "/" is claimed: past it  *)
(* the ID is that of an earlier tree, against GetPath's comment.           *)
AnswersStand ==
    pc = "done" /\ failed = {} =>
        /\ call.op \in {"HasObject", "GetCommit", "GetTag", "GetTree"} =>
              LET end == Peel(call.op, call.id)
              IN  answer = Answer(end.obj, end.obj, end.err)
        /\ call.op = "GetPath" =>
              LET end == PathFrom(call.id, Clean(call.path))
              IN  /\ answer = Answer(end.obj, answer.id, end.err)
                  /\ Clean(call.path) = << >> => answer.id = end.obj

(* FindRef disambiguates by the first of the names that exists: what it    *)
(* gives is a ref before which no other was there all the time, and it     *)
(* finds one that is there all the time; but for those that it could not   *)
(* look up, which it takes for refs that do not exist.                     *)
FindRefIsRight ==
    pc = "done" /\ call.op = "FindRef" =>
        \E k \in 1..(Len(call.names) + 1) :
            /\ \A j \in 1..(k - 1) :
                  call.names[j] \in moved \cup failed \/ refs[call.names[j]] = ZeroID
            /\ IF k > Len(call.names) THEN answer.err = "ErrRefNotExist"
               ELSE /\ answer.err = "nil" /\ answer.id # ZeroID
                    /\ call.names[k] \in moved \/ refs[call.names[k]] = answer.id

Told(name) == {i \in DOMAIN lines : lines[i].name = name /\ ~ lines[i].peeled}

(* The line for HEAD, which is made of two more calls, does not contradict *)
(* the list: if neither HEAD nor the ref it names was set since ListRefs,  *)
(* they have the same ID or both have none, and else the line is missing   *)
(* only because a call failed.                                             *)
HeadAgreesWithList ==
    pc = "done" /\ call.op = "AdvertiseRefs" /\ answer.err = "nil"
      /\ moved \cap {"HEAD", HEAD} = {} =>
        LET ids(name) == {lines[i].id : i \in Told(name)}
        IN  ids("HEAD") = ids(HEAD) \/ (failed # {} /\ ids("HEAD") = {})

(* A line is followed by one for the object that its tag leads to, past    *)
(* all tags, if and only if it is one of a tag.                            *)
PeeledLinesAreRight ==
    pc = "done" /\ call.op = "AdvertiseRefs" =>
        /\ \A i \in DOMAIN lines :
              LET tag == Peel("GetTag", lines[i].id)
              IN  ~ lines[i].peeled /\ tag.err = "nil" /\ failed = {} =>
                      /\ i < Len(lines)
                      /\ lines[i + 1] = [name |-> lines[i].name, peeled |-> TRUE,
                                         id |-> Target[tag.obj]]
        /\ \A i \in DOMAIN lines : lines[i].peeled =>
              /\ i > 1 /\ ~ lines[i - 1].peeled
              /\ LET tag == Peel("GetTag", lines[i - 1].id)
                 IN  tag.err = "nil" /\ lines[i] = [name |-> lines[i - 1].name, peeled |-> TRUE,
                                                    id |-> Target[tag.obj]]
=============================================================================
