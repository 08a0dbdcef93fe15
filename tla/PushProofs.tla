----------------------------- MODULE PushProofs -----------------------------
(***************************************************************************)
(* That pushes keep refs complete and build on what was told, for any      *)
(* number of clients, any graph of objects and any commands.               *)
(***************************************************************************)
EXTENDS Push, TLAPS

(* The objects that c asks refs to be set to.                              *)
News(c) == {cmds[c][i].newID : i \in DOMAIN cmds[c]} \ {ZeroID}

(* What a client asks for is built on what it was told.                    *)
Requests ==
    \A c \in Client :
        /\ pc[c] \in {"idle", "advertised"} => cmds[c] = << >>
        /\ \A i \in DOMAIN cmds[c] : cmds[c][i].oldID = Told(c, cmds[c][i].name)

(* What is stored or was left out by a failed unpack.                      *)
Known == objects \cup missing

Complete(id) == Closure({id} \ {ZeroID}) \subseteq Known

(* What a client was told of is complete but for what is missing, and with *)
(* its pack so is all that it asks for; unpack has stored what is not left *)
(* of the pack.                                                            *)
Packs ==
    \A c \in Client :
        /\ \A n \in ValidRef : Complete(adv[c][n])
        /\ Closure(News(c)) \subseteq Known \cup pack[c]
        /\ pc[c] = "unpack" => pack[c] \subseteq Known \cup left[c]
        /\ pc[c] = "update" /\ News(c) # {} => pack[c] \subseteq Known

(* A ref names a stored object, which is complete.                         *)
RefsHeld ==
    \A n \in ValidRef : refs[n] \in objects \cup {ZeroID} /\ Complete(refs[n])

Inv ==
    /\ TypeOK
    /\ Requests
    /\ Packs
    /\ RefsHeld

-----------------------------------------------------------------------------
(* Closure(S) is the least closed set with S.                              *)

(* A closure is a set of objects.                                          *)
LEMMA ClosureIsID ==
    ASSUME NEW S
    PROVE  Closure(S) \in SUBSET ID
BY DEF Closure

(* A closure has what it is the closure of.                                *)
LEMMA ClosureHasStart ==
    ASSUME NEW S \in SUBSET ID
    PROVE  S \subseteq Closure(S)
BY DEF Closure

(* A closure has what its members link to.                                 *)
LEMMA ClosureIsClosed ==
    ASSUME NEW S, NEW x \in Closure(S)
    PROVE  Links[x] \subseteq Closure(S)
BY PushAssumption DEF Closure, Closed

(* A closed set with S has all of the closure of S.                        *)
LEMMA ClosureIsLeast ==
    ASSUME NEW S, NEW T \in SUBSET ID, S \subseteq T, Closed(T)
    PROVE  Closure(S) \subseteq T
BY DEF Closure

(* More objects lead to more.                                              *)
LEMMA ClosureGrows ==
    ASSUME NEW T \in SUBSET ID, NEW S \in SUBSET T
    PROVE  Closure(S) \subseteq Closure(T)
<1>. DEFINE C == Closure(T)
<1>1. C \in SUBSET ID /\ S \subseteq C  BY ClosureIsID, ClosureHasStart
<1>2. Closed(C)  BY ClosureIsClosed DEF Closed
<1>3. Closure(S) \subseteq C
  <2>. HIDE DEF C
  <2>. QED  BY <1>1, <1>2, ClosureIsLeast
<1>. QED  BY <1>3

(* What a set leads to, its members lead to one by one.                    *)
LEMMA ClosureDivides ==
    ASSUME NEW S \in SUBSET ID, NEW V, \A x \in S : Closure({x}) \subseteq V
    PROVE  Closure(S) \subseteq V
<1>. DEFINE T == {id \in ID : \E x \in S : id \in Closure({x})}
<1>1. T \in SUBSET ID /\ T \subseteq V  OBVIOUS
<1>2. ASSUME NEW x \in S
      PROVE  x \in T
  BY ClosureHasStart, {x} \in SUBSET ID
<1>3. ASSUME NEW id \in T
      PROVE  Links[id] \subseteq T
  <2>1. PICK x \in S : id \in Closure({x})  OBVIOUS
  <2>2. Links[id] \subseteq Closure({x})  BY <2>1, ClosureIsClosed
  <2>. QED  BY <2>2, ClosureIsID
<1>4. Closed(T)  BY <1>3 DEF Closed
<1>5. Closure(S) \subseteq T
  <2>. HIDE DEF T
  <2>. QED  BY <1>1, <1>2, <1>4, ClosureIsLeast
<1>. QED  BY <1>1, <1>5

(* Nothing leads to nothing.                                               *)
LEMMA ClosureOfNothing == Closure({}) = {}
<1>1. Closure({}) \subseteq {}  BY ClosureDivides
<1>. QED  BY <1>1

-----------------------------------------------------------------------------
(* The invariant.                                                          *)

(* A request without commands is about no objects.                         *)
LEMMA NoCommandsNoNews ==
    ASSUME NEW c, cmds[c] = << >>
    PROVE  News(c) = {}
BY DEF News

(* The objects that a request is about are IDs.                            *)
LEMMA NewsAreIDs ==
    ASSUME TypeOK, NEW c \in Client
    PROVE  News(c) \in SUBSET ID
<1>1. cmds[c] \in Seq(Command)  BY DEF TypeOK
<1>2. \A i \in DOMAIN cmds[c] : cmds[c][i] \in Command  BY <1>1
<1>. QED  BY <1>2 DEF News, Command, AnyID

(* In an empty repository nothing is missing.                              *)
LEMMA Initially == Init => Inv
<1>. SUFFICES ASSUME Init PROVE Inv
  OBVIOUS
<1>. USE DEF Init
<1>1. TypeOK
  <2>1. NoRefs \in RefTable  BY DEF NoRefs, RefTable, AnyID
  <2>2. << >> \in Seq(Command) /\ << >> \in Seq(Status)  OBVIOUS
  <2>3. 0 \in 0..MaxResend  BY PushAssumption
  <2>. QED  BY <2>1, <2>2, <2>3 DEF TypeOK, Label
<1>2. Requests  BY DEF Requests
<1>3. RefsHeld  BY ClosureOfNothing DEF NoRefs, Complete, RefsHeld
<1>4. Packs
  <2>. SUFFICES ASSUME NEW c \in Client
                PROVE  Packs!(c)
    BY DEF Packs
  <2>1. News(c) = {}  BY NoCommandsNoNews
  <2>. QED  BY <2>1, ClosureOfNothing DEF NoRefs, Complete
<1>. QED  BY <1>1, <1>2, <1>3, <1>4 DEF Inv

(* Steps that leave the repository, the requests and what clients were     *)
(* told alone.                                                             *)
LEMMA ServingKeepsInv ==
    ASSUME Inv, UNCHANGED <<repo, adv, request>>, TypeOK',
           \A c \in Client : pc[c] \in {"idle", "advertised"} <=> pc'[c] \in {"idle", "advertised"},
           missing \subseteq missing',
           \A c \in Client :
              /\ pc'[c] = "unpack" => pack[c] \subseteq Known' \cup left'[c]
              /\ pc'[c] = "update" /\ News(c) # {} => pack[c] \subseteq Known'
    PROVE  Inv'
<1>. USE DEF repo, request
<1>1. Requests'  BY DEF Inv, Requests, Told
<1>2. Known \subseteq Known'  BY DEF Known
<1>3. \A x : Complete(x) => Complete(x)'  BY <1>2 DEF Complete
<1>4. \A c \in Client : News(c)' = News(c)  BY DEF News
<1>5. Packs'  BY <1>2, <1>3, <1>4 DEF Inv, Packs
<1>6. RefsHeld'  BY <1>3 DEF Inv, RefsHeld
<1>. QED  BY <1>1, <1>5, <1>6 DEF Inv

(* ReceivePack expects a pack unless all commands delete a ref.            *)
LEMMA ReadCommandsKeepsInv ==
    ASSUME Inv, NEW c \in Client, ReadCommands(c)
    PROVE  Inv'
<1>. USE DEF Inv, ReadCommands, At, Goto
<1>1. TypeOK'  BY DEF TypeOK, Label, repo, request
<1>2. DeleteCommandsOnly(c) => News(c) = {}  BY DEF DeleteCommandsOnly, News
<1>3. \A d \in Client :
              /\ pc'[d] = "unpack" => pack[d] \subseteq Known' \cup left'[d]
              /\ pc'[d] = "update" /\ News(d) # {} => pack[d] \subseteq Known'
  BY <1>2 DEF TypeOK, Packs, Known, repo, request
<1>. QED  BY <1>1, <1>3, ServingKeepsInv DEF TypeOK

(* A pack that has been unpacked to its end is in the repository.          *)
LEMMA UnpackedKeepsInv ==
    ASSUME Inv, NEW c \in Client, Unpacked(c)
    PROVE  Inv'
<1>. USE DEF Inv, Unpacked, At, Goto
<1>1. TypeOK'  BY DEF TypeOK, Label, repo, request
<1>2. \A d \in Client :
              /\ pc'[d] = "unpack" => pack[d] \subseteq Known' \cup left'[d]
              /\ pc'[d] = "update" /\ News(d) # {} => pack[d] \subseteq Known'
  BY DEF TypeOK, Packs, Known, repo, request
<1>. QED  BY <1>1, <1>2, ServingKeepsInv DEF TypeOK

(* What a pack that fails leaves out is missing from then on.              *)
LEMMA UnpackFailsKeepsInv ==
    ASSUME Inv, NEW c \in Client, UnpackFails(c)
    PROVE  Inv'
<1>. USE DEF Inv, UnpackFails, At, Goto
<1>1. TypeOK'  BY DEF TypeOK, Label, repo, request
<1>2. \A d \in Client :
              /\ pc'[d] = "unpack" => pack[d] \subseteq Known' \cup left'[d]
              /\ pc'[d] = "update" /\ News(d) # {} => pack[d] \subseteq Known'
  BY DEF TypeOK, Packs, Known, repo, request
<1>. QED  BY <1>1, <1>2, ServingKeepsInv DEF TypeOK

(* A request that is lost leaves what it has stored.                       *)
LEMMA LoseKeepsInv ==
    ASSUME Inv, NEW c \in Client, Lose(c)
    PROVE  Inv'
<1>. USE DEF Inv, Lose, At, Goto
<1>1. TypeOK'  BY DEF TypeOK, Label, repo, request
<1>2. \A d \in Client :
              /\ pc'[d] = "unpack" => pack[d] \subseteq Known' \cup left'[d]
              /\ pc'[d] = "update" /\ News(d) # {} => pack[d] \subseteq Known'
  BY DEF TypeOK, Packs, Known, repo, request
<1>. QED  BY <1>1, <1>2, ServingKeepsInv DEF TypeOK

(* Steps that store objects or move c's part of the bookkeeping.           *)
LEMMA UnpackObjectKeepsInv ==
    ASSUME Inv, NEW c \in Client, UnpackObject(c)
    PROVE  Inv'
<1>. USE DEF Inv, UnpackObject, At, request
<1>1. TypeOK'  BY DEF TypeOK
<1>2. Requests'  BY DEF Requests, Told
<1>3. Known \subseteq Known' /\ objects \subseteq objects'  BY DEF Known
<1>4. \A x : Complete(x) => Complete(x)'  BY <1>3 DEF Complete
<1>5. \A d \in Client : News(d)' = News(d)  BY DEF News
<1>6. ASSUME NEW d \in Client
      PROVE  /\ Closure(News(d)) \subseteq Known' \cup pack[d]
             /\ pc[d] = "unpack" => pack[d] \subseteq Known' \cup left'[d]
             /\ pc[d] = "update" /\ News(d) # {} => pack[d] \subseteq Known'
  <2>1. Packs!(d)  BY DEF Packs
  <2>2. left[d] \subseteq left'[d] \cup objects'  BY DEF TypeOK
  <2>3. objects' \subseteq Known'  BY DEF Known
  <2>. QED  BY ONLY <1>3, <2>1, <2>2, <2>3
<1>7. Packs'  BY <1>4, <1>5, <1>6 DEF Packs
<1>8. RefsHeld'  BY <1>3, <1>4 DEF RefsHeld
<1>. QED  BY <1>1, <1>2, <1>7, <1>8

(* A request that is sent again is as true as it was.                      *)
LEMMA ResendKeepsInv ==
    ASSUME Inv, NEW c \in Client, Resend(c)
    PROVE  Inv'
<1>. USE DEF Inv, Resend, At, Goto, repo
<1>1. TypeOK'  BY PushAssumption DEF TypeOK, Label
<1>2. Requests'  BY DEF Requests, Told, TypeOK
<1>3. UNCHANGED Known /\ \A x : Complete(x) => Complete(x)'  BY DEF Complete, Known
<1>4. \A d \in Client : News(d)' = News(d)  BY DEF News
<1>5. Packs'  BY <1>3, <1>4 DEF Packs, TypeOK
<1>6. RefsHeld'  BY <1>3 DEF RefsHeld
<1>. QED  BY <1>1, <1>2, <1>5, <1>6

(* A client is told of refs that are complete.                             *)
LEMMA ListRefsKeepsInv ==
    ASSUME Inv, NEW c \in Client, ListRefs(c)
    PROVE  Inv'
<1>. USE DEF Inv, ListRefs, At, Goto, repo, request
<1>1. TypeOK'  BY DEF TypeOK, Label
<1>2. Requests'  BY DEF Requests, Told, TypeOK
<1>3. UNCHANGED Known /\ \A x : Complete(x) => Complete(x)'  BY DEF Complete, Known
<1>4. \A d \in Client : News(d)' = News(d)  BY DEF News
<1>5. Packs'  BY <1>3, <1>4 DEF Packs, TypeOK, RefsHeld
<1>6. RefsHeld'  BY <1>3 DEF RefsHeld
<1>. QED  BY <1>1, <1>2, <1>5, <1>6

(* A client that starts anew has neither commands nor a pack.              *)
LEMMA ForgetKeepsInv ==
    ASSUME Inv, NEW c \in Client, Forget(c)
    PROVE  Inv'
<1>. USE DEF Inv, Forget, Goto, repo
<1>1. NoRefs \in RefTable  BY DEF NoRefs, RefTable, AnyID
<1>2. TypeOK'
  <2>1. << >> \in Seq(Command) /\ << >> \in Seq(Status)  OBVIOUS
  <2>2. 0 \in 0..MaxResend  BY PushAssumption
  <2>. QED  BY <1>1, <2>1, <2>2 DEF TypeOK, Label
<1>3. Requests'  BY DEF Requests, Told, TypeOK
<1>4. UNCHANGED Known /\ \A x : Complete(x) => Complete(x)'  BY DEF Complete, Known
<1>5. \A d \in Client \ {c} : News(d)' = News(d)  BY DEF News, TypeOK
<1>6. News(c)' = {}  BY DEF News, TypeOK
<1>7. \A n \in ValidRef : Complete(adv[c][n])'
  BY ClosureOfNothing DEF NoRefs, Complete, TypeOK
<1>8. Packs'
  <2>. SUFFICES ASSUME NEW d \in Client
                PROVE  Packs!(d)'
    BY DEF Packs
  <2>1. CASE d = c  BY <2>1, <1>6, <1>7, ClosureOfNothing DEF TypeOK
  <2>2. CASE d # c  BY <2>2, <1>4, <1>5 DEF Packs, TypeOK
  <2>. QED  BY <2>1, <2>2
<1>9. RefsHeld'  BY <1>4 DEF RefsHeld
<1>. QED  BY <1>2, <1>3, <1>8, <1>9

(* A client packs what its new objects need beyond what it was told of.    *)
LEMMA SendKeepsInv ==
    ASSUME Inv, NEW c \in Client, Send(c)
    PROVE  Inv'
<1>. USE DEF At, Goto, repo
<1>. DEFINE new(w) == {w[i].newID : i \in DOMAIN w} \ {ZeroID}
            told == {adv[c][n] : n \in ValidRef} \ {ZeroID}
            asked(w) == [i \in DOMAIN w |-> [name  |-> w[i].name,
                                             oldID |-> Told(c, w[i].name),
                                             newID |-> w[i].newID]]
<1>1. PICK w \in Wishes :
         /\ cmds' = [cmds EXCEPT ![c] = asked(w)]
         /\ \E S \in {Closure(new(w)), Closure(new(w)) \ Closure(told)} :
               pack' = [pack EXCEPT ![c] = S]
  BY DEF Send
<1>p. PICK S \in {Closure(new(w)), Closure(new(w)) \ Closure(told)} :
         pack' = [pack EXCEPT ![c] = S]
  BY <1>1
<1>2. w \in Seq(Wish)  BY PushAssumption
<1>3. asked(w) \in Seq(Command)
  <2>1. \A i \in DOMAIN w : w[i] \in Wish  BY <1>2
  <2>2. \A n \in RefName : Told(c, n) \in AnyID  BY DEF Inv, TypeOK, RefTable, Told, AnyID
  <2>3. \A i \in DOMAIN w : asked(w)[i] \in Command  BY <2>1, <2>2 DEF Wish, Command
  <2>. QED  BY <1>2, <2>3
<1>4. /\ pc[c] = "advertised" /\ pc' = [pc EXCEPT ![c] = "sent"]
      /\ UNCHANGED <<objects, refs, adv, left, report, resent, missing>>
  BY DEF Send
<1>5. TypeOK'
  <2>1. cmds' \in [Client -> Seq(Command)]  BY <1>1, <1>3 DEF Inv, TypeOK
  <2>2. S \in SUBSET ID
    <3>1. Closure(new(w)) \in SUBSET ID  BY ClosureIsID
    <3>. HIDE DEF new, told
    <3>. QED  BY <3>1
  <2>3. pack' \in [Client -> SUBSET ID]  BY <1>p, <2>2 DEF Inv, TypeOK
  <2>. QED  BY <1>4, <2>1, <2>3 DEF Inv, TypeOK, Label
<1>6. cmds'[c] = asked(w) /\ \A d \in Client \ {c} : cmds'[d] = cmds[d]
  BY <1>1 DEF Inv, TypeOK
<1>7. Requests'
  <2>1. \A i \in DOMAIN asked(w) : asked(w)[i].oldID = Told(c, asked(w)[i].name)
    OBVIOUS
  <2>2. \A d, n : Told(d, n)' = Told(d, n)  BY <1>4 DEF Told
  <2>. HIDE DEF asked
  <2>. QED  BY <1>4, <1>6, <2>1, <2>2 DEF Inv, Requests, TypeOK
<1>8. UNCHANGED Known /\ \A x : Complete(x) => Complete(x)'  BY <1>4 DEF Complete, Known
<1>9. News(c)' = new(w)
  <2>1. DOMAIN asked(w) = DOMAIN w /\ \A i \in DOMAIN w : asked(w)[i].newID = w[i].newID
    OBVIOUS
  <2>. HIDE DEF asked
  <2>. QED  BY <1>6, <2>1 DEF News
<1>10. \A d \in Client \ {c} : News(d)' = News(d)  BY <1>6 DEF News
<1>11. Closure(new(w)) \subseteq Known \cup pack'[c]
  <2>1. told \in SUBSET ID  BY DEF Inv, TypeOK, RefTable, AnyID
  <2>2. \A x \in told : Closure({x}) \subseteq Known
    <3>1. \A n \in ValidRef : Complete(adv[c][n])  BY DEF Inv, Packs
    <3>2. \A x \in told : {x} \ {ZeroID} = {x}  OBVIOUS
    <3>. QED  BY <3>1, <3>2 DEF Complete
  <2>3. Closure(told) \subseteq Known
    <3>. HIDE DEF told
    <3>. QED  BY <2>1, <2>2, ClosureDivides
  <2>4. pack'[c] = S  BY <1>p DEF Inv, TypeOK
  <2>. HIDE DEF new, told
  <2>. QED  BY <1>p, <2>3, <2>4
<1>12. Packs'
  <2>. SUFFICES ASSUME NEW d \in Client
                PROVE  Packs!(d)'
    BY DEF Packs
  <2>1. Packs!(d)  BY <1>4 DEF Inv, Packs
  <2>. HIDE DEF new, told, asked
  <2>2. CASE d = c
    <3>1. pc'[d] = "sent"  BY <1>4, <2>2 DEF Inv, TypeOK
    <3>. QED  BY <1>4, <1>8, <1>9, <1>11, <2>1, <2>2, <3>1
  <2>3. CASE d # c
    <3>1. pack'[d] = pack[d] /\ pc'[d] = pc[d]  BY <1>p, <1>4, <2>3 DEF Inv, TypeOK
    <3>. QED  BY <1>4, <1>8, <1>10, <2>1, <2>3, <3>1
  <2>. QED  BY <2>2, <2>3
<1>13. RefsHeld'  BY <1>4, <1>8 DEF Inv, RefsHeld
<1>. QED  BY <1>5, <1>7, <1>12, <1>13 DEF Inv

(* A command that is run is one that its client was told enough for.       *)
LEMMA CommandsAreRight ==
    ASSUME Inv, NEW c \in Client, Len(report[c]) < Len(cmds[c])
    PROVE  LET cmd == Command1(c) IN
           /\ cmd \in Command
           /\ cmd.oldID = Told(c, cmd.name)
           /\ cmd.newID \in News(c) \cup {ZeroID}
<1>1. cmds[c] \in Seq(Command) /\ report[c] \in Seq(Status)  BY DEF Inv, TypeOK
<1>2. Len(report[c]) + 1 \in DOMAIN cmds[c]  BY <1>1
<1>. QED  BY <1>1, <1>2 DEF Inv, Requests, Command1, News

(* A ref is moved to an object whose closure has been stored.              *)
LEMMA UpdateRefKeepsInv ==
    ASSUME Inv, NEW c \in Client, UpdateRef(c)
    PROVE  Inv'
<1>. DEFINE cmd == Command1(c)
<1>. USE DEF At, request
<1>1. cmd \in Command /\ cmd.newID \in News(c) \cup {ZeroID}
  BY CommandsAreRight DEF UpdateRef
<1>2. /\ pc[c] = "update"
      /\ UNCHANGED <<objects, adv, cmds, pack, resent, pc, left, missing>>
      /\ \/ /\ cmd.name \in ValidRef /\ cmd.newID \in objects \cup {ZeroID}
            /\ refs' = [refs EXCEPT ![cmd.name] = cmd.newID]
         \/ UNCHANGED refs
      /\ \E r \in Status : report' = [report EXCEPT ![c] = Append(@, r)]
  BY DEF UpdateRef, Accepts, Status
<1>. HIDE DEF cmd
<1>3. TypeOK'
  <2>1. refs' \in RefTable  BY <1>1, <1>2 DEF Inv, TypeOK, RefTable, Command
  <2>2. report' \in [Client -> Seq(Status)]  BY <1>2 DEF Inv, TypeOK
  <2>. QED  BY <1>2, <2>1, <2>2 DEF Inv, TypeOK
<1>4. Requests'  BY <1>2 DEF Inv, Requests, Told
<1>5. UNCHANGED Known /\ \A x : Complete(x) => Complete(x)'  BY <1>2 DEF Complete, Known
<1>6. \A d \in Client : News(d)' = News(d)  BY <1>2 DEF News
<1>7. Packs'  BY <1>2, <1>5, <1>6 DEF Inv, Packs
<1>8. Complete(cmd.newID)
  <2>1. CASE cmd.newID = ZeroID
    <3>1. {cmd.newID} \ {ZeroID} = {}  BY <2>1
    <3>. QED  BY <3>1, ClosureOfNothing DEF Complete
  <2>2. CASE cmd.newID \in News(c)
    <3>1. {cmd.newID} \ {ZeroID} \in SUBSET News(c) /\ News(c) \in SUBSET ID
      BY <2>2, NewsAreIDs DEF Inv
    <3>2. Closure({cmd.newID} \ {ZeroID}) \subseteq Closure(News(c))
      BY <3>1, ClosureGrows
    <3>3. Closure(News(c)) \subseteq Known
      BY <1>2, <2>2 DEF Inv, Packs
    <3>. QED  BY <3>2, <3>3 DEF Complete
  <2>. QED  BY <1>1, <2>1, <2>2
<1>9. RefsHeld'
  <2>. SUFFICES ASSUME NEW n \in ValidRef
                PROVE  (refs[n] \in objects \cup {ZeroID} /\ Complete(refs[n]))'
    BY DEF RefsHeld
  <2>1. Complete(refs[n]) /\ refs[n] \in objects \cup {ZeroID}  BY DEF Inv, RefsHeld
  <2>2. \/ refs'[n] = refs[n]
        \/ refs'[n] = cmd.newID /\ cmd.newID \in objects \cup {ZeroID}
    BY <1>2 DEF Inv, TypeOK, RefTable
  <2>. QED  BY <1>2, <1>5, <1>8, <2>1, <2>2 DEF Complete
<1>. QED  BY <1>3, <1>4, <1>7, <1>9 DEF Inv

(* Every step keeps the invariant.                                         *)
LEMMA Inductive == Inv /\ [Next]_vars => Inv'
<1>. SUFFICES ASSUME Inv, [Next]_vars
              PROVE  Inv'
  OBVIOUS
<1>1. CASE UNCHANGED vars
  <2>. USE <1>1 DEF vars, repo, request
  <2>1. TypeOK'  BY DEF Inv, TypeOK
  <2>2. Requests'  BY DEF Inv, Requests, Told
  <2>3. UNCHANGED Known /\ \A x : Complete(x) => Complete(x)'  BY DEF Complete, Known
  <2>4. \A c : News(c)' = News(c)  BY DEF News
  <2>5. Packs'  BY <2>3, <2>4 DEF Inv, Packs
  <2>6. RefsHeld'  BY <2>3 DEF Inv, RefsHeld
  <2>. QED  BY <2>1, <2>2, <2>5, <2>6 DEF Inv
<1>2. ASSUME NEW c \in Client, Serve(c)
      PROVE  Inv'
  BY <1>2, ReadCommandsKeepsInv, UnpackObjectKeepsInv, UnpackedKeepsInv,
     UnpackFailsKeepsInv, UpdateRefKeepsInv, ForgetKeepsInv DEF Serve, Finish
<1>. QED  BY <1>1, <1>2, ListRefsKeepsInv, SendKeepsInv, ResendKeepsInv, ForgetKeepsInv,
             LoseKeepsInv DEF Next, GiveUp

(* The invariant holds of any pushes, lost, repeated or cut off.           *)
THEOREM Invariance == Spec => []Inv
BY Initially, Inductive, PTL DEF Spec

(* Refs lead only to what is stored or was left out by a failed unpack.    *)
THEOREM RefsStayComplete == Spec => []RefsComplete
<1>1. ASSUME Inv
      PROVE  RefsComplete
  <2>. SUFFICES ASSUME NEW n \in ValidRef, refs[n] # ZeroID
                PROVE  refs[n] \in objects /\ Closure({refs[n]}) \subseteq objects \cup missing
    BY DEF RefsComplete
  <2>1. {refs[n]} \ {ZeroID} = {refs[n]}  OBVIOUS
  <2>. QED  BY <1>1, <2>1 DEF Inv, RefsHeld, Complete, Known
<1>. QED  BY <1>1, Invariance, PTL

(* A ref only moves from what the client that moves it was told.           *)
THEOREM NoPushIsUndone == Spec => PushesBuildOnWhatWasTold
<1>. DEFINE Built == \A n \in ValidRef :
              refs'[n] # refs[n] =>
                \E c \in Client : adv[c][n] = refs[n] /\ report'[c] # report[c]
<1>1. Inv /\ [Next]_vars => [Built]_vars
  <2>. SUFFICES ASSUME Inv, Next, NEW n \in ValidRef, refs'[n] # refs[n]
                PROVE  \E c \in Client : adv[c][n] = refs[n] /\ report'[c] # report[c]
    OBVIOUS
  <2>1. PICK c \in Client : UpdateRef(c)
    BY DEF Next, ListRefs, Send, Resend, GiveUp, Lose, Serve, ReadCommands, UnpackObject,
           Unpacked, UnpackFails, Finish, Forget, repo
  <2>2. Accepts(Command1(c))
    BY <2>1 DEF UpdateRef
  <2>3. refs' = [refs EXCEPT ![Command1(c).name] = Command1(c).newID]
        /\ report' = [report EXCEPT ![c] = Append(@, "ok")]
    BY <2>1, <2>2 DEF UpdateRef
  <2>4. n = Command1(c).name  BY <2>3 DEF Inv, TypeOK, RefTable
  <2>5. Command1(c).oldID = Told(c, Command1(c).name)
    BY <2>1, CommandsAreRight DEF UpdateRef
  <2>6. adv[c][n] = refs[n]  BY <2>2, <2>4, <2>5 DEF Accepts, Told
  <2>7. report'[c] # report[c]
    <3>1. report[c] \in Seq(Status) /\ report'[c] = Append(report[c], "ok")
      BY <2>3 DEF Inv, TypeOK
    <3>2. Len(report'[c]) = Len(report[c]) + 1  BY <3>1
    <3>. QED  BY <3>1, <3>2
  <2>. QED  BY <2>6, <2>7
<1>. QED  BY <1>1, Invariance, PTL DEF Spec, PushesBuildOnWhatWasTold
=============================================================================
