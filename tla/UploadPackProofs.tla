-------------------------- MODULE UploadPackProofs --------------------------
(***************************************************************************)
(* That Walk calls walkFn once for every object it should, depth first,    *)
(* and that what UploadPack sends is enough, and what it ACKs is true, for *)
(* any graph of objects, any number of batches and any number of calls of  *)
(* it.  UploadPack takes a walk as one step, which is what Walk is shown   *)
(* to come to (WalksAreSteps).                                             *)
(***************************************************************************)
EXTENDS Walk, UploadPack, FiniteSetTheorems, SequenceTheorems, WellFoundedInduction, TLAPS

(* Where the loop over batches is.                                         *)
InLoop == {"have", "walk", "answer"}

(* What the client holds is closed, and all that counts as common is held  *)
(* by both sides and reached from a want.                                  *)
Held ==
    /\ Closed(has)
    /\ have \subseteq has /\ end \subseteq has
    /\ acked \cup common \subseteq objects \cap has
    /\ \A x \in acked \cup common : \E w \in start : x \in Reach({w}, Commit)

(* A call begins with empty locals, and end has all that is common.        *)
Locals ==
    /\ want \subseteq start /\ common \subseteq end
    /\ pc = "want" => end = {} /\ common = {}
    /\ pc \in InLoop => start # {} /\ (want = {} => end # {})

(* A client that understands multi_ack_detailed has been told of all that  *)
(* is in end when an answer is over, and every want that is crossed off    *)
(* leads to something of it.                                               *)
IsTold ==
    Multi =>
        /\ end \subseteq acked \cup common
        /\ pc \in {"have", "pack", "sent"} => common \subseteq acked
        /\ pc \in InLoop =>
              \A w \in start \ want : Reach({w}, Commit) \cap (acked \cup common) # {}

(* The wants are found again in a call for which the client is ready.      *)
StaysReady ==
    ready =>
        /\ Multi /\ \A w \in start : Reach({w}, Commit) \cap acked # {}
        /\ pc = "want" => acked \subseteq again
        /\ pc = "have" => want = {} \/ acked \subseteq again
        /\ pc = "walk" => want = {} \/ (acked \subseteq have /\ want \subseteq todo)
        /\ pc \in {"answer", "pack", "sent"} => want = {}

(* Once something was ACKed, something is found in every later call, too.  *)
StaysCommon ==
    acked # {} =>
        /\ pc = "want" => acked \subseteq again
        /\ pc = "have" => end # {} \/ (acked \subseteq again /\ want = start)
        /\ pc = "walk" => \/ end # {}
                          \/ /\ acked \subseteq have
                             /\ \E w \in todo : Reach({w}, Commit) \cap acked # {}
        /\ pc \in {"answer", "pack", "sent"} => end # {}

(* What the pack follows on and what is in it.                             *)
Sending ==
    /\ pc \in {"pack", "sent"} /\ Multi => final = (IF end = {} THEN "NAK" ELSE "ACK")
    /\ pc = "sent" => pack = Walk

FetchInv ==
    /\ TypeOK
    /\ Held /\ Locals /\ IsTold /\ StaysReady /\ StaysCommon /\ Sending
    /\ pc # "panicked"

-----------------------------------------------------------------------------
(* Reach(S, T) is the least set with S that is closed under the links of   *)
(* the members of T.                                                       *)

(* A walk reaches where it starts.                                         *)
LEMMA ReachHasStart ==
    ASSUME NEW S \in SUBSET ID, NEW T
    PROVE  S \subseteq Reach(S, T)
BY DEF Reach

(* A walk reaches objects.                                                 *)
LEMMA ReachIsID ==
    ASSUME NEW S, NEW T
    PROVE  Reach(S, T) \subseteq ID
BY DEF Reach

(* A walk goes on from each object it may.                                 *)
LEMMA ReachGoesOn ==
    ASSUME NEW S, NEW T, NEW x \in Reach(S, T), x \in T
    PROVE  Links[x] \subseteq Reach(S, T)
BY UploadPackAssumption DEF Reach

(* A set with the starts that a walk cannot leave has all it reaches.      *)
LEMMA ReachIsLeast ==
    ASSUME NEW S, NEW T, NEW V \in SUBSET ID, S \subseteq V,
           \A x \in V \cap T : Links[x] \subseteq V
    PROVE  Reach(S, T) \subseteq V
BY DEF Reach

(* A walk that may go on from more objects reaches more.                   *)
LEMMA ReachGrows ==
    ASSUME NEW S \in SUBSET ID, NEW R \in SUBSET S, NEW T, NEW U \in SUBSET T
    PROVE  Reach(R, U) \subseteq Reach(S, T)
<1>1. Reach(S, T) \in SUBSET ID  BY ReachIsID
<1>2. R \subseteq Reach(S, T)  BY ReachHasStart
<1>3. \A x \in Reach(S, T) \cap U : Links[x] \subseteq Reach(S, T)  BY ReachGoesOn
<1>. QED  BY <1>1, <1>2, <1>3, ReachIsLeast

(* A walk that stops at H meets H if one that does not stop there does.    *)
LEMMA ReachMeets ==
    ASSUME NEW S \in SUBSET ID, NEW T, NEW H, Reach(S, T) \cap H # {}
    PROVE  Reach(S, T \ H) \cap H # {}
<1>. SUFFICES ASSUME Reach(S, T \ H) \cap H = {}
              PROVE  FALSE
  OBVIOUS
<1>. DEFINE V == Reach(S, T \ H)
<1>1. \A x \in V \cap T : Links[x] \subseteq V  BY ReachGoesOn
<1>2. S \subseteq V  BY ReachHasStart
<1>3. V \in SUBSET ID  BY ReachIsID
<1>4. Reach(S, T) \subseteq V
  <2>. HIDE DEF V
  <2>. QED  BY <1>1, <1>2, <1>3, ReachIsLeast
<1>. QED  BY <1>4

(* Whatever S leads to is met before the walk from S stops at E, or E      *)
(* leads to it.                                                            *)
LEMMA ReachDivides ==
    ASSUME NEW S \in SUBSET ID, NEW E \in SUBSET ID
    PROVE  Reach(S, ID) \subseteq (Reach(S \ E, ID \ E) \ E) \cup Reach(E, ID)
<1>. DEFINE V == (Reach(S \ E, ID \ E) \ E) \cup Reach(E, ID)
<1>1. V \in SUBSET ID  BY ReachIsID
<1>2. S \subseteq V
  <2>1. E \subseteq Reach(E, ID)  BY ReachHasStart
  <2>2. S \ E \subseteq Reach(S \ E, ID \ E)  BY ReachHasStart
  <2>. QED  BY <2>1, <2>2
<1>3. ASSUME NEW x \in V
      PROVE  Links[x] \subseteq V
  <2>1. CASE x \in Reach(E, ID)
    BY <2>1, ReachGoesOn, ReachIsID
  <2>2. CASE x \in Reach(S \ E, ID \ E) \ E
    <3>1. Links[x] \subseteq Reach(S \ E, ID \ E)  BY <2>2, ReachGoesOn, ReachIsID
    <3>2. E \subseteq Reach(E, ID)  BY ReachHasStart
    <3>. QED  BY <3>1, <3>2
  <2>. QED  BY <2>1, <2>2
<1>. QED  BY <1>1, <1>2, <1>3, ReachIsLeast

(* No walk leaves a closed set.                                            *)
LEMMA ReachOfClosed ==
    ASSUME NEW S, NEW T, NEW V \in SUBSET ID, S \subseteq V, Closed(V)
    PROVE  Reach(S, T) \subseteq V
BY ReachIsLeast DEF Closed

-----------------------------------------------------------------------------
(* The invariant.                                                          *)

(* Before the first line nothing has been read or sent.                    *)
LEMMA Initially == Init => FetchInv
<1>. SUFFICES ASSUME Init PROVE FetchInv
  OBVIOUS
<1>. USE DEF Init
<1>1. TypeOK
  <2>1. objects \subseteq ID /\ has \subseteq ID /\ start \subseteq ID  OBVIOUS
  <2>2. batches \in 0..MaxBatches  BY UploadPackAssumption
  <2>. QED  BY <2>1, <2>2 DEF TypeOK, Label
<1>2. Held  BY DEF Held
<1>3. Locals  BY DEF Locals, InLoop
<1>4. IsTold  BY DEF IsTold, InLoop
<1>5. StaysReady /\ StaysCommon /\ Sending  BY DEF StaysReady, StaysCommon, Sending
<1>. QED  BY <1>1, <1>2, <1>3, <1>4, <1>5 DEF FetchInv

(* UploadPack starts with the wants and no common objects.                 *)
LEMMA ReadWantsKeepsInv ==
    ASSUME FetchInv, ReadWants
    PROVE  FetchInv'
<1>. USE DEF FetchInv, ReadWants, Goto, client, answers, walks
<1>1. TypeOK'  BY DEF Locals, TypeOK, Label, Capability
<1>2. Held'  BY DEF Held
<1>3. Locals'  BY DEF Locals, InLoop
<1>4. IsTold'  BY DEF Locals, IsTold, InLoop, Multi
<1>5. StaysReady'  BY DEF StaysReady, Multi
<1>6. StaysCommon'  BY DEF StaysCommon
<1>7. Sending'  BY DEF Sending, Multi, Walk
<1>8. pc' # "panicked"  OBVIOUS
<1>. QED  BY <1>1, <1>2, <1>3, <1>4, <1>5, <1>6, <1>7, <1>8

(* A batch of haves holds objects of the client only.                      *)
LEMMA ReadHavesKeepsInv ==
    ASSUME FetchInv, ReadHaves
    PROVE  FetchInv'
<1>. USE DEF FetchInv, ReadHaves, Goto, client, answers, walks
<1>1. TypeOK'  BY UploadPackAssumption DEF Held, TypeOK, Label, Capability
<1>2. Held'  BY DEF Held
<1>3. Locals'  BY DEF Locals, InLoop
<1>4. IsTold'  BY DEF IsTold, InLoop, Multi
<1>5. StaysReady'  BY DEF StaysReady, Multi
<1>6. StaysCommon'  BY DEF Held, StaysCommon
<1>7. Sending'  BY DEF Sending, Multi, Walk
<1>8. pc' # "panicked"  OBVIOUS
<1>. QED  BY <1>1, <1>2, <1>3, <1>4, <1>5, <1>6, <1>7, <1>8

(* After the last batch the client sends nothing more.                     *)
LEMMA ReadEndKeepsInv ==
    ASSUME FetchInv, ReadEnd
    PROVE  FetchInv'
<1>. USE DEF FetchInv, ReadEnd, Goto, client, answers, walks
<1>1. TypeOK'  BY DEF TypeOK, Label, Capability
<1>2. Held'  BY DEF Held
<1>3. Locals'  BY DEF Locals, InLoop
<1>4. IsTold'  BY DEF IsTold, InLoop, Multi
<1>5. StaysReady'  BY DEF StaysReady, Multi
<1>6. StaysCommon'  BY DEF StaysCommon
<1>7. Sending'  BY DEF Sending, Multi, Walk
<1>8. pc' # "panicked"  OBVIOUS
<1>. QED  BY <1>1, <1>2, <1>3, <1>4, <1>5, <1>6, <1>7, <1>8

(* A line that is refused ends the fetch.                                  *)
LEMMA ReadBadLineKeepsInv ==
    ASSUME FetchInv, ReadBadLine
    PROVE  FetchInv'
<1>. USE DEF FetchInv, ReadBadLine, Goto, client, answers, walks
<1>1. TypeOK'  BY DEF TypeOK, Label, Capability
<1>2. Held'  BY DEF Held
<1>3. Locals'  BY DEF Locals, InLoop
<1>4. IsTold'  BY DEF IsTold, InLoop, Multi
<1>5. StaysReady'  BY DEF StaysReady, Multi
<1>6. StaysCommon'  BY DEF StaysCommon
<1>7. Sending'  BY DEF Sending, Multi, Walk
<1>8. pc' # "panicked"  OBVIOUS
<1>. QED  BY <1>1, <1>2, <1>3, <1>4, <1>5, <1>6, <1>7, <1>8

(* With no walk left to do, the answer is due.                             *)
LEMMA WalkedKeepsInv ==
    ASSUME FetchInv, Walked
    PROVE  FetchInv'
<1>. USE DEF FetchInv, Walked, Goto, client, answers, walks
<1>1. TypeOK'  BY DEF TypeOK, Label, Capability
<1>2. Held'  BY DEF Held
<1>3. Locals'  BY DEF Locals, InLoop
<1>4. IsTold'  BY DEF IsTold, InLoop, Multi
<1>5. StaysReady'  BY DEF StaysReady, Multi
<1>6. StaysCommon'  BY DEF StaysCommon
<1>7. Sending'  BY DEF Sending, Multi, Walk
<1>8. pc' # "panicked"  OBVIOUS
<1>. QED  BY <1>1, <1>2, <1>3, <1>4, <1>5, <1>6, <1>7, <1>8

(* ACKs name objects that both sides have, and ready is said once no walk  *)
(* is left.                                                                *)
LEMMA AnswerKeepsInv ==
    ASSUME FetchInv, Answer
    PROVE  FetchInv'
<1>. USE DEF FetchInv, Goto, client, walks
<1>a. ~ Panics  BY DEF Answer, Panics, Locals, InLoop
<1>b. /\ pc = "answer"
      /\ acked' = IF Multi THEN acked \cup common ELSE acked
      /\ ready' = (ready \/ (Multi /\ want = {}))
      /\ final' = IF end # {} /\ (AtEOF <=> Multi) THEN "ACK" ELSE "NAK"
      /\ Goto(IF AtEOF THEN "pack" ELSE "have")
      /\ UNCHANGED <<objects, client, walks, last, batches, pack, again>>
  BY <1>a DEF Answer
<1>1. TypeOK'
  <2>1. ready' \in BOOLEAN /\ pc' \in Label /\ final' \in {"none", "ACK", "NAK"}
    BY <1>b DEF Label
  <2>. QED  BY <1>b, <2>1 DEF TypeOK
<1>2. Held'  BY <1>b DEF Held
<1>3. Locals'  BY <1>b DEF Locals, InLoop
<1>4. IsTold'  BY <1>b DEF Held, IsTold, InLoop, Multi
<1>5. StaysReady'  BY <1>b DEF IsTold, InLoop, StaysReady, Multi
<1>6. StaysCommon'  BY <1>b DEF Locals, StaysCommon
<1>7. Sending'  BY <1>b DEF AtEOF, Sending, Multi, Walk
<1>8. pc' # "panicked"  BY <1>b
<1>. QED  BY <1>1, <1>2, <1>3, <1>4, <1>5, <1>6, <1>7, <1>8

(* The pack is of what the wants reach short of the ends.                  *)
LEMMA SendPackKeepsInv ==
    ASSUME FetchInv, SendPack
    PROVE  FetchInv'
<1>. USE DEF FetchInv, SendPack, Goto, client, answers, walks
<1>1. TypeOK'  BY DEF TypeOK, Label, Capability
<1>2. Held'  BY DEF Held
<1>3. Locals'  BY DEF Locals, InLoop
<1>4. IsTold'  BY DEF IsTold, InLoop, Multi
<1>5. StaysReady'  BY DEF StaysReady, Multi
<1>6. StaysCommon'  BY DEF StaysCommon
<1>7. Sending'  BY DEF Sending, Multi, Walk
<1>8. pc' # "panicked"  OBVIOUS
<1>. QED  BY <1>1, <1>2, <1>3, <1>4, <1>5, <1>6, <1>7, <1>8

(* A repeated call starts anew, with what the client was told so far.      *)
LEMMA AgainKeepsInv ==
    ASSUME FetchInv, Again
    PROVE  FetchInv'
<1>. USE DEF FetchInv, Again, Goto, client, answers, walks
<1>1. TypeOK'  BY DEF TypeOK, Label, Capability
<1>2. Held'  BY DEF Held
<1>3. Locals'  BY DEF Locals, InLoop
<1>4. IsTold'  BY DEF IsTold, InLoop, Multi
<1>5. StaysReady'  BY DEF StaysReady, Multi
<1>6. StaysCommon'  BY DEF StaysCommon
<1>7. Sending'  BY DEF Sending, Multi, Walk
<1>8. pc' # "panicked"  OBVIOUS
<1>. QED  BY <1>1, <1>2, <1>3, <1>4, <1>5, <1>6, <1>7, <1>8

(* A push that stores an object meanwhile takes nothing away.              *)
LEMMA PutObjectKeepsInv ==
    ASSUME FetchInv, PutObject
    PROVE  FetchInv'
<1>. USE DEF FetchInv, PutObject, Goto, client, answers, walks
<1>1. TypeOK'  BY DEF TypeOK, Label, Capability
<1>2. Held'  BY DEF Held
<1>3. Locals'  BY DEF Locals, InLoop
<1>4. IsTold'  BY DEF IsTold, InLoop, Multi
<1>5. StaysReady'  BY DEF StaysReady, Multi
<1>6. StaysCommon'  BY DEF StaysCommon
<1>7. Sending'  BY DEF Sending, Multi, Walk
<1>8. pc' # "panicked"  OBVIOUS
<1>. QED  BY <1>1, <1>2, <1>3, <1>4, <1>5, <1>6, <1>7, <1>8

(* A walk that meets a common object makes it an end and its want done.    *)
LEMMA WalkFromKeepsInv ==
    ASSUME FetchInv, NEW w \in ID, WalkFrom(w)
    PROVE  FetchInv'
<1>. USE DEF FetchInv, Goto, client, answers
<1>. DEFINE Hits == Visited(w) \cap have
<1>1. /\ w \in todo /\ w \in want /\ w \in start /\ {w} \in SUBSET ID
      /\ pc = "walk" /\ todo' = todo \ {w}
      /\ UNCHANGED <<objects, client, have, last, batches, answers, pack, again>>
  BY DEF WalkFrom, TypeOK, Locals
<1>2. Visited(w) \subseteq Reach({w}, Commit)
  BY <1>1, ReachGrows DEF Visited
<1>3. CASE ~ (Visited(w) \subseteq objects)
  <2>1. pc' = "failed" /\ UNCHANGED <<want, end, common>>  BY <1>3 DEF WalkFrom
  <2>2. TypeOK'  BY <1>1, <2>1 DEF TypeOK, Label
  <2>3. Held' /\ Locals' /\ IsTold'  BY <1>1, <2>1 DEF Held, Locals, IsTold, InLoop, Multi
  <2>4. StaysReady' /\ StaysCommon' /\ Sending'
    BY <1>1, <2>1 DEF StaysReady, StaysCommon, Sending, Multi
  <2>. QED  BY <2>1, <2>2, <2>3, <2>4
<1>4. CASE Visited(w) \subseteq objects
  <2>1. /\ pc' = "walk"
        /\ common' = common \cup Hits /\ end' = end \cup Hits
        /\ want' = IF Hits # {} THEN want \ {w} ELSE want
    BY <1>1, <1>4 DEF WalkFrom
  <2>2. /\ Hits \subseteq objects \cap has /\ Hits \subseteq have
        /\ Hits \subseteq Reach({w}, Commit)
    BY <1>2, <1>4 DEF Held
  <2>3. ASSUME acked \subseteq have, Reach({w}, Commit) \cap acked # {}
        PROVE  Hits # {}
    BY <1>1, <2>3, ReachMeets DEF Visited
  <2>. HIDE DEF Hits
  <2>4. TypeOK'  BY <1>1, <2>1, <2>2 DEF TypeOK, Label
  <2>5. Held'  BY <1>1, <2>1, <2>2 DEF Held
  <2>6. Locals'  BY <1>1, <2>1 DEF Locals, InLoop
  <2>7. IsTold'  BY <1>1, <2>1, <2>2 DEF IsTold, InLoop, Multi
  <2>8. StaysReady'  BY <1>1, <2>1, <2>3 DEF StaysReady, Multi
  <2>9. StaysCommon'  BY <1>1, <2>1, <2>3 DEF StaysCommon
  <2>10. Sending'  BY <1>1, <2>1 DEF Sending
  <2>. QED  BY <2>1, <2>4, <2>5, <2>6, <2>7, <2>8, <2>9, <2>10
<1>. QED  BY <1>3, <1>4

(* Every step keeps the invariant.                                         *)
LEMMA Inductive == FetchInv /\ [Next]_vars => FetchInv'
<1>. SUFFICES ASSUME FetchInv, [Next]_vars
              PROVE  FetchInv'
  OBVIOUS
<1>1. CASE UNCHANGED vars
  BY <1>1 DEF vars, client, walks, answers, FetchInv, TypeOK, Held, Locals, IsTold, StaysReady,
              StaysCommon, Sending, Multi, Walk
<1>2. CASE Step
  BY <1>2, ReadWantsKeepsInv, ReadHavesKeepsInv, ReadEndKeepsInv, ReadBadLineKeepsInv,
     WalkFromKeepsInv, WalkedKeepsInv, AnswerKeepsInv, SendPackKeepsInv DEF Step, Read
<1>. QED  BY <1>1, <1>2, AgainKeepsInv, PutObjectKeepsInv DEF Next

(* The invariant holds of every fetch, of any number of calls and batches. *)
THEOREM Invariance == Spec => []FetchInv
BY Initially, Inductive, PTL DEF Spec

-----------------------------------------------------------------------------
(* What a client relies on.                                                *)

(* A pack that was sent has all that the wants lead to and the client      *)
(* lacks.                                                                  *)
THEOREM SentIsEnough == Spec => []PackSuffices
<1>1. FetchInv => PackSuffices
  <2>. SUFFICES ASSUME FetchInv, pc = "sent"
                PROVE  Reach(start, ID) \subseteq has \cup pack
    BY DEF PackSuffices
  <2>1. start \in SUBSET ID /\ end \in SUBSET ID /\ has \in SUBSET ID
        /\ end \subseteq has /\ Closed(has)
    BY DEF FetchInv, TypeOK, Held
  <2>2. pack = Reach(start \ end, ID \ end) \ end  BY DEF FetchInv, Sending, Walk
  <2>3. Reach(end, ID) \subseteq has  BY <2>1, ReachOfClosed
  <2>. QED  BY <2>1, <2>2, <2>3, ReachDivides
<1>. QED  BY <1>1, Invariance, PTL

(* "ready" is only said when every want leads to a common object.          *)
THEOREM ReadyMeansCommon == Spec => []ReadyIsTrue
<1>1. FetchInv => ReadyIsTrue  BY DEF FetchInv, Held, StaysReady, ReadyIsTrue
<1>. QED  BY <1>1, Invariance, PTL

(* "ready" stays true from one call of UploadPack to the next.             *)
THEOREM ReadyIsKept == Spec => []ReadyStaysReady
<1>1. FetchInv => ReadyStaysReady  BY DEF FetchInv, StaysReady, ReadyStaysReady
<1>. QED  BY <1>1, Invariance, PTL

(* The pack agrees with the ACKs of all calls.                             *)
THEOREM PackFollowsAcks == Spec => []PackRestsOnAcks
<1>1. FetchInv => PackRestsOnAcks
  <2>. SUFFICES ASSUME FetchInv, pc = "sent", Multi
                PROVE  /\ Reach(start, ID) \ pack \subseteq Reach(acked, ID)
                       /\ final = (IF acked = {} THEN "NAK" ELSE "ACK")
    BY DEF PackRestsOnAcks
  <2>1. start \in SUBSET ID /\ end \in SUBSET ID /\ acked \in SUBSET ID
    BY DEF FetchInv, TypeOK
  <2>2. end \in SUBSET acked /\ (acked # {} => end # {})
    BY DEF FetchInv, IsTold, StaysCommon
  <2>3. pack = Reach(start \ end, ID \ end) \ end
        /\ final = (IF end = {} THEN "NAK" ELSE "ACK")
    BY DEF FetchInv, Sending, Walk
  <2>4. Reach(end, ID) \subseteq Reach(acked, ID)  BY <2>1, <2>2, ReachGrows
  <2>. QED  BY <2>1, <2>2, <2>3, <2>4, ReachDivides
<1>. QED  BY <1>1, Invariance, PTL

(* The last element of end is only named when there is one.                *)
THEOREM NoPanic == Spec => []NeverPanics
<1>1. FetchInv => NeverPanics  BY DEF FetchInv, NeverPanics
<1>. QED  BY <1>1, Invariance, PTL

-----------------------------------------------------------------------------
(* A call of Walk between the steps of its loop.                           *)

(* The stack below its top.                                                *)
LEMMA PoppedFacts ==
    ASSUME WalkTypeOK, Walking
    PROVE  /\ Len(pending) \in Nat /\ 1 <= Len(pending)
           /\ Top \in ID
           /\ Popped \in Seq(ID)
           /\ Len(Popped) = Len(pending) - 1
           /\ \A k \in 1..(Len(pending) - 1) : Popped[k] = pending[k]
<1>1. pending \in Seq(ID) /\ pending # << >>
  BY DEF WalkTypeOK, Walking
<1>2. Len(pending) \in Nat /\ 1 <= Len(pending)
  <2>1. Len(pending) \in Nat /\ Len(pending) # 0
    BY <1>1
  <2>2. QED
    BY <2>1
<1>3. \A k \in 1..Len(pending) : pending[k] \in ID
  BY <1>1
<1>4. Top \in ID
  BY <1>2, <1>3 DEF Top
<1>5. /\ Popped \in Seq(ID)
      /\ Len(Popped) = IF 1 <= Len(pending) - 1 THEN Len(pending) - 1 - 1 + 1 ELSE 0
      /\ \A k \in 1..(Len(pending) - 1 - 1 + 1) : Popped[k] = pending[1 + k - 1]
  BY <1>2, <1>3, SubSeqProperties DEF Popped
<1>6. ASSUME NEW k \in 1..(Len(pending) - 1)
      PROVE  Popped[k] = pending[k]
  <2>1. k \in 1..(Len(pending) - 1 - 1 + 1) /\ 1 + k - 1 = k
    BY <1>2
  <2>2. QED
    BY <1>5, <2>1
<1>7. Len(Popped) = Len(pending) - 1
  <2>1. CASE 1 <= Len(pending) - 1
    BY <1>2, <1>5, <2>1
  <2>2. CASE Len(pending) = 1
    BY <1>2, <1>5, <2>2
  <2>3. \A n \in Nat : 1 <= n => 1 <= n - 1 \/ n = 1
    OBVIOUS
  <2>4. QED
    BY <1>2, <2>1, <2>2, <2>3
<1>8. QED
  BY <1>2, <1>4, <1>5, <1>6, <1>7

(* Every order of a set of objects is a sequence of just those.            *)
LEMMA OrderFacts ==
    ASSUME NEW S \in SUBSET ID, NEW s \in Orders(S)
    PROVE  s \in Seq(ID) /\ Elements(s) = S
<1>1. Cardinality(S) \in Nat
  BY WalkAssumption, FS_Subset, FS_CardinalityType
<1>2. s \in [1..Cardinality(S) -> S]
  <2>1. Cardinality(S) = Cardinality(S)
    BY DEF Cardinality, Cardinality
  <2>2. QED
    BY <2>1 DEF Orders
<1>3. s \in Seq(ID)
  BY <1>1, <1>2
<1>4. \A x \in S : x \in Elements(s)
  BY DEF Orders, Elements
<1>5. \A i \in DOMAIN s : s[i] \in S
  BY <1>2
<1>6. QED
  BY <1>3, <1>4, <1>5 DEF Elements

(* Pushing s on the stack below the top.                                   *)
LEMMA PushFacts ==
    ASSUME WalkTypeOK, Walking, NEW s \in Seq(ID), pending' = Popped \o s
    PROVE  /\ pending' \in Seq(ID)
           /\ Len(pending') = Len(pending) - 1 + Len(s)
           /\ \A k \in 1..(Len(pending) - 1) : pending'[k] = pending[k]
           /\ \A k \in Len(pending)..Len(pending') :
                 pending'[k] = s[k - Len(pending) + 1]
           /\ \A k \in 1..Len(s) : pending'[Len(pending) - 1 + k] = s[k]
<1>1. Popped \in Seq(ID) /\ Len(Popped) = Len(pending) - 1 /\ Len(pending) \in Nat /\ 1 <= Len(pending)
  BY PoppedFacts
<1>2. /\ pending' \in Seq(ID)
      /\ Len(pending') = Len(Popped) + Len(s)
      /\ \A k \in 1..(Len(Popped) + Len(s)) :
            pending'[k] = IF k <= Len(Popped) THEN Popped[k] ELSE s[k - Len(Popped)]
  BY <1>1, ConcatProperties
<1>3. Len(s) \in Nat
  OBVIOUS
<1>4. ASSUME NEW k \in 1..(Len(pending) - 1)
      PROVE  pending'[k] = pending[k]
  <2>1. Popped[k] = pending[k]
    BY PoppedFacts
  <2>2. pending'[k] = Popped[k]
    BY <1>1, <1>2, <1>3
  <2>3. QED
    BY <2>1, <2>2
<1>5. \A k \in Len(pending)..Len(pending') : pending'[k] = s[k - Len(pending) + 1]
  BY <1>1, <1>2, <1>3
<1>6. \A k \in 1..Len(s) : pending'[Len(pending) - 1 + k] = s[k]
  BY <1>1, <1>2, <1>3
<1>7. QED
  BY <1>1, <1>2, <1>3, <1>4, <1>5, <1>6

(* What the three steps that visit an object have in common: the object is *)
(* the next one called, and its links, if any, replace it on the stack.    *)
Visits(s) ==
    /\ Walking
    /\ Top \notin visited
    /\ visited' = visited \cup {Top}
    /\ called' = Append(called, Top)
    /\ UNCHANGED <<arguments, objects>>
    /\ result' \in {"walking", "error"}
    /\ s \in Seq(ID)
    /\ pending' = Popped \o s
    /\ \/ followed' = followed /\ Elements(s) = {}
       \/ followed' = followed \cup {Top} /\ Elements(s) = link[Top]

(* Each of the three ways through the loop body of Walk that calls the     *)
(* WalkFunc is a visit of the top of the stack.                            *)
LEMMA VisitingSteps ==
    ASSUME WalkTypeOK, Follow \/ Skip \/ Fail
    PROVE  \E s : Visits(s)
<1>1. CASE Follow
  <2>1. PICK s \in Orders(link[Top]) : pending' = Popped \o s
    BY <1>1 DEF Follow
  <2>2. link[Top] \in SUBSET ID
    BY <1>1, PoppedFacts DEF WalkTypeOK, Follow, Visit
  <2>3. s \in Seq(ID) /\ Elements(s) = link[Top]
    BY <2>1, <2>2, OrderFacts
  <2>4. QED
    BY <1>1, <2>1, <2>3 DEF Follow, Visit, Visits, Walking
<1>2. CASE Skip \/ Fail
  <2>1. << >> \in Seq(ID) /\ Elements(<< >>) = {}
    BY DEF Elements
  <2>2. Popped = Popped \o << >>
    BY <1>2, PoppedFacts DEF Skip, Fail, Visit
  <2>3. Visits(<< >>)
    BY <1>2, <2>1, <2>2 DEF Skip, Fail, Visit, Visits, Walking
  <2>4. QED
    BY <2>3
<1>3. QED
  BY <1>1, <1>2

(* What a visit does to the sequences, index by index.                     *)
LEMMA VisitFacts ==
    ASSUME WalkTypeOK, NEW s, Visits(s)
    PROVE  /\ WalkTypeOK'
           /\ Len(called) \in Nat
           /\ Len(called') = Len(called) + 1
           /\ called'[Len(called) + 1] = Top
           /\ \A i \in 1..Len(called) : called'[i] = called[i]
           /\ Elements(called') = Elements(called) \cup {Top}
           /\ Elements(pending) \subseteq Elements(pending') \cup {Top}
           /\ Elements(pending') \subseteq Elements(pending) \cup Elements(s)
           /\ Elements(s) \subseteq Elements(pending')
<1>1. Top \in ID /\ Len(pending) \in Nat /\ 1 <= Len(pending) /\ Walking
  BY PoppedFacts DEF Visits
<1>2. /\ called' \in Seq(ID)
      /\ Len(called) \in Nat
      /\ Len(called') = Len(called) + 1
      /\ called'[Len(called) + 1] = Top
      /\ \A i \in 1..Len(called) : called'[i] = called[i]
      /\ DOMAIN called = 1..Len(called) /\ DOMAIN called' = 1..(Len(called) + 1)
  BY <1>1 DEF Visits, WalkTypeOK
<1>3. Elements(called') = Elements(called) \cup {Top}
  <2>1. ASSUME NEW x \in Elements(called')
        PROVE  x \in Elements(called) \cup {Top}
    <3>1. PICK i \in DOMAIN called' : x = called'[i]
      BY <2>1 DEF Elements
    <3>2. i \in 1..Len(called) \/ i = Len(called) + 1
      BY <1>2, <3>1
    <3>3. QED
      BY <1>2, <3>1, <3>2 DEF Elements
  <2>2. ASSUME NEW x \in Elements(called)
        PROVE  x \in Elements(called')
    <3>1. PICK i \in 1..Len(called) : x = called[i]
      BY <1>2, <2>2 DEF Elements
    <3>2. i \in DOMAIN called' /\ called'[i] = x
      BY <1>2, <3>1
    <3>3. QED
      BY <3>2 DEF Elements
  <2>3. Top \in Elements(called')
    <3>1. Len(called) + 1 \in DOMAIN called'
      BY <1>2
    <3>2. QED
      BY <1>2, <3>1 DEF Elements
  <2>4. QED
    BY <2>1, <2>2, <2>3
<1>4. /\ pending' \in Seq(ID)
      /\ Len(pending') = Len(pending) - 1 + Len(s)
      /\ \A k \in 1..(Len(pending) - 1) : pending'[k] = pending[k]
      /\ \A k \in Len(pending)..Len(pending') : pending'[k] = s[k - Len(pending) + 1]
      /\ \A k \in 1..Len(s) : pending'[Len(pending) - 1 + k] = s[k]
      /\ Len(s) \in Nat
      /\ DOMAIN s = 1..Len(s)
      /\ DOMAIN pending = 1..Len(pending)
      /\ DOMAIN pending' = 1..Len(pending')
  <2>1. s \in Seq(ID) /\ pending \in Seq(ID) /\ pending' = Popped \o s
    BY DEF Visits, WalkTypeOK
  <2>2. /\ pending' \in Seq(ID)
        /\ Len(pending') = Len(pending) - 1 + Len(s)
        /\ \A k \in 1..(Len(pending) - 1) : pending'[k] = pending[k]
        /\ \A k \in Len(pending)..Len(pending') : pending'[k] = s[k - Len(pending) + 1]
        /\ \A k \in 1..Len(s) : pending'[Len(pending) - 1 + k] = s[k]
    BY <1>1, <2>1, PushFacts
  <2>3. QED
    BY <2>1, <2>2
<1>5. Elements(pending) \subseteq Elements(pending') \cup {Top}
  <2>1. SUFFICES ASSUME NEW k \in 1..Len(pending)
                 PROVE  pending[k] \in Elements(pending') \cup {Top}
    BY <1>4 DEF Elements
  <2>2. CASE k = Len(pending)
    BY <2>2 DEF Top
  <2>3. CASE k \in 1..(Len(pending) - 1)
    <3>1. pending'[k] = pending[k] /\ k \in DOMAIN pending'
      BY <1>1, <1>4, <2>3
    <3>2. QED
      BY <3>1 DEF Elements
  <2>4. QED
    BY <1>1, <2>2, <2>3
<1>6. Elements(pending') \subseteq Elements(pending) \cup Elements(s)
  <2>1. SUFFICES ASSUME NEW k \in 1..Len(pending')
                 PROVE  pending'[k] \in Elements(pending) \cup Elements(s)
    BY <1>4 DEF Elements
  <2>2. CASE k \in 1..(Len(pending) - 1)
    <3>1. pending'[k] = pending[k] /\ k \in DOMAIN pending
      BY <1>1, <1>4, <2>2
    <3>2. QED
      BY <3>1 DEF Elements
  <2>3. CASE k \in Len(pending)..Len(pending')
    <3>1. pending'[k] = s[k - Len(pending) + 1] /\ k - Len(pending) + 1 \in DOMAIN s
      BY <1>1, <1>4, <2>3
    <3>2. QED
      BY <3>1 DEF Elements
  <2>4. QED
    BY <1>1, <1>4, <2>2, <2>3
<1>7. Elements(s) \subseteq Elements(pending')
  <2>1. SUFFICES ASSUME NEW k \in 1..Len(s)
                 PROVE  s[k] \in Elements(pending')
    BY <1>4 DEF Elements
  <2>2. pending'[Len(pending) - 1 + k] = s[k] /\ Len(pending) - 1 + k \in DOMAIN pending'
    BY <1>1, <1>4
  <2>3. QED
    BY <2>2 DEF Elements
<1>8. WalkTypeOK'
  BY <1>1, <1>2, <1>4 DEF Visits, WalkTypeOK, arguments
<1>9. QED
  BY <1>2, <1>3, <1>5, <1>6, <1>7, <1>8

(* A visit leaves the links of the objects called before as they were, and *)
(* those of the object it visits are what it pushes.                       *)
LEMMA LinksFacts ==
    ASSUME WalkTypeOK, VisitedOnce, NEW s, Visits(s)
    PROVE  /\ \A i \in 1..Len(called) : Pushed(i)' = Pushed(i)
           /\ \A n : n = Len(called) + 1 => Pushed(n)' = Elements(s)
<1>1. /\ called'[Len(called) + 1] = Top
      /\ \A i \in 1..Len(called) : called'[i] = called[i]
  BY VisitFacts
<1>2. \A i \in 1..Len(called) : called[i] # Top
  BY DEF Visits, VisitedOnce, Elements, WalkTypeOK
<1>3. Top \notin followed
  BY DEF Visits, VisitedOnce
<1>4. link' = link
  BY DEF Visits, arguments
<1>5. \A i \in 1..Len(called) : called[i] \in followed' <=> called[i] \in followed
  BY <1>2 DEF Visits
<1>6. \A i \in 1..Len(called) : Pushed(i)' = Pushed(i)
  BY <1>1, <1>4, <1>5 DEF Pushed
<1>7. ASSUME NEW n, n = Len(called) + 1
      PROVE  Pushed(n)' = Elements(s)
  <2>1. called'[n] = Top
    BY <1>1, <1>7
  <2>2. CASE followed' = followed /\ Elements(s) = {}
    BY <1>3, <2>1, <2>2 DEF Pushed
  <2>3. CASE followed' = followed \cup {Top} /\ Elements(s) = link[Top]
    BY <1>4, <2>1, <2>3 DEF Pushed
  <2>4. QED
    BY <2>2, <2>3 DEF Visits
<1>8. QED
  BY <1>6, <1>7

(* A visit calls the WalkFunc for an ID it has not been called for and     *)
(* that is not an end.                                                     *)
LEMMA VisitPreservesOnce ==
    ASSUME WalkTypeOK, VisitedOnce, CalledOnce, NEW s, Visits(s)
    PROVE  VisitedOnce' /\ CalledOnce'
<1>1. /\ Len(called) \in Nat
      /\ Len(called') = Len(called) + 1
      /\ called'[Len(called) + 1] = Top
      /\ \A i \in 1..Len(called) : called'[i] = called[i]
      /\ Elements(called') = Elements(called) \cup {Top}
      /\ DOMAIN called' = 1..(Len(called) + 1)
      /\ DOMAIN called = 1..Len(called)
  <2>1. WalkTypeOK'
    BY VisitFacts
  <2>2. QED
    BY <2>1, VisitFacts DEF WalkTypeOK
<1>2. VisitedOnce'
  <2>1. stop' = stop /\ visited' = visited \cup {Top}
    BY DEF Visits, arguments
  <2>2. followed' \subseteq followed \cup {Top}
    BY DEF Visits
  <2>3. QED
    BY <1>1, <2>1, <2>2 DEF VisitedOnce
<1>3. Top \notin stop /\ stop' = stop
  BY DEF Visits, VisitedOnce, arguments
<1>4. \A i \in 1..Len(called) : called[i] # Top
  BY <1>1 DEF Visits, VisitedOnce, Elements
<1>5. \A i \in 1..(Len(called) + 1) : i \in 1..Len(called) \/ i = Len(called) + 1
  BY <1>1
<1>6. \A i \in DOMAIN called' : called'[i] \notin stop'
  BY <1>1, <1>3, <1>5 DEF CalledOnce
<1>7. \A i, j \in DOMAIN called' : called'[i] = called'[j] => i = j
  BY <1>1, <1>4, <1>5 DEF CalledOnce
<1>8. QED
  BY <1>2, <1>6, <1>7 DEF CalledOnce

(* What a visit pushes is linked from what it visits, so all that is       *)
(* pending or called has a path from a start.                              *)
LEMMA VisitPreservesReachable ==
    ASSUME WalkTypeOK, VisitedOnce, PendingIsReachable, OnlyReachable, NEW s, Visits(s)
    PROVE  PendingIsReachable' /\ OnlyReachable'
<1> DEFINE n == Len(called) + 1
           Reached(x) == x \in Elements(from)
                         \/ \E j \in DOMAIN called : called[j] \in followed /\ x \in link[called[j]]
<1>1. /\ Len(called) \in Nat
      /\ Len(called') = n
      /\ called'[n] = Top
      /\ \A i \in 1..Len(called) : called'[i] = called[i]
      /\ DOMAIN called' = 1..n
      /\ DOMAIN called = 1..Len(called)
  <2>1. WalkTypeOK'
    BY VisitFacts
  <2>2. QED
    BY <2>1, VisitFacts DEF WalkTypeOK
<1>2. from' = from /\ link' = link /\ followed \subseteq followed'
  BY DEF Visits, arguments
<1>3. \A x \in Elements(pending) : Reached(x)
  BY DEF PendingIsReachable, Elements
<1>4. Top \in Elements(pending)
  BY PoppedFacts DEF Visits, Top, Elements, WalkTypeOK
<1>5. \A x : Reached(x) => Reached(x)'
  <2>1. \A j \in DOMAIN called : j \in DOMAIN called' /\ called'[j] = called[j]
    BY <1>1
  <2>2. QED
    BY <1>2, <2>1
<1>6. \A x \in Elements(s) : Reached(x)'
  <2>1. SUFFICES ASSUME NEW x \in Elements(s)
                 PROVE  called'[n] \in followed' /\ x \in link'[called'[n]]
    BY <1>1
  <2>2. QED
    BY <1>1, <1>2 DEF Visits
<1>7. PendingIsReachable'
  <2>1. \A x \in Elements(pending') : Reached(x)'
    BY <1>3, <1>5, <1>6, VisitFacts
  <2>2. QED
    BY <2>1 DEF PendingIsReachable, Elements
<1>8. ASSUME NEW i \in DOMAIN called'
      PROVE  \/ called'[i] \in Elements(from')
             \/ \E j \in 1..(i - 1) :
                   called'[j] \in followed' /\ called'[i] \in link'[called'[j]]
  <2>1. CASE i = n
    <3>1. Reached(called'[i]) /\ i - 1 = Len(called)
      BY <1>1, <1>3, <1>4, <2>1
    <3>2. QED
      BY <1>1, <1>2, <3>1
  <2>2. CASE i \in 1..Len(called)
    <3>1. called'[i] = called[i] /\ \A j \in 1..(i - 1) : called'[j] = called[j]
      BY <1>1, <2>2
    <3>2. QED
      BY <1>1, <1>2, <2>2, <3>1 DEF OnlyReachable
  <2>3. QED
    BY <1>1, <2>1, <2>2
<1>9. QED
  BY <1>7, <1>8 DEF OnlyReachable

(* What a visit takes off the stack it marks visited, and what it has to   *)
(* follow it pushes: no link is lost.                                      *)
LEMMA VisitPreservesCompleteness ==
    ASSUME WalkTypeOK, NothingForgotten, NEW s, Visits(s)
    PROVE  NothingForgotten' /\ NothingMissed'
<1>1. from' = from /\ link' = link /\ visited' = visited \cup {Top}
  BY DEF Visits, arguments
<1>2. visited \cup Elements(pending) \subseteq visited' \cup Elements(pending')
  BY <1>1, VisitFacts
<1>3. \A id \in followed' : link'[id] \subseteq visited' \cup Elements(pending')
  <2>1. SUFFICES ASSUME NEW id \in followed', id \notin followed
                 PROVE  link[id] \subseteq Elements(pending')
    BY <1>1, <1>2 DEF NothingForgotten
  <2>2. id = Top /\ Elements(s) = link[Top]
    BY <2>1 DEF Visits
  <2>3. QED
    BY <2>2, VisitFacts
<1>4. NothingForgotten'
  BY <1>1, <1>2, <1>3 DEF NothingForgotten
<1>5. QED
  BY <1>4 DEF NothingMissed, Visits

(* A visit keeps the stack nested: what it pushes lies above all that was  *)
(* pending before, so a subtree is finished before the walk goes on beside *)
(* it.                                                                     *)
LEMMA VisitPreservesOrder ==
    ASSUME WalkTypeOK, VisitedOnce, StackIsNested, StaysBelow, DepthFirst, NEW s, Visits(s)
    PROVE  StackIsNested' /\ StaysBelow' /\ DepthFirst'
<1> DEFINE L == Len(called)
           T == Len(pending)
<1>1. /\ L \in Nat
      /\ Len(called') = L + 1
      /\ called'[L + 1] = Top
      /\ \A i \in 1..L : called'[i] = called[i]
      /\ DOMAIN called' = 1..(L + 1)
      /\ DOMAIN called = 1..L
  <2>1. WalkTypeOK'
    BY VisitFacts
  <2>2. QED
    BY <2>1, VisitFacts DEF WalkTypeOK
<1>2. /\ T \in Nat /\ 1 <= T
      /\ DOMAIN pending = 1..T
      /\ pending[T] = Top
  BY PoppedFacts DEF Visits, WalkTypeOK, Top
<1>3. /\ Len(s) \in Nat
      /\ DOMAIN s = 1..Len(s)
      /\ Len(pending') = T - 1 + Len(s)
      /\ DOMAIN pending' = 1..(T - 1 + Len(s))
  <2>1. s \in Seq(ID) /\ pending' = Popped \o s /\ Walking
    BY DEF Visits
  <2>2. pending' \in Seq(ID) /\ Len(pending') = T - 1 + Len(s)
    BY <2>1, PushFacts
  <2>3. QED
    BY <2>1, <2>2
<1>4. /\ \A k \in 1..(T - 1) : pending'[k] = pending[k]
      /\ \A k \in T..(T - 1 + Len(s)) : pending'[k] \in Elements(s)
      /\ \A k \in 1..Len(s) : pending'[T - 1 + k] = s[k]
  <2>1. s \in Seq(ID) /\ pending' = Popped \o s /\ Walking
    BY DEF Visits
  <2>2. /\ \A k \in 1..(T - 1) : pending'[k] = pending[k]
        /\ \A k \in T..Len(pending') : pending'[k] = s[k - T + 1]
        /\ \A k \in 1..Len(s) : pending'[T - 1 + k] = s[k]
    BY <2>1, PushFacts
  <2>3. \A k \in T..(T - 1 + Len(s)) : k - T + 1 \in DOMAIN s
    BY <1>2, <1>3
  <2>4. QED
    BY <1>3, <2>2, <2>3 DEF Elements
<1>5. /\ \A i \in 1..L : Pushed(i)' = Pushed(i)
      /\ \A n : n = L + 1 => Pushed(n)' = Elements(s)
  BY LinksFacts
<1>6. visited' = visited \cup {Top}
  BY DEF Visits
<1>7. ASSUME NEW a \in 1..L, NEW c \in Pushed(a) \ visited'
      PROVE  \E k \in 1..(T - 1) :
               /\ pending[k] = c
               /\ \A m \in k..T : \E d \in a..L : pending[m] \in Pushed(d)
  <2>1. PICK k \in DOMAIN pending :
          /\ pending[k] = c
          /\ \A m \in k..T : \E d \in a..L : pending[m] \in Pushed(d)
    BY <1>1, <1>6, <1>7 DEF StackIsNested
  <2>2. k # T
    BY <1>2, <1>6, <1>7, <2>1
  <2>3. QED
    BY <1>2, <2>1, <2>2
<1>8. StackIsNested'
  <2>1. SUFFICES ASSUME NEW a \in 1..(L + 1), NEW c \in Pushed(a)' \ visited'
                 PROVE  \E k \in DOMAIN pending' :
                          /\ pending'[k] = c
                          /\ \A m \in k..(T - 1 + Len(s)) :
                                \E d \in a..(L + 1) : pending'[m] \in Pushed(d)'
    BY <1>1, <1>3 DEF StackIsNested
  <2>2. CASE a \in 1..L
    <3>1. PICK k \in 1..(T - 1) :
            /\ pending[k] = c
            /\ \A m \in k..T : \E d \in a..L : pending[m] \in Pushed(d)
      BY <1>5, <1>7, <2>1, <2>2
    <3>2. k \in DOMAIN pending' /\ pending'[k] = c
      BY <1>2, <1>3, <1>4, <3>1
    <3>3. ASSUME NEW m \in k..(T - 1 + Len(s))
          PROVE  \E d \in a..(L + 1) : pending'[m] \in Pushed(d)'
      <4>1. CASE m <= T - 1
        <5>1. pending'[m] = pending[m] /\ m \in k..T
          BY <1>2, <1>3, <1>4, <3>1, <4>1
        <5>2. PICK d \in a..L : pending[m] \in Pushed(d)
          BY <3>1, <5>1
        <5>3. d \in a..(L + 1) /\ d \in 1..L
          BY <1>1, <2>2
        <5>4. QED
          BY <1>5, <5>1, <5>2, <5>3
      <4>2. CASE m >= T
        <5>1. m \in T..(T - 1 + Len(s))
          BY <1>2, <1>3, <4>2
        <5>2. PICK d \in a..(L + 1) : d = L + 1
          BY <1>1, <2>2
        <5>3. pending'[m] \in Pushed(d)'
          BY <1>4, <1>5, <5>1, <5>2
        <5>4. QED
          BY <5>3
      <4>3. QED
        BY <1>2, <1>3, <3>1, <4>1, <4>2
    <3>4. QED
      BY <3>2, <3>3
  <2>3. CASE a = L + 1
    <3>1. c \in Elements(s)
      BY <1>5, <2>1, <2>3
    <3>2. PICK i \in 1..Len(s) : s[i] = c
      BY <1>3, <3>1 DEF Elements
    <3>3. T - 1 + i \in DOMAIN pending' /\ pending'[T - 1 + i] = c
      BY <1>2, <1>3, <1>4, <3>2
    <3>4. ASSUME NEW m \in (T - 1 + i)..(T - 1 + Len(s))
          PROVE  pending'[m] \in Pushed(a)'
      <4>1. m \in T..(T - 1 + Len(s))
        BY <1>2, <1>3, <3>2
      <4>2. QED
        BY <1>4, <1>5, <2>3, <4>1
    <3>5. a \in a..(L + 1)
      BY <1>1, <2>3
    <3>6. QED
      BY <3>3, <3>4, <3>5
  <2>4. QED
    BY <1>1, <2>2, <2>3
<1>9. StaysBelow'
  <2>1. SUFFICES ASSUME NEW a \in 1..(L + 1), NEW b \in 1..(L + 1), a < b,
                        NEW c \in Pushed(a)' \ visited'
                 PROVE  \E d \in a..(b - 1) : called'[b] \in Pushed(d)'
    BY <1>1 DEF StaysBelow
  <2>2. a \in 1..L /\ c \in Pushed(a) \ visited'
    BY <1>1, <1>5, <2>1
  <2>3. CASE b = L + 1
    <3>1. PICK d \in a..L : Top \in Pushed(d)
      BY <1>2, <1>7, <2>2
    <3>2. d \in a..(b - 1) /\ d \in 1..L
      BY <1>1, <2>2, <2>3
    <3>3. QED
      BY <1>1, <1>5, <2>3, <3>1, <3>2
  <2>4. CASE b \in 1..L
    <3>1. PICK d \in a..(b - 1) : called[b] \in Pushed(d)
      BY <1>1, <1>6, <2>1, <2>2, <2>4 DEF StaysBelow
    <3>2. d \in 1..L
      BY <1>1, <2>2, <2>4
    <3>3. QED
      BY <1>1, <1>5, <2>4, <3>1, <3>2
  <2>5. QED
    BY <1>1, <2>3, <2>4
<1>10. DepthFirst'
  <2>1. SUFFICES ASSUME NEW a \in 1..(L + 1), NEW b \in 1..(L + 1), NEW c \in 1..(L + 1),
                        a < b, b < c, called'[c] \in Pushed(a)'
                 PROVE  \E d \in a..(b - 1) : called'[b] \in Pushed(d)'
    BY <1>1 DEF DepthFirst
  <2>2. a \in 1..L /\ b \in 1..L /\ called'[c] \in Pushed(a)
    BY <1>1, <1>5, <2>1
  <2>3. \E d \in a..(b - 1) : called[b] \in Pushed(d)
    <3>1. CASE c = L + 1
      <4>1. Top \in Pushed(a) \ visited
        BY <1>1, <2>2, <3>1 DEF Visits
      <4>2. QED
        BY <1>1, <2>1, <2>2, <4>1 DEF StaysBelow
    <3>2. CASE c \in 1..L
      BY <1>1, <2>1, <2>2, <3>2 DEF DepthFirst
    <3>3. QED
      BY <1>1, <3>1, <3>2
  <2>4. PICK d \in a..(b - 1) : called[b] \in Pushed(d)
    BY <2>3
  <2>5. d \in 1..L
    BY <1>1, <2>2
  <2>6. QED
    BY <1>1, <1>5, <2>2, <2>4, <2>5
<1>11. QED
  BY <1>8, <1>9, <1>10

(* An object that is already visited leaves the stack and changes nothing. *)
LEMMA PassingPreserves ==
    ASSUME Inv, PassVisited
    PROVE  Inv'
<1> USE DEF Inv
<1>1. /\ Len(pending) \in Nat /\ 1 <= Len(pending)
      /\ pending' \in Seq(ID)
      /\ Len(pending') = Len(pending) - 1
      /\ \A k \in 1..(Len(pending) - 1) : pending'[k] = pending[k]
      /\ DOMAIN pending = 1..Len(pending)
      /\ DOMAIN pending' = 1..(Len(pending) - 1)
  <2>1. pending' = Popped /\ Walking
    BY DEF PassVisited
  <2>2. /\ Len(pending) \in Nat /\ 1 <= Len(pending)
        /\ pending' \in Seq(ID)
        /\ Len(pending') = Len(pending) - 1
        /\ \A k \in 1..(Len(pending) - 1) : pending'[k] = pending[k]
    BY <2>1, PoppedFacts
  <2>3. QED
    BY <2>2 DEF WalkTypeOK
<1>2. UNCHANGED <<from, stop, link, objects, visited, called, followed, result>>
  BY DEF PassVisited, arguments
<1>3. WalkTypeOK' /\ VisitedOnce' /\ CalledOnce' /\ OnlyReachable' /\ StaysBelow' /\ DepthFirst'
  BY <1>1, <1>2 DEF WalkTypeOK, VisitedOnce, CalledOnce, OnlyReachable, StaysBelow, DepthFirst,
                    Pushed, Elements
<1>4. PendingIsReachable'
  BY <1>1, <1>2 DEF PendingIsReachable, Elements
<1>5. Elements(pending) \subseteq Elements(pending') \cup {Top}
  <2>1. \A k \in DOMAIN pending : k \in DOMAIN pending' \/ k = Len(pending)
    BY <1>1
  <2>2. \A k \in DOMAIN pending' : pending'[k] = pending[k]
    BY <1>1
  <2>3. QED
    BY <2>1, <2>2 DEF Elements, Top
<1>6. NothingForgotten'
  <2>1. Top \in visited
    BY DEF PassVisited
  <2>2. QED
    BY <1>2, <1>5, <2>1 DEF NothingForgotten, Elements
<1>7. StackIsNested'
  <2>1. SUFFICES ASSUME NEW a \in DOMAIN called, NEW c \in Pushed(a) \ visited
                 PROVE  \E k \in DOMAIN pending' :
                          /\ pending'[k] = c
                          /\ \A m \in k..(Len(pending) - 1) :
                                \E d \in a..Len(called) : pending'[m] \in Pushed(d)
    BY <1>1, <1>2 DEF StackIsNested, Pushed
  <2>2. PICK k \in DOMAIN pending :
          /\ pending[k] = c
          /\ \A m \in k..Len(pending) : \E d \in a..Len(called) : pending[m] \in Pushed(d)
    BY <2>1 DEF StackIsNested
  <2>3. k # Len(pending)
    BY <2>1, <2>2 DEF PassVisited, Top
  <2>4. k \in DOMAIN pending' /\ pending'[k] = c
    BY <1>1, <2>2, <2>3
  <2>5. \A m \in k..(Len(pending) - 1) : m \in k..Len(pending) /\ pending'[m] = pending[m]
    BY <1>1, <2>2
  <2>6. QED
    BY <2>2, <2>4, <2>5
<1>8. NothingMissed'
  BY <1>2 DEF NothingMissed, PassVisited, Walking
<1>9. QED
  BY <1>3, <1>4, <1>6, <1>7, <1>8

(* Walk returns nil only with an empty stack.                              *)
LEMMA FinishingPreserves ==
    ASSUME Inv, Finish
    PROVE  Inv'
<1> USE DEF Inv
<1>1. UNCHANGED <<from, stop, link, objects, pending, visited, called, followed>>
  BY DEF Finish, arguments
<1>2. WalkTypeOK'
  BY <1>1 DEF WalkTypeOK, Finish
<1>3. /\ VisitedOnce' /\ CalledOnce' /\ OnlyReachable' /\ StaysBelow' /\ DepthFirst'
      /\ PendingIsReachable' /\ NothingForgotten' /\ StackIsNested'
  BY <1>1 DEF VisitedOnce, CalledOnce, OnlyReachable, StaysBelow, DepthFirst,
              PendingIsReachable, NothingForgotten, StackIsNested, Pushed, Elements
<1>4. Elements(pending) = {}
  BY DEF Finish, Elements
<1>5. /\ Elements(from) \subseteq Elements(called) \cup stop
      /\ \A id \in followed : link[id] \subseteq Elements(called) \cup stop
  BY <1>4 DEF NothingForgotten, VisitedOnce
<1>6. NothingMissed'
  BY <1>1, <1>5 DEF NothingMissed, Elements
<1>7. QED
  BY <1>2, <1>3, <1>6

(* The invariant holds when Walk enters its loop.                          *)
THEOREM WalkInitially == WalkInit => Inv
<1> SUFFICES ASSUME WalkInit PROVE Inv
  OBVIOUS
<1>1. WalkTypeOK
  BY WalkAssumption DEF WalkInit, WalkTypeOK
<1>2. Elements(<< >>) = {} /\ DOMAIN << >> = {}
  BY DEF Elements
<1>3. VisitedOnce /\ CalledOnce /\ OnlyReachable /\ NothingForgotten /\ NothingMissed
  BY <1>2 DEF WalkInit, VisitedOnce, CalledOnce, OnlyReachable, NothingForgotten, NothingMissed
<1>4. PendingIsReachable
  BY DEF WalkInit, PendingIsReachable, Elements
<1>5. StackIsNested /\ StaysBelow /\ DepthFirst
  BY <1>2 DEF WalkInit, StackIsNested, StaysBelow, DepthFirst
<1>6. QED
  BY <1>1, <1>3, <1>4, <1>5 DEF Inv

(* Every turn of the loop of Walk preserves the invariant.                 *)
THEOREM WalkInductive == Inv /\ [WalkNext]_walkVars => Inv'
<1> SUFFICES ASSUME Inv, [WalkNext]_walkVars PROVE Inv'
  OBVIOUS
<1>1. CASE Follow \/ Skip \/ Fail
  <2>1. PICK s : Visits(s)
    BY <1>1, VisitingSteps DEF Inv
  <2>2. WalkTypeOK'
    BY <2>1, VisitFacts DEF Inv
  <2>3. VisitedOnce' /\ CalledOnce'
    BY <2>1, VisitPreservesOnce DEF Inv
  <2>4. PendingIsReachable' /\ OnlyReachable'
    BY <2>1, VisitPreservesReachable DEF Inv
  <2>5. NothingForgotten' /\ NothingMissed'
    BY <2>1, VisitPreservesCompleteness DEF Inv
  <2>6. StackIsNested' /\ StaysBelow' /\ DepthFirst'
    BY <2>1, VisitPreservesOrder DEF Inv
  <2>7. QED
    BY <2>2, <2>3, <2>4, <2>5, <2>6 DEF Inv
<1>2. CASE PassVisited
  BY <1>2, PassingPreserves
<1>3. CASE Finish
  BY <1>3, FinishingPreserves
<1>4. CASE PutMeanwhile \/ UNCHANGED walkVars
  <2>1. /\ UNCHANGED <<from, stop, link, pending, visited, called, followed, result>>
        /\ objects' \in SUBSET ID
    BY <1>4 DEF PutMeanwhile, walkVars, arguments, Inv, WalkTypeOK
  <2>2. WalkTypeOK'
    BY <2>1 DEF Inv, WalkTypeOK
  <2>3. /\ VisitedOnce' /\ CalledOnce' /\ OnlyReachable' /\ StaysBelow' /\ DepthFirst'
        /\ PendingIsReachable' /\ NothingForgotten' /\ NothingMissed' /\ StackIsNested'
    BY <2>1 DEF Inv, VisitedOnce, CalledOnce, OnlyReachable, StaysBelow, DepthFirst,
                PendingIsReachable, NothingForgotten, NothingMissed, StackIsNested,
                Pushed, Elements
  <2>4. QED
    BY <2>2, <2>3 DEF Inv
<1>5. QED
  BY <1>1, <1>2, <1>3, <1>4 DEF WalkNext, WalkStep

(* What Walk records between the steps of its loop is right.               *)
THEOREM WalkInvariance == WalkSpec => []Inv
<1>1. QED
  BY WalkInitially, WalkInductive, PTL DEF WalkSpec

(* Walk calls walkFn once for each object and never for one of end.        *)
THEOREM WalkCallsOnce == WalkSpec => []CalledOnce
<1>1. Inv => CalledOnce
  BY DEF Inv
<1>2. QED
  BY <1>1, WalkInvariance, PTL

(* Walk calls walkFn only with objects that it was led to.                 *)
THEOREM WalkStaysWithin == WalkSpec => []OnlyReachable
<1>1. Inv => OnlyReachable
  BY DEF Inv
<1>2. QED
  BY <1>1, WalkInvariance, PTL

(* A walk that returns nil has missed nothing.                             *)
THEOREM WalkIsComplete == WalkSpec => []NothingMissed
<1>1. Inv => NothingMissed
  BY DEF Inv
<1>2. QED
  BY <1>1, WalkInvariance, PTL

(* Walk goes in depth-first order, from any starts and in any order of the *)
(* links.                                                                  *)
THEOREM WalkIsDepthFirst == WalkSpec => []DepthFirst
<1>1. Inv => DepthFirst
  BY DEF Inv
<1>2. QED
  BY <1>1, WalkInvariance, PTL

-----------------------------------------------------------------------------
(* UploadPack takes a call of Walk as one step.                            *)

(* A call goes through the graph that it was made for.                     *)
LEMMA LinkStays == WalkSpec /\ link = Links => [](link = Links)
<1>1. link = Links /\ [WalkNext]_walkVars => (link = Links)'
  BY DEF WalkNext, WalkStep, PassVisited, Follow, Skip, Fail, Visit, Finish,
         PutMeanwhile, walkVars, arguments
<1>. QED  BY <1>1, PTL DEF WalkSpec

(* A set of indices has a first one.                                       *)
LEMMA FirstIndex ==
    ASSUME NEW S \in SUBSET Nat, S # {}
    PROVE  \E i \in S : \A j \in S : i <= j
<1>. DEFINE R == {p \in Nat \X Nat : p[1] < p[2]}
<1>1. IsWellFoundedOn(R, Nat)  BY NatLessThanWellFounded DEF OpToRel
<1>2. \A i, j \in Nat : ~ (i <= j) => <<j, i>> \in R  OBVIOUS
<1>. HIDE DEF R
<1>3. PICK i \in S : \A j \in S : ~ (<<j, i>> \in R)  BY <1>1, WFMin
<1>. QED  BY <1>2, <1>3

(* A walk that followed just the members of T has visited what is reached  *)
(* through them without passing what it was to stop at.                    *)
LEMMA WalkIsReach ==
    ASSUME Inv, link = Links, result = "nil",
           NEW T, followed = Elements(called) \cap T
    PROVE  Elements(called) = Reach(Elements(from) \ stop, T \ stop) \ stop
<1>. DEFINE C == Elements(called)
            S == Elements(from) \ stop
            R == Reach(S, T \ stop)
<1>1. called \in Seq(ID) /\ from \in Seq(ID) /\ stop \in SUBSET ID
      /\ CalledOnce /\ OnlyReachable /\ NothingMissed
  BY DEF Inv, WalkTypeOK
<1>2. C \in SUBSET ID /\ S \in SUBSET ID
  <2>1. \A s \in Seq(ID) : Elements(s) \subseteq ID  BY DEF Elements
  <2>. QED  BY <1>1, <2>1
<1>3. C \cap stop = {}  BY <1>1 DEF CalledOnce, Elements
<1>4. R \subseteq C \cup stop
  <2>1. C \cup stop \in SUBSET ID  BY <1>1, <1>2
  <2>2. S \subseteq C \cup stop  BY <1>1 DEF NothingMissed
  <2>3. \A x \in (C \cup stop) \cap (T \ stop) : Links[x] \subseteq C \cup stop
    BY <1>1 DEF NothingMissed
  <2>. HIDE DEF C, S
  <2>. QED  BY <2>1, <2>2, <2>3, ReachIsLeast
<1>5. S \subseteq R  BY <1>2, ReachHasStart
<1>6. \A x \in R : x \in T \ stop => Links[x] \subseteq R  BY ReachGoesOn
<1>. HIDE DEF R
<1>7. \A i \in DOMAIN called : called[i] \in R
  <2>. DEFINE U == {i \in DOMAIN called : called[i] \notin R}
  <2>1. ASSUME U # {} PROVE FALSE
    <3>1. U \in SUBSET Nat /\ DOMAIN called = 1..Len(called) /\ Len(called) \in Nat  BY <1>1
    <3>2. PICK i \in U : \A j \in U : i <= j
      <4>. HIDE DEF U
      <4>. QED  BY <2>1, <3>1, FirstIndex
    <3>3. i \in 1..Len(called) /\ called[i] \notin R  BY <3>1, <3>2
    <3>4. called[i] \in C /\ called[i] \notin stop  BY <1>3, <3>1, <3>3 DEF Elements
    <3>5. called[i] \notin Elements(from)  BY <1>5, <3>3, <3>4
    <3>6. PICK j \in 1..(i - 1) : called[j] \in followed /\ called[i] \in Links[called[j]]
      BY <1>1, <3>1, <3>3, <3>5 DEF OnlyReachable
    <3>7. j \in 1..Len(called) /\ ~ (i <= j)  BY <3>1, <3>3
    <3>8. called[j] \in R  BY <3>1, <3>2, <3>7
    <3>9. called[j] \in T \ stop  BY <1>3, <3>6
    <3>. QED  BY <1>6, <3>3, <3>6, <3>8, <3>9
  <2>. QED  BY <2>1
<1>8. C \subseteq R  BY <1>7 DEF Elements
<1>. QED  BY <1>3, <1>4, <1>8 DEF R

(* The two walks of UploadPack give what its steps take from them, however *)
(* long they take and whatever is pushed meanwhile: that from a want,      *)
(* which goes on from commits and tags that the client did not tell of,    *)
(* and that for the pack, which goes on from everything.                   *)
THEOREM WalksAreSteps ==
    WalkSpec /\ link = Links => [](result = "nil" =>
        /\ \A w \in ID :
              from = <<w>> /\ stop = {} /\ followed = Elements(called) \cap (Commit \ have)
                  => Elements(called) = Visited(w)
        /\ Elements(from) = start /\ stop = end /\ followed = Elements(called)
              => Elements(called) = Walk)
<1>. DEFINE Gives ==
       result = "nil" =>
        /\ \A w \in ID :
              from = <<w>> /\ stop = {} /\ followed = Elements(called) \cap (Commit \ have)
                  => Elements(called) = Visited(w)
        /\ Elements(from) = start /\ stop = end /\ followed = Elements(called)
              => Elements(called) = Walk
<1>1. Inv /\ link = Links => Gives
  <2>. SUFFICES ASSUME Inv, link = Links, result = "nil"
                PROVE  Gives
    OBVIOUS
  <2>1. ASSUME NEW w \in ID, from = <<w>>, stop = {},
               followed = Elements(called) \cap (Commit \ have)
        PROVE  Elements(called) = Visited(w)
    <3>1. Elements(called) = Reach(Elements(from) \ stop, (Commit \ have) \ stop) \ stop
      BY <2>1, WalkIsReach
    <3>2. Elements(from) = {w}  BY <2>1 DEF Elements
    <3>3. {w} \ {} = {w} /\ (Commit \ have) \ {} = Commit \ have
          /\ Visited(w) \ {} = Visited(w)
      OBVIOUS
    <3>. QED  BY <2>1, <3>1, <3>2, <3>3 DEF Visited
  <2>2. ASSUME Elements(from) = start, stop = end, followed = Elements(called)
        PROVE  Elements(called) = Walk
    <3>1. followed = Elements(called) \cap ID
      <4>1. followed \subseteq ID  BY DEF Inv, WalkTypeOK
      <4>. QED  BY <2>2, <4>1
    <3>2. Elements(called) = Reach(Elements(from) \ stop, ID \ stop) \ stop
      BY <3>1, WalkIsReach
    <3>. QED  BY <2>2, <3>2 DEF Walk
  <2>. QED  BY <2>1, <2>2
<1>. QED  BY <1>1, WalkInvariance, LinkStays, PTL
=============================================================================
