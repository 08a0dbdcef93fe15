---------------------------- MODULE ReadsProofs ----------------------------
(***************************************************************************)
(* Proofs about Reads: what FindRef gives, what AdvertiseRefs says of      *)
(* HEAD and of tags, and that the functions which follow links and names   *)
(* answer for one moment, whatever other requests do between their calls,  *)
(* for any names, objects and refs.                                        *)
(***************************************************************************)
EXTENDS Reads, FiniteSetTheorems, WellFoundedInduction, TLAPS

AnyID == ID \cup {ZeroID}

(* What an advertisement is made of.                                       *)
LineName == RefName \cup {"HEAD", "capabilities"}

Ref == [name : LineName, id : AnyID]

Line == [name : LineName, peeled : BOOLEAN, id : AnyID]

TypeOK ==
    /\ objects \subseteq ID
    /\ refs \in [RefName -> AnyID]
    /\ HEAD \in RefName
    /\ head \in RefName

(* FindRef has come to the k-th name, past others that were not there all  *)
(* the time or that it could not look up.                                  *)
GonePast(k) ==
    /\ todo = SubSeq(call.names, k, Len(call.names))
    /\ \A j \in 1..(k - 1) :
           call.names[j] \in moved \cup failed \/ refs[call.names[j]] = ZeroID

Finding ==
    call.op = "FindRef" =>
        /\ pc \in {"GetRef", "done"}
        /\ call.names \in Seq(RefName)
        /\ pc = "GetRef" => \E k \in 1..(Len(call.names) + 1) : GonePast(k)

(* n has been or will be advertised with the ID x.                         *)
Announced(n, x) ==
    \/ \E i \in DOMAIN lines : lines[i].name = n /\ ~ lines[i].peeled /\ lines[i].id = x
    \/ \E i \in DOMAIN todo : todo[i].name = n /\ todo[i].id = x

(* The list says nothing of HEAD, and of refs that were not moved what     *)
(* they are.                                                               *)
Listed ==
    \A x \in AnyID :
        /\ ~ Announced("HEAD", x)
        /\ \A n \in RefName \ moved : Announced(n, x) <=> refs[n] = x /\ x # ZeroID

(* The line for the first of todo has been written.                        *)
FirstWritten ==
    /\ todo # << >>
    /\ \E i \in DOMAIN lines :
           lines[i].name = Head(todo).name /\ ~ lines[i].peeled /\ lines[i].id = Head(todo).id

(* What AdvertiseRefs will say of HEAD is what it will say of the ref, or  *)
(* nothing after a failure.                                                *)
Agreed ==
    \/ \A x \in AnyID : Announced("HEAD", x) <=> Announced(HEAD, x)
    \/ failed # {} /\ \A x \in AnyID : ~ Announced("HEAD", x)

(* AdvertiseRefs's locals, and what of the list is still so.               *)
Advertising ==
    call.op = "AdvertiseRefs" =>
        /\ pc \in {"ListRefs", "GetHEAD", "GetRef", "line", "GetObject", "done"}
        /\ todo \in Seq(Ref) /\ lines \in Seq(Line)
        /\ pc \in {"ListRefs", "GetHEAD", "GetRef"} => lines = << >>
        /\ pc \in {"GetHEAD", "GetRef"} => Listed
        /\ pc = "GetRef" /\ "HEAD" \notin moved => head = HEAD
        /\ pc = "GetObject" => FirstWritten
        /\ pc = "done" /\ answer.err = "nil" => todo = << >>
        /\ \/ pc \in {"line", "GetObject"}
           \/ pc = "done" /\ answer.err = "nil"
           => (moved \cap {"HEAD", HEAD} = {} => Agreed)

Inv ==
    /\ TypeOK
    /\ pc = "idle" => call.op = "none" /\ lines = << >>
    /\ Finding
    /\ Advertising
    /\ FindRefIsRight
-----------------------------------------------------------------------------
(* A set's elements in a sequence, each once, are all there.               *)
LEMMA SetToSeqsHasAll ==
    ASSUME NEW S, IsFiniteSet(S), NEW f \in SetToSeqs(S)
    PROVE  /\ f \in Seq(S)
           /\ \A x \in S : \E i \in DOMAIN f : f[i] = x
<1>. DEFINE n == Cardinality(S)
<1>1. n \in Nat  BY FS_CardinalityType
<1>2. f \in [1..n -> S] /\ \A i, j \in 1..n : i # j => f[i] # f[j]
  BY DEF SetToSeqs
<1>3. f \in Injection(1..n, S)  BY <1>2 DEF Injection, IsInjective
<1>4. Cardinality(1..n) = n  BY <1>1, FS_Interval
<1>5. f \in Surjection(1..n, S)  BY <1>3, <1>4, FS_Injection
<1>6. f \in Seq(S)  BY <1>1, <1>2
<1>. QED  BY <1>2, <1>5, <1>6 DEF Surjection

(* A call begins with nothing said and nothing gone past.                  *)
LEMMA Initially == Init => Inv
<1>. SUFFICES ASSUME Init PROVE Inv
  OBVIOUS
<1>. USE DEF Init
<1>1. TypeOK  BY ReadsAssumption DEF TypeOK, AnyID
<1>2. Finding /\ Advertising /\ FindRefIsRight  BY DEF Finding, Advertising, FindRefIsRight
<1>. QED  BY <1>1, <1>2 DEF Inv

-----------------------------------------------------------------------------
(* Other requests.                                                         *)

(* An object that is stored is no matter to FindRef and AdvertiseRefs.     *)
LEMMA PutObjectKeepsInv ==
    ASSUME Inv, PutObject
    PROVE  Inv'
BY DEF Inv, PutObject, Others, locals, TypeOK, Finding, GonePast, Advertising, Announced,
       Listed, FirstWritten, Agreed, FindRefIsRight

(* A ref that is moved is in moved from then on.                           *)
LEMMA UpdateRefKeepsInv ==
    ASSUME Inv, UpdateRef
    PROVE  Inv'
<1>. USE DEF Inv, UpdateRef, Others, locals
<1>1. PICK n \in RefName, x \in AnyID :
           refs' = [refs EXCEPT ![n] = x] /\ moved' = moved \cup {n}
  BY ReadsAssumption DEF AnyID
<1>2. TypeOK'  BY <1>1 DEF TypeOK
<1>3. /\ moved \subseteq moved'
      /\ \A m \in RefName \ moved' : refs'[m] = refs[m]
  BY <1>1 DEF TypeOK
<1>4. Finding'
  <2>. SUFFICES ASSUME call.op = "FindRef", pc = "GetRef"
                PROVE  \E k \in 1..(Len(call.names) + 1) : GonePast(k)'
    BY DEF Finding
  <2>1. PICK k \in 1..(Len(call.names) + 1) : GonePast(k)  BY DEF Finding
  <2>2. call.names \in Seq(RefName)  BY DEF Finding
  <2>3. \A j \in 1..(k - 1) : call.names[j] \in RefName  BY <2>2
  <2>4. GonePast(k)'  BY <2>1, <2>3, <1>3 DEF GonePast
  <2>. QED  BY <2>4
<1>5. \A m, y : Announced(m, y)' <=> Announced(m, y)  BY DEF Announced
<1>6. Advertising'
  <2>. SUFFICES ASSUME call.op = "AdvertiseRefs"  PROVE Advertising'
    BY DEF Advertising
  <2>1. Listed => Listed'  BY <1>3, <1>5 DEF Listed
  <2>2. FirstWritten => FirstWritten'  BY DEF FirstWritten
  <2>3. Agreed => Agreed'  BY <1>5 DEF Agreed
  <2>. QED  BY <1>3, <2>1, <2>2, <2>3 DEF Advertising
<1>7. FindRefIsRight'  BY DEF FindRefIsRight
<1>. QED  BY <1>2, <1>4, <1>6, <1>7

(* When HEAD is set, nothing is claimed of its line any more.              *)
LEMMA SetHEADKeepsInv ==
    ASSUME Inv, SetHEAD
    PROVE  Inv'
<1>. USE DEF Inv, SetHEAD, Others, locals
<1>1. TypeOK'  BY DEF TypeOK
<1>2. moved' = moved \cup {"HEAD"}  OBVIOUS
<1>3. Finding'  BY <1>2 DEF Finding, GonePast
<1>4. \A m, y : Announced(m, y)' <=> Announced(m, y)  BY DEF Announced
<1>5. Listed => Listed'  BY <1>2, <1>4 DEF Listed
<1>6. FirstWritten => FirstWritten'  BY DEF FirstWritten
<1>7. Advertising'  BY <1>2, <1>5, <1>6 DEF Advertising
<1>8. FindRefIsRight'  BY DEF FindRefIsRight
<1>. QED  BY <1>1, <1>3, <1>7, <1>8

-----------------------------------------------------------------------------
(* The call begins.                                                        *)
LEMMA CallKeepsInv ==
    ASSUME Inv, Call
    PROVE  Inv'
<1>. USE DEF Inv
<1>1. PICK c \in Calls :
           /\ call' = c
           /\ c.op = "AdvertiseRefs" => pc' = "ListRefs" /\ todo' = << >>
           /\ c.op = "FindRef" => pc' = "GetRef" /\ todo' = c.names
           /\ pc' \in {"ListRefs", "GetRef", "GetObject"}
  BY DEF Call
<1>2. /\ pc = "idle" /\ lines = << >>
      /\ UNCHANGED <<objects, refs, HEAD, head, lines, failed>>
  BY DEF Call, repo
<1>3. TypeOK'  BY <1>2 DEF TypeOK
<1>4. Finding'
  <2>. SUFFICES ASSUME c.op = "FindRef"  PROVE Finding'
    BY <1>1 DEF Finding
  <2>1. c.names \in Seq(RefName)  BY ReadsAssumption
  <2>2. 1 \in 1..(Len(c.names) + 1) /\ c.names = SubSeq(c.names, 1, Len(c.names))
    BY <2>1
  <2>3. GonePast(1)'  BY <1>1, <2>2 DEF GonePast
  <2>. QED  BY <1>1, <2>1, <2>2, <2>3 DEF Finding
<1>5. Advertising'  BY <1>1, <1>2 DEF Advertising
<1>6. FindRefIsRight'  BY <1>1 DEF FindRefIsRight
<1>. QED  BY <1>1, <1>3, <1>4, <1>5, <1>6

-----------------------------------------------------------------------------
(* Objects that are followed.                                              *)

(* When an object has been dereferenced, AdvertiseRefs goes on with its    *)
(* list, of which nothing is lost: the first has been said.                *)
LEMMA DereferencedKeepsInv ==
    ASSUME Inv, pc = "GetObject", NEW err, Dereferenced(err),
           UNCHANGED <<repo, call, head, moved>>, failed # {} => failed' # {},
           err = "nil" /\ call.op = "AdvertiseRefs" => Target[at] \in ID
    PROVE  Inv'
<1>. USE DEF Inv, repo
<1>1. TypeOK'  BY DEF TypeOK
<1>2. call.op # "FindRef"  BY DEF Finding
<1>3. Finding'  BY <1>2 DEF Finding
<1>4. FindRefIsRight'  BY <1>2 DEF FindRefIsRight
<1>5. pc' # "idle"  BY DEF Dereferenced, Return
<1>6. Advertising'
  <2>. SUFFICES ASSUME call.op = "AdvertiseRefs"  PROVE Advertising'
    BY DEF Advertising
  <2>1. /\ todo \in Seq(Ref) /\ lines \in Seq(Line) /\ FirstWritten
        /\ moved \cap {"HEAD", HEAD} = {} => Agreed
    BY DEF Advertising
  <2>2. pc' = "line" /\ todo' = Tail(todo)  BY DEF Dereferenced
  <2>3. todo # << >> /\ todo' \in Seq(Ref)  BY <2>1, <2>2 DEF FirstWritten
  <2>4. \/ lines' = lines
        \/ \E l \in Line : l.peeled /\ lines' = Append(lines, l)
    <3>1. Head(todo) \in Ref  BY <2>1 DEF FirstWritten
    <3>. DEFINE l == [name |-> Head(todo).name, peeled |-> TRUE, id |-> Target[at]]
    <3>2. err = "nil" => l \in Line  BY <3>1 DEF Line, Ref, AnyID
    <3>. QED  BY <3>2 DEF Dereferenced
  <2>5. lines' \in Seq(Line)  BY <2>1, <2>4
  <2>6. \A n, x : (\E i \in DOMAIN lines' :
                      lines'[i].name = n /\ ~ lines'[i].peeled /\ lines'[i].id = x)
                 <=> \E i \in DOMAIN lines :
                      lines[i].name = n /\ ~ lines[i].peeled /\ lines[i].id = x
    <3>1. CASE lines' = lines  BY <3>1
    <3>2. ASSUME NEW l \in Line, l.peeled, lines' = Append(lines, l)
          PROVE  /\ DOMAIN lines' = DOMAIN lines \cup {Len(lines) + 1}
                 /\ lines'[Len(lines) + 1].peeled
                 /\ \A i \in DOMAIN lines : lines'[i] = lines[i]
      BY <2>1, <3>2
    <3>. QED  BY <2>4, <3>1, <3>2
  <2>7. \A n, x : Announced(n, x)' <=> Announced(n, x)
    <3>. SUFFICES ASSUME NEW n, NEW x  PROVE Announced(n, x)' <=> Announced(n, x)
      OBVIOUS
    <3>1. \A i \in DOMAIN todo' : todo'[i] = todo[i + 1] /\ i + 1 \in DOMAIN todo
      BY <2>1, <2>2, <2>3
    <3>2. \A i \in DOMAIN todo : i = 1 \/ (i - 1 \in DOMAIN todo' /\ todo[i] = todo'[i - 1])
      BY <2>1, <2>2, <2>3
    <3>3. Head(todo) = todo[1]  BY <2>1, <2>3
    <3>4. CASE \E i \in DOMAIN lines :
                  lines[i].name = n /\ ~ lines[i].peeled /\ lines[i].id = x
      BY <2>6, <3>4 DEF Announced
    <3>5. CASE ~ \E i \in DOMAIN lines :
                    lines[i].name = n /\ ~ lines[i].peeled /\ lines[i].id = x
      <4>1. ~ (todo[1].name = n /\ todo[1].id = x)
        BY <2>1, <3>3, <3>5 DEF FirstWritten
      <4>2. (\E i \in DOMAIN todo : todo[i].name = n /\ todo[i].id = x)
              <=> \E i \in DOMAIN todo' : todo'[i].name = n /\ todo'[i].id = x
        BY <3>1, <3>2, <4>1
      <4>. QED  BY <2>6, <3>5, <4>2 DEF Announced
    <3>. QED  BY <3>4, <3>5
  <2>8. Agreed => Agreed'  BY <2>7 DEF Agreed
  <2>. QED  BY <2>1, <2>2, <2>3, <2>5, <2>8 DEF Advertising
<1>. QED  BY <1>1, <1>3, <1>4, <1>5, <1>6

(* The object that is looked up is no matter.                              *)
LEMMA OnlyAtChanges ==
    ASSUME Inv, UNCHANGED <<repo, call, head, moved, failed, pc, id, todo, lines, answer>>
    PROVE  Inv'
<1>. USE DEF Inv, repo
<1>1. TypeOK' /\ Finding' /\ FindRefIsRight'
  BY DEF TypeOK, Finding, GonePast, FindRefIsRight
<1>2. \A n, x : Announced(n, x)' <=> Announced(n, x)  BY DEF Announced
<1>3. /\ Listed => Listed'
      /\ FirstWritten => FirstWritten'
      /\ Agreed => Agreed'
  BY <1>2 DEF Listed, FirstWritten, Agreed
<1>4. Advertising'  BY <1>3 DEF Advertising
<1>. QED  BY <1>1, <1>4

(* An object is followed, or given, or is not there.                       *)
LEMMA GetObjectKeepsInv ==
    ASSUME Inv, GetObject
    PROVE  Inv'
<1>1. CASE UNCHANGED <<repo, call, head, moved, failed, pc, id, todo, lines, answer>>
  BY <1>1, OnlyAtChanges
<1>2. ASSUME at \in objects, Dereferenced(IF Wanted(Mode, at) THEN "nil" ELSE "TypeError")
      PROVE  Inv'
  <2>1. call.op = "AdvertiseRefs" /\ Wanted(Mode, at) => Target[at] \in ID
    BY <1>2, ReadsAssumption DEF Inv, TypeOK, Mode, Wanted, Links
  <2>. QED  BY <1>2, <2>1, DereferencedKeepsInv DEF GetObject
<1>3. ASSUME Dereferenced(NotExist)
      PROVE  Inv'
  <2>1. NotExist # "nil"  BY DEF NotExist
  <2>. QED  BY <1>3, <2>1, DereferencedKeepsInv DEF GetObject
<1>. QED  BY <1>1, <1>2, <1>3 DEF GetObject

(* GetPath's names are no matter to FindRef and AdvertiseRefs.             *)
LEMMA EntryKeepsInv ==
    ASSUME Inv, Entry \/ NoEntry
    PROVE  Inv'
<1>1. /\ pc = "entry" /\ pc' # "idle"
      /\ UNCHANGED <<repo, call, head>>
  BY DEF Entry, NoEntry, Return, locals
<1>2. call.op \notin {"FindRef", "AdvertiseRefs"}  BY <1>1 DEF Inv, Finding, Advertising
<1>. QED  BY <1>1, <1>2 DEF Inv, repo, TypeOK, Finding, Advertising, FindRefIsRight

-----------------------------------------------------------------------------
(* FindRef goes on past a name that is not there, or could not be looked   *)
(* up, and gives the first that is.                                        *)

(* The name that FindRef is at is the k-th.                                *)
LEMMA NextName ==
    ASSUME Inv, pc = "GetRef", call.op = "FindRef",
           NEW k \in 1..(Len(call.names) + 1), GonePast(k)
    PROVE  /\ todo = << >> <=> k = Len(call.names) + 1
           /\ todo # << >> =>
                 /\ Head(todo) = call.names[k] /\ Head(todo) \in RefName
                 /\ Tail(todo) = SubSeq(call.names, k + 1, Len(call.names))
<1>. DEFINE names == call.names
            n == Len(names)
<1>1. names \in Seq(RefName) /\ todo = SubSeq(names, k, n)
  BY DEF Inv, Finding, GonePast
<1>2. n \in Nat /\ k \in Nat /\ k <= n + 1 /\ 1 <= k  BY <1>1
<1>3. Len(todo) = n + 1 - k /\ todo \in Seq(RefName)
  <2>1. \A i \in k..n : names[i] \in RefName  BY <1>1, <1>2
  <2>. QED  BY <1>1, <1>2, <2>1
<1>4. todo = << >> <=> k = n + 1  BY <1>2, <1>3
<1>5. ASSUME todo # << >>
      PROVE  Head(todo) = names[k] /\ Head(todo) \in RefName
  <2>1. k \in 1..n  BY <1>2, <1>4, <1>5
  <2>. QED  BY <1>1, <1>2, <2>1
<1>6. ASSUME todo # << >>
      PROVE  Tail(todo) = SubSeq(names, k + 1, n)
  <2>1. k \in 1..n  BY <1>2, <1>4, <1>6
  <2>. DEFINE rest == [i \in 1..(n - k) |-> names[k + i]]
  <2>2. Tail(todo) = rest  BY <1>1, <1>2, <1>3, <2>1, SMTT(30)
  <2>3. SubSeq(names, k + 1, n) = rest  BY <1>1, <1>2, <2>1
  <2>. QED  BY <2>2, <2>3
<1>. QED  BY <1>4, <1>5, <1>6

(* A ref that is there is given.                                           *)
LEMMA TryRefKeepsInv ==
    ASSUME Inv, TryRef
    PROVE  Inv'
<1>. USE DEF Inv, TryRef, Return, Answer, repo
<1>1. TypeOK'  BY DEF TypeOK
<1>2. Advertising'  BY DEF Advertising
<1>3. PICK k \in 1..(Len(call.names) + 1) : GonePast(k)  BY DEF Finding
<1>4. /\ todo = << >> <=> k = Len(call.names) + 1
      /\ todo # << >> =>
            /\ Head(todo) = call.names[k] /\ Head(todo) \in RefName
            /\ Tail(todo) = SubSeq(call.names, k + 1, Len(call.names))
  BY <1>3, NextName
<1>5. call.names \in Seq(RefName)  BY DEF Finding
<1>6. CASE todo = << >>
  <2>1. FindRefIsRight'  BY <1>3, <1>4, <1>5, <1>6 DEF GonePast, FindRefIsRight
  <2>. QED  BY <1>1, <1>2, <1>5, <1>6, <2>1 DEF Finding
<1>7. CASE todo # << >> /\ refs[Head(todo)] # ZeroID
  <2>1. k \in 1..Len(call.names)  BY <1>4, <1>5, <1>7
  <2>2. answer'.id = refs[call.names[k]] /\ answer'.err = "nil"
    BY <1>4, <1>7 DEF Answer
  <2>3. \A j \in 1..(k - 1) :
            call.names[j] \in moved \cup failed \/ refs[call.names[j]] = ZeroID
    BY <1>3 DEF GonePast
  <2>4. FindRefIsRight'
    <3>. SUFFICES \E i \in 1..(Len(call.names) + 1) : FindRefIsRight!2!(i)'
      BY DEF FindRefIsRight
    <3>. QED  BY <1>4, <1>7, <2>1, <2>2, <2>3
  <2>. QED  BY <1>1, <1>2, <1>5, <1>7, <2>4 DEF Finding
<1>8. CASE todo # << >> /\ refs[Head(todo)] = ZeroID
  <2>1. k + 1 \in 1..(Len(call.names) + 1)  BY <1>4, <1>5, <1>8
  <2>2. GonePast(k + 1)'
    <3>1. todo' = SubSeq(call.names, k + 1, Len(call.names))  BY <1>4, <1>8
    <3>2. refs[call.names[k]] = ZeroID  BY <1>4, <1>8
    <3>3. \A j \in 1..(k + 1 - 1) : j \in 1..(k - 1) \/ j = k  OBVIOUS
    <3>. QED  BY <1>3, <3>1, <3>2, <3>3 DEF GonePast
  <2>3. Finding'  BY <1>5, <1>8, <2>1, <2>2 DEF Finding
  <2>4. FindRefIsRight'  BY <1>8 DEF FindRefIsRight
  <2>. QED  BY <1>1, <1>2, <1>8, <2>3, <2>4
<1>. QED  BY <1>6, <1>7, <1>8

(* A name that could not be looked up is among those from then on.         *)
LEMMA FailsToFindRefKeepsInv ==
    ASSUME Inv, Fail, FailsToFindRef
    PROVE  Inv'
<1>. USE DEF Inv, Fail, FailsToFindRef, repo
<1>1. TypeOK'  BY DEF TypeOK
<1>2. Advertising'  BY DEF Advertising
<1>3. PICK k \in 1..(Len(call.names) + 1) : GonePast(k)  BY DEF Finding
<1>4. /\ k # Len(call.names) + 1
      /\ Head(todo) = call.names[k]
      /\ Tail(todo) = SubSeq(call.names, k + 1, Len(call.names))
  BY <1>3, NextName
<1>5. call.names \in Seq(RefName)  BY DEF Finding
<1>6. k + 1 \in 1..(Len(call.names) + 1)  BY <1>4, <1>5
<1>7. GonePast(k + 1)'
  <2>1. call.names[k] \in failed' /\ failed \subseteq failed'  BY <1>4
  <2>2. \A j \in 1..(k + 1 - 1) : j \in 1..(k - 1) \/ j = k  OBVIOUS
  <2>. QED  BY <1>3, <1>4, <2>1, <2>2 DEF GonePast
<1>8. Finding'  BY <1>5, <1>6, <1>7 DEF Finding
<1>9. FindRefIsRight'  BY DEF FindRefIsRight
<1>. QED  BY <1>1, <1>2, <1>8, <1>9

-----------------------------------------------------------------------------
(* AdvertiseRefs.                                                          *)

(* The list is of the refs as they are.                                    *)
LEMMA ListRefsKeepsInv ==
    ASSUME Inv, ListRefs
    PROVE  Inv'
<1>. USE DEF Inv, ListRefs, repo
<1>. DEFINE S == {n \in RefName : refs[n] # ZeroID}
<1>1. TypeOK'  BY DEF TypeOK
<1>2. call.op # "FindRef"  BY DEF Finding
<1>3. Finding' /\ FindRefIsRight'  BY <1>2 DEF Finding, FindRefIsRight
<1>4. Advertising'
  <2>. SUFFICES ASSUME call.op = "AdvertiseRefs"  PROVE Advertising'
    BY DEF Advertising
  <2>1. lines = << >> /\ lines' = << >>  BY DEF Advertising
  <2>2. PICK names \in SetToSeqs(S) :
             todo' = [i \in DOMAIN names |-> [name |-> names[i], id |-> refs[names[i]]]]
    OBVIOUS
  <2>3. IsFiniteSet(S)  BY ReadsAssumption, FS_Subset
  <2>4. names \in Seq(S) /\ \A n \in S : \E i \in DOMAIN names : names[i] = n
    <3>. HIDE DEF S
    <3>. QED  BY <2>2, <2>3, SetToSeqsHasAll
  <2>5. \A i \in DOMAIN names : names[i] \in S  BY <2>4
  <2>6. \A i \in DOMAIN names : [name |-> names[i], id |-> refs[names[i]]] \in Ref
    BY <2>5 DEF TypeOK, Ref, LineName
  <2>7. todo' \in Seq(Ref)  BY <2>2, <2>4, <2>6
  <2>8. \A n, x : Announced(n, x)' <=> n \in S /\ refs[n] = x
    <3>1. DOMAIN todo' = DOMAIN names  BY <2>2
    <3>2. \A i \in DOMAIN names : todo'[i].name = names[i] /\ todo'[i].id = refs[names[i]]
      BY <2>2
    <3>3. DOMAIN lines' = {}  BY <2>1
    <3>4. \A n, x : Announced(n, x)' <=>
              \E i \in DOMAIN names : names[i] = n /\ refs[names[i]] = x
      <4>. HIDE DEF Inv, ListRefs
      <4>. SUFFICES ASSUME NEW n, NEW x
                    PROVE  Announced(n, x)' <=>
                             \E i \in DOMAIN names : names[i] = n /\ refs[names[i]] = x
        OBVIOUS
      <4>1. Announced(n, x)' <=>
                \E i \in DOMAIN names : todo'[i].name = n /\ todo'[i].id = x
        BY <3>1, <3>3 DEF Announced
      <4>. QED  BY <3>2, <4>1
    <3>. HIDE DEF S
    <3>. QED  BY <2>4, <2>5, <3>4
  <2>9. Listed'
    <3>. SUFFICES ASSUME NEW x \in AnyID
                  PROVE  /\ ~ Announced("HEAD", x)'
                         /\ \A n \in RefName : Announced(n, x)' <=> refs[n] = x /\ x # ZeroID
      BY DEF Listed
    <3>1. "HEAD" \notin RefName  BY ReadsAssumption
    <3>. QED  BY <2>8, <3>1
  <2>. QED  BY <2>1, <2>7, <2>9 DEF Advertising
<1>. QED  BY <1>1, <1>3, <1>4

(* The name of the ref is HEAD until HEAD is set.                          *)
LEMMA GetHEADKeepsInv ==
    ASSUME Inv, GetHEAD
    PROVE  Inv'
<1>. USE DEF Inv, GetHEAD, repo
<1>1. TypeOK'  BY DEF TypeOK
<1>2. call.op # "FindRef"  BY DEF Finding
<1>3. Finding' /\ FindRefIsRight'  BY <1>2 DEF Finding, FindRefIsRight
<1>4. \A n, x : Announced(n, x)' <=> Announced(n, x)  BY DEF Announced
<1>5. Listed => Listed'  BY <1>4 DEF Listed
<1>6. Advertising'  BY <1>5 DEF Advertising
<1>. QED  BY <1>1, <1>3, <1>6

(* The list l has n with the ID x.                                         *)
Has(l, n, x) == \E i \in DOMAIN l : l[i].name = n /\ l[i].id = x

(* WithHEAD announces the line for HEAD and the list, and may put a line   *)
(* there that is about neither.                                            *)
LEMMA WithHEADAnnounces ==
    ASSUME NEW line \in Seq(Ref), todo \in Seq(Ref)
    PROVE  /\ WithHEAD(line) \in Seq(Ref)
           /\ \A n, x : n # "capabilities" =>
                 (Has(WithHEAD(line), n, x) <=> Has(line, n, x) \/ Has(todo, n, x))
<1>. DEFINE whole == line \o todo
<1>1. /\ whole \in Seq(Ref)
      /\ \A i \in DOMAIN whole : \/ i \in DOMAIN line /\ whole[i] = line[i]
                                 \/ i - Len(line) \in DOMAIN todo /\ whole[i] = todo[i - Len(line)]
      /\ \A i \in DOMAIN line : i \in DOMAIN whole /\ whole[i] = line[i]
      /\ \A i \in DOMAIN todo : i + Len(line) \in DOMAIN whole /\ whole[i + Len(line)] = todo[i]
  OBVIOUS
<1>. HIDE DEF whole
<1>2. \A n, x : Has(whole, n, x) <=> Has(line, n, x) \/ Has(todo, n, x)
  <2>. SUFFICES ASSUME NEW n, NEW x
                PROVE  Has(whole, n, x) <=> Has(line, n, x) \/ Has(todo, n, x)
    OBVIOUS
  <2>1. ASSUME Has(whole, n, x)
        PROVE  Has(line, n, x) \/ Has(todo, n, x)
    <3>1. PICK i \in DOMAIN whole : whole[i].name = n /\ whole[i].id = x  BY <2>1 DEF Has
    <3>. QED  BY <1>1, <3>1 DEF Has
  <2>2. ASSUME Has(line, n, x)
        PROVE  Has(whole, n, x)
    <3>1. PICK i \in DOMAIN line : line[i].name = n /\ line[i].id = x  BY <2>2 DEF Has
    <3>. QED  BY <1>1, <3>1 DEF Has
  <2>3. ASSUME Has(todo, n, x)
        PROVE  Has(whole, n, x)
    <3>1. PICK i \in DOMAIN todo : todo[i].name = n /\ todo[i].id = x  BY <2>3 DEF Has
    <3>. QED  BY <1>1, <3>1 DEF Has
  <2>. QED  BY <2>1, <2>2, <2>3
<1>3. CASE whole # << >>
  <2>1. WithHEAD(line) = whole  BY <1>3 DEF WithHEAD, whole
  <2>. QED  BY <1>1, <1>2, <2>1
<1>4. CASE whole = << >>
  <2>. DEFINE none == <<[name |-> "capabilities", id |-> ZeroID]>>
  <2>1. WithHEAD(line) = none  BY <1>4 DEF WithHEAD, whole
  <2>2. none \in Seq(Ref)  BY DEF Ref, LineName, AnyID
  <2>3. \A n, x : ~ Has(whole, n, x)  BY <1>4 DEF Has
  <2>4. \A n, x : n # "capabilities" => ~ Has(none, n, x)
    <3>1. DOMAIN none = {1} /\ none[1].name = "capabilities"  OBVIOUS
    <3>. HIDE DEF none
    <3>. QED  BY <3>1 DEF Has
  <2>. HIDE DEF none
  <2>. QED  BY <1>2, <2>1, <2>2, <2>3, <2>4
<1>. QED  BY <1>3, <1>4

(* The line for HEAD is what the list says, unless one of the two was set. *)
LEMMA GetRefKeepsInv ==
    ASSUME Inv, GetRef
    PROVE  Inv'
<1>. USE DEF Inv, GetRef, repo
<1>. DEFINE line == IF refs[head] = ZeroID THEN << >>
                    ELSE <<[name |-> "HEAD", id |-> refs[head]]>>
<1>1. TypeOK'  BY DEF TypeOK
<1>2. Finding' /\ FindRefIsRight'  BY DEF Finding, FindRefIsRight
<1>3. /\ todo \in Seq(Ref) /\ lines = << >> /\ Listed
      /\ "HEAD" \notin moved => head = HEAD
  BY DEF Advertising
<1>4. [name |-> "HEAD", id |-> refs[head]] \in Ref  BY DEF TypeOK, Ref, LineName
<1>5. line \in Seq(Ref)  BY <1>4
<1>6. \A n, x : Has(line, n, x) <=> n = "HEAD" /\ refs[head] # ZeroID /\ x = refs[head]
  BY DEF Has
<1>7. todo' = WithHEAD(line)  OBVIOUS
<1>. HIDE DEF line
<1>8. /\ todo' \in Seq(Ref)
      /\ \A n, x : n # "capabilities" =>
            (Announced(n, x)' <=> \/ Announced(n, x)
                                  \/ n = "HEAD" /\ refs[head] # ZeroID /\ x = refs[head])
  <2>1. DOMAIN lines = {} /\ DOMAIN lines' = {}  BY <1>3
  <2>2. \A n, x : /\ Announced(n, x) <=> Has(todo, n, x)
                  /\ Announced(n, x)' <=> Has(todo', n, x)
    BY <2>1 DEF Announced, Has
  <2>3. /\ todo' \in Seq(Ref)
        /\ \A n, x : n # "capabilities" =>
              (Has(todo', n, x) <=> Has(line, n, x) \/ Has(todo, n, x))
    BY <1>3, <1>5, <1>7, WithHEADAnnounces
  <2>. QED  BY <1>6, <2>2, <2>3
<1>9. ASSUME moved \cap {"HEAD", HEAD} = {}
      PROVE  Agreed'
  <2>. SUFFICES ASSUME NEW x \in AnyID
                PROVE  Announced("HEAD", x)' <=> Announced(HEAD, x)'
    BY DEF Agreed
  <2>1. HEAD \in RefName \ moved /\ head = HEAD  BY <1>3, <1>9 DEF TypeOK
  <2>2. HEAD # "HEAD" /\ HEAD # "capabilities"  BY <2>1, ReadsAssumption
  <2>3. Announced("HEAD", x)' <=> refs[head] # ZeroID /\ x = refs[head]
    BY <1>3, <1>8 DEF Listed
  <2>4. Announced(HEAD, x)' <=> refs[HEAD] = x /\ x # ZeroID
    BY <1>3, <1>8, <2>1, <2>2 DEF Listed
  <2>. QED  BY <2>1, <2>3, <2>4
<1>10. Advertising'  BY <1>3, <1>8, <1>9 DEF Advertising
<1>. QED  BY <1>1, <1>2, <1>10

(* After a failure there is no line for HEAD.                              *)
LEMMA FailsToGetHEADKeepsInv ==
    ASSUME Inv, Fail, FailsToGetHEAD
    PROVE  Inv'
<1>. USE DEF Inv, Fail, FailsToGetHEAD, repo
<1>1. TypeOK'  BY DEF TypeOK
<1>2. Finding' /\ FindRefIsRight'  BY DEF Finding, FindRefIsRight
<1>3. todo \in Seq(Ref) /\ lines = << >> /\ Listed  BY DEF Advertising
<1>4. << >> \in Seq(Ref)  OBVIOUS
<1>5. /\ todo' \in Seq(Ref)
      /\ \A n, x : n # "capabilities" => (Announced(n, x)' <=> Announced(n, x))
  <2>1. DOMAIN lines = {} /\ DOMAIN lines' = {}  BY <1>3
  <2>2. \A n, x : /\ Announced(n, x) <=> Has(todo, n, x)
                  /\ Announced(n, x)' <=> Has(todo', n, x)
                  /\ ~ Has(<< >>, n, x)
    BY <2>1 DEF Announced, Has
  <2>3. todo' = WithHEAD(<< >>)  OBVIOUS
  <2>4. /\ todo' \in Seq(Ref)
        /\ \A n, x : n # "capabilities" =>
              (Has(todo', n, x) <=> Has(<< >>, n, x) \/ Has(todo, n, x))
    BY <1>3, <1>4, <2>3, WithHEADAnnounces
  <2>. QED  BY <2>2, <2>4
<1>6. Agreed'  BY <1>3, <1>5 DEF Agreed, Listed
<1>7. Advertising'  BY <1>3, <1>5, <1>6 DEF Advertising
<1>. QED  BY <1>1, <1>2, <1>7

(* A line is written and stays the first of todo until it is peeled.       *)
LEMMA WriteLineKeepsInv ==
    ASSUME Inv, WriteLine
    PROVE  Inv'
<1>. USE DEF Inv, WriteLine, repo
<1>. DEFINE l == [name |-> Head(todo).name, peeled |-> FALSE, id |-> Head(todo).id]
<1>1. TypeOK'  BY DEF TypeOK
<1>2. Finding' /\ FindRefIsRight'  BY DEF Finding, FindRefIsRight
<1>3. Advertising'
  <2>. SUFFICES ASSUME call.op = "AdvertiseRefs"  PROVE Advertising'
    BY DEF Advertising
  <2>1. todo \in Seq(Ref) /\ lines \in Seq(Line)  BY DEF Advertising
  <2>2. Head(todo) \in Ref /\ Head(todo) = todo[1] /\ 1 \in DOMAIN todo  BY <2>1
  <2>3. l \in Line  BY <2>2 DEF Ref, Line
  <2>4. /\ lines' \in Seq(Line)
        /\ DOMAIN lines' = DOMAIN lines \cup {Len(lines) + 1}
        /\ lines'[Len(lines) + 1] = l
        /\ \A i \in DOMAIN lines : lines'[i] = lines[i]
    BY <2>1, <2>3
  <2>5. \A n, x : Announced(n, x)' <=> Announced(n, x)
    BY <2>2, <2>4 DEF Announced
  <2>6. FirstWritten'  BY <2>4 DEF FirstWritten
  <2>7. Agreed => Agreed'  BY <2>5 DEF Agreed
  <2>. QED  BY <2>1, <2>4, <2>6, <2>7 DEF Advertising
<1>. QED  BY <1>1, <1>2, <1>3

(* When nothing is left to do, all that was announced has been written.    *)
LEMMA FlushKeepsInv ==
    ASSUME Inv, Flush
    PROVE  Inv'
<1>. USE DEF Inv, Flush, Return, repo, locals
<1>1. TypeOK'  BY DEF TypeOK
<1>2. call.op # "FindRef"  BY DEF Finding
<1>3. Finding' /\ FindRefIsRight'  BY <1>2 DEF Finding, FindRefIsRight
<1>4. Agreed => Agreed'  BY DEF Agreed, Announced
<1>5. Advertising'  BY <1>4 DEF Advertising
<1>. QED  BY <1>1, <1>3, <1>5

-----------------------------------------------------------------------------
(* A method that fails leaves FindRef and AdvertiseRefs where they are, or *)
(* ends them, or goes on without it.                                       *)
LEMMA FailKeepsInv ==
    ASSUME Inv, Fail
    PROVE  Inv'
<1>1. CASE FailsToDereference
  <2>1. "BackendError" # "nil"  OBVIOUS
  <2>. QED  BY <1>1, <2>1, DereferencedKeepsInv DEF Fail, FailsToDereference
<1>2. CASE FailsToFindEntry
  <2>1. /\ pc = "entry" /\ pc' # "idle"
        /\ UNCHANGED <<repo, call, head>>
    BY <1>2 DEF Fail, FailsToFindEntry, Return, locals
  <2>2. call.op \notin {"FindRef", "AdvertiseRefs"}  BY <2>1 DEF Inv, Finding, Advertising
  <2>. QED  BY <2>1, <2>2 DEF Inv, repo, TypeOK, Finding, Advertising, FindRefIsRight
<1>3. CASE FailsToFindRef  BY <1>3, FailsToFindRefKeepsInv
<1>4. CASE FailsToListRefs
  <2>1. pc = "ListRefs" /\ pc' = "done" /\ answer'.err = "BackendError"
        /\ UNCHANGED <<repo, call, head, todo, lines, moved>>
    BY <1>4 DEF Fail, FailsToListRefs, Return, Answer, locals
  <2>2. call.op # "FindRef"  BY <2>1 DEF Inv, Finding
  <2>. QED  BY <2>1, <2>2 DEF Inv, repo, TypeOK, Finding, Advertising, FindRefIsRight
<1>5. CASE FailsToGetHEAD  BY <1>5, FailsToGetHEADKeepsInv
<1>. QED  BY <1>1, <1>2, <1>3, <1>4, <1>5 DEF Fail

(* Every step keeps the invariant.                                         *)
LEMMA Inductive == Inv /\ [Next]_vars => Inv'
<1>. SUFFICES ASSUME Inv, [Next]_vars
              PROVE  Inv'
  OBVIOUS
<1>1. CASE UNCHANGED vars
  BY <1>1 DEF vars, repo, locals, Inv, TypeOK, Finding, GonePast, Advertising, Announced,
              Listed, FirstWritten, Agreed, FindRefIsRight
<1>2. CASE PutObject  BY <1>2, PutObjectKeepsInv
<1>3. CASE UpdateRef  BY <1>3, UpdateRefKeepsInv
<1>4. CASE SetHEAD  BY <1>4, SetHEADKeepsInv
<1>5. CASE Call  BY <1>5, CallKeepsInv
<1>6. CASE GetObject  BY <1>6, GetObjectKeepsInv
<1>7. CASE NoEntry \/ Entry  BY <1>7, EntryKeepsInv
<1>8. CASE TryRef  BY <1>8, TryRefKeepsInv
<1>9. CASE ListRefs  BY <1>9, ListRefsKeepsInv
<1>10. CASE GetHEAD  BY <1>10, GetHEADKeepsInv
<1>11. CASE GetRef  BY <1>11, GetRefKeepsInv
<1>12. CASE WriteLine  BY <1>12, WriteLineKeepsInv
<1>13. CASE Flush  BY <1>13, FlushKeepsInv
<1>14. CASE Fail  BY <1>14, FailKeepsInv
<1>. QED
  BY <1>1, <1>2, <1>3, <1>4, <1>5, <1>6, <1>7, <1>8, <1>9, <1>10, <1>11, <1>12, <1>13, <1>14
     DEF Next, Step

-----------------------------------------------------------------------------
(* The invariant: how far FindRef has come among its names, and what       *)
(* AdvertiseRefs has said or is going to say.                              *)
THEOREM Invariance == Spec => []Inv
<1>. QED  BY Initially, Inductive, PTL DEF Spec

(* FindRef gives the first of the names that is a ref, as far as nobody    *)
(* sets one of them during the call.                                       *)
THEOREM FindRefFindsFirst == Spec => []FindRefIsRight
<1>1. Inv => FindRefIsRight  BY DEF Inv
<1>. QED  BY <1>1, Invariance, PTL

(* The line for HEAD and the list do not contradict each other, unless     *)
(* HEAD or its ref was set between the calls that they come from.          *)
THEOREM HeadIsAdvertisedRight == Spec => []HeadAgreesWithList
<1>1. Inv => HeadAgreesWithList
  <2>. SUFFICES ASSUME Inv, pc = "done", call.op = "AdvertiseRefs", answer.err = "nil",
                       moved \cap {"HEAD", HEAD} = {}
                PROVE  LET ids(name) == {lines[i].id : i \in Told(name)}
                       IN  ids("HEAD") = ids(HEAD) \/ (failed # {} /\ ids("HEAD") = {})
    BY DEF HeadAgreesWithList
  <2>. DEFINE ids(name) == {lines[i].id : i \in Told(name)}
  <2>1. todo = << >> /\ lines \in Seq(Line) /\ Agreed  BY DEF Inv, Advertising
  <2>2. \A n : ids(n) \subseteq AnyID
    <3>1. \A i \in DOMAIN lines : lines[i] \in Line  BY <2>1
    <3>. QED  BY <3>1 DEF Told, Line
  <2>3. \A n, x : x \in ids(n) <=> Announced(n, x)  BY <2>1 DEF Told, Announced
  <2>. QED  BY <2>1, <2>2, <2>3 DEF Agreed
<1>. QED  BY <1>1, Invariance, PTL

-----------------------------------------------------------------------------
(* What a recursive function is: its value is unknown until its equation   *)
(* is shown to have a solution.  G gives a solution's value at x from its  *)
(* values at what is before x in R, in which every set has a first element.*)

WellFounded(S, R) ==
    \A U \in SUBSET S : U # {} => \E x \in U : \A y \in U : <<y, x>> \notin R

LooksBefore(S, T, R, G) ==
    \A x \in S : \A f, g \in [S -> T] :
        (\A y \in S : <<y, x>> \in R => f[y] = g[y]) => G[x][f] = G[x][g]

Recursion(S, T, R, G) ==
    /\ G \in [S -> [[S -> T] -> T]] /\ T # {}
    /\ WellFounded(S, R) /\ LooksBefore(S, T, R, G)

Solvable(S, T, G) == \E f \in [S -> T] : f = [x \in S |-> G[x][f]]

(* f solves the equation on D, which what comes before is in, too.         *)
SolvesOn(S, T, R, G, D, f) ==
    /\ D \subseteq S
    /\ f \in [S -> T]
    /\ \A x \in D : f[x] = G[x][f]
    /\ \A x \in D, y \in S : <<y, x>> \in R => y \in D

(* Two solutions agree where both are.                                     *)
LEMMA SolutionsAgree ==
    ASSUME NEW S, NEW T, NEW R, NEW G, WellFounded(S, R), LooksBefore(S, T, R, G),
           NEW D, NEW E, NEW f, NEW g, SolvesOn(S, T, R, G, D, f), SolvesOn(S, T, R, G, E, g),
           NEW x \in D \cap E
    PROVE  f[x] = g[x]
<1>. DEFINE U == {y \in D \cap E : f[y] # g[y]}
<1>. SUFFICES ASSUME U # {} PROVE FALSE
  OBVIOUS
<1>1. U \in SUBSET S  BY DEF SolvesOn
<1>2. PICK y \in U : \A z \in U : <<z, y>> \notin R
  <2>. HIDE DEF U
  <2>. QED  BY <1>1 DEF WellFounded
<1>3. \A z \in S : <<z, y>> \in R => f[z] = g[z]  BY <1>2 DEF SolvesOn
<1>4. G[y][f] = G[y][g]  BY <1>1, <1>2, <1>3 DEF LooksBefore, SolvesOn
<1>. QED  BY <1>2, <1>4 DEF SolvesOn

(* There is a solution everywhere: if not, the first place that has none   *)
(* would be given one by the solutions before it.                          *)
LEMMA SolutionExists ==
    ASSUME NEW S, NEW T, NEW R, NEW G, Recursion(S, T, R, G)
    PROVE  Solvable(S, T, G)
<1>. USE DEF Recursion
<1>. DEFINE Sol(D, f) == SolvesOn(S, T, R, G, D, f)
            C == {x \in S : \E D, f : Sol(D, f) /\ x \in D}
            Value(x) == CHOOSE v \in T : \E D, f : Sol(D, f) /\ x \in D /\ v = f[x]
            any == CHOOSE v \in T : TRUE
            h == [x \in S |-> IF x \in C THEN Value(x) ELSE any]
<1>1. \A D, f, x : Sol(D, f) /\ x \in D => x \in C /\ f[x] \in T /\ Value(x) = f[x]
  <2>. SUFFICES ASSUME NEW D, NEW f, NEW x, Sol(D, f), x \in D
                PROVE  x \in C /\ f[x] \in T /\ Value(x) = f[x]
    OBVIOUS
  <2>1. x \in C /\ f[x] \in T  BY DEF SolvesOn
  <2>2. \A E, g : Sol(E, g) /\ x \in E => f[x] = g[x]
    BY SolutionsAgree
  <2>3. \A v \in T : (\E E, g : Sol(E, g) /\ x \in E /\ v = g[x]) <=> v = f[x]
    BY <2>2
  <2>4. Value(x) = f[x]
    <3>. HIDE DEF Sol
    <3>. QED  BY <2>1, <2>3
  <2>. QED  BY <2>1, <2>4
<1>2. h \in [S -> T] /\ \A D, f, x : Sol(D, f) /\ x \in D => h[x] = f[x]
  <2>1. \A x \in C : Value(x) \in T
    <3>. HIDE DEF Sol, Value
    <3>. QED  BY <1>1
  <2>2. any \in T  OBVIOUS
  <2>. HIDE DEF Sol, Value, any
  <2>. QED  BY <1>1, <2>1, <2>2
<1>3. \A x \in C : /\ h[x] = G[x][h]
                   /\ \A y \in S : <<y, x>> \in R => y \in C
  <2>. SUFFICES ASSUME NEW x \in C
                PROVE  h[x] = G[x][h] /\ \A y \in S : <<y, x>> \in R => y \in C
    OBVIOUS
  <2>1. PICK D, f : Sol(D, f) /\ x \in D  OBVIOUS
  <2>2. f \in [S -> T] /\ f[x] = G[x][f] /\ \A y \in S : <<y, x>> \in R => y \in D
    BY <2>1 DEF SolvesOn
  <2>. HIDE DEF h, Value, any
  <2>3. \A y \in S : <<y, x>> \in R => h[y] = f[y] /\ y \in C
    <3>. HIDE DEF Sol
    <3>. QED  BY <1>2, <2>1, <2>2
  <2>4. G[x][h] = G[x][f]
    <3>1. x \in S  OBVIOUS
    <3>. HIDE DEF C
    <3>. QED  BY <1>2, <2>2, <2>3, <3>1 DEF LooksBefore
  <2>5. h[x] = f[x]
    <3>. HIDE DEF Sol, C
    <3>. QED  BY <1>2, <2>1
  <2>. QED  BY <2>2, <2>3, <2>4, <2>5
<1>. HIDE DEF h, Value, any
<1>4. C = S
  <2>. SUFFICES ASSUME S \ C # {} PROVE FALSE
    OBVIOUS
  <2>1. PICK x \in S \ C : \A y \in S \ C : <<y, x>> \notin R
    <3>1. S \ C \in SUBSET S  OBVIOUS
    <3>. HIDE DEF C
    <3>. QED  BY <3>1 DEF WellFounded
  <2>. DEFINE k == [h EXCEPT ![x] = G[x][h]]
              D == C \cup {x}
  <2>2. x \in S /\ C \subseteq S /\ x \notin C  BY <2>1
  <2>. HIDE DEF C
  <2>3. k \in [S -> T] /\ k[x] = G[x][h] /\ \A y \in S \ {x} : k[y] = h[y]
    BY <1>2, <2>2
  <2>. HIDE DEF k
  <2>4. \A z \in D, y \in S : <<y, z>> \in R => y \in C
    BY <1>3, <2>1
  <2>5. \A z \in D : G[z][k] = G[z][h]
    <3>. SUFFICES ASSUME NEW z \in D PROVE G[z][k] = G[z][h]
      OBVIOUS
    <3>1. z \in S /\ \A y \in S : <<y, z>> \in R => k[y] = h[y]  BY <2>2, <2>3, <2>4
    <3>. QED  BY <1>2, <2>3, <3>1 DEF LooksBefore
  <2>6. \A z \in D : k[z] = G[z][k]
    BY <1>3, <2>2, <2>3, <2>5
  <2>7. Sol(D, k)  BY <2>2, <2>3, <2>4, <2>6 DEF SolvesOn
  <2>8. x \in C  BY <2>7, <2>2 DEF C
  <2>. QED  BY <2>2, <2>8
<1>5. h = [x \in S |-> G[x][h]]
  <2>1. \A x \in S : h[x] = G[x][h]  BY <1>3, <1>4
  <2>. QED  BY <1>2, <2>1
<1>. QED  BY <1>2, <1>5 DEF Solvable

-----------------------------------------------------------------------------
(* Links and names are followed to an end.                                 *)

(* Numbers are well ordered.                                               *)
LEMMA Least ==
    ASSUME NEW S \in SUBSET Nat, S # {}
    PROVE  \E m \in S : \A k \in S : m <= k
<1>. DEFINE R == {ss \in Nat \X Nat : ss[1] < ss[2]}
<1>1. IsWellFoundedOn(R, Nat)  BY NatLessThanWellFounded DEF OpToRel
<1>2. \A k, m \in Nat : k < m => <<k, m>> \in R  OBVIOUS
<1>. HIDE DEF R
<1>3. PICK m \in S : \A k \in S : ~ (<<k, m>> \in R)  BY <1>1, WFMin
<1>4. \A k \in S : k \in Nat /\ m \in Nat /\ ~ (k < m)  BY <1>2, <1>3
<1>5. \A k \in S : m <= k  BY <1>4
<1>. QED  BY <1>5

LinkedBefore == {yx \in AnyID \X AnyID : yx[2] \in ID /\ yx[1] \in Links(yx[2])}

(* Objects come after what they link to.                                   *)
LEMMA LinksEnd == WellFounded(AnyID, LinkedBefore)
<1>. SUFFICES ASSUME NEW U \in SUBSET AnyID, U # {}
              PROVE  \E x \in U : \A y \in U : <<y, x>> \notin LinkedBefore
  BY DEF WellFounded
<1>1. CASE ZeroID \in U  BY <1>1, ReadsAssumption DEF LinkedBefore
<1>2. CASE ZeroID \notin U
  <2>1. U \in SUBSET ID  BY <1>2 DEF AnyID
  <2>2. PICK x \in U : Links(x) \cap U = {}  BY <2>1, ReadsAssumption
  <2>. QED  BY <2>2 DEF LinkedBefore
<1>. QED  BY <1>1, <1>2

(* What is gone on to is linked to.                                        *)
LEMMA GoesOnAlongLinks ==
    ASSUME NEW mode, NEW x \in ID, GoesOn(mode, x)
    PROVE  Target[x] \in ID /\ Target[x] \in AnyID /\ <<Target[x], x>> \in LinkedBefore
<1>1. Kind[x] \in {"commit", "tag"}  BY DEF GoesOn
<1>2. Links(x) = {Target[x]} /\ Links(x) \subseteq ID  BY <1>1, ReadsAssumption DEF Links
<1>. QED  BY <1>2 DEF LinkedBefore, AnyID

(* An object is in its own closure, which is in that of what links to it.  *)
LEMMA ClosureUnfolds ==
    \A x \in AnyID : Closure[x] = IF x = ZeroID THEN {}
                                  ELSE {x} \cup UNION {Closure[y] : y \in Links(x)}
<1>. DEFINE Value(x, f) == IF x = ZeroID THEN {} ELSE {x} \cup UNION {f[y] : y \in Links(x)}
            T == SUBSET ID
            G == [x \in AnyID |-> [f \in [AnyID -> T] |-> Value(x, f)]]
<1>1. \A x \in AnyID \ {ZeroID} : \A y \in Links(x) : y \in AnyID /\ <<y, x>> \in LinkedBefore
  BY ReadsAssumption DEF AnyID, LinkedBefore
<1>2. G \in [AnyID -> [[AnyID -> T] -> T]]
  <2>. SUFFICES ASSUME NEW x \in AnyID, NEW f \in [AnyID -> T]
                PROVE  Value(x, f) \in T
    OBVIOUS
  <2>1. x # ZeroID => \A y \in Links(x) : f[y] \subseteq ID  BY <1>1
  <2>2. x # ZeroID => x \in ID  BY DEF AnyID
  <2>. QED  BY <2>1, <2>2
<1>3. \A x \in AnyID : \A f, g \in [AnyID -> T] :
          (\A y \in AnyID : <<y, x>> \in LinkedBefore => f[y] = g[y]) => Value(x, f) = Value(x, g)
  <2>. SUFFICES ASSUME NEW x \in AnyID, NEW f \in [AnyID -> T], NEW g \in [AnyID -> T],
                       \A y \in AnyID : <<y, x>> \in LinkedBefore => f[y] = g[y]
                PROVE  Value(x, f) = Value(x, g)
    OBVIOUS
  <2>1. x # ZeroID => \A y \in Links(x) : f[y] = g[y]  BY <1>1
  <2>. QED  BY <2>1
<1>4. PICK f \in [AnyID -> T] : f = [x \in AnyID |-> G[x][f]]
  <2>1. T # {} /\ \A x \in AnyID : \A f \in [AnyID -> T] : G[x][f] = Value(x, f)  OBVIOUS
  <2>. HIDE DEF G, T, Value
  <2>2. LooksBefore(AnyID, T, LinkedBefore, G)  BY <1>3, <2>1 DEF LooksBefore
  <2>3. Recursion(AnyID, T, LinkedBefore, G)  BY <1>2, <2>1, <2>2, LinksEnd DEF Recursion
  <2>4. Solvable(AnyID, T, G)  BY <2>3, SolutionExists
  <2>. QED  BY <2>4 DEF Solvable
<1>5. f = [x \in AnyID |-> Value(x, f)]
  <2>1. \A x \in AnyID : G[x][f] = Value(x, f)  OBVIOUS
  <2>. HIDE DEF G, Value
  <2>. QED  BY <1>4, <2>1
<1>6. Closure = [x \in AnyID |-> Value(x, Closure)]
  BY <1>5 DEF Closure, AnyID
<1>. QED  BY <1>6

(* What is made of x by GetCommit, GetTag or GetTree while the repository  *)
(* has the objects O, and "none" is said of what is not there.             *)
PeelStep(O, none, mode, x, f) ==
    IF x \notin O THEN Found(x, none)
    ELSE IF GoesOn(mode, x) THEN f[Target[x]]
    ELSE Found(x, IF Wanted(mode, x) THEN "nil" ELSE "TypeError")

PeelIn(O, none, mode) == CHOOSE f : f = [x \in AnyID |-> PeelStep(O, none, mode, x, f)]

NoneError == {"false", "ErrObjectNotExist"}

Error == {"nil", "TypeError", "no such tree entry"} \cup NoneError

Outcome == [obj : AnyID, err : Error]

LEMMA FoundHas ==
    ASSUME NEW x \in AnyID, NEW err \in Error
    PROVE  Found(x, err) \in Outcome /\ Found(x, err).obj = x /\ Found(x, err).err = err
BY DEF Found, Outcome

LEMMA PeelIsPeelIn == \A mode, x : Peel(mode, x) = PeelIn(objects, NotExist, mode)[x]
BY DEF Peel, PeelIn, PeelStep, AnyID

(* The tags that are followed come to an end.                              *)
LEMMA PeelUnfolds ==
    ASSUME NEW O \in SUBSET ID, NEW none \in NoneError, NEW mode
    PROVE  \A x \in AnyID :
               PeelIn(O, none, mode)[x] = PeelStep(O, none, mode, x, PeelIn(O, none, mode))
<1>. DEFINE Value(x, f) == PeelStep(O, none, mode, x, f)
            T == Outcome
            G == [x \in AnyID |-> [f \in [AnyID -> T] |-> Value(x, f)]]
<1>1. G \in [AnyID -> [[AnyID -> T] -> T]]
  <2>. SUFFICES ASSUME NEW x \in AnyID, NEW f \in [AnyID -> T]
                PROVE  Value(x, f) \in T
    OBVIOUS
  <2>1. CASE x \notin O  BY <2>1, FoundHas DEF PeelStep, Error
  <2>2. CASE x \in O /\ GoesOn(mode, x)
    <3>1. Target[x] \in AnyID  BY <2>2, GoesOnAlongLinks
    <3>. QED  BY <2>2, <3>1 DEF PeelStep
  <2>3. CASE x \in O /\ ~ GoesOn(mode, x)  BY <2>3, FoundHas DEF PeelStep, Error
  <2>. QED  BY <2>1, <2>2, <2>3
<1>2. \A x \in AnyID : \A f, g \in [AnyID -> T] :
          (\A y \in AnyID : <<y, x>> \in LinkedBefore => f[y] = g[y]) => Value(x, f) = Value(x, g)
  BY GoesOnAlongLinks DEF PeelStep
<1>3. PICK f \in [AnyID -> T] : f = [x \in AnyID |-> G[x][f]]
  <2>1. T # {}
    <3>1. Found(ZeroID, "nil") \in T  BY FoundHas DEF Error, AnyID
    <3>. QED  BY <3>1
  <2>2. \A x \in AnyID : \A f \in [AnyID -> T] : G[x][f] = Value(x, f)  OBVIOUS
  <2>. HIDE DEF G, T, Value
  <2>3. LooksBefore(AnyID, T, LinkedBefore, G)  BY <1>2, <2>2 DEF LooksBefore
  <2>4. Recursion(AnyID, T, LinkedBefore, G)  BY <1>1, <2>1, <2>3, LinksEnd DEF Recursion
  <2>5. Solvable(AnyID, T, G)  BY <2>4, SolutionExists
  <2>. QED  BY <2>5 DEF Solvable
<1>4. f = [x \in AnyID |-> PeelStep(O, none, mode, x, f)]
  <2>1. \A x \in AnyID : G[x][f] = PeelStep(O, none, mode, x, f)  OBVIOUS
  <2>. HIDE DEF G, Value
  <2>. QED  BY <1>3, <2>1
<1>. DEFINE peel == PeelIn(O, none, mode)
<1>5. peel = [x \in AnyID |-> PeelStep(O, none, mode, x, peel)]
  BY <1>4 DEF PeelIn
<1>. HIDE DEF peel
<1>6. \A x \in AnyID : peel[x] = PeelStep(O, none, mode, x, peel)  BY <1>5
<1>. QED  BY <1>6 DEF peel

(* What is found is held and of the wanted type.                           *)
LEMMA PeelFindsWanted ==
    ASSUME NEW O \in SUBSET ID, NEW none \in NoneError, NEW mode, NEW x \in AnyID
    PROVE  LET found == PeelIn(O, none, mode)[x]
           IN  /\ found \in Outcome
               /\ found.err = "nil" => found.obj \in O /\ Wanted(mode, found.obj)
<1>. DEFINE peel == PeelIn(O, none, mode)
            Right(y) == /\ peel[y] \in Outcome
                        /\ peel[y].err = "nil" => peel[y].obj \in O /\ Wanted(mode, peel[y].obj)
            U == {y \in AnyID : ~ Right(y)}
<1>. SUFFICES ASSUME U # {} PROVE FALSE
  OBVIOUS
<1>1. \A y \in AnyID : peel[y] = PeelStep(O, none, mode, y, peel)  BY PeelUnfolds
<1>. HIDE DEF peel
<1>2. PICK y \in U : \A z \in U : <<z, y>> \notin LinkedBefore
  <2>1. U \in SUBSET AnyID  OBVIOUS
  <2>. HIDE DEF U
  <2>. QED  BY <2>1, LinksEnd DEF WellFounded
<1>. HIDE DEF Right
<1>3. y \in AnyID /\ ~ Right(y)  OBVIOUS
<1>. HIDE DEF U
<1>4. CASE y \notin O
  <2>1. peel[y] = Found(y, none)  BY <1>1, <1>3, <1>4 DEF PeelStep
  <2>2. none # "nil" /\ none \in Error  BY DEF NoneError, Error
  <2>3. peel[y] \in Outcome /\ peel[y].err # "nil"  BY <1>3, <2>1, <2>2, FoundHas
  <2>. QED  BY <1>3, <2>3 DEF Right
<1>5. CASE y \in O /\ GoesOn(mode, y)
  <2>1. Target[y] \in AnyID /\ <<Target[y], y>> \in LinkedBefore
    BY <1>5, GoesOnAlongLinks
  <2>2. Right(Target[y])  BY <1>2, <2>1 DEF U
  <2>3. peel[y] = peel[Target[y]]  BY <1>1, <1>3, <1>5 DEF PeelStep
  <2>. QED  BY <1>3, <2>2, <2>3 DEF Right
<1>6. CASE y \in O /\ ~ GoesOn(mode, y)
  <2>1. peel[y] = Found(y, IF Wanted(mode, y) THEN "nil" ELSE "TypeError")
    BY <1>1, <1>3, <1>6 DEF PeelStep
  <2>2. peel[y] \in Outcome /\ peel[y].obj = y /\ (peel[y].err = "nil" => Wanted(mode, y))
    <3>1. "nil" \in Error /\ "TypeError" \in Error  BY DEF Error
    <3>. QED  BY <1>3, <2>1, <3>1, FoundHas
  <2>. QED  BY <1>3, <1>6, <2>2 DEF Right
<1>. QED  BY <1>4, <1>5, <1>6

(* What is at a path, in the same way.                                     *)
Places == AnyID \X Seq(STRING)

ShorterPath == {ss \in Places \X Places : Len(ss[1][2]) < Len(ss[2][2])}

PathStep(O, none, s, f) ==
    LET tree == PeelIn(O, none, "GetTree")[s[1]]
        p == s[2]
        y == Entries[tree.obj][Head(p)]
    IN  IF tree.err # "nil" \/ p = << >> THEN tree
        ELSE IF Head(p) \notin DOMAIN Entries[tree.obj]
        THEN Found(tree.obj, "no such tree entry")
        ELSE IF y \notin O THEN Found(y, none)
        ELSE IF Tail(p) = << >> THEN Found(y, "nil")
        ELSE IF Kind[y] = "tag" THEN Found(y, "TypeError")
        ELSE f[<<y, Tail(p)>>]

PathIn(O, none) == CHOOSE f : f = [s \in Places |-> PathStep(O, none, s, f)]

LEMMA PathIsPathIn ==
    \A x, p : PathFrom(x, p) = PathIn(objects, NotExist)[<<x, p>>]
BY DEF PathFrom, PathIn, PathStep, Peel, PeelIn, PeelStep, Places, AnyID

LEMMA PathsEnd == WellFounded(Places, ShorterPath)
<1>. SUFFICES ASSUME NEW U \in SUBSET Places, U # {}
              PROVE  \E s \in U : \A t \in U : <<t, s>> \notin ShorterPath
  BY DEF WellFounded
<1>. DEFINE lengths == {Len(s[2]) : s \in U}
<1>1. lengths \in SUBSET Nat /\ lengths # {}
  <2>1. \A s \in U : s[2] \in Seq(STRING)  BY DEF Places
  <2>2. \A s \in U : Len(s[2]) \in Nat  BY <2>1
  <2>3. \E s : s \in U  OBVIOUS
  <2>. QED  BY <2>2, <2>3
<1>2. PICK m \in lengths : \A k \in lengths : m <= k
  <2>. HIDE DEF lengths
  <2>. QED  BY <1>1, Least
<1>3. PICK s \in U : m = Len(s[2])  OBVIOUS
<1>4. \A t \in U : Len(t[2]) \in Nat /\ Len(s[2]) <= Len(t[2])  BY <1>1, <1>2, <1>3
<1>5. \A t \in U : ~ (Len(t[2]) < Len(s[2]))  BY <1>4
<1>. QED  BY <1>5 DEF ShorterPath

(* The objects that a tree has are objects.                                *)
LEMMA EntriesAreIDs ==
    ASSUME NEW x \in ID, Kind[x] = "tree", NEW n \in DOMAIN Entries[x]
    PROVE  Entries[x][n] \in ID
<1>1. Links(x) = {Entries[x][m] : m \in DOMAIN Entries[x]}  BY DEF Links
<1>. QED  BY <1>1, ReadsAssumption

(* What PathStep makes of a tree's entry.                                  *)
LEMMA PathUnfolds ==
    ASSUME NEW O \in SUBSET ID, NEW none \in NoneError
    PROVE  \A s \in Places : PathIn(O, none)[s] = PathStep(O, none, s, PathIn(O, none))
<1>. DEFINE Value(s, f) == PathStep(O, none, s, f)
            T == Outcome
            G == [s \in Places |-> [f \in [Places -> T] |-> Value(s, f)]]
<1>1. ASSUME NEW s \in Places
      PROVE  LET tree == PeelIn(O, none, "GetTree")[s[1]]
                 p == s[2]
                 y == Entries[tree.obj][Head(p)]
             IN  /\ tree \in Outcome
                 /\ tree.err = "nil" => tree.obj \in AnyID
                 /\ tree.err = "nil" /\ p # << >> /\ Head(p) \in DOMAIN Entries[tree.obj] =>
                       /\ y \in AnyID
                       /\ <<y, Tail(p)>> \in Places
                       /\ <<<<y, Tail(p)>>, s>> \in ShorterPath
  <2>. DEFINE tree == PeelIn(O, none, "GetTree")[s[1]]
              p == s[2]
              y == Entries[tree.obj][Head(p)]
  <2>1. s[1] \in AnyID /\ p \in Seq(STRING)  BY DEF Places
  <2>2. tree \in Outcome /\ (tree.err = "nil" => tree.obj \in O /\ Wanted("GetTree", tree.obj))
    BY <2>1, PeelFindsWanted
  <2>. HIDE DEF tree, p
  <2>3. ASSUME tree.err = "nil", p # << >>, Head(p) \in DOMAIN Entries[tree.obj]
        PROVE  /\ y \in AnyID
               /\ <<y, Tail(p)>> \in Places
               /\ <<<<y, Tail(p)>>, s>> \in ShorterPath
    <3>1. Kind[tree.obj] = "tree" /\ tree.obj \in ID  BY <2>2, <2>3 DEF Wanted
    <3>2. y \in AnyID  BY <2>3, <3>1, EntriesAreIDs DEF AnyID
    <3>. HIDE DEF y
    <3>3. Tail(p) \in Seq(STRING) /\ Len(Tail(p)) < Len(p)  BY <2>1, <2>3
    <3>4. <<y, Tail(p)>> \in Places  BY <3>2, <3>3 DEF Places
    <3>. QED  BY <3>2, <3>3, <3>4 DEF ShorterPath, p
  <2>4. tree.err = "nil" => tree.obj \in AnyID  BY <2>2 DEF AnyID
  <2>. QED  BY <2>2, <2>3, <2>4 DEF tree, p
<1>2. G \in [Places -> [[Places -> T] -> T]]
  <2>. SUFFICES ASSUME NEW s \in Places, NEW f \in [Places -> T]
                PROVE  Value(s, f) \in T
    OBVIOUS
  <2>1. {"nil", "TypeError", "no such tree entry", none} \subseteq Error  BY ZenonT(60) DEF Error, NoneError
  <2>. DEFINE tree == PeelIn(O, none, "GetTree")[s[1]]
              p == s[2]
              y == Entries[tree.obj][Head(p)]
  <2>2. CASE tree.err # "nil" \/ p = << >>
    BY <1>1, <2>2 DEF PathStep
  <2>3. CASE tree.err = "nil" /\ p # << >> /\ Head(p) \notin DOMAIN Entries[tree.obj]
    <3>1. Value(s, f) = Found(tree.obj, "no such tree entry") /\ tree.obj \in AnyID
      BY <1>1, <2>3 DEF PathStep
    <3>. HIDE DEF tree, Value
    <3>. QED  BY <2>1, <3>1, FoundHas
  <2>4. CASE tree.err = "nil" /\ p # << >> /\ Head(p) \in DOMAIN Entries[tree.obj]
    <3>1. y \in AnyID /\ <<y, Tail(p)>> \in Places  BY <1>1, <2>4
    <3>2. Value(s, f) \in {Found(y, none), Found(y, "nil"), Found(y, "TypeError"),
                          f[<<y, Tail(p)>>]}
      BY <2>4 DEF PathStep
    <3>. HIDE DEF y, p, Value
    <3>3. {Found(y, none), Found(y, "nil"), Found(y, "TypeError")} \subseteq T
      <4>1. \A err \in Error : Found(y, err) \in Outcome  BY <3>1, FoundHas
      <4>. QED  BY <2>1, <4>1
    <3>4. f[<<y, Tail(p)>>] \in T  BY <3>1, SMTT(30)
    <3>. QED  BY <3>2, <3>3, <3>4
  <2>. QED  BY <2>2, <2>3, <2>4
<1>3. \A s \in Places : \A f, g \in [Places -> T] :
          (\A t \in Places : <<t, s>> \in ShorterPath => f[t] = g[t]) => Value(s, f) = Value(s, g)
  BY <1>1, ZenonT(60) DEF PathStep
<1>4. PICK f \in [Places -> T] : f = [s \in Places |-> G[s][f]]
  <2>1. T # {}
    <3>1. Found(ZeroID, "nil") \in T  BY FoundHas DEF Error, AnyID
    <3>. QED  BY <3>1
  <2>2. \A s \in Places : \A f \in [Places -> T] : G[s][f] = Value(s, f)  OBVIOUS
  <2>. HIDE DEF G, T, Value
  <2>3. LooksBefore(Places, T, ShorterPath, G)  BY <1>3, <2>2 DEF LooksBefore
  <2>4. Recursion(Places, T, ShorterPath, G)  BY <1>2, <2>1, <2>3, PathsEnd DEF Recursion
  <2>5. Solvable(Places, T, G)  BY <2>4, SolutionExists
  <2>. QED  BY <2>5 DEF Solvable
<1>5. f = [s \in Places |-> PathStep(O, none, s, f)]
  <2>1. \A s \in Places : G[s][f] = PathStep(O, none, s, f)  OBVIOUS
  <2>. HIDE DEF G, Value
  <2>. QED  BY <1>4, <2>1
<1>. DEFINE path == PathIn(O, none)
<1>6. path = [s \in Places |-> PathStep(O, none, s, path)]
  BY <1>5 DEF PathIn
<1>. HIDE DEF path
<1>7. \A s \in Places : path[s] = PathStep(O, none, s, path)  BY <1>6
<1>. QED  BY <1>7 DEF path

(* A set of numbers up to n has a last element.                            *)
LEMMA LastIsIn ==
    ASSUME NEW n \in Nat, NEW S \in SUBSET (1..n), S # {}
    PROVE  Max(S) \in S
<1>. DEFINE below == {n - k : k \in S}
<1>1. below \in SUBSET Nat /\ below # {}
  <2>1. \A k \in S : n - k \in Nat  OBVIOUS
  <2>2. \E k : k \in S  OBVIOUS
  <2>. QED  BY <2>1, <2>2
<1>2. PICK m \in below : \A k \in below : m <= k
  <2>. HIDE DEF below
  <2>. QED  BY <1>1, Least
<1>3. PICK x \in S : m = n - x  OBVIOUS
<1>4. \A k \in S : x >= k
  <2>. SUFFICES ASSUME NEW k \in S  PROVE x >= k
    OBVIOUS
  <2>1. n - x <= n - k  BY <1>2, <1>3
  <2>. QED  BY <2>1
<1>5. \E z \in S : \A k \in S : z >= k  BY <1>4
<1>. QED  BY <1>5 DEF Max

(* A path that is cleaned is a path of names.                              *)
LEMMA CleanIsPath ==
    ASSUME NEW path \in Seq(STRING)
    PROVE  Clean(path) \in Seq(STRING)
<1>. DEFINE S == SUBSET (DOMAIN path)
            T == Seq(STRING)
            R == StrictSubsetOrdering(DOMAIN path)
            After(acc, c) == IF c \in {"", "."} THEN acc
                             ELSE IF c # ".." THEN Append(acc, c)
                             ELSE IF acc = << >> THEN acc ELSE Front(acc)
            Value(s, f) == IF s = {} THEN << >> ELSE After(f[s \ {Max(s)}], path[Max(s)])
            G == [s \in S |-> [f \in [S -> T] |-> Value(s, f)]]
<1>1. WellFounded(S, R)
  <2>1. IsFiniteSet(DOMAIN path)
    <3>1. DOMAIN path = 1..Len(path) /\ Len(path) \in Nat  OBVIOUS
    <3>. QED  BY <3>1, FS_Interval
  <2>2. IsWellFoundedOn(R, S)
    <3>. HIDE DEF R
    <3>. QED  BY <2>1, FS_FiniteSubsetsOfFinite, FS_StrictSubsetOrderingWellFounded DEF R
  <2>. HIDE DEF R, S
  <2>. QED  BY <2>2, WFMin DEF WellFounded
<1>2. ASSUME NEW s \in S, s # {}
      PROVE  /\ Max(s) \in s /\ path[Max(s)] \in STRING
             /\ s \ {Max(s)} \in S /\ <<s \ {Max(s)}, s>> \in R
  <2>1. Max(s) \in s
    <3>1. Len(path) \in Nat /\ s \in SUBSET (1..Len(path))  OBVIOUS
    <3>. QED  BY <1>2, <3>1, LastIsIn
  <2>. QED  BY <2>1 DEF StrictSubsetOrdering
<1>3. \A acc \in T, c \in STRING : After(acc, c) \in T
  <2>. SUFFICES ASSUME NEW acc \in T, NEW c \in STRING  PROVE After(acc, c) \in T
    OBVIOUS
  <2>1. Append(acc, c) \in T
    <3>1. \A A : \A q \in Seq(A), a \in A : Append(q, a) \in Seq(A)  OBVIOUS
    <3>. QED  BY <3>1
  <2>2. acc # << >> => Front(acc) \in T
    <3>1. acc # << >> => Len(acc) \in Nat /\ Len(acc) - 1 \in Nat /\ Len(acc) - 1 <= Len(acc)
      OBVIOUS
    <3>2. acc # << >> => \A i \in 1..(Len(acc) - 1) : acc[i] \in STRING
      BY <3>1
    <3>. QED  BY <3>1, <3>2 DEF Front
  <2>. HIDE DEF T
  <2>. QED  BY <2>1, <2>2
<1>. HIDE DEF After
<1>4. G \in [S -> [[S -> T] -> T]]
  <2>. SUFFICES ASSUME NEW s \in S, NEW f \in [S -> T]
                PROVE  Value(s, f) \in T
    OBVIOUS
  <2>1. CASE s = {}  BY <2>1
  <2>2. CASE s # {}
    <3>1. f[s \ {Max(s)}] \in T /\ path[Max(s)] \in STRING  BY <1>2, <2>2
    <3>. HIDE DEF T
    <3>. QED  BY <1>3, <2>2, <3>1
  <2>. QED  BY <2>1, <2>2
<1>5. \A s \in S : \A f, g \in [S -> T] :
          (\A t \in S : <<t, s>> \in R => f[t] = g[t]) => Value(s, f) = Value(s, g)
  <2>. HIDE DEF R
  <2>. QED  BY <1>2
<1>6. PICK f \in [S -> T] : f = [s \in S |-> G[s][f]]
  <2>1. T # {} /\ \A s \in S : \A f \in [S -> T] : G[s][f] = Value(s, f)  OBVIOUS
  <2>. HIDE DEF G, T, Value, S, R
  <2>2. LooksBefore(S, T, R, G)  BY <1>5, <2>1 DEF LooksBefore
  <2>3. Recursion(S, T, R, G)  BY <1>1, <1>4, <2>1, <2>2 DEF Recursion
  <2>4. Solvable(S, T, G)  BY <2>3, SolutionExists
  <2>. QED  BY <2>4 DEF Solvable
<1>7. f = [s \in S |-> Value(s, f)]
  <2>1. \A s \in S : G[s][f] = Value(s, f)  OBVIOUS
  <2>. HIDE DEF G, Value, S, T
  <2>. QED  BY <1>6, <2>1
<1>. DEFINE iter == CHOOSE g : g = [s \in S |-> Value(s, g)]
<1>8. Clean(path) = iter[DOMAIN path]
  BY DEF Clean, FoldLeft, MapThenFoldSet, After
<1>9. iter = [s \in S |-> Value(s, iter)]
  <2>. HIDE DEF Value, S
  <2>. QED  BY <1>7
<1>. HIDE DEF iter
<1>10. \A s \in S : iter[s] = Value(s, iter)
  <2>. HIDE DEF Value, S
  <2>. QED  BY <1>9
<1>. DEFINE U == {s \in S : iter[s] \notin T}
<1>11. U = {}
  <2>. SUFFICES ASSUME U # {} PROVE FALSE
    OBVIOUS
  <2>1. PICK s \in U : \A t \in U : <<t, s>> \notin R
    <3>1. U \in SUBSET S  OBVIOUS
    <3>. HIDE DEF U, S, R
    <3>. QED  BY <1>1, <3>1 DEF WellFounded
  <2>2. s # {} => iter[s \ {Max(s)}] \in T
    <3>. HIDE DEF R, T
    <3>. QED  BY <1>2, <2>1
  <2>3. iter[s] \in T
    <3>1. iter[s] = Value(s, iter)  BY <1>10
    <3>2. s # {} => path[Max(s)] \in STRING  BY <1>2
    <3>3. << >> \in T  OBVIOUS
    <3>. HIDE DEF T, U
    <3>. QED  BY <1>3, <2>2, <3>1, <3>2, <3>3
  <2>. QED  BY <2>3
<1>12. DOMAIN path \in S  OBVIOUS
<1>. QED  BY <1>8, <1>11, <1>12

-----------------------------------------------------------------------------
(* Answers.  Whatever is stored from now on, what is to be made of the     *)
(* object that was asked for is what is to be made of the one at hand.     *)

Peeling == {"HasObject", "GetCommit", "GetTag", "GetTree"}

SamePeel ==
    \A O \in SUBSET ID : objects \subseteq O =>
        PeelIn(O, NotExist, call.op)[call.id] = PeelIn(O, NotExist, call.op)[at]

SamePath ==
    \A O \in SUBSET ID : objects \subseteq O =>
        PathIn(O, NotExist)[<<call.id, Clean(call.path)>>] = PathIn(O, NotExist)[<<at, todo>>]

(* The answer is what is to be said of where the function ended.           *)
Ended(end, a) == a = Answer(end.obj, a.id, end.err)

(* GetPath's answer is that for the end of its path, with its ID for "/".  *)
PathEnded(path, end, a) == Ended(end, a) /\ (path = << >> => a.id = end.obj)

Dereferencing ==
    call.op \in Peeling =>
        /\ call.id \in AnyID /\ pc \in {"GetObject", "done"}
        /\ pc = "GetObject" => at \in AnyID /\ SamePeel
        /\ pc = "done" /\ failed = {} =>
              Ended(PeelIn(objects, NotExist, call.op)[call.id], answer)
              /\ answer.id = PeelIn(objects, NotExist, call.op)[call.id].obj

GettingPath ==
    call.op = "GetPath" =>
        /\ call.id \in AnyID /\ Clean(call.path) \in Seq(STRING)
        /\ pc \in {"GetObject", "entry", "done"}
        /\ pc # "done" => at \in AnyID /\ todo \in Seq(STRING) /\ SamePath
        /\ pc # "done" /\ Clean(call.path) = << >> => todo = << >>
        /\ pc = "entry" => at \in objects /\ Kind[at] = "tree" /\ todo # << >>
        /\ pc = "done" /\ failed = {} =>
              PathEnded(Clean(call.path),
                        PathIn(objects, NotExist)[<<call.id, Clean(call.path)>>], answer)

Answering == Dereferencing /\ GettingPath

(* Other calls and other requests are no matter.                           *)
LEMMA OthersKeepAnswering ==
    ASSUME Answering, UNCHANGED call,
           \/ call.op \notin Peeling \cup {"GetPath"}
           \/ /\ UNCHANGED <<pc, at, todo, answer, failed>> /\ objects \subseteq objects'
              /\ pc # "done" \/ objects' = objects
    PROVE  Answering'
<1>. USE DEF Answering
<1>1. CASE call.op \notin Peeling \cup {"GetPath"}
  BY <1>1 DEF Dereferencing, GettingPath
<1>2. CASE /\ UNCHANGED <<pc, at, todo, answer, failed>> /\ objects \subseteq objects'
           /\ pc # "done" \/ objects' = objects
  <2>1. NotExist' = NotExist  BY DEF NotExist
  <2>2. SamePeel => SamePeel'  BY <1>2, <2>1 DEF SamePeel
  <2>3. SamePath => SamePath'  BY <1>2, <2>1 DEF SamePath
  <2>. QED  BY <1>2, <2>1, <2>2, <2>3 DEF Dereferencing, GettingPath
<1>. QED  BY <1>1, <1>2

(* The object at hand is the one asked for.                                *)
LEMMA CallBeginsAnswering ==
    ASSUME Inv, Call
    PROVE  Answering'
<1>1. PICK c \in Calls :
           /\ call' = c
           /\ pc' = CASE c.op = "AdvertiseRefs" -> "ListRefs"
                      [] c.op = "FindRef"       -> "GetRef"
                      [] OTHER                  -> "GetObject"
           /\ at' = IF "id" \in DOMAIN c THEN c.id ELSE ZeroID
           /\ todo' = CASE c.op = "FindRef" -> c.names
                        [] c.op = "GetPath" -> Clean(c.path)
                        [] OTHER            -> << >>
  BY DEF Call
<1>2. ASSUME c.op \in Peeling \cup {"GetPath"}
      PROVE  at' = c.id /\ c.id \in AnyID /\ pc' = "GetObject"
  <2>1. c.op \notin {"FindRef", "AdvertiseRefs"}  BY <1>2 DEF Peeling
  <2>. QED  BY <1>1, <2>1, ReadsAssumption DEF AnyID
<1>3. Dereferencing'  BY <1>1, <1>2 DEF Dereferencing, SamePeel
<1>4. ASSUME c.op = "GetPath"
      PROVE  Clean(c.path) \in Seq(STRING) /\ todo' = Clean(c.path)
  BY <1>1, <1>4, ReadsAssumption, CleanIsPath
<1>5. GettingPath'  BY <1>1, <1>2, <1>4 DEF GettingPath, SamePath
<1>. QED  BY <1>3, <1>5 DEF Answering

(* What is said of what is not there.                                      *)
LEMMA NotExistIsError == NotExist \in NoneError
BY DEF NotExist, NoneError

(* An object that goes on is as good as the next.                          *)
LEMMA GoingOnIsSame ==
    ASSUME NEW O \in SUBSET ID, NEW none \in NoneError, NEW x \in O
    PROVE  /\ \A mode : GoesOn(mode, x) =>
                 PeelIn(O, none, mode)[x] = PeelIn(O, none, mode)[Target[x]]
           /\ \A p \in Seq(STRING) : GoesOn("GetTree", x) =>
                 PathIn(O, none)[<<x, p>>] = PathIn(O, none)[<<Target[x], p>>]
<1>1. x \in AnyID  BY DEF AnyID
<1>2. ASSUME NEW mode, GoesOn(mode, x)
      PROVE  PeelIn(O, none, mode)[x] = PeelIn(O, none, mode)[Target[x]]
  BY <1>1, <1>2, PeelUnfolds DEF PeelStep
<1>3. ASSUME NEW p \in Seq(STRING), GoesOn("GetTree", x)
      PROVE  PathIn(O, none)[<<x, p>>] = PathIn(O, none)[<<Target[x], p>>]
  <2>1. Target[x] \in AnyID  BY <1>3, GoesOnAlongLinks
  <2>2. <<x, p>> \in Places /\ <<Target[x], p>> \in Places  BY <1>1, <2>1 DEF Places
  <2>3. PeelIn(O, none, "GetTree")[x] = PeelIn(O, none, "GetTree")[Target[x]]
    BY <1>2, <1>3
  <2>4. PathStep(O, none, <<x, p>>, PathIn(O, none))
          = PathStep(O, none, <<Target[x], p>>, PathIn(O, none))
    BY <2>3 DEF PathStep
  <2>. QED  BY <2>2, <2>4, PathUnfolds
<1>. QED  BY <1>2, <1>3

(* GetCommit, GetTag or GetTree is done with an object, which is what      *)
(* they make of it.                                                        *)
LEMMA PeelEnds ==
    ASSUME NEW O \in SUBSET ID, NEW none \in NoneError, NEW mode, NEW x \in AnyID,
           x \in O => ~ GoesOn(mode, x)
    PROVE  PeelIn(O, none, mode)[x] =
               Found(x, IF x \notin O THEN none ELSE IF Wanted(mode, x) THEN "nil" ELSE "TypeError")
BY PeelUnfolds DEF PeelStep

(* A function that is done with an object answers with it.                 *)
LEMMA DereferencedEnds ==
    ASSUME NEW err, Dereferenced(err), call.op # "AdvertiseRefs",
           ~ (call.op = "GetPath" /\ err = "nil" /\ todo # << >>)
    PROVE  pc' = "done" /\ Ended(Found(at, err), answer') /\ answer'.id = at
<1>1. Return(at, at, err)  BY DEF Dereferenced
<1>2. Found(at, err).obj = at /\ Found(at, err).err = err  BY DEF Found
<1>3. answer' = Answer(at, at, err) /\ answer'.id = at  BY <1>1 DEF Return, Answer
<1>. QED  BY <1>1, <1>2, <1>3 DEF Return, Ended

(* HasObject, GetCommit, GetTag and GetTree follow an object or answer.    *)
LEMMA GetObjectKeepsDereferencing ==
    ASSUME Inv, Answering, GetObject, call.op \in Peeling
    PROVE  Answering'
<1>. DEFINE none == NotExist
            peel(O) == PeelIn(O, none, call.op)
<1>1. /\ objects \in SUBSET ID /\ call.op # "GetPath" /\ call.op # "AdvertiseRefs"
      /\ UNCHANGED <<objects, call, failed>> /\ NotExist' = none /\ none \in NoneError
      /\ call.id \in AnyID /\ at \in AnyID /\ SamePeel /\ pc = "GetObject" /\ Mode = call.op
  BY NotExistIsError DEF Inv, TypeOK, Answering, Dereferencing, GetObject, repo, NotExist, Peeling, Mode
<1>2. GettingPath'  BY <1>1 DEF GettingPath
<1>3. CASE at \in objects /\ GoesOn(Mode, at)
  <2>1. at' = Target[at] /\ pc' = pc /\ at' \in AnyID
    BY <1>1, <1>3, GoesOnAlongLinks DEF GetObject
  <2>2. SamePeel'
    <3>. SUFFICES ASSUME NEW O \in SUBSET ID, objects \subseteq O
                  PROVE  peel(O)[call.id] = peel(O)[Target[at]]
      BY <1>1, <2>1 DEF SamePeel
    <3>1. peel(O)[call.id] = peel(O)[at]  BY <1>1 DEF SamePeel
    <3>2. peel(O)[at] = peel(O)[Target[at]]  BY <1>1, <1>3, GoingOnIsSame, ZenonT(60)
    <3>. QED  BY <3>1, <3>2
  <2>. QED  BY <1>1, <1>2, <2>1, <2>2 DEF Answering, Dereferencing
<1>4. CASE at \in objects => ~ GoesOn(Mode, at)
  <2>1. peel(objects)[call.id] = peel(objects)[at]  BY <1>1 DEF SamePeel
  <2>2. peel(objects)[at] =
            Found(at, IF at \notin objects THEN none
                      ELSE IF Wanted(call.op, at) THEN "nil" ELSE "TypeError")
    BY <1>1, <1>4, PeelEnds
  <2>3. Dereferenced(IF at \notin objects THEN none
                     ELSE IF Wanted(call.op, at) THEN "nil" ELSE "TypeError")
    BY <1>1, <1>4 DEF GetObject
  <2>4. pc' = "done" /\ Ended(peel(objects)[at], answer') /\ answer'.id = peel(objects)[at].obj
    <3>. DEFINE err == IF at \notin objects THEN none
                       ELSE IF Wanted(call.op, at) THEN "nil" ELSE "TypeError"
    <3>1. Dereferenced(err)  BY <2>3
    <3>2. peel(objects)[at] = Found(at, err)  BY <2>2
    <3>3. Found(at, err).obj = at  BY DEF Found
    <3>. HIDE DEF err
    <3>4. pc' = "done" /\ Ended(Found(at, err), answer') /\ answer'.id = at
      BY <1>1, <3>1, DereferencedEnds DEF Peeling
    <3>. QED  BY <3>2, <3>3, <3>4
  <2>. QED  BY <1>1, <1>2, <2>1, <2>4 DEF Answering, Dereferencing
<1>. QED  BY <1>3, <1>4

(* GetPath follows an object to a tree, and ends there or goes on with its *)
(* entries.                                                                *)
LEMMA GetObjectKeepsGettingPath ==
    ASSUME Inv, Answering, GetObject, call.op = "GetPath"
    PROVE  Answering'
<1>. DEFINE none == NotExist
            path(O) == PathIn(O, none)
            start == <<call.id, Clean(call.path)>>
<1>1. /\ objects \in SUBSET ID
      /\ UNCHANGED <<objects, call, failed>> /\ NotExist' = none /\ none \in NoneError
      /\ call.id \in AnyID /\ Clean(call.path) \in Seq(STRING)
      /\ at \in AnyID /\ todo \in Seq(STRING) /\ SamePath /\ pc = "GetObject" /\ Mode = "GetTree"
      /\ Clean(call.path) = << >> => todo = << >>
  BY NotExistIsError DEF Inv, TypeOK, Answering, GettingPath, GetObject, repo, NotExist, Mode
<1>2. Dereferencing'  BY <1>1 DEF Dereferencing, Peeling
<1>3. CASE at \in objects /\ GoesOn(Mode, at)
  <2>1. at' = Target[at] /\ pc' = pc /\ todo' = todo /\ at' \in AnyID
    BY <1>1, <1>3, GoesOnAlongLinks DEF GetObject
  <2>2. SamePath'
    <3>. SUFFICES ASSUME NEW O \in SUBSET ID, objects \subseteq O
                  PROVE  path(O)[start] = path(O)[<<Target[at], todo>>]
      BY <1>1, <2>1 DEF SamePath
    <3>1. path(O)[start] = path(O)[<<at, todo>>]  BY <1>1 DEF SamePath
    <3>2. path(O)[<<at, todo>>] = path(O)[<<Target[at], todo>>]  BY <1>1, <1>3, GoingOnIsSame
    <3>. QED  BY <3>1, <3>2
  <2>. QED  BY <1>1, <1>2, <2>1, <2>2 DEF Answering, GettingPath
<1>4. CASE at \in objects => ~ GoesOn(Mode, at)
  <2>. DEFINE err == IF at \notin objects THEN none
                     ELSE IF Wanted("GetTree", at) THEN "nil" ELSE "TypeError"
  <2>1. path(objects)[start] = path(objects)[<<at, todo>>]  BY <1>1 DEF SamePath
  <2>2. PeelIn(objects, none, "GetTree")[at] = Found(at, err)  BY <1>1, <1>4, PeelEnds
  <2>3. Dereferenced(err) /\ at' = at  BY <1>1, <1>4 DEF GetObject
  <2>4. err = "nil" => at \in objects /\ Kind[at] = "tree"
    BY <1>1 DEF Wanted, NoneError
  <2>5. path(objects)[<<at, todo>>] = PathStep(objects, none, <<at, todo>>, path(objects))
    <3>1. <<at, todo>> \in Places  BY <1>1 DEF Places
    <3>. QED  BY <1>1, <3>1, PathUnfolds
  <2>. HIDE DEF err
  <2>6. CASE err = "nil" /\ todo # << >>
    <3>1. pc' = "entry" /\ todo' = todo  BY <1>1, <2>3, <2>6 DEF Dereferenced
    <3>2. SamePath'  BY <1>1, <2>3, <3>1 DEF SamePath
    <3>. QED  BY <1>1, <1>2, <2>3, <2>4, <2>6, <3>1, <3>2 DEF Answering, GettingPath
  <2>7. CASE ~ (err = "nil" /\ todo # << >>)
    <3>1. pc' = "done" /\ PathEnded(Clean(call.path), Found(at, err), answer')
      <4>1. pc' = "done" /\ Ended(Found(at, err), answer') /\ answer'.id = at
        BY <1>1, <2>3, <2>7, DereferencedEnds
      <4>. QED  BY <4>1 DEF PathEnded, Found
    <3>2. path(objects)[<<at, todo>>] = Found(at, err)
      <4>1. Found(at, err).err = err  BY DEF Found
      <4>2. <<at, todo>>[1] = at /\ <<at, todo>>[2] = todo  OBVIOUS
      <4>. QED  BY <2>2, <2>5, <2>7, <4>1, <4>2 DEF PathStep
    <3>. QED  BY <1>1, <1>2, <2>1, <3>1, <3>2 DEF Answering, GettingPath
  <2>. QED  BY <2>6, <2>7
<1>. QED  BY <1>3, <1>4

(* GetPath's next name: its tree has none, or an object that is the one    *)
(* asked for, or that is gone on from.                                     *)
LEMMA EntryKeepsAnswering ==
    ASSUME Inv, Answering, Entry \/ NoEntry
    PROVE  Answering'
<1>. DEFINE none == NotExist
            path(O) == PathIn(O, none)
            start == <<call.id, Clean(call.path)>>
            n == Head(todo)
            rest == Tail(todo)
            x == Entries[at][n]
<1>1. /\ pc = "entry" /\ UNCHANGED <<objects, call, failed>>
  BY DEF Entry, NoEntry, repo
<1>2. CASE call.op # "GetPath"
  <2>1. call.op \notin Peeling  BY <1>1 DEF Answering, Dereferencing
  <2>. QED  BY <1>1, <1>2, <2>1, OthersKeepAnswering
<1>3. CASE call.op = "GetPath"
  <2>1. /\ objects \in SUBSET ID /\ NotExist' = none /\ none \in NoneError
        /\ call.id \in AnyID /\ Clean(call.path) \in Seq(STRING)
        /\ at \in objects /\ Kind[at] = "tree" /\ at \in AnyID
        /\ todo \in Seq(STRING) /\ todo # << >> /\ SamePath /\ Clean(call.path) # << >>
    BY <1>1, <1>3, NotExistIsError DEF Inv, TypeOK, Answering, GettingPath, NotExist
  <2>2. Dereferencing'  BY <1>1, <1>3 DEF Dereferencing, Peeling
  <2>3. \A O \in SUBSET ID : objects \subseteq O =>
            path(O)[start] =
                IF n \notin DOMAIN Entries[at] THEN Found(at, "no such tree entry")
                ELSE IF x \notin O THEN Found(x, none)
                ELSE IF rest = << >> THEN Found(x, "nil")
                ELSE IF Kind[x] = "tag" THEN Found(x, "TypeError")
                ELSE path(O)[<<x, rest>>]
    <3>. SUFFICES ASSUME NEW O \in SUBSET ID, objects \subseteq O
                  PROVE  path(O)[start] =
                            IF n \notin DOMAIN Entries[at] THEN Found(at, "no such tree entry")
                            ELSE IF x \notin O THEN Found(x, none)
                            ELSE IF rest = << >> THEN Found(x, "nil")
                            ELSE IF Kind[x] = "tag" THEN Found(x, "TypeError")
                            ELSE path(O)[<<x, rest>>]
      OBVIOUS
    <3>1. path(O)[start] = path(O)[<<at, todo>>]  BY <2>1 DEF SamePath
    <3>2. <<at, todo>> \in Places  BY <2>1 DEF Places
    <3>3. path(O)[<<at, todo>>] = PathStep(O, none, <<at, todo>>, path(O))
      BY <2>1, <3>2, PathUnfolds
    <3>4. ~ GoesOn("GetTree", at) /\ Wanted("GetTree", at) /\ at \in O
      BY <2>1 DEF GoesOn, Wanted
    <3>5. PeelIn(O, none, "GetTree")[at] = Found(at, "nil")  BY <2>1, <3>4, PeelEnds
    <3>6. Found(at, "nil").err = "nil" /\ Found(at, "nil").obj = at  BY DEF Found
    <3>7. <<at, todo>>[1] = at /\ <<at, todo>>[2] = todo  OBVIOUS
    <3>. HIDE DEF path
    <3>. QED  BY <2>1, <3>1, <3>3, <3>5, <3>6, <3>7 DEF PathStep
  <2>4. ASSUME NEW err, NEW obj, NEW i, Return(obj, i, err),
               path(objects)[start] = Found(obj, err)
        PROVE  Answering'
    <3>1. PathEnded(Clean(call.path), Found(obj, err), answer')
      BY <2>1, <2>4 DEF Return, Found, Ended, PathEnded, Answer
    <3>. QED  BY <1>1, <2>1, <2>2, <2>4, <3>1 DEF Answering, GettingPath, Return
  <2>5. CASE NoEntry
    BY <2>1, <2>3, <2>4, <2>5 DEF NoEntry
  <2>6. CASE Entry
    <3>1. n \in DOMAIN Entries[at] /\ todo' = rest /\ x \in AnyID
      BY <2>1, <2>6, EntriesAreIDs DEF Entry, AnyID
    <3>2. rest \in Seq(STRING)  BY <2>1
    <3>3. CASE x \in objects /\ rest # << >> /\ Kind[x] = "tree" /\ at' = x /\ UNCHANGED <<pc, answer>>
      <4>1. SamePath'
        <5>. SUFFICES ASSUME NEW O \in SUBSET ID, objects \subseteq O
                      PROVE  path(O)[start] = path(O)[<<x, rest>>]
          BY <1>1, <2>1, <3>1, <3>3 DEF SamePath
        <5>. QED  BY <2>3, <3>1, <3>3
      <4>. QED  BY <1>1, <2>1, <2>2, <3>1, <3>2, <3>3, <4>1 DEF Answering, GettingPath
    <3>4. CASE /\ x \in objects /\ rest # << >> /\ Kind[x] = "commit"
               /\ at' = Target[x] /\ pc' = "GetObject"
      <4>1. GoesOn("GetTree", x) /\ x \in ID  BY <2>1, <3>4 DEF GoesOn
      <4>2. Target[x] \in AnyID  BY <4>1, GoesOnAlongLinks
      <4>3. SamePath'
        <5>. SUFFICES ASSUME NEW O \in SUBSET ID, objects \subseteq O
                      PROVE  path(O)[start] = path(O)[<<Target[x], rest>>]
          BY <1>1, <2>1, <3>1, <3>4 DEF SamePath
        <5>1. path(O)[start] = path(O)[<<x, rest>>]  BY <2>3, <3>1, <3>4
        <5>2. path(O)[<<x, rest>>] = path(O)[<<Target[x], rest>>]
          BY <2>1, <3>2, <3>4, <4>1, GoingOnIsSame
        <5>. QED  BY <5>1, <5>2
      <4>. QED  BY <1>1, <2>1, <2>2, <3>1, <3>2, <3>4, <4>2, <4>3 DEF Answering, GettingPath
    <3>5. CASE /\ (x \in objects /\ rest # << >> => Kind[x] \in {"blob", "tag"})
               /\ Return(x, id, IF x \notin objects THEN none
                            ELSE IF rest # << >> THEN "TypeError" ELSE "nil")
      <4>1. ASSUME x \in objects, rest # << >>, Kind[x] = "blob"
            PROVE  path(objects)[<<x, rest>>] = Found(x, "TypeError")
        <5>1. ~ GoesOn("GetTree", x) /\ ~ Wanted("GetTree", x)  BY <4>1 DEF GoesOn, Wanted
        <5>2. PeelIn(objects, none, "GetTree")[x] = Found(x, "TypeError")
          BY <2>1, <3>1, <4>1, <5>1, PeelEnds
        <5>3. Found(x, "TypeError").err # "nil"  BY DEF Found
        <5>4. <<x, rest>> \in Places  BY <3>1, <3>2 DEF Places
        <5>5. path(objects)[<<x, rest>>] = PathStep(objects, none, <<x, rest>>, path(objects))
          BY <2>1, <5>4, PathUnfolds
        <5>6. <<x, rest>>[1] = x  OBVIOUS
        <5>. HIDE DEF path, x, rest
        <5>. QED  BY <5>2, <5>3, <5>5, <5>6 DEF PathStep
      <4>2. path(objects)[start] =
                Found(x, IF x \notin objects THEN none
                         ELSE IF rest # << >> THEN "TypeError" ELSE "nil")
        <5>. HIDE DEF path, x, rest, start
        <5>. QED  BY <2>1, <2>3, <3>1, <3>5, <4>1
      <4>. QED  BY <2>4, <3>5, <4>2
    <3>. QED  BY <2>6, <3>3, <3>4, <3>5 DEF Entry
  <2>. QED  BY <2>5, <2>6
<1>. QED  BY <1>2, <1>3

(* A method that fails ends the call.                                      *)
LEMMA FailKeepsAnswering ==
    ASSUME Answering, Fail
    PROVE  Answering'
<1>1. failed' # {} /\ UNCHANGED <<objects, call>>  BY DEF Fail, repo
<1>2. CASE call.op \notin Peeling \cup {"GetPath"}  BY <1>1, <1>2, OthersKeepAnswering
<1>3. CASE call.op \in Peeling \cup {"GetPath"}
  <2>1. pc \in {"GetObject", "entry", "done"} /\ call.op \notin {"AdvertiseRefs", "FindRef"}
    BY <1>3 DEF Answering, Dereferencing, GettingPath, Peeling
  <2>2. pc' = "done"
    BY <2>1 DEF Fail, FailsToDereference, FailsToFindEntry, FailsToFindRef, FailsToListRefs,
                FailsToGetHEAD, Dereferenced, Return
  <2>. QED  BY <1>1, <2>2 DEF Answering, Dereferencing, GettingPath
<1>. QED  BY <1>2, <1>3

(* Every step keeps to the answer.                                         *)
LEMMA StaysAnswering == Inv /\ Inv' /\ Answering /\ [Next]_vars => Answering'
<1>. SUFFICES ASSUME Inv, Inv', Answering, [Next]_vars
              PROVE  Answering'
  OBVIOUS
<1>1. CASE UNCHANGED vars  BY <1>1, OthersKeepAnswering DEF vars, repo, locals
<1>2. CASE PutObject \/ UpdateRef \/ SetHEAD
  <2>1. /\ UNCHANGED <<call, pc, at, todo, answer, failed>> /\ pc # "done"
        /\ objects \subseteq objects'
    BY <1>2 DEF PutObject, UpdateRef, SetHEAD, Others, locals
  <2>. QED  BY <2>1, OthersKeepAnswering
<1>3. CASE Call  BY <1>3, CallBeginsAnswering
<1>4. CASE GetObject
  <2>1. CASE call.op \notin Peeling \cup {"GetPath"}
    BY <1>4, <2>1, OthersKeepAnswering DEF GetObject
  <2>. QED
    BY <1>4, <2>1, GetObjectKeepsDereferencing, GetObjectKeepsGettingPath
<1>5. CASE Entry \/ NoEntry  BY <1>5, EntryKeepsAnswering
<1>6. CASE TryRef \/ ListRefs \/ GetHEAD \/ GetRef \/ WriteLine \/ Flush
  <2>1. UNCHANGED call /\ pc \in {"GetRef", "ListRefs", "GetHEAD", "line"}
    BY <1>6 DEF TryRef, ListRefs, GetHEAD, GetRef, WriteLine, Flush
  <2>2. call.op \notin Peeling \cup {"GetPath"}
    BY <2>1 DEF Answering, Dereferencing, GettingPath
  <2>. QED  BY <2>1, <2>2, OthersKeepAnswering
<1>7. CASE Fail  BY <1>7, FailKeepsAnswering
<1>. QED  BY <1>1, <1>2, <1>3, <1>4, <1>5, <1>6, <1>7 DEF Next, Step

(* The object, the error and the ID (of GetPath only that of "/") that     *)
(* HasObject, GetCommit, GetTag, GetTree and GetPath give after reading    *)
(* object by object, while others store more, are what they would have     *)
(* given in the moment they return: for any objects, however deep the tags *)
(* and trees.                                                              *)
THEOREM AnswersAreOfOneMoment == Spec => []AnswersStand
<1>1. Init => Answering
  BY DEF Init, Answering, Dereferencing, GettingPath, Peeling
<1>2. Inv /\ Answering => AnswersStand
  BY PeelIsPeelIn, PathIsPathIn
     DEF Answering, Dereferencing, GettingPath, Peeling, AnswersStand, Ended, PathEnded
<1>. QED  BY <1>1, <1>2, Initially, Inductive, StaysAnswering, PTL DEF Spec

-----------------------------------------------------------------------------
(* Peeled lines.  A ref that is listed points at an object all of which is *)
(* there, and stays there, so that it matters not in what moment its tags  *)
(* are followed.                                                           *)

Held(x) == Closure[x] \subseteq objects

Tag(x) == PeelIn(ID, "ErrObjectNotExist", "GetTag")[x]

PeeledLine(line) == [name |-> line.name, peeled |-> TRUE, id |-> Target[Tag(line.id).obj]]

RefsHeld == \A n \in RefName : Held(refs[n])

ListHeld ==
    /\ \A i \in DOMAIN todo : Held(todo[i].id)
    /\ \A i \in DOMAIN lines : ~ lines[i].peeled => Held(lines[i].id)

(* The last line is that of the object whose tags are followed.            *)
Following ==
    pc = "GetObject" =>
        /\ lines # << >> /\ todo # << >>
        /\ LET line == lines[Len(lines)]
           IN  ~ line.peeled /\ line.name = Head(todo).name /\ Tag(line.id) = Tag(at)
        /\ at \in AnyID /\ Held(at)

(* Lines of tags are followed by their peeled lines, save the last that is *)
(* being followed.                                                         *)
TagsFollowed ==
    \A i \in DOMAIN lines :
        ~ lines[i].peeled /\ Tag(lines[i].id).err = "nil" /\ failed = {}
          /\ (i # Len(lines) \/ pc # "GetObject") =>
            /\ i < Len(lines)
            /\ lines[i + 1] = PeeledLine(lines[i])

PeeledFollow ==
    \A i \in DOMAIN lines : lines[i].peeled =>
        /\ i > 1 /\ ~ lines[i - 1].peeled
        /\ Tag(lines[i - 1].id).err = "nil"
        /\ lines[i] = PeeledLine(lines[i - 1])

AllPeeled ==
    /\ RefsHeld
    /\ call.op = "AdvertiseRefs" => ListHeld /\ Following /\ TagsFollowed /\ PeeledFollow

(* All that an object leads to through tags is in its closure.             *)
LEMMA HeldIsPeeled ==
    ASSUME NEW O \in SUBSET ID, NEW none \in NoneError, NEW mode,
           NEW x \in AnyID, Closure[x] \subseteq O
    PROVE  PeelIn(O, none, mode)[x] = PeelIn(ID, none, mode)[x]
<1>. DEFINE here == PeelIn(O, none, mode)
            all == PeelIn(ID, none, mode)
            U == {y \in AnyID : Closure[y] \subseteq O /\ here[y] # all[y]}
<1>. SUFFICES ASSUME U # {} PROVE FALSE
  OBVIOUS
<1>1. \A y \in AnyID : /\ here[y] = PeelStep(O, none, mode, y, here)
                       /\ all[y] = PeelStep(ID, none, mode, y, all)
  BY PeelUnfolds
<1>. HIDE DEF here, all
<1>2. PICK y \in U : \A z \in U : <<z, y>> \notin LinkedBefore
  <2>1. U \in SUBSET AnyID  OBVIOUS
  <2>. HIDE DEF U
  <2>. QED  BY <2>1, LinksEnd DEF WellFounded
<1>3. y \in AnyID /\ Closure[y] \subseteq O /\ here[y] # all[y]  OBVIOUS
<1>4. y \in ID
  <2>1. ZeroID \notin ID /\ ZeroID \notin O  BY ReadsAssumption
  <2>2. y = ZeroID => here[y] = Found(y, none) /\ all[y] = Found(y, none)
    BY <1>1, <1>3, <2>1 DEF PeelStep
  <2>. QED  BY <1>3, <2>2 DEF AnyID
<1>5. y \in O /\ \A z \in Links(y) : Closure[z] \subseteq O
  <2>1. y # ZeroID  BY <1>4, ReadsAssumption
  <2>2. Closure[y] = {y} \cup UNION {Closure[z] : z \in Links(y)}
    BY <1>3, <2>1, ClosureUnfolds
  <2>. HIDE DEF U
  <2>. QED  BY <1>3, <2>2
<1>6. CASE GoesOn(mode, y)
  <2>1. Target[y] \in AnyID /\ <<Target[y], y>> \in LinkedBefore
    BY <1>4, <1>6, GoesOnAlongLinks
  <2>2. Target[y] \in Links(y)  BY <1>6 DEF GoesOn, Links
  <2>3. here[Target[y]] = all[Target[y]]  BY <1>2, <1>5, <2>1, <2>2
  <2>4. here[y] = here[Target[y]] /\ all[y] = all[Target[y]]
    BY <1>1, <1>3, <1>4, <1>5, <1>6 DEF PeelStep
  <2>. QED  BY <1>3, <2>3, <2>4
<1>7. CASE ~ GoesOn(mode, y)
  <2>1. here[y] = all[y]  BY <1>1, <1>3, <1>4, <1>5, <1>7 DEF PeelStep
  <2>. QED  BY <1>3, <2>1
<1>. QED  BY <1>6, <1>7

LEMMA NothingIsHeld == Held(ZeroID)
BY ClosureUnfolds DEF Held, AnyID

(* A tag that is followed is as good as its object, if it is a tag's.      *)
LEMMA FollowedIsSame ==
    ASSUME NEW x \in AnyID, Held(x), objects \in SUBSET ID
    PROVE  /\ x \in objects \/ x = ZeroID
           /\ x \notin objects => Tag(x).err # "nil"
           /\ x \in objects /\ GoesOn("GetTag", x) =>
                 Target[x] \in AnyID /\ Held(Target[x]) /\ Tag(x) = Tag(Target[x])
           /\ x \in objects /\ ~ GoesOn("GetTag", x) =>
                 Tag(x) = Found(x, IF Wanted("GetTag", x) THEN "nil" ELSE "TypeError")
<1>1. "ErrObjectNotExist" \in NoneError /\ ID \in SUBSET ID  BY DEF NoneError
<1>2. x # ZeroID => x \in ID /\ x \in objects /\ \A y \in Links(x) : Held(y)
  <2>. SUFFICES ASSUME x # ZeroID
                PROVE  x \in ID /\ x \in objects /\ \A y \in Links(x) : Held(y)
    OBVIOUS
  <2>1. Closure[x] = {x} \cup UNION {Closure[y] : y \in Links(x)}  BY ClosureUnfolds
  <2>. QED  BY <2>1 DEF Held, AnyID
<1>3. ZeroID \notin ID  BY ReadsAssumption
<1>4. ASSUME x \notin objects
      PROVE  Tag(x).err # "nil"
  <2>1. x = ZeroID  BY <1>2, <1>4
  <2>2. Tag(x) = Found(x, "ErrObjectNotExist")  BY <1>1, <1>3, <2>1, PeelEnds DEF Tag
  <2>. QED  BY <2>2 DEF Found
<1>5. ASSUME x \in objects, GoesOn("GetTag", x)
      PROVE  Target[x] \in AnyID /\ Held(Target[x]) /\ Tag(x) = Tag(Target[x])
  <2>1. x \in ID  BY <1>5
  <2>2. Target[x] \in AnyID  BY <1>5, <2>1, GoesOnAlongLinks
  <2>3. Target[x] \in Links(x)  BY <1>5 DEF GoesOn, Links
  <2>4. Tag(x) = Tag(Target[x])  BY <1>1, <1>5, <2>1, GoingOnIsSame, ZenonT(60) DEF Tag
  <2>. QED  BY <1>2, <1>3, <2>1, <2>2, <2>3, <2>4
<1>6. ASSUME x \in objects, ~ GoesOn("GetTag", x)
      PROVE  Tag(x) = Found(x, IF Wanted("GetTag", x) THEN "nil" ELSE "TypeError")
  <2>1. x \in ID  BY <1>6
  <2>. QED  BY <1>1, <1>6, <2>1, PeelEnds DEF Tag
<1>. QED  BY <1>2, <1>4, <1>5, <1>6

(* Objects are never taken away.                                           *)
LEMMA HeldStays == objects \subseteq objects' => \A x : Held(x) => Held(x)'
BY DEF Held

(* Other requests, and the calls of other functions, are no matter.        *)
LEMMA OthersKeepPeeled ==
    ASSUME AllPeeled, UNCHANGED call, objects \subseteq objects', RefsHeld',
           \/ call.op # "AdvertiseRefs"
           \/ UNCHANGED <<pc, at, todo, lines, failed>>
    PROVE  AllPeeled'
<1>1. CASE call.op # "AdvertiseRefs"  BY <1>1 DEF AllPeeled
<1>2. CASE UNCHANGED <<pc, at, todo, lines, failed>>
  <2>1. ListHeld => ListHeld'  BY <1>2, HeldStays DEF ListHeld
  <2>2. Following => Following'  BY <1>2, HeldStays DEF Following
  <2>3. TagsFollowed => TagsFollowed'  BY <1>2 DEF TagsFollowed, PeeledLine
  <2>4. PeeledFollow => PeeledFollow'  BY <1>2 DEF PeeledFollow, PeeledLine
  <2>. QED  BY <2>1, <2>2, <2>3, <2>4 DEF AllPeeled
<1>. QED  BY <1>1, <1>2

(* A ref is only set to an object all of which is there.                   *)
LEMMA UpdateRefKeepsPeeled ==
    ASSUME Inv, AllPeeled, UpdateRef
    PROVE  AllPeeled'
<1>1. PICK n \in RefName, x \in RefIDs \cup {ZeroID} :
           Held(x) /\ refs' = [refs EXCEPT ![n] = x]
  BY DEF UpdateRef, Held
<1>2. UNCHANGED <<objects, call, pc, at, todo, lines, failed>>
  BY DEF UpdateRef, Others, locals
<1>3. RefsHeld'
  <2>1. \A m \in RefName : refs'[m] = IF m = n THEN x ELSE refs[m]
    BY <1>1 DEF Inv, TypeOK
  <2>2. \A y : Held(y) => Held(y)'  BY <1>2 DEF Held
  <2>. QED  BY <1>1, <2>1, <2>2 DEF AllPeeled, RefsHeld
<1>. QED  BY <1>2, <1>3, OthersKeepPeeled

(* The line of a tag is followed by its peeled line, and another by none.  *)
LEMMA DereferencedKeepsPeeled ==
    ASSUME Inv, AllPeeled, pc = "GetObject", call.op = "AdvertiseRefs",
           NEW err, Dereferenced(err), UNCHANGED <<repo, call>>, failed # {} => failed' # {},
           err = "nil" => Tag(at).err = "nil" /\ Tag(at).obj = at,
           Tag(at).err = "nil" /\ failed' = {} => err = "nil"
    PROVE  AllPeeled'
<1>. DEFINE n == Len(lines)
            line == lines[n]
<1>1. /\ todo \in Seq(Ref) /\ lines \in Seq(Line)
      /\ lines # << >> /\ todo # << >>
      /\ ~ line.peeled /\ line.name = Head(todo).name /\ Tag(line.id) = Tag(at)
      /\ RefsHeld /\ ListHeld /\ TagsFollowed /\ PeeledFollow
  BY DEF Inv, Advertising, AllPeeled, Following
<1>2. /\ n \in Nat /\ n \in DOMAIN lines /\ DOMAIN lines = 1..n
      /\ todo' = Tail(todo) /\ pc' = "line" /\ call' = call
      /\ \A x : Held(x)' <=> Held(x)
  BY <1>1 DEF Dereferenced, Held, repo
<1>3. RefsHeld'  BY <1>1, <1>2 DEF RefsHeld, repo
<1>4. \A i \in DOMAIN todo' : todo'[i] = todo[i + 1] /\ i + 1 \in DOMAIN todo
  BY <1>1, <1>2
<1>5. Following'  BY <1>2 DEF Following
<1>6. CASE err # "nil"
  <2>1. lines' = lines  BY <1>6 DEF Dereferenced
  <2>2. ListHeld'  BY <1>1, <1>2, <1>4, <2>1 DEF ListHeld
  <2>3. TagsFollowed'
    <3>. SUFFICES ASSUME NEW i \in DOMAIN lines, ~ lines[i].peeled,
                         Tag(lines[i].id).err = "nil", failed' = {}
                  PROVE  i < n /\ lines[i + 1] = PeeledLine(lines[i])
      BY <2>1 DEF TagsFollowed, PeeledLine
    <3>1. i # n  BY <1>1, <1>6
    <3>. QED  BY <1>1, <3>1 DEF TagsFollowed
  <2>4. PeeledFollow'  BY <1>1, <2>1 DEF PeeledFollow, PeeledLine
  <2>. QED  BY <1>3, <1>5, <2>2, <2>3, <2>4 DEF AllPeeled
<1>7. CASE err = "nil"
  <2>1. lines' = Append(lines, PeeledLine(line))
    BY <1>1, <1>7 DEF Dereferenced, PeeledLine
  <2>2. /\ DOMAIN lines' = 1..(n + 1) /\ Len(lines') = n + 1
        /\ lines'[n + 1] = PeeledLine(line)
        /\ \A i \in 1..n : lines'[i] = lines[i]
    BY <1>1, <1>2, <2>1
  <2>3. PeeledLine(line).peeled /\ Tag(line.id).err = "nil"
    BY <1>1, <1>7 DEF PeeledLine
  <2>. HIDE DEF line, n
  <2>4. ListHeld'
    <3>1. \A i \in DOMAIN todo' : Closure[todo'[i].id] \subseteq objects'
      BY <1>1, <1>2, <1>4 DEF ListHeld, Held, repo
    <3>2. \A i \in 1..(n + 1) : ~ lines'[i].peeled =>
              i \in 1..n /\ Closure[lines'[i].id] \subseteq objects'
      <4>1. \A i \in 1..(n + 1) : ~ lines'[i].peeled => i \in 1..n /\ lines'[i] = lines[i]
        BY <1>2, <2>2, <2>3
      <4>2. \A i \in 1..n : ~ lines[i].peeled => Closure[lines[i].id] \subseteq objects
        BY <1>1, <1>2 DEF ListHeld, Held
      <4>. QED  BY <4>1, <4>2 DEF repo
    <3>. QED  BY <2>2, <3>1, <3>2 DEF ListHeld, Held
  <2>5. TagsFollowed'
    <3>. SUFFICES ASSUME NEW i \in 1..(n + 1), ~ lines'[i].peeled,
                         Tag(lines'[i].id).err = "nil", failed' = {}
                  PROVE  i < n + 1 /\ lines'[i + 1] = PeeledLine(lines'[i])
      BY <2>2 DEF TagsFollowed, PeeledLine
    <3>1. i # n + 1  BY <2>2, <2>3
    <3>2. i \in 1..n /\ lines'[i] = lines[i]  BY <1>2, <2>2, <3>1
    <3>3. CASE i = n  BY <1>2, <2>2, <3>2, <3>3 DEF line
    <3>4. CASE i # n
      <4>1. lines[i + 1] = PeeledLine(lines[i])
        BY <1>1, <1>2, <3>2, <3>4 DEF TagsFollowed, n
      <4>2. i + 1 \in 1..n  BY <1>2, <3>2, <3>4
      <4>. QED  BY <1>2, <2>2, <3>2, <4>1, <4>2, SMTT(30)
    <3>. QED  BY <3>3, <3>4
  <2>6. PeeledFollow'
    <3>. SUFFICES ASSUME NEW i \in 1..(n + 1), lines'[i].peeled
                  PROVE  /\ i > 1 /\ ~ lines'[i - 1].peeled
                         /\ Tag(lines'[i - 1].id).err = "nil"
                         /\ lines'[i] = PeeledLine(lines'[i - 1])
      BY <2>2 DEF PeeledFollow, PeeledLine
    <3>1. CASE i = n + 1
      <4>1. i - 1 = n /\ n >= 1  BY <1>2, <3>1
      <4>2. lines'[i - 1] = line  BY <1>2, <2>2, <4>1 DEF line
      <4>. QED  BY <1>1, <2>2, <2>3, <3>1, <4>1, <4>2
    <3>2. CASE i # n + 1
      <4>1. i \in 1..n /\ lines'[i] = lines[i]  BY <1>2, <2>2, <3>2
      <4>2. /\ i > 1 /\ ~ lines[i - 1].peeled /\ Tag(lines[i - 1].id).err = "nil"
            /\ lines[i] = PeeledLine(lines[i - 1])
        BY <1>1, <1>2, <4>1 DEF PeeledFollow
      <4>3. i - 1 \in 1..n  BY <1>2, <4>1, <4>2
      <4>. QED  BY <2>2, <4>1, <4>2, <4>3
    <3>. QED  BY <3>1, <3>2
  <2>. QED  BY <1>3, <1>5, <2>4, <2>5, <2>6 DEF AllPeeled
<1>. QED  BY <1>6, <1>7

(* A tag of a tag is followed, and what comes of it is what should.        *)
LEMMA GetObjectKeepsPeeled ==
    ASSUME Inv, AllPeeled, GetObject
    PROVE  AllPeeled'
<1>1. UNCHANGED <<repo, call, failed>> /\ pc = "GetObject" /\ RefsHeld'
  BY DEF GetObject, repo, AllPeeled, RefsHeld, Held
<1>2. CASE call.op # "AdvertiseRefs"  BY <1>1, <1>2, OthersKeepPeeled DEF repo
<1>3. CASE call.op = "AdvertiseRefs"
  <2>1. /\ Mode = "GetTag" /\ NotExist # "nil" /\ objects \in SUBSET ID
        /\ at \in AnyID /\ Held(at)
    BY <1>1, <1>3 DEF Mode, NotExist, Inv, TypeOK, AllPeeled, Following
  <2>2. /\ at \in objects \/ at = ZeroID
        /\ at \notin objects => Tag(at).err # "nil"
        /\ at \in objects /\ GoesOn("GetTag", at) =>
              Target[at] \in AnyID /\ Held(Target[at]) /\ Tag(at) = Tag(Target[at])
        /\ at \in objects /\ ~ GoesOn("GetTag", at) =>
              Tag(at) = Found(at, IF Wanted("GetTag", at) THEN "nil" ELSE "TypeError")
    BY <2>1, FollowedIsSame
  <2>3. CASE at \in objects /\ GoesOn(Mode, at)
    <3>1. at' = Target[at] /\ UNCHANGED <<pc, todo, lines>>  BY <2>3 DEF GetObject
    <3>2. \A x : Held(x)' <=> Held(x)  BY <1>1 DEF Held, repo
    <3>3. ListHeld => ListHeld'  BY <3>1, <3>2 DEF ListHeld
    <3>4. Following => Following'
      BY <1>1, <2>1, <2>2, <2>3, <3>1, <3>2 DEF Following
    <3>5. TagsFollowed => TagsFollowed'  BY <1>1, <3>1 DEF TagsFollowed, PeeledLine
    <3>6. PeeledFollow => PeeledFollow'  BY <3>1 DEF PeeledFollow, PeeledLine
    <3>. QED  BY <1>1, <1>3, <3>3, <3>4, <3>5, <3>6 DEF AllPeeled
  <2>4. CASE at \in objects /\ ~ GoesOn(Mode, at)
    <3>. DEFINE err == IF Wanted(Mode, at) THEN "nil" ELSE "TypeError"
    <3>1. Dereferenced(err)  BY <2>4 DEF GetObject
    <3>2. Tag(at) = Found(at, err)  BY <2>1, <2>2, <2>4
    <3>3. Tag(at).obj = at /\ Tag(at).err = err  BY <3>2 DEF Found
    <3>. HIDE DEF err
    <3>. QED  BY <1>1, <1>3, <3>1, <3>3, DereferencedKeepsPeeled
  <2>5. CASE at \notin objects
    <3>1. Dereferenced(NotExist)  BY <2>5 DEF GetObject
    <3>. QED  BY <1>1, <1>3, <2>1, <2>2, <2>5, <3>1, DereferencedKeepsPeeled
  <2>. QED  BY <2>3, <2>4, <2>5
<1>. QED  BY <1>2, <1>3

(* The refs that are listed are those of complete objects.                 *)
LEMMA ListRefsKeepsPeeled ==
    ASSUME Inv, AllPeeled, ListRefs
    PROVE  AllPeeled'
<1>. DEFINE S == {n \in RefName : refs[n] # ZeroID}
<1>1. UNCHANGED <<repo, call, lines, failed>> /\ pc' = "GetHEAD" /\ pc = "ListRefs"
  BY DEF ListRefs
<1>2. RefsHeld /\ RefsHeld'  BY <1>1 DEF AllPeeled, RefsHeld, Held, repo
<1>3. CASE call.op # "AdvertiseRefs"  BY <1>1, <1>2, <1>3, OthersKeepPeeled DEF repo
<1>4. CASE call.op = "AdvertiseRefs"
  <2>1. lines' = << >>  BY <1>1, <1>4 DEF Inv, Advertising
  <2>2. PICK names \in SetToSeqs(S) :
             todo' = [i \in DOMAIN names |-> [name |-> names[i], id |-> refs[names[i]]]]
    BY DEF ListRefs
  <2>3. names \in Seq(S)
    <3>1. IsFiniteSet(S)  BY ReadsAssumption, FS_Subset
    <3>. HIDE DEF S
    <3>. QED  BY <2>2, <3>1, SetToSeqsHasAll
  <2>4. \A i \in DOMAIN names : names[i] \in RefName  BY <2>3
  <2>. HIDE DEF S
  <2>5. \A i \in DOMAIN todo' : Closure[todo'[i].id] \subseteq objects'
    BY <1>1, <1>2, <2>2, <2>4 DEF RefsHeld, Held, repo
  <2>6. ListHeld'  BY <2>1, <2>5 DEF ListHeld, Held
  <2>. QED  BY <1>1, <1>2, <2>1, <2>6 DEF AllPeeled, Following, TagsFollowed, PeeledFollow
<1>. QED  BY <1>3, <1>4

(* The line for HEAD is that of a ref, and the line for none is of none.   *)
LEMMA WithHEADIsHeld ==
    ASSUME NEW line \in Seq(Ref), todo \in Seq(Ref),
           \A i \in DOMAIN line : Held(line[i].id),
           \A i \in DOMAIN todo : Held(todo[i].id)
    PROVE  \A i \in DOMAIN WithHEAD(line) : Held(WithHEAD(line)[i].id)
<1>. DEFINE whole == line \o todo
            none == <<[name |-> "capabilities", id |-> ZeroID]>>
<1>1. \A i \in DOMAIN whole : \/ i \in DOMAIN line /\ whole[i] = line[i]
                              \/ i - Len(line) \in DOMAIN todo /\ whole[i] = todo[i - Len(line)]
  OBVIOUS
<1>2. \A i \in DOMAIN none : none[i].id = ZeroID  OBVIOUS
<1>3. WithHEAD(line) = IF whole # << >> THEN whole ELSE none  BY DEF WithHEAD
<1>. HIDE DEF whole, none
<1>. QED  BY <1>1, <1>2, <1>3, NothingIsHeld

LEMMA GetRefKeepsPeeled ==
    ASSUME Inv, AllPeeled, GetRef \/ (Fail /\ FailsToGetHEAD)
    PROVE  AllPeeled'
<1>1. /\ UNCHANGED <<repo, call, lines>> /\ pc' = "line" /\ call.op = "AdvertiseRefs"
      /\ pc \in {"GetHEAD", "GetRef"}
  BY DEF GetRef, Fail, FailsToGetHEAD
<1>2. lines' = << >> /\ todo \in Seq(Ref) /\ RefsHeld /\ ListHeld
  BY <1>1 DEF Inv, Advertising, AllPeeled
<1>3. PICK line \in Seq(Ref) : todo' = WithHEAD(line) /\ \A i \in DOMAIN line : Held(line[i].id)
  <2>1. CASE FailsToGetHEAD \/ refs[head] = ZeroID
    <3>1. << >> \in Seq(Ref) /\ todo' = WithHEAD(<< >>)
      BY <2>1 DEF GetRef, FailsToGetHEAD
    <3>2. DOMAIN << >> = {}  OBVIOUS
    <3>. QED  BY <3>1, <3>2
  <2>2. CASE GetRef /\ refs[head] # ZeroID
    <3>. DEFINE line == <<[name |-> "HEAD", id |-> refs[head]]>>
    <3>1. line \in Seq(Ref)  BY DEF Inv, TypeOK, Ref, LineName
    <3>2. todo' = WithHEAD(line)  BY <2>2 DEF GetRef
    <3>3. \A i \in DOMAIN line : line[i].id = refs[head]  OBVIOUS
    <3>4. Held(refs[head])  BY <1>2 DEF RefsHeld, Inv, TypeOK
    <3>. HIDE DEF line
    <3>. QED  BY <3>1, <3>2, <3>3, <3>4
  <2>. QED  BY <2>1, <2>2
<1>4. \A i \in DOMAIN todo' : Closure[todo'[i].id] \subseteq objects'
  BY <1>1, <1>2, <1>3, WithHEADIsHeld DEF ListHeld, Held, repo
<1>5. ListHeld'  BY <1>2, <1>4 DEF ListHeld, Held
<1>6. RefsHeld'  BY <1>1, <1>2 DEF RefsHeld, Held, repo
<1>. QED  BY <1>1, <1>2, <1>5, <1>6 DEF AllPeeled, Following, TagsFollowed, PeeledFollow

(* Before a line is written, those of all tags so far have been followed.  *)
LEMMA WriteLineKeepsPeeled ==
    ASSUME Inv, AllPeeled, WriteLine
    PROVE  AllPeeled'
<1>. DEFINE n == Len(lines)
            l == [name |-> Head(todo).name, peeled |-> FALSE, id |-> Head(todo).id]
<1>1. /\ UNCHANGED <<repo, call, todo, failed>> /\ pc = "line" /\ pc' = "GetObject"
      /\ lines' = Append(lines, l) /\ at' = Head(todo).id /\ todo # << >>
      /\ objects' = objects /\ RefsHeld'
  BY DEF WriteLine, repo, AllPeeled, RefsHeld, Held
<1>2. CASE call.op # "AdvertiseRefs"  BY <1>1, <1>2, OthersKeepPeeled
<1>3. CASE call.op = "AdvertiseRefs"
  <2>1. /\ todo \in Seq(Ref) /\ lines \in Seq(Line)
        /\ ListHeld /\ TagsFollowed /\ PeeledFollow
    BY <1>1, <1>3 DEF Inv, Advertising, AllPeeled
  <2>2. /\ Head(todo) \in Ref /\ Head(todo) = todo[1] /\ 1 \in DOMAIN todo
        /\ n \in Nat /\ DOMAIN lines = 1..n
    BY <1>1, <2>1
  <2>3. /\ DOMAIN lines' = 1..(n + 1) /\ Len(lines') = n + 1 /\ lines' # << >>
        /\ lines'[n + 1] = l
        /\ \A i \in 1..n : lines'[i] = lines[i]
    <3>1. l \in Line  BY <2>2 DEF Ref, Line
    <3>. HIDE DEF l
    <3>. QED  BY <1>1, <2>1, <2>2, <3>1
  <2>4. ~ l.peeled /\ l.name = Head(todo).name /\ l.id = Head(todo).id  OBVIOUS
  <2>5. at' \in AnyID /\ Held(at') /\ l.id = at'
    <3>1. Held(todo[1].id)  BY <2>1, <2>2 DEF ListHeld
    <3>. QED  BY <1>1, <2>2, <3>1 DEF Ref
  <2>. HIDE DEF l, n
  <2>6. ListHeld'
    <3>1. \A i \in DOMAIN todo : Closure[todo[i].id] \subseteq objects'
      BY <1>1, <2>1 DEF ListHeld, Held
    <3>2. \A i \in 1..n : ~ lines'[i].peeled => Closure[lines'[i].id] \subseteq objects'
      BY <1>1, <2>1, <2>2, <2>3 DEF ListHeld, Held
    <3>3. Closure[lines'[n + 1].id] \subseteq objects'  BY <1>1, <2>3, <2>5 DEF Held
    <3>4. \A i \in 1..(n + 1) : i \in 1..n \/ i = n + 1  BY <2>2
    <3>. QED  BY <1>1, <2>3, <3>1, <3>2, <3>3, <3>4 DEF ListHeld, Held
  <2>7. Following'
    BY <1>1, <2>3, <2>4, <2>5 DEF Following, Held
  <2>8. TagsFollowed'
    <3>. SUFFICES ASSUME NEW i \in 1..(n + 1), ~ lines'[i].peeled, i # n + 1,
                         Tag(lines'[i].id).err = "nil", failed' = {}
                  PROVE  i < n + 1 /\ lines'[i + 1] = PeeledLine(lines'[i])
      BY <1>1, <2>3 DEF TagsFollowed, PeeledLine
    <3>1. i \in 1..n /\ lines'[i] = lines[i]  BY <2>2, <2>3
    <3>2. i < n /\ lines[i + 1] = PeeledLine(lines[i])
      BY <1>1, <2>1, <2>2, <3>1 DEF TagsFollowed, n
    <3>3. i + 1 \in 1..n  BY <2>2, <3>1, <3>2
    <3>. QED  BY <2>2, <2>3, <3>1, <3>2, <3>3
  <2>9. PeeledFollow'
    <3>. SUFFICES ASSUME NEW i \in 1..(n + 1), lines'[i].peeled
                  PROVE  /\ i > 1 /\ ~ lines'[i - 1].peeled
                         /\ Tag(lines'[i - 1].id).err = "nil"
                         /\ lines'[i] = PeeledLine(lines'[i - 1])
      BY <2>3 DEF PeeledFollow, PeeledLine
    <3>1. i # n + 1  BY <2>3, <2>4
    <3>2. i \in 1..n /\ lines'[i] = lines[i]  BY <2>2, <2>3, <3>1
    <3>3. /\ i > 1 /\ ~ lines[i - 1].peeled /\ Tag(lines[i - 1].id).err = "nil"
          /\ lines[i] = PeeledLine(lines[i - 1])
      BY <2>1, <2>2, <3>2 DEF PeeledFollow
    <3>4. i - 1 \in 1..n  BY <2>2, <3>2, <3>3
    <3>. QED  BY <2>3, <3>2, <3>3, <3>4
  <2>. QED  BY <1>1, <2>6, <2>7, <2>8, <2>9 DEF AllPeeled
<1>. QED  BY <1>2, <1>3

(* A method that fails leaves out a peeled line, the line for HEAD, or all *)
(* lines.                                                                  *)
LEMMA FailKeepsPeeled ==
    ASSUME Inv, AllPeeled, Fail
    PROVE  AllPeeled'
<1>1. failed' # {} /\ UNCHANGED <<repo, call>> /\ objects' = objects /\ RefsHeld'
  BY DEF Fail, repo, AllPeeled, RefsHeld, Held
<1>2. CASE call.op # "AdvertiseRefs"  BY <1>1, <1>2, OthersKeepPeeled
<1>3. CASE call.op = "AdvertiseRefs"
  <2>1. CASE FailsToDereference
    <3>1. pc = "GetObject" /\ Dereferenced("BackendError")  BY <2>1 DEF FailsToDereference
    <3>2. "BackendError" # "nil"  OBVIOUS
    <3>. QED  BY <1>1, <1>3, <3>1, <3>2, DereferencedKeepsPeeled
  <2>2. CASE FailsToFindEntry  BY <1>3, <2>2 DEF FailsToFindEntry, Inv, Advertising
  <2>3. CASE FailsToFindRef  BY <1>3, <2>3 DEF FailsToFindRef
  <2>4. CASE FailsToListRefs
    <3>1. pc' = "done" /\ UNCHANGED <<todo, lines>>  BY <2>4 DEF FailsToListRefs, Return, locals
    <3>2. ListHeld => ListHeld'  BY <1>1, <3>1 DEF ListHeld, Held
    <3>3. PeeledFollow => PeeledFollow'  BY <3>1 DEF PeeledFollow, PeeledLine
    <3>. QED  BY <1>1, <1>3, <3>1, <3>2, <3>3 DEF AllPeeled, Following, TagsFollowed
  <2>5. CASE FailsToGetHEAD  BY <2>5, GetRefKeepsPeeled
  <2>. QED  BY <2>1, <2>2, <2>3, <2>4, <2>5 DEF Fail
<1>. QED  BY <1>2, <1>3

LEMMA StaysPeeled == Inv /\ AllPeeled /\ [Next]_vars => AllPeeled'
<1>. SUFFICES ASSUME Inv, AllPeeled, [Next]_vars
              PROVE  AllPeeled'
  OBVIOUS
<1>1. ASSUME UNCHANGED <<call, pc, at, todo, lines, failed, refs>>, objects \subseteq objects'
      PROVE  AllPeeled'
  <2>1. RefsHeld'  BY <1>1, HeldStays DEF AllPeeled, RefsHeld
  <2>. QED  BY <1>1, <2>1, OthersKeepPeeled
<1>2. CASE UNCHANGED vars  BY <1>1, <1>2 DEF vars, repo, locals
<1>3. CASE PutObject \/ SetHEAD
  BY <1>1, <1>3 DEF PutObject, SetHEAD, Others, locals
<1>4. CASE UpdateRef  BY <1>4, UpdateRefKeepsPeeled
<1>5. CASE Call
  <2>1. RefsHeld' /\ UNCHANGED <<objects, lines>> /\ lines = << >>
    BY <1>5 DEF Call, repo, AllPeeled, RefsHeld, Held, Inv
  <2>2. call'.op = "AdvertiseRefs" => pc' = "ListRefs" /\ todo' = << >>
    BY <1>5 DEF Call
  <2>. QED
    BY <2>1, <2>2 DEF AllPeeled, ListHeld, Following, TagsFollowed, PeeledFollow
<1>6. CASE GetObject  BY <1>6, GetObjectKeepsPeeled
<1>7. CASE NoEntry \/ Entry \/ TryRef
  <2>1. /\ call.op # "AdvertiseRefs" /\ UNCHANGED <<repo, call>>
    BY <1>7 DEF NoEntry, Entry, TryRef, Inv, Advertising
  <2>2. RefsHeld' /\ objects' = objects  BY <2>1 DEF repo, AllPeeled, RefsHeld, Held
  <2>. QED  BY <2>1, <2>2, OthersKeepPeeled
<1>8. CASE ListRefs  BY <1>8, ListRefsKeepsPeeled
<1>9. CASE GetHEAD
  <2>1. /\ UNCHANGED <<repo, call, todo, lines, failed>> /\ pc = "GetHEAD" /\ pc' = "GetRef"
        /\ RefsHeld' /\ objects' = objects
    BY <1>9 DEF GetHEAD, repo, AllPeeled, RefsHeld, Held
  <2>2. ListHeld => ListHeld'  BY <2>1 DEF ListHeld, Held
  <2>3. TagsFollowed => TagsFollowed'  BY <2>1 DEF TagsFollowed, PeeledLine
  <2>4. PeeledFollow => PeeledFollow'  BY <2>1 DEF PeeledFollow, PeeledLine
  <2>. QED  BY <2>1, <2>2, <2>3, <2>4 DEF AllPeeled, Following
<1>10. CASE GetRef  BY <1>10, GetRefKeepsPeeled
<1>11. CASE WriteLine  BY <1>11, WriteLineKeepsPeeled
<1>12. CASE Flush
  <2>1. /\ UNCHANGED <<repo, call, todo, lines, failed>> /\ pc = "line" /\ pc' = "done"
        /\ RefsHeld' /\ objects' = objects
    BY <1>12 DEF Flush, Return, locals, repo, AllPeeled, RefsHeld, Held
  <2>2. ListHeld => ListHeld'  BY <2>1 DEF ListHeld, Held
  <2>3. TagsFollowed => TagsFollowed'  BY <2>1 DEF TagsFollowed, PeeledLine
  <2>4. PeeledFollow => PeeledFollow'  BY <2>1 DEF PeeledFollow, PeeledLine
  <2>. QED  BY <2>1, <2>2, <2>3, <2>4 DEF AllPeeled, Following
<1>13. CASE Fail  BY <1>13, FailKeepsPeeled
<1>. QED
  BY <1>2, <1>3, <1>4, <1>5, <1>6, <1>7, <1>8, <1>9, <1>10, <1>11, <1>12, <1>13
     DEF Next, Step

(* The advertisement has a peeled line after that of each tag, and after   *)
(* no other, and it is of the object that the tag leads to past all tags:  *)
(* whatever is stored and set while AdvertiseRefs looks the tags up.       *)
THEOREM TagsArePeeledRight == Spec => []PeeledLinesAreRight
<1>1. Init => AllPeeled
  BY NothingIsHeld DEF Init, AllPeeled, RefsHeld
<1>2. Inv /\ AllPeeled => PeeledLinesAreRight
  <2>. SUFFICES ASSUME Inv, AllPeeled, pc = "done", call.op = "AdvertiseRefs"
                PROVE  PeeledLinesAreRight
    BY DEF PeeledLinesAreRight
  <2>1. /\ lines \in Seq(Line) /\ objects \in SUBSET ID
        /\ ListHeld /\ TagsFollowed /\ PeeledFollow
    BY DEF Inv, TypeOK, Advertising, AllPeeled
  <2>2. \A i \in DOMAIN lines : lines[i].id \in AnyID
    <3>1. \A i \in DOMAIN lines : lines[i] \in Line  BY <2>1
    <3>. QED  BY <3>1 DEF Line
  <2>3. \A i \in DOMAIN lines : ~ lines[i].peeled => Peel("GetTag", lines[i].id) = Tag(lines[i].id)
    <3>. SUFFICES ASSUME NEW i \in DOMAIN lines, ~ lines[i].peeled
                  PROVE  Peel("GetTag", lines[i].id) = Tag(lines[i].id)
      OBVIOUS
    <3>1. Closure[lines[i].id] \subseteq objects  BY <2>1 DEF ListHeld, Held
    <3>2. NotExist = "ErrObjectNotExist" /\ NotExist \in NoneError  BY DEF NotExist, NoneError
    <3>. QED  BY <2>1, <2>2, <3>1, <3>2, HeldIsPeeled, PeelIsPeelIn DEF Tag
  <2>4. \A i \in DOMAIN lines :
            ~ lines[i].peeled /\ Tag(lines[i].id).err = "nil" /\ failed = {} =>
                i < Len(lines) /\ lines[i + 1] = PeeledLine(lines[i])
    BY <2>1 DEF TagsFollowed
  <2>5. \A i \in DOMAIN lines : lines[i].peeled =>
            /\ i > 1 /\ ~ lines[i - 1].peeled /\ i - 1 \in DOMAIN lines
            /\ Tag(lines[i - 1].id).err = "nil" /\ lines[i] = PeeledLine(lines[i - 1])
    BY <2>1 DEF PeeledFollow
  <2>. QED  BY <2>3, <2>4, <2>5 DEF PeeledLinesAreRight, PeeledLine
<1>. QED  BY <1>1, <1>2, Initially, Inductive, StaysPeeled, PTL DEF Spec
=============================================================================
