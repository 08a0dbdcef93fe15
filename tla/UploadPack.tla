----------------------------- MODULE UploadPack -----------------------------
(***************************************************************************)
(* protocol.UploadPack: one fetch, in which a client and the server find   *)
(* out what they share and the server sends a pack of the rest, while      *)
(* pushes store more objects in the repository.  Over HTTP a fetch is      *)
(* several calls of UploadPack, of which the later know nothing of the     *)
(* earlier ones but what the client tells them again.                      *)
(*                                                                         *)
(* A call of repository.Walk is one step: it fails if it meets an object   *)
(* that is not there, and since no object ever goes away a call that       *)
(* succeeds gives what it would give at once.  What it visits is Reach.    *)
(*                                                                         *)
(* The client is external: it sends IDs of objects it holds, in batches    *)
(* that end in a flush-pkt or "done", and may break off.                   *)
(*                                                                         *)
(* pc is "want" and "have" where UploadPack reads the wants and a batch,   *)
(* "walk" and "answer" where it looks for what is common and says so,      *)
(* "pack" where it sends the pack; "sent", "closed", "failed" and          *)
(* "panicked" are the ways for it to end.                                  *)
(***************************************************************************)
EXTENDS ObjectGraph, Naturals, FiniteSets

CONSTANTS
    Links,        \* id -> the IDs that object id links to
    Commit,       \* the IDs of commits and tags
    MaxWants,     \* how many objects a client wants at most
    MaxBatches    \* how many batches a client sends at most

ASSUME UploadPackAssumption ==
    /\ IsFiniteSet(ID)
    /\ Links \in [ID -> SUBSET ID]
    /\ Commit \subseteq ID
    /\ MaxWants \in Nat
    /\ MaxBatches \in Nat \ {0}

Capability == {"multi_ack_detailed", "no-done", "unrecognized"}

(* What is reached from S along the links of the members of T.             *)
Reach(S, T) ==
    {id \in ID : \A V \in SUBSET ID :
        S \subseteq V /\ (\A x \in V \cap T : Links[x] \subseteq V) => id \in V}

Closed(S) == \A id \in S : Links[id] \subseteq S

VARIABLES
    has,          \* those that the client holds
    start, caps,  \* what the client wants, and its capabilities
    want, end,    \* locals of UploadPack
    have, common, \* the keys of the local have, and those that are true
    todo,         \* the wants that the loop over want is still to visit
    last,         \* how the batch ended: "flush" or "done"
    pc,
    batches,      \* the number of batches
    acked, ready, \* the IDs ACKed as common; whether any was ACKed as ready
    final,        \* the last line of the last answer
    pack,         \* the IDs of the objects in the pack
    again         \* what the client is to send again in its next batch

client == <<has, start, caps>>
answers == <<acked, ready, final>>
walks == <<want, end, have, common, todo>>
vars == <<objects, client, walks, last, pc, batches, answers, pack, again>>

Label == {"want", "have", "walk", "answer", "pack",
          "sent", "closed", "failed", "panicked"}

TypeOK ==
    /\ \A S \in {objects, has, start, want, end, have, common, todo, acked,
                 pack, again} : S \subseteq ID
    /\ caps \subseteq Capability
    /\ last \in {"flush", "done"}
    /\ pc \in Label
    /\ batches \in 0..MaxBatches
    /\ ready \in BOOLEAN
    /\ final \in {"none", "ACK", "NAK"}
    /\ todo \subseteq want
    /\ common \subseteq have

Init ==
    /\ objects \in {S \in SUBSET ID : Closed(S)}
    /\ has \in {S \in SUBSET ID : Closed(S)}
    /\ start \in {S \in SUBSET ID : Cardinality(S) <= MaxWants}
    /\ caps \in SUBSET Capability
    /\ pc = "want"
    /\ last = "flush"
    /\ want = {} /\ end = {} /\ have = {} /\ common = {} /\ todo = {}
    /\ acked = {} /\ pack = {} /\ again = {}
    /\ batches = 0
    /\ ready = FALSE
    /\ final = "none"

Multi == "multi_ack_detailed" \in caps

Goto(label) == pc' = label

-----------------------------------------------------------------------------
(* (As it would be if an empty list of wants were not returned from.)      *)
ReadWantsEmpty ==
    /\ pc = "want"
    /\ want' = start
    /\ Goto(IF "unrecognized" \in caps THEN "failed" ELSE "have")
    /\ UNCHANGED <<objects, client, end, have, common, todo, last, batches, answers, pack, again>>

ReadWants ==
    /\ pc = "want"
    /\ want' = start
    /\ Goto(IF start = {} THEN "closed"
            ELSE IF "unrecognized" \in caps THEN "failed" ELSE "have")
    /\ UNCHANGED <<objects, client, end, have, common, todo, last, batches, answers, pack, again>>

(* readHaveLines, with a batch that ends as it should ...                  *)
ReadHaves ==
    /\ pc = "have"
    /\ batches < MaxBatches
    /\ have' \in SUBSET has
    /\ again \subseteq have' /\ again' = {}
    /\ last' \in {"flush", "done"}
    /\ common' = {}
    /\ todo' = want
    /\ batches' = batches + 1
    /\ Goto("walk")
    /\ UNCHANGED <<objects, client, want, end, answers, pack>>

(* ... at the end of the stream ...                                        *)
ReadEnd ==
    /\ pc = "have"
    /\ Goto("closed")
    /\ UNCHANGED <<objects, client, walks, last, batches, answers, pack, again>>

(* ... or with a batch that is cut short or has a line in it that is not a *)
(* have.  The wants can be cut short too.                                  *)
ReadBadLine ==
    /\ pc \in {"want", "have"}
    /\ Goto("failed")
    /\ UNCHANGED <<objects, client, walks, last, batches, answers, pack, again>>

(* The walk from one want.  It goes through commits and tags, and not past *)
(* what is common.                                                         *)
Visited(w) == Reach({w}, Commit \ have)

(* (As it would be if a want were done with after its first walk.)         *)
WalkFromOnce(w) ==
    /\ pc = "walk"
    /\ w \in todo
    /\ Visited(w) \subseteq objects
    /\ todo' = todo \ {w}
    /\ common' = common \cup (Visited(w) \cap have)
    /\ end' = end \cup (Visited(w) \cap have)
    /\ want' = want \ {w}
    /\ UNCHANGED <<objects, client, have, last, pc, batches, answers, pack, again>>

(* (As it would be if the loop over want never came to its end.)           *)
WalkFromAgain(w) ==
    /\ pc = "walk"
    /\ w \in todo
    /\ Visited(w) \subseteq objects
    /\ common' = common \cup (Visited(w) \cap have)
    /\ end' = end \cup (Visited(w) \cap have)
    /\ UNCHANGED <<objects, client, want, have, todo, last, pc, batches, answers, pack, again>>

WalkFrom(w) ==
    /\ pc = "walk"
    /\ w \in todo
    /\ todo' = todo \ {w}
    /\ \/ /\ Visited(w) \subseteq objects
          /\ common' = common \cup (Visited(w) \cap have)
          /\ end' = end \cup (Visited(w) \cap have)
          /\ want' = IF Visited(w) \cap have # {} THEN want \ {w} ELSE want
          /\ UNCHANGED pc
       \/ /\ ~ (Visited(w) \subseteq objects)
          /\ Goto("failed")
          /\ UNCHANGED <<want, end, common>>
    /\ UNCHANGED <<objects, client, have, last, batches, answers, pack, again>>

Walked ==
    /\ pc = "walk"
    /\ todo = {}
    /\ Goto("answer")
    /\ UNCHANGED <<objects, client, walks, last, batches, answers, pack, again>>

(* err == io.EOF after the ACKs: the batch counts as the last one.         *)
AtEOF == last = "done" \/ (Multi /\ want = {} /\ "no-done" \in caps)

(* "ACK ... ready" names the last element of end.                          *)
Panics == Multi /\ want = {} /\ end = {}

(* (As it would be if only one of the objects were ACKed as common.)       *)
AnswerOne ==
    /\ pc = "answer"
    /\ ~ Panics
    /\ acked' = IF Multi /\ common # {} THEN acked \cup {CHOOSE x \in common : TRUE} ELSE acked
    /\ ready' = (ready \/ (Multi /\ want = {}))
    /\ final' = IF end # {} /\ (AtEOF <=> Multi) THEN "ACK" ELSE "NAK"
    /\ Goto(IF AtEOF THEN "pack" ELSE "have")
    /\ UNCHANGED <<objects, client, walks, last, batches, pack, again>>

(* (As it would be if a batch that ends in "done" were not looked at.)     *)
AnswerFlushOnly ==
    /\ pc = "answer"
    /\ ~ Panics
    /\ acked' = IF Multi /\ last = "flush" THEN acked \cup common ELSE acked
    /\ ready' = (ready \/ (Multi /\ want = {}))
    /\ final' = IF end # {} /\ (AtEOF <=> Multi) THEN "ACK" ELSE "NAK"
    /\ Goto(IF AtEOF THEN "pack" ELSE "have")
    /\ UNCHANGED <<objects, client, walks, last, batches, pack, again>>

Answer ==
    /\ pc = "answer"
    /\ \/ /\ Panics
          /\ Goto("panicked")
          /\ UNCHANGED answers
       \/ /\ ~ Panics
          /\ acked' = IF Multi THEN acked \cup common ELSE acked
          /\ ready' = (ready \/ (Multi /\ want = {}))
          /\ final' = IF end # {} /\ (AtEOF <=> Multi) THEN "ACK" ELSE "NAK"
          /\ Goto(IF AtEOF THEN "pack" ELSE "have")
    /\ UNCHANGED <<objects, client, walks, last, batches, pack, again>>

(* (As it would be if the pack were walked from what is left of want.)     *)
WalkWant == Reach(want \ end, ID \ end) \ end

(* The walk from start to end, the header of every object visited and, in  *)
(* their order, the objects themselves, which are all still there.         *)
Walk == Reach(start \ end, ID \ end) \ end

SendPack ==
    /\ pc = "pack"
    /\ \/ /\ Walk \subseteq objects
          /\ pack' = Walk
          /\ Goto("sent")
       \/ /\ ~ (Walk \subseteq objects)
          /\ Goto("failed")
          /\ UNCHANGED pack
    /\ UNCHANGED <<objects, client, walks, last, batches, answers, again>>

(* Over HTTP, UploadPack returns at the end of the request.  The client    *)
(* makes a new one, in which it wants the same and tells at once of what   *)
(* it knows to be common.                                                  *)
Again ==
    /\ pc = "closed" /\ start # {}
    /\ want' = {} /\ end' = {} /\ have' = {} /\ common' = {} /\ todo' = {}
    /\ again' = acked
    /\ pc' = "want"
    /\ UNCHANGED <<objects, client, last, batches, answers, pack>>

(* A push stores an object.                                                *)
PutObject ==
    /\ \E id \in ID \ objects : objects' = objects \cup {id}
    /\ UNCHANGED <<client, walks, last, pc, batches, answers, pack, again>>

Read == ReadHaves \/ ReadEnd \/ ReadBadLine

Step ==
    \/ ReadWants \/ Read \/ (\E w \in ID : WalkFrom(w))
    \/ Walked \/ Answer \/ SendPack

Next == Step \/ Again \/ PutObject

Spec == Init /\ [][Next]_vars

(* UploadPack runs on whenever it can; a read of it returns, in the end    *)
(* because the client or the connection is gone.                           *)
FairSpec == Spec /\ WF_vars(Step)

-----------------------------------------------------------------------------
(* Properties.                                                             *)

(* The client can use what it gets: a pack that was sent holds, together   *)
(* with what the client held, everything that the wants reach, trees and   *)
(* blobs included, whatever the client told in which batch and whatever    *)
(* was pushed meanwhile.                                                   *)
PackSuffices ==
    pc = "sent" => Reach(start, ID) \subseteq has \cup pack

(* A client told "ready" may stop telling what it has: each of its wants   *)
(* leads, along commits and tags, to an object that both sides hold.       *)
ReadyIsTrue ==
    ready => \A w \in start : Reach({w}, Commit) \cap acked \cap objects \cap has # {}

(* A client that was told "ready" may say "done" in a later request, and   *)
(* gets no more than it should: when the pack is sent, each want has again *)
(* been found to lead to what the client has told.                         *)
ReadyStaysReady == pc \in {"pack", "sent"} /\ ready => want = {}

(* The server leaves out of a pack nothing but what follows from the       *)
(* ACKs: in multi_ack_detailed mode each place the pack stops at was       *)
(* ACKed, and the pack follows on an ACK if there is one and on a NAK,     *)
(* "no common base", if not.                                               *)
PackRestsOnAcks ==
    pc = "sent" /\ Multi =>
        /\ Reach(start, ID) \ pack \subseteq Reach(acked, ID)
        /\ final = (IF acked = {} THEN "NAK" ELSE "ACK")

(* No batch makes UploadPack index the last element of an empty end, which *)
(* would take the handler down.                                            *)
NeverPanics == pc # "panicked"

(* Every call of UploadPack comes to an end.                               *)
Ends == []<>(pc \in {"sent", "closed", "failed", "panicked"})
=============================================================================
