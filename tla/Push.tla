-------------------------------- MODULE Push --------------------------------
(***************************************************************************)
(* Pushes over smart HTTP: protocol.AdvertiseRefs and protocol.ReceivePack *)
(* run by a server for several clients at once, against one repository.    *)
(* Each method of repository.Interface is one step here, as Repository     *)
(* promises and MemRepository is proved to deliver.                        *)
(*                                                                         *)
(* The client is external: it asks for the refs, builds a request out of   *)
(* the answer, and sends the same request again if it gets no report.  A   *)
(* request is handled by one goroutine, which ends early if the connection *)
(* or the server goes down; what it has done to the repository stays.      *)
(*                                                                         *)
(* A client whose pc is                                                    *)
(*   "idle"      has nothing going on;                                     *)
(*   "advertised" knows the refs and may push;                             *)
(*   "sent"      has sent a request that the server has not begun;         *)
(*   "unpack"    is served by ReceivePack, in unpack;                      *)
(*   "update"    is served by ReceivePack, in the loop over the commands;  *)
(*   "lost"      waits for a report that does not come.                    *)
(***************************************************************************)
EXTENDS Naturals, Sequences, FiniteSets

CONSTANTS
    Client,       \* clients, each with at most one request at a time
    ID, ZeroID,   \* IDs of Git objects, and the ID of none
    Links,        \* id -> the IDs that object id links to
    RefName,      \* the names in commands
    ValidRef,     \* those that satisfy IsValidRef
    Wishes,       \* what clients may want: sequences of [name, newID]
    MaxResend     \* how often a client sends a request again

AnyID == ID \cup {ZeroID}

Wish == [name : RefName, newID : AnyID]

Command == [name : RefName, oldID : AnyID, newID : AnyID]

ASSUME PushAssumption ==
    /\ ZeroID \notin ID
    /\ Links \in [ID -> SUBSET ID]
    /\ ValidRef \subseteq RefName
    /\ Wishes \subseteq Seq(Wish)
    /\ MaxResend \in Nat

Closed(S) == \A id \in S : Links[id] \subseteq S

(* Everything that the objects of S reach.                                 *)
Closure(S) ==
    {id \in ID : \A T \in SUBSET ID : S \subseteq T /\ Closed(T) => id \in T}

RefTable == [ValidRef -> AnyID]

VARIABLES
    objects, refs,        \* the repository
    adv,                  \* adv[c]: the refs as c was told them
    cmds,                 \* cmds[c]: the commands of c's request
    pack,                 \* pack[c]: the objects of c's pack
    pc,
    left,                 \* left[c]: the objects unpack has yet to store
    report,               \* report[c]: the status of unpack and the commands
    resent,               \* resent[c]: how often the request was sent again
    missing               \* what unpacks that failed have left out, till it is stored

repo == <<objects, refs>>
request == <<cmds, pack, resent>>
vars == <<repo, adv, request, pc, left, report, missing>>

Label == {"idle", "advertised", "sent", "unpack", "update", "lost"}

Status == {"ok", "ng"}

TypeOK ==
    /\ objects \subseteq ID
    /\ refs \in RefTable
    /\ adv \in [Client -> RefTable]
    /\ cmds \in [Client -> Seq(Command)]
    /\ pack \in [Client -> SUBSET ID]
    /\ pc \in [Client -> Label]
    /\ left \in [Client -> SUBSET ID]
    /\ report \in [Client -> Seq(Status)]
    /\ resent \in [Client -> 0..MaxResend]
    /\ missing \subseteq ID

NoRefs == [n \in ValidRef |-> ZeroID]

Init ==
    /\ objects = {}
    /\ refs = NoRefs
    /\ adv = [c \in Client |-> NoRefs]
    /\ cmds = [c \in Client |-> << >>]
    /\ pack = [c \in Client |-> {}]
    /\ pc = [c \in Client |-> "idle"]
    /\ left = [c \in Client |-> {}]
    /\ report = [c \in Client |-> << >>]
    /\ resent = [c \in Client |-> 0]
    /\ missing = {}

At(c, label) == pc[c] = label

Goto(c, label) == pc' = [pc EXCEPT ![c] = label]

-----------------------------------------------------------------------------
(* AdvertiseRefs: the refs come from one call of ListRefs.  (The HEAD line *)
(* and the peeled tags come from later calls; no push depends on them.)    *)

ListRefs(c) ==
    /\ At(c, "idle")
    /\ adv' = [adv EXCEPT ![c] = refs]
    /\ Goto(c, "advertised")
    /\ UNCHANGED <<repo, request, left, report, missing>>

-----------------------------------------------------------------------------
(* The client asks to move refs from what it was told to what it wishes,   *)
(* and packs at least what the server lacks if it has all that the refs it *)
(* told of reach.  Without a capability list it could not ask for more.    *)

Told(c, n) == IF n \in ValidRef THEN adv[c][n] ELSE ZeroID

Send(c) ==
    /\ At(c, "advertised")
    /\ \E w \in Wishes :
          LET new == {w[i].newID : i \in DOMAIN w} \ {ZeroID}
              told == {adv[c][n] : n \in ValidRef} \ {ZeroID}
          IN
          /\ cmds' = [cmds EXCEPT ![c] =
                        [i \in DOMAIN w |-> [name  |-> w[i].name,
                                             oldID |-> Told(c, w[i].name),
                                             newID |-> w[i].newID]]]
          /\ \E S \in {Closure(new), Closure(new) \ Closure(told)} :
                pack' = [pack EXCEPT ![c] = S]
    /\ Goto(c, "sent")
    /\ UNCHANGED <<repo, adv, left, report, resent, missing>>

Resend(c) ==
    /\ At(c, "lost")
    /\ resent[c] < MaxResend
    /\ resent' = [resent EXCEPT ![c] = @ + 1]
    /\ Goto(c, "sent")
    /\ UNCHANGED <<repo, adv, cmds, pack, left, report, missing>>

(* What becomes of the client's variables when its push is over.           *)
Forget(c) ==
    /\ Goto(c, "idle")
    /\ adv' = [adv EXCEPT ![c] = NoRefs]
    /\ cmds' = [cmds EXCEPT ![c] = << >>]
    /\ pack' = [pack EXCEPT ![c] = {}]
    /\ report' = [report EXCEPT ![c] = << >>]
    /\ resent' = [resent EXCEPT ![c] = 0]
    /\ UNCHANGED <<repo, left, missing>>

GiveUp(c) ==
    /\ At(c, "lost")
    /\ resent[c] = MaxResend
    /\ Forget(c)

-----------------------------------------------------------------------------
(* ReceivePack reads all the commands before it does anything ...          *)

DeleteCommandsOnly(c) == \A i \in DOMAIN cmds[c] : cmds[c][i].newID = ZeroID

ReadCommands(c) ==
    /\ At(c, "sent")
    /\ IF DeleteCommandsOnly(c)
       THEN Goto(c, "update") /\ UNCHANGED left
       ELSE Goto(c, "unpack") /\ left' = [left EXCEPT ![c] = pack[c]]
    /\ UNCHANGED <<repo, adv, request, report, missing>>

(* ... stores the objects of the pack one by one ...                       *)
UnpackObject(c) ==
    /\ At(c, "unpack")
    /\ \E id \in left[c] :
          /\ objects' = objects \cup {id}
          /\ missing' = missing \ {id}
          /\ left' = [left EXCEPT ![c] = @ \ {id}]
    /\ UNCHANGED <<refs, adv, request, pc, report>>

(* (As it would be if the commands were run while objects come in.)        *)
UnpackedEarly(c) ==
    /\ At(c, "unpack")
    /\ Goto(c, "update")
    /\ left' = [left EXCEPT ![c] = {}]
    /\ UNCHANGED <<repo, adv, request, report, missing>>

Unpacked(c) ==
    /\ At(c, "unpack")
    /\ left[c] = {}
    /\ Goto(c, "update")
    /\ UNCHANGED <<repo, adv, request, left, report, missing>>

(* ... goes on to the commands even if unpack fails, with a pack that ends *)
(* early, a broken object, a wrong checksum or a repository that refuses   *)
(* an object ...                                                           *)
UnpackFails(c) ==
    /\ At(c, "unpack")
    /\ missing' = missing \cup (left[c] \ objects)
    /\ left' = [left EXCEPT ![c] = {}]
    /\ Goto(c, "update")
    /\ UNCHANGED <<repo, adv, request, report>>

(* ... and runs every command on its own, whatever became of the others.   *)
Command1(c) == cmds[c][Len(report[c]) + 1]

(* (As it would be if UpdateRef did not look at oldID.)                    *)
AcceptsAnyOldID(cmd) ==
    /\ cmd.name \in ValidRef
    /\ cmd.newID \in objects \cup {ZeroID}

Accepts(cmd) ==
    /\ cmd.name \in ValidRef
    /\ refs[cmd.name] = cmd.oldID
    /\ cmd.newID \in objects \cup {ZeroID}

UpdateRef(c) ==
    /\ At(c, "update")
    /\ Len(report[c]) < Len(cmds[c])
    /\ LET cmd == Command1(c) IN
       \/ /\ Accepts(cmd)
          /\ refs' = [refs EXCEPT ![cmd.name] = cmd.newID]
          /\ report' = [report EXCEPT ![c] = Append(@, "ok")]
       \/ /\ ~ Accepts(cmd)
          /\ report' = [report EXCEPT ![c] = Append(@, "ng")]
          /\ UNCHANGED refs
    /\ UNCHANGED <<objects, adv, request, pc, left, missing>>

Finish(c) ==
    /\ At(c, "update")
    /\ Len(report[c]) = Len(cmds[c])
    /\ Forget(c)

(* The request, the handler or the report is lost, or ReceivePack refuses  *)
(* the request before it does anything (a line that it cannot scan, or a   *)
(* capability that it does not know).  A handler that runs on after its    *)
(* client has given it up is like that of another client which has asked   *)
(* for the same.                                                           *)
Lose(c) ==
    /\ pc[c] \in {"sent", "unpack", "update"}
    /\ Goto(c, "lost")
    /\ left' = [left EXCEPT ![c] = {}]
    /\ report' = [report EXCEPT ![c] = << >>]
    /\ UNCHANGED <<repo, adv, request, missing>>

Serve(c) ==
    \/ ReadCommands(c) \/ UnpackObject(c) \/ Unpacked(c)
    \/ UnpackFails(c) \/ UpdateRef(c) \/ Finish(c)

Next ==
    \E c \in Client :
        ListRefs(c) \/ Send(c) \/ Resend(c) \/ GiveUp(c) \/ Lose(c) \/ Serve(c)

Spec == Init /\ [][Next]_vars

-----------------------------------------------------------------------------
(* Properties.                                                             *)

(* Every ref that is set names an object that is stored, and what it leads *)
(* to is stored, too, or is what a failed unpack has left out: the         *)
(* commands are run after that all the same.  No other push breaks a ref,  *)
(* whatever requests and handlers are cut off, sent again or run at the    *)
(* same time: a pack may leave out what the server was told it has, and a  *)
(* handler that dies may leave objects without what they link to.          *)
RefsComplete ==
    \A n \in ValidRef :
        refs[n] # ZeroID =>
            refs[n] \in objects /\ Closure({refs[n]}) \subseteq objects \cup missing

(* A push that is sent again does not undo a push that came after it: a    *)
(* ref moves only if it is what the client was told it was.                *)
PushesBuildOnWhatWasTold ==
    [][\A n \in ValidRef :
          refs'[n] # refs[n] =>
            \E c \in Client : adv[c][n] = refs[n] /\ report'[c] # report[c]]_vars

=============================================================================
