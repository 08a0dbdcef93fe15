# TLA+ models of go.git-scm

go.git-scm is a Git server in Go: a repository interface with an in-memory and
an App Engine implementation, the packfile and pkt-line formats, and the smart
protocol for fetches and pushes.  This directory holds models of it, the TLC
runs that check them on small instances, and proofs that TLAPS checks for every
instance.  Paths below are relative to `src/`.

## The system

| Component | State | Operations | Correct if |
|---|---|---|---|
| `repository.Interface` (`repository/interface.go`) | objects, refs, HEAD | `GetObject`, `PutObject`, `GetRef`, `UpdateRef`, `ListRefs`, `GetHEAD`, `SetHEAD` | each method takes effect at one instant; `UpdateRef` is a compare-and-swap; refs point at stored objects |
| In-memory repository (`repository/mem`) | three maps or fields, each under a `sync.RWMutex` | the same | it implements the interface; no deadlock |
| App Engine repository (`repository/appengine`) | datastore entities, memcache items | the same, as remote calls, `UpdateRef` in a transaction | the same, in spite of caching, retries and failing calls |
| `Walk` (`repository/objects.go`) | a stack and a visited set | one traversal | every object it should, once, depth first |
| Object and ref helpers (`repository/objects.go`, `refs.go`) | the locals of one call | `HasObject`, `GetCommit`, `GetTag`, `GetTree`, `GetPath`, `FindRef` | the answer is right when it is given, although others write meanwhile |
| Object model (`object/`) | none | marshalling, unmarshalling, hashing, datastore properties | round trips; an object that is received keeps its ID |
| pkt-lines (`pktline/`) | the stream, `atEOF` | `WriteLine`, `Flush`, `ReadLine`, `Next` | lines arrive whole or the break is noticed |
| Packfiles (`packfile/`) | the stream, objects left, `ofs`, `prev` | `WriteObject`, `ReadObject`, `Close`; numbers, headers, deltas | what is written is read; broken input is noticed and named |
| Protocol (`protocol/`) | the locals of one request | `AdvertiseRefs`, `UploadPack`, `ReceivePack` | a fetch is complete; a push keeps refs complete and loses no other push |
| HTTP handlers, example (`protocol/http`, `example`) | none between requests | a call of the protocol per request; `InitRepository` per request | a fetch over several requests is as good as one over one |

How they interact.  A request is one goroutine: an HTTP handler calls one of the
three protocol functions with a repository.  `ReceivePack` reads commands, has a
`packfile.Reader` put the objects of the pack into the repository (looking up
the bases of deltas in it), and calls `UpdateRef` for each command.
`UploadPack` calls `Walk` for the negotiation and once more for the pack, whose
objects it gets from the repository and gives to a `packfile.Writer`.  Requests
share nothing but the repository, so all concurrency is in its implementations,
and in what a handler does between two of its calls.

What is hard: the in-memory repository's nested locks and the pairs of critical
sections between which it relies on what it has seen; memcache, transactions
that are run again and remote calls that fail; clients that lose reports and
repeat requests; a traversal of a repository that grows meanwhile; a negotiation
whose state lives on from batch to batch; and number formats, deltas and lengths
at their limits, in input that may be cut off or wrong.  `PROJECT.json` lists
each such place at its line, with the properties that are about it.

## The modules

| Module | Models | Uses |
|---|---|---|
| `RepositoryInterface` | calls, answers and errors of the interface | |
| `Repository` | the abstract repository: every method is one step | `RepositoryInterface` |
| `MemRepository` | `repository/mem`, lock by lock | implements `Repository` |
| `AppengineRepository` | `repository/appengine`, remote call by remote call | implements `Repository` if nothing is cached |
| `ObjectGraph` | the objects there can be, and those of the repository | |
| `Walk` | `repository.Walk`, one step per round of its loop | `ObjectGraph` |
| `Push` | `AdvertiseRefs` and `ReceivePack` for several clients | methods of the interface as single steps |
| `UploadPack` | `UploadPack`, one fetch | `ObjectGraph`, a call of `Walk` as a single step |
| `Reads` | the helpers of `repository`, `AdvertiseRefs` | methods of the interface as single steps |
| `Base128` | `packfile/base128.go`, headers of `packfile/object.go` | |
| `Pktline` | `pktline.Writer`, `pktline.Reader` | |
| `Objects` | the three forms of an object in `object/` | |
| `Codec` | encoders and decoders in use, `CapList` | `Base128`, `Pktline`, `Objects` |
| `Delta` | `computeDelta`, `applyDelta` | |
| `Packfile` | `packfile.Writer` and `packfile.Reader` | deltas as pairs of objects |
| `MemRepositoryProofs`, `AppengineRepositoryProofs`, `PushProofs`, `UploadPackProofs`, `ReadsProofs`, `PackfileProofs`, `DeltaProofs`, `CodecProofs` | theorems of these modules; those of `Walk` are in `UploadPackProofs` | |

The layers are cut where a module has shown what the next one assumes.  `Push`
takes the methods of a repository as atomic, which `MemRepository` is proved to
make them; `UploadPack` takes a walk as one step that gives the objects reached,
which is proved of `Walk` (`WalksAreSteps`): since objects are never removed, a
walk that succeeds while objects are added gives what it would have given at
its end.  Both modules extend `ObjectGraph`, so that one theorem can speak of
both.  `Packfile` has deltas that undo themselves, which those of `Delta` are
proved to do.

Conventions.  An object is its ID, and what it links to a constant function of
the ID.  The string a ref is named by is a model value, and `ValidRef` the set
of those `IsValidRef` accepts.  An absent ref is `ZeroID`, as in the code.
`pc[p]` is where a goroutine is in its method; the header of each module says
what the labels stand for.  Definitions in parentheses ("As it would be if ...")
directly before a definition are slips that the code avoids; each is used to see
that a property would notice it.

### MemRepository

A goroutine calls (`Invoke`), is refused without a lock (`Refuse`) or takes the
lock of its method (`AcquireRead`, or `AcquireWrite` and `Drain`, since
`RWMutex.Lock` shuts out new readers before it waits for the present ones), runs
the body, and unlocks and returns (`Release`).  `UpdateRef` is five steps:
`UpdateRefCheck`, then `GetObject` under `objectsLock` (`ObjectLock`,
`ObjectRead`, `ObjectUnlock`), then `UpdateRefStore`.  `ListRefs` copies one
entry per step.

### AppengineRepository

`LookUp`, `Load` and `Fill` are `repo.get`; `Put`, `Cache`, `Uncache` and `Del`
are `repo.put` and `repo.del`; `LookUpObject`, `LoadObject` and `FillObject` are
`GetObject`.  HEAD is the root entity and refs are its children, so they form
one entity group; a transaction that has used it commits only if nobody wrote
to the group in between, and is otherwise tried again from the start, three
times in all.  Every remote call may fail (`Unavailable`), a write or a commit also
after it has been made (`Unsure`), memcache may fail to set and may drop anything
at any time (`Evict`).  A transaction that is tried again is taken not to have
been committed.  What App Engine does is
external and follows its documented promises.

### Push and UploadPack

In `Push`, a client lists refs, builds commands from what it was told, and packs
what it thinks the server lacks.  At any moment the request can be lost or its
handler die (`Lose`), after which the client may send the same request again; or
the unpack fails (`UnpackFails`), and the commands are run all the same.  What such
an unpack has left out is in `missing` until it is stored, which no part of the code
knows: it is there for the property.
In `UploadPack`, the client has any closed set of objects, wants anything, and
tells of what it has in batches; pushes store objects at any time.  Over HTTP
one fetch is several calls of `UploadPack`: when the request has been read to its
end the call returns, and in the next (`Again`) the locals of the code are empty
again and the client repeats its wants and what has been ACKed so far.  What the
client was told (`acked`, `ready`) lives on, which is what the properties compare
with.

### Reads

A call of a helper or of `AdvertiseRefs`, one step per method of the repository:
`GetObject` for the chain of tags and commits that `GetCommit`, `GetTag` and
`GetTree` follow, `Entry` and `NoEntry` for the names of `GetPath`, `TryRef` for
those of `FindRef`, and `ListRefs`, `GetHEAD`, `GetRef`, `WriteLine`, `Flush` for the
advertisement, which uses `GetTag` for its peeled lines.  Any of these may fail
(`Fail`), and the error is made of it that the code makes; `failed` keeps for which
function or, of `FindRef`, for which name.  An answer is the object, the ID and the
error that the code returns (`Answer`), so the ID can be another one than the
object's, as it can for `GetPath`.  Between the steps other
requests store objects, set refs to objects whose links are there (`Push` shows
that refs are such) and set HEAD, as the example does at every request.
Links never lead back to an object (`ReadsAssumption`): its ID is a hash of the IDs
it links to.

### Base128, Pktline, Objects, Codec

The first three are operators without state, one per function of the code.
The byte formats have a smaller base and word, by the same arithmetic, with the
limits of the code as constants.  An object's binary form is the record of its
header and the entries or lines it consists of; a name is a sequence of runes,
since what is trimmed, scanned or cut off depends on them.  `Objects` has the Go
types as sets (`Commit`, `Tag`, `IsTree`, `Blob`) and those of what is received
(`Binary`), in which a body has any lines and entries.  `Codec` takes a value
through one of the formats: `Encode`, then a connection that may break (`Cut`) or
the datastore that may reorder properties of different names (`Reorder`), then
`Decode`; or data from elsewhere (`Receive`) is decoded.  A scan of a name or an
address ends at one of the `Delimiters` (the end of a line, NUL, an angle bracket),
and Unmarshal fails if there is one inside (`Scans`); Load fails for a tag whose
type is none of Git's, which Save takes.  `Plain` lists what the object formats do
not keep, see "Disagreements".

### Delta, Packfile

`Delta` goes through `computeDelta` and `applyDelta` instruction by instruction.
In `Packfile` an entry of the stream is a record that says what its header and
body would decode to and how the size in its header compares with its body; a
position is the number of an entry.  A whole body is that of an object and
`unmarshalObj` makes of it what `marshalObj` was given.  This is so for objects that
were unmarshalled once, as those that came by a push were, and for the others that
`Plain` admits (`Codec` is about that); it is not for others a program builds.

## Runs

| Run | Shows | Bounds |
|---|---|---|
| `MCMemRepository_calls` | inductive invariant, refs resolve, atomicity (refinement of `Repository`), compare-and-swap; every call returns | 2 goroutines, 2 objects, 2 refs, 1 malformed name |
| `MCAppengineRepository_datastore` | without caching, atomicity; every call returns | 2 goroutines, 2 objects, 1 ref, 1 malformed name, 2 attempts |
| `MCAppengineRepository_memcache` | refs and cached refs point at stored objects, no transaction is begun once too often | the same with memcache |
| `MCAppengineRepository_stale` | **violated**: compare-and-swap with memcache | |
| `MCWalk_order` | once each, only what is reachable, nothing missed, depth first, termination | every acyclic graph of 4 objects, 4 starts, 5 ends, every repository |
| `MCPush_refs` | refs name stored objects and lead only to stored ones, but for what a failed unpack has left out; pushes build on what was told | 2 clients, 3 commits, 1 ref and 1 malformed name, 1 repetition |
| `MCUploadPack_fetch` | the pack is enough and rests on ACKs, ready is true and stays so from call to call, no panic, termination | 4 objects, 2 wants, 2 batches in any number of calls, all capabilities |
| `MCReads_calls` | answers are right when given (of `GetPath` past `/`, the object and the error), `FindRef` finds the first, HEAD and peeled lines agree with the list | 8 objects (a tag of a tag, a tag that lies about its type, a submodule), 2 refs, any failure |
| `MCCodec_formats` | round trips, the datastore, overflow, lines arrive or the break is noticed, received objects keep their IDs | words of 7 bits in groups of 2, all strings up to 5 bytes; 3 lines of lengths 0, 1, longest, one more in base 2; trees of 3 files, 12 zones, persons with each delimiter, tags of no type, received objects with up to 5 lines or 3 entries |
| `MCDelta_roundtrip` | deltas undo themselves, fit, find the longest match, terminate; so does applying a broken one | all strings of up to 5 bits, and of 14; copies to 7, inserts to 4; received deltas of up to 2 instructions, the last possibly broken |
| `MCPackfile_read` | packs are read as written, objects and errors are right | packs of 3 entries, 3 objects of 2 types, any repository |
| `MCPackfile_sync` | **violated**: safe to continue after the listed errors | |

Why the bounds are enough.  Two goroutines are every pairwise race, and
a reader that waits for a writer that waits for that reader; a third could only
wait while two others pass a lock on, which is what the fairness of `RWMutex`
speaks of.  Two objects and
two refs tell moving a ref from moving another.  Four objects make every shape
in which two paths meet below a fork, which is what a visited set and a stack
can get wrong.  Two batches are the first and a later one, two wants one that is
done and one that is not.  In the byte formats
the base and the word are small so that every value and every boundary, also
the overflow of the last group (a group that only fits in part), occurs; the
strings of 14 bytes are longer than a window, than a copy and than the largest
offset.  Three file names of which one begins another, with a dash (before the
slash) or a letter (after it) as the next rune, are every case of Git's order of
trees.  `MaxResend`, `MaxBatches`, `MaxWants`, `MaxObjects` and `MaxAttempts` bound
what a client or a program does; only `MaxAttempts` is in the code (the
datastore's default of three), and the second attempt is begun as the third is.

Where a run may stop (`CHECK_DEADLOCK FALSE`), it is over: one walk, one fetch,
one call, one value, one delta, one pack.

### Fairness

* `MemRepository`: a goroutine inside a call keeps running, and `sync.RWMutex`
  hands itself on to those who wait (an unlocking writer lets in the readers
  that wait, and a waiting writer keeps later readers out), which is strong
  fairness of taking a lock.  Nobody has to make a call.
* `AppengineRepository`: a remote call returns, if only with an error.
* `Walk`, `Delta`: loops that nothing blocks.
* `UploadPack`: a read of the request returns, in the end because the
  connection is closed.  Nobody has to push.

### Disagreements found

Two have a run that TLC ends with a counterexample:

1. `MCAppengineRepository_stale`.  `UpdateRef` of the App Engine repository fills
   memcache inside its transaction (`repository/appengine/refs.go:64`).  A second
   `UpdateRef` can read that value, find it equal to its `oldID`, and commit
   before the first one, which then fails: the ref has been moved from a value
   it never had.  `repository/interface.go:52` promises an atomic compare-and-swap.
2. `MCPackfile_sync`.  `flushZlib` returns nil if there is more data
   (`packfile/packfile.go:28`), so an object whose header understates its size is
   cut short silently, and the errors after which it is "safe to continue
   reading" (line 125) can be returned with the stream in the middle of a body.

The models do what the code does in the others, too, and no run is about them; the
first of them is the one that callers can meet:

3. `GetPath` returns the ID of the first tree with whatever it got to: its local
   `id` is set again only when a submodule is gone through
   (`repository/objects.go:120`).  Its comment promises the ID of the object, of the
   tree without an entry, and of the object in a `TypeError` (lines 97-104).  `Entry`
   and `NoEntry` answer with that ID, so `AnswersStand`, which holds, says of
   `GetPath`'s ID only that it is the tree's if the path is `/`.
4. `pktline.Reader.ReadLine` never reads `atEOF`, so it does not return EOF
   "until Next is called" (`pktline/pktline.go:79`).  All callers stop at EOF.
5. `applyDelta` does not compare the lengths in a delta with those of its slices
   and relies on run-time panics, which come only beyond the capacity; such a
   delta can be applied, to bytes beyond the end (`Junk`), without the
   `ErrDeltaLength` of `packfile/delta.go:20`.
6. `ErrBadOffset` is also returned for a delta on an earlier object of the
   stream that could not be resolved (`packfile/packfile.go:37`).
7. What is unmarshalled is not always what was marshalled, so the ID computed
   from it is another one: a file name loses leading spaces and has bytes that are not UTF-8
   replaced (`object/tree.go:110`); the names and emails of people are trimmed;
   the zone -0000 becomes +0000; minutes over 59 are carried into the hours; a mode
   such as 040000 loses its zero.  Refused are file names with a newline, commits with
   other header lines (`gpgsig`, `encoding`), and persons whose name or address has
   the end of a line, NUL or an angle bracket in it (`object/shared.go:18`): the latter
   can be marshalled but not unmarshalled, as `object/object.go:45` warns.  A tag of
   none of Git's types can be saved in the datastore but not loaded
   (`object/appengine.go:169`).
8. `longestCommonSubstring` returns 1, 1, 0 if there is no common substring, not
   -1, -1, 0 (`packfile/delta.go:160`).  Its caller looks at the length first.

## Proofs

For all values of the constants, from the `ASSUME`s of the modules alone:

* `MemRepositoryProofs`.  `TypeOK` and `RefsResolve` are not inductive: that
  `UpdateRef` may store a ref depends on what it found under two locks.  `Inv`
  adds where a goroutine can be with which call (`PlacesMatchCalls`), who holds
  which lock and that a writer excludes readers (`LocksHeld`), when an answer
  is set (`AnswersInTime`), and what `UpdateRef` has compared and looked up and
  `ListRefs` has listed so far (`UpdatesStillValid`, `ListsStillValid`).
  `Initially` and `Inductive`, with one lemma per action, give `Invariance`, and
  from it `TypeCorrectness`, `RefsAlwaysResolve` and `CompareAndSwap`.
  `Linearizability` is the refinement of `Repository` with the identity as its
  mapping: the `TakesEffect` lemma of an action says that it is the method's
  atomic step (its answer is set then) or a stutter.
* `AppengineRepositoryProofs`.  `Inv` adds to `TypeOK` and `RefsResolve` where a
  goroutine can be (`PlacesMatchCalls`) and that what it has found stored, in
  memcache or the datastore, is stored when it acts on it (`FoundStored`): memcache
  may be late about a ref, and still no ref resolves to nothing, as objects are
  never removed.  `TypeCorrectness` and `RefsAlwaysResolve` hold for any `Cached`.
  The other theorems have `Cached = FALSE` as their hypothesis, without which
  `MCAppengineRepository_stale` refutes compare-and-swap.  `Isolated` then says that what a
  transaction has compared with is what the datastore holds, unless the
  transaction is `stale` and will not commit; from it follow `CompareAndSwap` and
  `Linearizability`, whose mapping (`Answered`) gives a call its answer at the
  commit or the read that settles it, before the goroutine knows of it.
* `PushProofs`.  `RefsComplete` rests on what a request is built from: what its
  new objects lead to is in the repository, in `missing` or in its pack, because that
  is where all is that the refs lead to which the client was told of, and objects stay
  (`Packs`); what is left to unpack makes up the rest, and moves to `missing` when the
  unpack fails.  So the invariant speaks of the objects that are `Known`, stored or
  missing, and of the refs that they hold (`RefsHeld`), and a ref can only come to
  lead to something that is not stored if a pack with it was not unpacked to its
  end.  `NoPushIsUndone`
  follows from `Requests`, that a command's `oldID` is what its client was told.
* `UploadPackProofs`.  `FetchInv` says that both sides hold what is common (`Held`), how
  `want`, `start`, `end` and `todo` go together (`Locals`), that what `end` rests on
  was said or will be (`IsTold`), that wants with a common object stay
  done in later calls (`StaysCommon`, `StaysReady`), and what is sent
  (`Sending`).  `Reach(S, T)`, the objects a walk from S through T gets to, is the
  least set of its kind; the lemmas on it do without induction.  `Invariance` gives
  `SentIsEnough`, `ReadyMeansCommon`, `ReadyIsKept`, `PackFollowsAcks`, `NoPanic`.
* `Walk`, in the same module.  The stack is the difficulty: `Inv` says that every
  unvisited link of a visited object is on it, that nothing lies above it but what
  was pushed later (`StackIsNested`), and that as long as there is one Walk has
  not left the objects below (`StaysBelow`).  `WalkInvariance` gives
  `WalkCallsOnce`, `WalkStaysWithin`, `WalkIsComplete` and `WalkIsDepthFirst`
  for any finite set of objects and any graph.  `WalksAreSteps` says that a walk
  which has returned nil has called its function for just the objects that
  `UploadPack` takes in one step: `Visited(w)` from a want, `Walk` for the pack, in
  what the repository holds when the walk returns.
* `ReadsProofs`.  `Finding` says that FindRef is at its k-th name, and that each of
  those before it is absent or was set meanwhile.  `Advertising` follows what is
  `Announced` of a name, in the lines that are written and those that are left:
  the list says of a ref what it is, unless it was set since (`Listed`), and the
  line for HEAD says the same (`Agreed`), since the two calls it comes from see
  the refs of the list or a ref that is in `moved`.  For `TagsArePeeledRight`,
  `AllPeeled` goes through the tags of the list one by one (`TagsFollowed`): what is
  followed starts at the ID in the list, whatever the ref has become.  For
  `AnswersAreOfOneMoment`, `Answering` says that what is to be made of the object
  asked for is what is to be made of the one at hand, in what is stored now and in
  whatever will be: what was looked up stays, so the answer is right when given.
  Of the IDs that `GetPath` gives it has only that of `/`, since the others are wrong
  (disagreement 3).
* `PackfileProofs`.  `Counted` says how many results there are for the entries that
  were read, `Remembered` that `ofs` has just what was returned, also for
  objects that could not be stored.  From that follows `BadOffsetsAreNamed`, for
  packs of any length.  `Right` adds that each object returned is what its entry
  stands for (`ObjectsReturnedAreRight`), and `AsWritten` that the Reader is at
  the object that was written at its place (`WhatIsWrittenIsRead`).
* `DeltaProofs`.  `Laid` says that instructions lie one after the other, each making
  its part of the result; of `computeDelta`, the instructions so far with the
  window of the bytes left to go through, of `applyDelta` that what it has made is
  what lies before its place (`IInv`).  The steps need that `Suffixes` are common
  suffixes and give the longest match, that `Extended` gives bytes that are equal,
  and that a copy's offset and length are read from the bytes of the mask as they were
  put there (`CopyIsRead`, sums of digits over sets of places).  `Invariance` gives
  `DeltasRoundTrip`, `InstructionsFitTheirEncoding`, `LongestMatchesAreCopied`, and
  the steps `WindowsMoveOn`.  `IInv` speaks of some places among all sequences of
  numbers, so TLC cannot evaluate it; it checks what follows from it.
* `CodecProofs`.  `Inv` only says that what is decoded is what was encoded or
  received (`Sent`), the front of it (`Torn`) or a rearrangement (`Shuffled`);
  the rest is about the operators of the formats.
  - Numbers: the groups of a number are the remainders of dividing it again and
    again, which the decoders' sums undo; a number of more groups than `MaxLen`
    does not fit, and `TooLarge` is exact.  `OverflowNoticed`, and the numbers
    in `RoundTrips`, are for words and groups of any width.
  - Lines: after i lines the stream is `F[i]` and what should be read `W[i]`;
    each call of `ReadLine` reads the next chunk of the stream as far as it has
    arrived (`NextRead`), and the first torn one is where it ends.
    `LinesSurvive` follows for any lines and any cut.
  - Objects: the order of names is that of the first runes that differ, so it is
    total and a finite set has exactly one sorted list; Git's order of entries is
    the order of the names with the slashes (`GitOrder`), so a tree that is
    received in Git's order is the list that `Names` makes (`TreeIsKept`).  A
    commit and a tag are taken apart line by line, a signature rune by rune.
    `RoundTrips` and `IDsSurvive` come from these.  Both speak of what `Plain`
    admits; of what it does not, some comes back changed and some not at all.
  - The datastore: `Only` selects the properties of a name, and a rearrangement
    (`Rearranged`) keeps what it selects (`LastOfRearranges`).  What is parsed
    depends on nothing else, so each type is loaded from any rearrangement of
    what was saved (`StoredLoads`), but for a tag of none of Git's types, for
    which Load fails (`Kept`).

  `CodecAssumption` is what the Go types say (a map is finite), that capabilities
  have names, and two things about objects: that the name of a file has no slash, and that a zone is an offset of whole minutes.  Git has no trees that
  break the first, and a zone that was scanned is never one that breaks the second;
  objects a program builds could, and `Names` and `Signature.String` would lose
  what they say.

What is recursive (`Peel`, `PathFrom`, `Encoded`, `Suffixes`, `Extended`, `Weight`, `Power`,
`LEGroups`, `MBEGroups`, `ReadLines`, `WrittenOf`, `SumOf`, `Only`) is written as
functions, which TLA+ defines as a choice of a solution of their equation.  That
there is one is proved first, by an induction in the form of a least
counterexample: a set of arguments with no solution has a least element (of
numbers, or by links), for which those below it give one after all.

For sequences the same induction is done with a set: one that has the empty
sequence and, with a sequence, all that are one element longer, has all
sequences (`AllSequences`).

Only model-checked: liveness (that calls, walks, deltas and fetches end), which
TLAPS cannot do with fairness.  All other properties of the passing runs are proved.

## Not modelled

* `IsValidRef`: the names it accepts are a constant, `ValidRef`.
* How decimal numbers, dates, messages and IDs are printed and scanned, and
  `MarshalText` of commits, tags and blobs, which is their binary form.
* `Sscanf` on the lines of `protocol/fmt.go`: a line is what is scanned from it.
* HTTP headers and statuses and the routing of the example.
* A text with the end of a line in it, and the lines after that which the format
  wants: Unmarshal would take them for those of the object.  Such texts are taken to
  be refused.
* Whole bodies in a pack that are of no object: ReadObject refuses them, as it does
  those in the model that are cut short.
* A delta whose length is too large to allocate (`packfile/delta.go:67`).
* SHA-1, zlib and `encoding/binary` are taken to do what they promise.
* `objHeaderSlice` and `objectSizeOf`: they only order a pack.
* `UpdateRef` of the App Engine repository with a malformed name: what its nil
  key means to the datastore is not in this code.
* Objects changed by a caller after `PutObject`.

## Plan

Done, in this order: `RepositoryInterface`, `Repository`, `MemRepository` and
its proofs, `Walk` and its proofs, `AppengineRepository`, `Push`, `UploadPack`,
`Pktline`, `Base128`, `Delta`, `Packfile`, `Reads`, `Objects`, `Codec`, and the
proofs of `UploadPack`, `Push`, `AppengineRepository`, `Reads`, `Packfile`,
`Delta` and `Codec`.

What is left is `Receive`: `Packfile`'s Reader inside `ReceivePack`, for packs whose
deltas have their bases in the repository while other pushes run.
