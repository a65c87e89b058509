# Veda in TLA+

TLA+ models, TLC runs and TLAPS proofs for Veda: its server modules, the page
logic of its JavaScript client, and two of the programs its script machines run
(the workflow engine and the numeration of documents). The code is the reference: every definition stands for lines of `src/`, listed in
`PROJECT.json` under `map`.

## 1. The system

Veda stores *individuals* (RDF-like objects). One process, **veda-mstorage**,
writes them; everything else follows a queue of the changes it made.

```
 web client --HTTP--> web server --nng--> veda-mstorage --> database (LMDB / Tarantool)
                                                |
                                                v
                             file queue individuals-flow (v-queue)
        +-------------+-------------+-----------+-----------+-------------+
        v             v             v           v           v             v
  az-indexer   ft-indexer    scripts main   ontologist   fanout, exim   ccus
  (rights)     (full text)   scripts lp,lp1              (other nodes)  (subscriptions)
```

Each follower is a process with its own cursor in the queue. It runs
`Module::listen_queue` (v-module), waits for a notification or 30 s, reads what
is new, gives every message to its `prepare` callback and commits its cursor.
Followers that produce changes (scripts, exim) send them back to veda-mstorage.
The script machines run programs that are themselves data of the system: each
event script is started by a change, sees the changed individual as it was
queued and everything else as it is stored, and what it writes is stored one
individual after the other when it has ended. A page keeps models of
individuals, a local database and a queue of calls it made without connection;
veda-ccus tells it which of its individuals changed.

| component | state | operations | what is hard | what makes it correct |
|---|---|---|---|---|
| v-queue, producer | parts of a queue (record file, info file), `info_queue`; counters in memory | open a part, push, publish counters | death or failure between two writes; restart | what readers are shown is whole, in order, never changes |
| v-queue, consumer | `info_pop` file; cursor in memory; copies of the producer's counters | batch size, read header, read body, next part, commit | reads files while they are written; moves between parts; own restart | nothing skipped, order, saved cursor never ahead |
| v-module | subscription socket, batch counters | `listen_queue` | prepare and commit are two steps | each message handled at least once |
| veda-mstorage | database, queue, `op_id` file, ticket cache | put, add_to, set_in, remove_from, remove | three stores changed one after the other | the queue tells every change, op ids grow |
| veda-scripts-v8 | cursors of main, lp, lp1; a transaction per event | wait for main, run scripts, commit the transaction | lp follows main through a file | lp never overtakes main |
| v-authorization, az-indexer | right sets, group sets, counters | index a permission, membership; answer authorize | counters, removal, cycles | same answer as the permissions given |
| veda-auth | failed attempts, secret codes, tickets | authenticate, request and use a code | locks, expiry | no ticket without credential, lock expires |
| v-exim | cursor; exchange of changes between nodes | send, answer, retry | lost answers, repeated sends | each change arrives |
| veda-bootstrap | started processes | start, watch, restart | a module dies while it is looked at | one process per module |
| veda-ccus | subscriptions, counters per session | subscribe, unsubscribe all, poll the queue | subscription and poll are two sources | every later change is told |
| ft-indexer, search-index, ontologist, fanout, geo, winpak | their target store | index or export | same loop as above | follow the queue |
| IndividualModel, backend | model and its original, requests on their way, offline queue, local database | load, edit, save, reset, queue a call, flush | answers late, twice or never; edits during a save; page opened anew | nothing reported as saved is lost, no older edit ends above a newer one |
| update service | list, buffer, socket of the page | subscribe, notified, reconnect | a notice while a reset is on its way; lost sockets | the page comes to show what is stored |
| docflow engine | start forms, processes, work items, work orders, decision forms | df1 .. df5, the stop script | changes handled late and in any order; parallel branches, joins, several voters | each task left once, joins wait for all, results final, the process ends |
| numeration | a scope: a list of intervals of numbers | next, commit, revoke | numbers chosen at one time and committed at another | unique numbers, each in one interval |

`PROJECT.json` lists every component, with the reason where one is not modelled,
and the hazards of the code at the line where they bite.

## 2. Modules

| module | what it models |
|---|---|
| `VQueue` | producer side of a queue: `queue.rs` with every file write a step, write failures, short writes, death between any two writes |
| `QueueConsumer` | EXTENDS `VQueue` with one reader: `consumer.rs` inside `listen_queue` of `module.rs`, every file access a step, deaths of the reader |
| `EventFlow` | abstract specification: a log read at least once and in order, with a durable cursor |
| `QueueFlow` | the refinement mapping from `QueueConsumer` to `EventFlow` |
| `QueueConsumerProofs` | theorems about `VQueue`, and about the reader beside its producer |
| `QueueFlowProofs` | the refinement as a theorem; EXTENDS `QueueConsumerProofs` |
| `MStorage` | veda-mstorage: requests of several changes through two databases, the queue and the info file, each of which may fail, with death between any two |
| `StoreFollower` | EXTENDS `MStorage` with a module that follows the queue (az-indexer as the example) and the clients that wait for its operation id |
| `StoreFollowerProofs` | theorems about `MStorage`, and about a follower beside it |
| `Scripts` | veda-scripts-v8: the machines main, lp, lp1 on one queue of parts; choice of scripts, transactions, lp's wait for main |
| `RightSets` | az-indexer's `prepare` and the encoding of rights (`formats.rs` of v-authorization) under histories of statements |
| `RightSetsProofs` | theorems about `RightSets` |
| `Docflow` | the workflow engine `docflow.js`, `docflow-util.js`, `codelets.js` and the event scripts of `veda-workflow.ttl` on one script machine, with the users who answer, change their mind and stop |
| `Client` | one page, one individual: `individual_model.js`, `backend.js` with its offline queue, the local database, the server and other writers |
| `Updates` | `update_service.js`, the page's requests and `server.rs` of veda-ccus |
| `Numerator` | `numerator.js` and the numeration event, on one script machine, with the users |
| `ScriptsProofs`, `ClientProofs`, `UpdatesProofs`, `NumeratorProofs` | theorems about the module each is named after |
| `MC...` | instances for TLC |

### VQueue

A record file is a sequence of *cells*. A header is one cell and a body is one
cell, because the code writes each with one `write` call, and positions count
cells (`RecordLen = 2`). A message is the number of the push call that carries
it. `ppc` is the place inside `Queue::new` or `push`; `id`, `right_edge`,
`count_pushed` and `is_ready` are the fields of the struct; `offset` is the
position of the file handle, which is *not* `right_edge` after a failed or
short body write. `Faults` says which writes may fail. A short body write
(`write` accepts fewer bytes and returns no error) writes no cell: it leaves no
complete body. `torn` remembers the parts in which a body was lost; the
properties on record layout exclude them, and that is a statement about the
code: after a failed body write `push` returns `FailWrite` but the handle stays
behind the orphan header, so later records of that part are misplaced.

`acked` remembers the pushes that returned Ok, one of which may be the push
whose `put_info_push` failed: the code rolls the counters back, refuses further
pushes and still answers Ok.

### QueueConsumer

`cpc` names the next file access of the reader:

| cpc | next access |
|---|---|
| down | `Consumer::new_with_mode`: cursor file, info file, record file |
| loop | `get_info_of_part` at the head of the loop in `listen_queue` |
| batch | `get_batch_size`, which may read `info_queue` |
| pop, refreshed, next_part, commit_part, header | the steps of `read_header` |
| body | `pop_body` |
| prepare | the callback |
| next, next_commit | `Consumer::next` |
| after, wait | `after_batch`, then `recv` on the notification socket |

`q_info` and `q_data` are the parts whose info and record file the reader has
open; they differ from `c_id` for a while on purpose. A header read where no
header stands is `Garbage`. A checksum that fails moves `pos_record` first, as
the code does. `PrepareResults` lists what the callback may answer; a
`Recoverable` error is committed like success because `listen_queue` does so.

### MStorage and StoreFollower

An individual is the values of one predicate, its deleted flag and its
`v-s:updateCounter`. `pc` walks through `operation_prepare` and
`to_storage_and_queue`: `item` (authorize, read, apply, primary database),
`backup`, `push`, `put_info`, and for a remove a second round (`remove`), since
the code first stores the individual as deleted and then removes it. `log` is the
queue as readers see it; of what a push can do, the model keeps the two outcomes
that differ for mstorage: refused (`PushFails`), and unpublished but answered Ok
(`"publish"` in `Push`), which is what `VQueue` shows of `put_info_push`.
`acks` and `gaps` are history: the positive answers sent, and individuals of
which a change was stored but is not in the queue.

`StoreFollower` takes from `EventFlow` how a module is given the log, and adds
`put_info` of the module's own info file and a copy (`view`) of each individual.

### Scripts

A cursor is a part and a count in it. A machine's file is `Empty` between
truncation and first line when it enters a part (what `QueueConsumer` shows), and
`get_info` leaves the old values when it reads an empty file. `WaitMain` is the
loop at main.rs:187-197. An event's path (`event_id`) is the sequence of script
runs that led to it; `NotLooped` reads it as main.rs:325-346 does. A transaction is sent one
individual at a time: mstorage may refuse (`UpdateRefused`: `prepare` is Fatal,
the process ends), or the request may fail (`ItemDropped`: the item is given up,
the loop goes on).

### RightSets

The index has, for each key (filter and resource) and subject, an access and a
counter for each letter. One element of the queue becomes a sequence of writes,
one per resource (`IndexRightSets`, `AddOrDelRightSets`), each of which reads,
updates (`Updated`) and encodes a record. `DecodedV1`, `DecodedV2` and `Stored` are
what encoding and decoding do to a right: format 1 keeps no counts and exchanges
permissions and denials of a two-digit number, format 2 keeps counts.
`GetDisappeared` is always empty because the code returns another vector than the
one it fills. A remove names only the individual, so its element has an empty new
state (`RemovePerm`). `again` is history: the rights named by an element that was
begun before a death and is given again.

### Docflow

An individual is a record in `db`, and its identifier is its place there. `queue`
holds the changes the machine has not taken, each with the record as it was
queued, the record before it, and the script (or user) that wrote it. A script is one
step (`RunDF1` ... `RunStop`) that fills `tx`; `Commit` stores one entry of `tx`
and queues it, so that a change of a user falls between any two writes. Several
writes of one individual by one script are one entry, the last. The net is a constant:
`HasFlow` gives each element its flows with the test the code evaluates
(`wi_result.is_some_value`, `is_all_values`, none), `Executor` the executors of a
task, `CodeletResult` what a codelet may answer. `PrepareWorkOrder`,
`PrepareDecisionForm`, `PrepareProcess`, `StartTask` and `ReachOutput` carry the
names of the functions they stand for. `Hurried` names what users do while the
machine has work: by default the voters of one task, a stop and a second
start form wait until it is idle (`Now`); all other answers come at any time.

### Client

The model has `val`, its original `orig`, the counter it was read under and the flags
`isNew`, `isSync`, `isLoaded`. A value is a number: each edit of the page brings a new one, so
that properties can tell which edit is newer. A save is the set of its calls (`put`, or
`add_to`, `set_in`, `remove_from`), each of which is sent, executed,
answered, failed or queued on its own. `EnqueueGets` and `EnqueuePuts` are the two
accesses of `enqueueCall`, `FlushSends` ... `FlushDone` the loop of `flushQueue`.
`status` is the backend's view of line and socket, with the ping that is
repeated while it is offline. `Reload` leaves the local database and nothing else.
`behind` is history: the model was once taken from a copy (an answer, or the local database)
without an edit that was executed, queued or being saved (`Taken`). `NotUndone` is
about the time before that.

### Updates

The individual is its counter: what a page shows is the counter it read. `ccus` is the
subscription element of the individual in veda-ccus with the sessions that watch it,
`popped` the place in the queue; a batch tells only its last counter, as
`prepare_queue_el` does. `list` and `buffer` are the two collections of the update service; a buffered
command belongs to the socket of the closure that made the timer.

### Numerator

A scope is a list of intervals, each an individual. `CommitValue`,
`RevokeValue` and `GetNextValue` return the writes of the function of that name;
`Numerate` chooses among them by the document as it is stored and the state before
the change, as the script does.

`Hurry` and `Habits` in these three modules name coincidences. Each is a race or a case
that the code does not guard against and with which TLC shows the promise broken (section 6);
the runs leave them out, and show what the rest of the interleavings keep.

## 3. Runs

| run | question | bounds | result |
|---|---|---|---|
| `reader` | what may readers rely on, and is anything skipped, repeated or reordered? | 3 parts, 3 pushes, all faults, every answer of `prepare`, 2 reader deaths | pass |
| `queue_flow` | do both implement `EventFlow`, and does every message get handled? | 2 parts, 3 pushes, 2 deaths | pass |
| `store` | what do an answer, the queue and the database tell of each other? | 2 individuals, 3 items in requests of 1 and 2, 2 deaths, all faults but the backup's | pass |
| `store_follower` | may a client rely on a module's operation id, and does its wait end? | the same items, refused pushes, 1 follower death, no death of mstorage | pass |
| `op_id_reused` | the same when mstorage dies | 1 death | violated (section 6) |
| `scripts` | one machine per script and element, cascades end, no transaction lost, lp not past main; do both machines get to the end? | main and lp, 2 scripts that trigger each other, 2 parts, 1 user change, 1 death or refusal, lost requests | pass |
| `right_sets` | does the index give the rights the statements give? | 2 statements, 2 resources, 2 letters, unbounded histories, 1 death | pass |
| `removed_by_name` | removal of a statement with a filter | 1 resource, 2 filters | violated (section 6) |
| `docflow` | is each task left once, do joins wait, are results final, is nothing left behind, do processes end? | a net of 7 elements and a subnet of 4, 2 users, 1 changed decision, 1 repetition, 1 stop | pass |
| `client` | is what was saved safe, in order, and does it arrive? | 2 edits of a property, 1 other writer, 2 faults (lost line or page), 4 of these in all | pass |
| `updates` | does the page come to show what is stored? | 2 changes, 2 losses of line or socket, 1 reload | pass |
| `numerator` | are numbers unique and rightly kept? | 3 documents, numbers 1 to 4 entered, 5 changes, 1 death before the first write of a transaction | pass |

`reader` is the instance on which the invariants of `VQueue` that are not listed there
(`PublishedWhole`, `FreshPart`, `OldPartsClosed`) were model-checked too before they
were proved; the same holds of `BackupFollows` and `store`. The `TypeOK` of
each other module holds on its run's instance, and is not among the run's
properties: they say more.

Why the bounds are enough. A hand-over between parts needs two parts, a hand-over
that meets an empty part needs three. Two records in one part and one in the
next show every boundary (first, last, across parts); the
third may also follow a push that failed in the same part. `FairFlowSpec` allows two reader
deaths, so that a death during recovery happens.

`store`: a reused operation id needs a death, its answer a second one; three items
are a change, one of the same and one of another individual, in one request or two.
`scripts`: s1 (main) writes what triggers s2 (lp), which writes what triggers s1, and s2
keeps the source of the change it answers; one user change starts such a chain,
and the second part makes lp wait for a main that is in another part. `MaxLog`
is no bound on the chain: `CascadeEnds` says it is never reached. `right_sets`:
two statements are the fewest that share a right, two resources the fewest between
which a death can fall, and no bound is set on how often they change. Statements
are symmetric. `DefaultAccess = {"R"}` makes a statement without access mean
something, as for memberships; with `{}` (permissions) the same properties hold.

`docflow`: the net has one of each thing the engine treats differently: a task
that leads back, a split, two voters, a subnet, a codelet, an XOR split, a task without executor that joins
two branches with an AND. The stop may come while the subnet is open, the
changed decision before or after the net went on. `MaxId` is never reached.
`client`: one edit under way and one newer are the fewest that can end in the wrong
order, the third writer moves the counter under both; two faults are a call whose answer is lost and a flush that is
interrupted. With two properties and the same bounds the invariants hold too
(10.4 million states; a run by hand, as it takes longer). `updates`: two changes are one that is told and one that falls in
between, two losses a second one during recovery of the first. `numerator`: three
documents are the fewest whose middle number can be revoked, with one interval cut in two; five
changes number all three, revoke, and number again; four numbers let an interval be
joined at both ends.

CHECK_DEADLOCK is off where something bounded runs out: the pushes and starts of the producer,
the requests to mstorage, the changes of users, the faults; and a reader whose dial failed really stops.

Fairness. `FairFlowSpec` is weakly fair for one thing: the next step of the
module's thread, which is one thread of one process and is restarted by
veda-bootstrap. Nothing is assumed of the producer. `DeliversFlow` assumes a
connected notification socket (`DialMayFail = FALSE`): on a socket that was never
dialled `recv` has no timeout and the loop waits for ever. `FairFollowSpec` and
the `FairSpec` of `Scripts` assume the same: each follower's one thread keeps taking steps. In
`WaitEnds` nothing is assumed of mstorage; in `AllTreated` nothing of users. A death
of a machine is bounded, so that it does not die for ever.

`FairSpec` of `Docflow`: the machine takes steps, and each user sooner or later answers an open
form (`Answer`); nobody has to send, change or stop anything. Of `Client` and `Updates`:
requests are answered or fail, the ping's timer and the buffer's timer fire, the
line comes back, sockets are opened again (the page retries for ever) and veda-ccus
polls its queue; nothing of the user, of other writers and of losses. Of
`Numerator`: the machine takes steps. Liveness is stated as "again and again"
(`[]<>`), so that it holds also after the last fault.

## 4. Proofs

`QueueConsumerProofs` begins with the producer. For every `MaxPart`, `MaxPush` and `Faults`:

| theorem | property |
|---|---|
| `TypeCorrect` | `TypeOK` |
| `PublishedWholeHolds` | `PublishedWhole` |
| `AckedPublishedHolds` | `AckedPublished` |
| `FreshPartHolds` | `FreshPart` |
| `PublishedImmutableHolds` | `PublishedImmutable` |
| `OldPartsClosedHolds` | `OldPartsClosed` |

The properties are not inductive by themselves. `IInv` adds four facts:
`FutureParts` (parts after the newest hold no record and at most an empty info
file), `NamedPartsExist` (parts up to the newest have an info file),
`OpeningState` and `RunningState` (how the struct's counters relate to the
files at each `ppc`) and `TailState` (what stands behind the right edge in the
newest part: nothing, an orphan header, or a whole unpublished record). The
step lemmas show that every action keeps each conjunct; a restart never goes
back to a part with records because `FutureParts` says so about the part it
opens. `Invariance` is the temporal theorem, the others follow from it.

Assumptions used: `MaxPart \in Nat`, `MaxPush \in Nat`, `Faults \subseteq
FaultKinds`.

`StoreFollowerProofs` begins with the server. For every `Ids`, `Values`, `Requests`, `MaxItems`,
`MaxCrash` and `Faults`, with and without a backup database:

| theorem | property |
|---|---|
| `TypeCorrect` | `TypeOK` |
| `AckedQueuedHolds` | `AckedQueued` |
| `AckedOpIdUniqueHolds` | `AckedOpIdUnique` |
| `LogTellsStoreHolds` | `LogTellsStore` |
| `ChainUnbrokenHolds` | `ChainUnbroken` |
| `BackupFollowsHolds` | `BackupFollows` |

Again none of them is inductive. `IInv` says in addition:

* `Placed`: the item in work is one of the request's, so `current` is defined.
* `OpIds`: an id that was answered, to a client or inside the request in work,
  is at most the saved one, and the one in work is above it. This is why a
  reused id is never answered twice: the death that leads to the reuse comes
  before `put_info`, hence before the answer.
* `AnswersTold`: what the next answer will say is already in the queue.
* `Tells`: the queue tells every individual's state, except that of the one
  whose change is between the database and the queue; there it tells the
  previous state the change will carry. `ChainUnbroken` and `LogTellsStore`
  both come from it.
* `Backs`: the same for the backup database.
* `LostBound`: after a record was not published the queue refuses pushes, so a
  run of the process has at most one answer without an element. The counting is
  done with the library's facts about finite sets.
* `LastPlaced`: the elements of an individual have a last one. It is true of
  every finite sequence; as a conjunct of the invariant it needs no induction over
  the sequence, since the server's steps, each of which appends at most one
  element, show it.

Assumptions used: `Requests \subseteq Seq(Item)`, `MaxItems \in Nat`,
`MaxCrash \in Nat`, `UseBackup \in BOOLEAN`, `Faults \subseteq StoreFaultKinds`.

It goes on with the reader, for every number of parts, pushes and deaths of both
processes, every set of faults and every set of answers of `prepare`:

| theorem | property |
|---|---|
| `ProducerUndisturbed` | `FlowSpec => Spec`: what is proved of `VQueue` holds beside a reader |
| `ConsumerTypeCorrect` | `ConsumerTypeOK`, hence no counter wraps in `get_batch_size` |
| `SavedCursorSoundHolds` | `SavedCursorSound` |
| `DeliversOnlyAckedHolds` | `DeliversOnlyAcked` |
| `OrderedDeliveryHolds` | `OrderedDelivery` |
| `NothingSkippedHolds` | `NothingSkipped`, for `BatchLimit = 0` |
| `LeavesPartAtItsEndHolds` | `LeavesPartAtItsEnd`, for `BatchLimit = 0` |

`FilesInv` says of the files what a reader has to know: behind the published
records of a sound part stands a header (`TailIsHeader`), cells carry messages in
the order of the pushes (`CellsOrdered`), a whole record is an acknowledged push or
one whose header counts more than the info file does (`BodyAcked`: this is how the
body of a failed `put_info_push` is told from a published one), and
`EdgeMatchesCount` ties the two counters of an info file. `ReaderInv` says of the
reader that its counters are those of some info file it has read (`CountersRead`),
that its cursor is never past them (`CursorBehind`) and at a record boundary in a
sound part (`CursorAtRecord`), that the header in work is the one that stands at the
cursor (`HeaderRead`) and that everything handed over before is older
(`LastBefore`). `UnlimitedInv` adds that what both cursors are past was handled.
`BatchLimit = 0` means that `before_batch` answers `None`, as it does in all modules
but two; a module with a limit (section 6) may leave a part before its end, so the
two theorems are false without it.

`QueueFlowProofs` proves `ImplementsFlowHolds`: `FlowSpec => ImplementsFlow`, the
refinement of `EventFlow`, for the same constants where `BatchLimit = 0` and no body write
fails (`NoBodyFault`). With a limit a part may be left before its end, and a lost body misplaces
the records behind it (section 2): in both cases the reader does skip a message.
The log of the mapping is the parts' contents one after the other, a sequence of sequences flattened. `FlattenIs`
says what `FlattenSeq` returns; `JoinedNext`, `JoinedAt` and `JoinedAppend` say what
another part adds, where a record of a part stands, and what a push does to the whole.
`ProducerFlow` and `ReaderFlow` map each step: a push that publishes is `Append` of
the abstract log and changes no message before it, since no part after the producer's holds one
(`FutureEmpty`); `prepare` is `Handle` of the message at the abstract cursor (`InHandIsNext`);
`next`, `commit` and a restart are the abstract moves; everything else stutters, entering a
next part too, since the part that is left was read to its end (`UnlimitedInv`).

For every number of deaths of both processes `StoreFollowerProofs` proves of the follower:

| theorem | property |
|---|---|
| `ServerUndisturbed` | `FollowSpec => Spec`: what is proved of `MStorage` holds beside a follower |
| `FollowerConvergesHolds` | `FollowerConverges` |
| `OpIdWaitUntilDeath` | `crashes = 0 => OpIdWait` |

`ViewAtCursor` is the idea: an individual whose copy is not what the queue had told
at the cursor is told of again. It covers the time after a restart, when
the copy is ahead of the cursor. `IdsGrow` holds until mstorage dies for the
first time; afterwards `OpIdWait` is false (run `op_id_reused`), so the
hypothesis is the weakest that can be had.

`ScriptsProofs` proves, for every set of machines, documents and scripts, every order of
scripts, every cascade and every number of user changes, parts and deaths:

| theorem | property |
|---|---|
| `ScriptsTypeCorrect` | `TypeOK` |
| `OneMachineHolds` | `OneMachine` |
| `NoTransactionLostHolds` | `NoTransactionLost` |
| `LpNotAheadHolds` | `LpNotAhead` |

`ScriptsInv` says of each machine (`MachineInv`) which places its three cursors
can name (`CursorsReached`, `AtElement`), in what order they stand (`Behind`), and
that what they are past was committed (`NothingLost`). `LpNotAhead` is the hard one: lp reads a
file that main truncates, so it may see an old cursor, and main may go back. The
facts that settle it are `MainDone(saved[Main])` and
`MainDone(cursor[Main])`: all places before a cursor main had at any time are done,
and `done` never shrinks, so an old value is as safe as a new one. Assumptions
used: `Main` is a machine and no user is (`VmsAssumption`), the order names scripts
(`OrderAssumption`), each script runs at one machine (`RunAtAssumption`).

`NumeratorProofs` proves, for every set of documents and every bound:

| theorem | property |
|---|---|
| `IntervalsApartHolds` | `IntervalsApart`, for every `Habits` without `"die"` |
| `UniqueNumbersHolds` | `UniqueNumbers`, for `Habits = {}` |
| `NumbersCommittedHolds` | `NumbersCommitted`, for `Habits = {}` |

A transaction of the numeration script is a sequence of writes, each stored by
itself. `Leads` says that a sequence of writes goes from what is stored, through sound states,
to a result; `CommitAdds` and `RevokeTakes` show that `commitValue` adds exactly
its value to the numbers covered and `revokeValue` takes exactly its value out, in
every case (extend an interval at either end, join two, cut one in two, drop one).
`SettledInv` relates documents, queue and intervals: before and after each
transaction every document in use, taken as it was before its queued change if it
has one (`Prior`), has a number of its own that the intervals cover (`Settled`), and
during a transaction only the document in work may still lack it (`Pending`). With a death between two
writes the intervals overlap, and with the other `Habits` (a number entered by hand
while one is being given, and so on) numbers are used twice: section 6 lists these, so
the hypotheses are those under which the properties are true.

`RightSetsProofs` proves, for every finite set of statements and resources, every set of
subjects, histories of any length and any number of deaths of the indexer:

| theorem | property |
|---|---|
| `CountsExactHolds` | `CountsExact` |
| `RightsAsGrantedHolds` | `RightsAsGranted` |
| `NothingUngrantedHolds` | `NothingUngranted` |

`CountsExact` speaks of the moments between two elements and is not inductive.
`RightsInv` says at every moment what each statement is *shown* to give (`Shown`):
what was told of it last, but for the element in work what its writes have made of it so far
(`Standing`: the previous state where a removal is still to be written, nothing
between removal and addition, then the new state). `CountOK`, its core, says
that each counter is the number of statements that show its letter. `GivenOnce` and
`TakenOnce` prove that an update followed by encoding and decoding adds one or takes
one, also for rights so small that they are stored without counters; `IndexedWhole`
that `index_right_sets` takes what the previous state gave before it
gives what the new state gives, key by key; `Linked` that elements of
one statement continue each other in the queue, so that committing
one (`CommitKeeps`) leaves shown what is told next. After a removal by name
they continue each other only up to what they give (`Alike`): the queue says
"deleted" first and "nothing was there" afterwards.

The hypotheses (`Ordinary`) are those under which the properties are true. Format 2:
format 1 keeps no counters. No letter denies: section 6 shows what becomes of
permissions and denials. One filter: run `removed_by_name` shows a right that stays
under its filter. `Habits = {}`: what the others do is in section 5. Deaths are
allowed, as the properties except the rights of elements that were begun twice
(`again`). `FiniteAssumption` (finitely many statements and resources) is what
counting them, and listing an element's resources, needs.

`ClientProofs` proves `AckedSafeHolds`: `AckedSafe`, for every set of properties, every number
of edits, other writers' changes, losses and pages opened anew, where `Careful` holds: `Hurry = {}`, and
no two values are taken for equal. Each of these is needed: section 6 has the behaviour that loses an edit
without it. `AckedSafe` speaks of the moment `save` returns; what it rests on is where an edit
is before that. `CallsCarry`: the calls of a save carry every edit that the
original lacks. `SavesSafe`: what is being saved is safe (executed or in the offline queue) or carried by
a call, and the model shows nothing else meanwhile. `CallsSafe`: an executed or queued call's
edits are safe. `CopiesSafe`: every copy the page treats as saved (original, local database,
answers on their way, a synchronous model) holds safe edits only; without this a later save
would skip an edit as unchanged. `Separate`, `FlushFollows` and `OneEnqueues` say why reading and
rewriting the queue loses nothing: a save and a flush are never under way together, a
flush goes through the queue that is still there, and one call at a time is between its two accesses.

`NotUndoneHolds`: `NotUndone`, under the same hypothesis. Its invariant is about the order of edits, which
no variable keeps. `Gone(p, v)`: a stored value `v` is taken away by a call of the queue that is still to
be executed, and every call that brings it is followed by one that takes it away, so that the queue may be
executed from its beginning any number of times. `OlderGone`: what is older than an edit that was executed
or queued is gone. `OthersGone`: so is what the original of the model lacks, unless the model was taken from
a copy without an edit on its way (`behind`); therefore the difference to the original, which is
all that `save` sends, is enough. `SavesGone`: during a save a value it does not have is gone, or a call that is still to come takes it
away. `CallsNew`: each property is in one call of a save, with the newest edit. `CallCounts` is the step both for
a call that the server executes and for one that is queued; `FlushSendsKeeps` is the step that executes a call of the queue out of its time.
TLC checked the invariant (`NInv`) on the bounds of `MCClient` and, without ending (8 to 10 million states), with `MaxEdit = 3` and with two properties.

`UpdatesProofs` proves `FreshHolds`: `Fresh`, for every number of changes, losses and pages opened anew,
where `Hurry = {}`. The news of a change is in the queue, in veda-ccus, on a
socket, in the page's list or buffer or in a request on its way, and the invariant says of each place that it is not lost there. `Reaches(n)`: the page shows counter `n` or a newer
one, or a reset is on its way that will bring it. `PageTells`: the page reaches every counter
it tells the change server it has, in its list, its buffer and on the wire. `CcusTells`: for a
session that is subscribed the page reaches the counter of veda-ccus, or that is the last
message on its way. `Subscribes`: while the socket is open veda-ccus knows the session or will be told.
`Loads` and `Sessions` order the requests of the page and the messages of a socket. `SubscribedStep` is the
hard step: a subscription between two polls of the queue, whose answer depends on which
of three counters is the newest.

The theorems are about more than the runs check: `TypeCorrect`, `PublishedWholeHolds`,
`FreshPartHolds`, `OldPartsClosedHolds`, `BackupFollowsHolds`, `LeavesPartAtItsEndHolds`,
`ProducerUndisturbed`, `ServerUndisturbed` and `ScriptsTypeCorrect` have no run of their
own, and `IntervalsApartHolds` allows habits that the run `numerator` leaves out.

Induction. The library's induction theorems take an operator and cannot be used
here. Where an induction was needed (`ListBounded` in `NumeratorProofs`, `FlattenIs` and
`JoinedBegins` in `QueueFlowProofs`) it is done by a least counterexample: in
`NumeratorProofs` with the library's facts about well-founded relations, in `QueueFlowProofs`
with `LeastNumber`, where the solution of the recurrence is written down and shown to be the only one.

Model-checked only: `CascadeEnds` of `Scripts` (it is about the numbers of
the instance: which scripts trigger which, and `MaxLog`), `Docflow`, and all liveness
(fairness and ENABLED are out of the prover's reach).

## 5. Not modelled, and plan

Left out of what is modelled: lock files (one producer and one reader process per name are
assumed), removal of parts by an administrator and the fallback of
`new_with_mode` for it, the width of the counters; tickets, their cache and the
notifications of mstorage; how scripts are loaded and compiled, elements that
start none, what a script reads while it runs; markers of exclusive groups
and a name that stands twice in one list of a statement. `Habits` names what clients may
do and the run does not: with `relist` (a deletion that also changes the lists),
`refilter`, `no_access`, and `born_deleted` for statements with default access,
TLC shows rights that stay or vanish; no text in the repository says what should
happen there.

`Docflow` leaves out journals, rights, messages, variables other than the result
of an order, enforced processing, the scheduler's and the source marks of changes
(`fromShedulerScript`, `sys:source`), several forms for one order, Interlayer nets,
replays after a death of the machine (in `Scripts`) and a start form that is sent
again after its process ended. `Client` and `Updates` leave out the removal of an
individual, unsubscribing a single one, eviction from the page's cache, the cache
of queries, `get_individuals` and prefetching, uploads, rights and membership,
refusals other than a lost connection, and several individuals at a time. `Numerator`
leaves out several scopes and classes and labels.

Not modelled at all: the browser application (controls, templates, the workflow
editor), which changes individuals through `IndividualModel` only; vendored
libraries (jsPlumb, CodeMirror, the bpmn bundle), which make up most of the
repository's JavaScript; and what is listed with its reason in `PROJECT.json`.

Hazards known from reading that no model covers, besides those `PROJECT.json` lists:
the ticket cache of mstorage, filled once per ticket while veda-auth may change it
(veda-mstorage main.rs:205); the responder of exim, which commits its
cursor before its answer has arrived (veda-exim-respond main.rs:83); the
restart of a module that dies while it is being looked at (veda-bootstrap main.rs:85);
the lock files of a queue (queue.rs:62); a socket never dialled, on which the loop waits
for ever (module.rs:333); a request of `commit` that is lost, so that a script's changes are
stored in part (api_client.rs:204: `Scripts` has the step `ItemDropped`, and no text
promises all or none); a net that leads back through an AND join, which finds
the executed item of the round before and waits (docflow.js:801).

Plan, in order:

1. `Authorization`: `authorize` over right sets, group sets with cycles and
   filters, against a reference definition; composed with `RightSets`.
2. `AuthTickets` (failed attempts, secret codes, ticket validity, mstorage's ticket cache).
3. `Exim` (changes to other nodes: cursor, ten attempts, answers).
4. `Bootstrap` (start order, watch, restart).
5. Removal of individuals in `Client`, unsubscribing one individual in `Updates`.

Proofs, in order: `Docflow`'s `ResultFinal` and `OneContinuation` (the module
declares no RECURSIVE operator).

## 6. Where the code and its documentation disagree

* `op_id_reused`: `OpIdWait` is violated. mstorage saves its operation id after the
  push; a death between the two makes it give the id of a queued element again.
  The module that has treated the first element has written this id, and a client
  that waits for the second (`Backend.wait_module`) goes on at once.
* `removed_by_name`: `RemovedIsGone` is violated. A client removes an individual by
  its name, and mstorage queues a state that has nothing but `v-s:deleted`.
  `index_right_sets` takes resources and subjects from the previous state, but
  `v-s:useFilter` from the new one (common.rs:71): the right under the filter stays. With
  `Filters = {""}` and `MaxRestart = 1` the same property fails for another reason: an
  element that is handled twice is counted twice, and one removal takes one away.
Shown by TLC with other constants, and not among the runs:

* `MCQueueConsumer` with a `BatchLimit`: `LeavesPartAtItsEnd` is violated. `get_batch_size` limits a
  batch to the records counted before it, so with `before_batch = None` the test
  in `read_header` runs only when `info_queue` was read first and the info file
  afterwards, which is sound (`OldPartsClosed`). With `Some(n)` the batch goes
  on past the counted records and `read_header` reads the info file *before*
  `info_queue`: a push and a restart of the producer in between, and the reader
  leaves the part with a record unread. `doc/developer/queue-prepare.txt:12`
  says the reader reads to the end of the queue file. veda-search-index-tt and
  veda-search-index-pt answer `Some(3_000_000)`.
* `MCRightSets` with letters R and r: `ForbiddingGivesNothing` is violated. `encode_value_v1` writes a
  hexadecimal number, `decode_value_v1` reads it digit by digit from the low end:
  0x20 (reading is forbidden) comes back as 0x02 (reading is allowed). A
  subject's first right is always written in this form.
* `MCDocflow` with `Hurried = {"vote"}` and no stop: `OneContinuation` and `JoinTogether`
  are violated. Two voters answer before the machine has handled either answer; the script
  of each order then counts both results as stored, and both continue the net (docflow.js:531-550).
* `MCDocflow` with `Hurried = {"stop"}` and no changed decision: `StopHolds` is violated. df2 puts the process
  back as it was queued (veda-workflow.ttl:2280-2287) and overwrites the stop.
* `MCDocflow` with `MaxChange = 2` and no stop: `ResultFinal` and `DecisionKept` are
  violated. The change that restores the processed decision (docflow.js:30-43) is handled after a newer one.
* `MCDocflow` with `Hurried = {"send"}` and `MaxSend = 2`: one start form starts two processes;
  df1 looks for `v-wf:isProcess` in the form as it was queued (docflow.js:1241).
* `MCClient` with `Hurry = {"save"}`, `{"flush"}`: `AckedSafe` and `NotUndone` are violated. `save`
  takes the model as it is when the answer comes for the saved one (individual_model.js:486);
  `flushQueue` removes calls that were added while it ran (backend.js:778). With
  `{"enqueue"}` `AckedSafe` is: two calls that fail together overwrite each other in
  the offline queue (backend.js:759-764). With `SameSum = {{1, 2, 3}}` `AckedSafe` is: a reset takes an
  unsaved text for the stored one, and the save that follows sends nothing.
* `MCClient` with `MaxEdit = 3`, `MaxAll = 5` and `NotUndone` without `~behind`: violated. The
  local database is refreshed by `put_individual` and loads only, so that a page opened anew may start from a copy
  without an edit that was executed since, and its next save (the differences to that copy) puts the
  older text back; so may a page whose reset was served while a save was
  under way. With `~behind`, `NotUndone` holds on these
  bounds (23 million states) too.
* `MCUpdates` with `Hurry = {"notify"}`, `{"lose"}`, `{"buffer"}` or `{"load"}`: `Fresh` and
  `GetsFresh` are violated. A notice that comes while a reset is on its way starts no
  other (update_service.js:92-99, individual_model.js:508); the counter in the list is set although the
  reset fails (94); buffered subscriptions are dropped with their socket (59-68); the answer of a load
  that comes after that of a reset is shown (individual_model.js:358).
* `MCNumerator` with one of four `Habits` and `MaxChange = 4`: `UniqueNumbers` and `NumbersCommitted` are
  violated. `haste`: a second change before the first is handled is compared with the wrong
  state (veda-numeration.ttl:312); `contend`: the commit of a taken number answers false to nobody
  (numerator.js:142); `restore`: a restored document keeps a number that was given back (87);
  `die`: a death in the middle of a revoke loses the upper part of an interval (279), and
  `IntervalsApart` is violated as well. `AllNumbered` holds with all of them.

Read in the code, without a run of its own:

* `prepare` of lp waits while its count is *greater* than main's (main.rs:188), so
  that lp may treat an element while main is still treating it;
  `doc/developer/dev-doc.md:1196` says lp's processing comes after main's has been finished.
  What does hold is `LpNotAhead`.
* `v-s:runAt` of an individual is asked of the queue element (main.rs:234), which
  never has it; `doc/developer/dev-doc.md:1203-1209` says it chooses the machine.
* `reset` calls `Promise.resove` (individual_model.js:516), which does not exist; the branch ends in a TypeError.
* `processOriginal` compares sums of character codes (individual_model.js:548-550): two texts with one sum count as equal (`SameSum` in `Client`).
* `unsubscribe` of one individual in veda-ccus creates an entry with counter 0 for an individual nobody watched (server.rs:146).
* `mergeMutualChanges` goes over `highBaseDiff.diff` (public/js/common/util.js:39), while the changed
  properties are in `differ`: those of the high side are not merged.
