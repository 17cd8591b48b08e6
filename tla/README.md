# ToDoList in TLA+

A model of the to-do synchronisation of this repository: desktop devices that
edit a local SQLite file offline, and a Spring server through which they
exchange their edits, last writer wins. The modules are checked by TLC on small
instances; the most important of their properties are proved by TLAPS for every
number of devices, items, attempts, servers and faults and for every clock skew.

## The system

### Components

| component | code | state | operations | modelled by |
| --- | --- | --- | --- | --- |
| server sync API | `server/.../sync` | table `todos` | `pull(since)`, `push(device, items)` | `MergePolicy`, `TodoSync`, `ServerStore`, `PushTx`, `LwwStore` |
| server errors | `server/.../common` | - | exceptions to 400 and 500 | `PushTx` (rollback), `TodoSync` (failed attempt) |
| server authentication | `server/.../auth` | - | token to device id, 401 | `SyncControl` (`Authorized`), `TodoSync` (401 in `Fail`) |
| server registration | `server/.../device` | table `devices` | register: device id and token | `SyncControl` (`Register`) |
| desktop `SyncEngine` | `desktop/TodoCore` | cursor in memory, attempt | `syncOnce`: Pull, Push, Reconcile, Done; stamps to texts and back | `TodoSync`, `IsoTime` |
| desktop `SqliteRepository`, `TodoItem` | `desktop/TodoCore` | tables `todos`, `meta` | add, update, remove, syncFromServer, setMeta and the queries | `TodoSync`, `RepoErrors` |
| desktop `TodoListModel` | `desktop/app` | cached list | addItem, setDone, removeItem, reload | `TodoSync` |
| desktop `SyncController` | `desktop/app` | syncing flag, worker thread, queue, address, token, settings | startSync, registerDevice, setServerUrl, finishers, destructor | `SyncControl`; `TodoSync` for what a sync worker does |
| desktop window | `desktop/app/qml` | - | controls, disabled while syncing | guards of `TodoSync` and `SyncControl` |
| desktop `HttpClient` | `desktop/TodoCore` | bytes received | one request per connection, head, chunks | `HttpClient` |
| desktop `Json` | `desktop/TodoCore` | - | dump, parse | `JsonText` |
| mobile core | `mobile/.../core` | `TodoStore` | a second engine | `MobileSync`, `ServerStore` |
| sync_e2e, mobile shell, tests, CI, SQLite | | | | not modelled |

### How they interact

- The window calls `TodoListModel`, which writes through its own connection to
  the SQLite file and reloads its cached list. A local write stamps the row with
  the device's clock and marks it dirty.
- `SyncController::startSync` starts a worker thread with a second connection to
  the same file and a fresh `SyncEngine`. While it runs, the window's controls
  are disabled; that is all that keeps edits away from it. When it ends it posts
  a finisher to the main thread, which reloads the list if all went well.
- The engine pulls what the server has stamped after its cursor, takes over
  newer versions of rows that are not dirty, pushes all dirty rows in one
  request, takes over the server's rows from the answer, and stores the server's
  time of the pull as its next cursor. Any failed call costs an attempt, of
  three; a 401 ends it at once.
- A registration runs on the same worker thread. It reads the address when it runs,
  the server stores a device with a fresh token, and a finisher takes the token over
  and saves it. Closing the window joins the worker.
- The mobile core talks to the same server with the same rules, but keeps the
  server's time aside until a synchronisation ends, gives up on an answer that does
  not parse, and has its store in memory.
- The server merges a push item by item in one database transaction, each item
  by stamp and, if stamps tie, by device id. Pushes of different devices run on
  different threads.

### What is hard here

Stamps are made by devices and cursors by the server. Answers get lost after the
server has acted; a request whose sender has given up may be carried out later.
Answers are stored row by row, results of SQLite are ignored, and the process may
die in between. Two pushes interleave statement by statement. The list is a copy
of the repository that is refreshed on some paths only. One flag keeps the window, the
worker, its queued finisher and the next click apart. The end of a connection, a
timeout and an error look the same to the code that receives an answer, so any
beginning of one may be taken for all of it. `PROJECT.json` lists these
hazards at their lines, with the properties that cover them.

### What makes each part correct

- Merge: it does not matter in which order, how often or with how many others a
  write arrives (`LwwStore`, `MergeCommutes`, `MergeIdempotent`).
- Push transactions: failed ones leave nothing, all of them end, versions grow,
  no older write beats a newer one (which fails when two overlap).
- Versions: one version of an item is one write, wherever it is held; the engine
  compares nothing else when it pulls.
- Engine and repository: a local edit stays dirty until the server has it or a
  newer one; no synchronisation replaces a row by an older one; whatever a device
  lacks it will ask for, or it arrived too late for its cursor.
- System: synchronisations end; devices that keep synchronising converge.
- Controller: one job at a time, the flag is set as long as there is one, and no
  longer; a registration a server has stored is remembered; a device registers where
  its user clicked; clicks and quits end.
- Answers: what is understood of an answer is what the server meant, or nothing; an
  answer that arrived is understood; requests are JSON; stamps keep their value.
- List: it shows what the repository holds (which fails after a failed
  synchronisation).

## The modules

**MergePolicy** has the server's rows and the pure part of push: `Accepts` is
`MergePolicy.decide`, `FromNew`, `ApplyIncoming` and `ToDto` are the methods of
`TodoRow`, `Merged` is the body of the loop of `SyncService.push`, `UpdatedAfter`
the query of a pull. A stamp is an integer in milliseconds, a device id a positive
integer, ordered like the ids' strings. Item contents never change after creation
(the list model offers no such edit), so the id stands for them.

**LwwStore** is what push promises: a store that holds, for each item, the latest
of all writes merged so far, however they came.

**PushTx** is push at the level of SQL statements. Each server thread goes through
the items of its request: `Read` is `findById` and the decision, `WriteRow` the
INSERT or UPDATE, `Commit` the end of the transaction; `BadRequest`,
`DuplicateKey`, `DeadlockAbort` and `Restart` end it otherwise. PostgreSQL is
modelled as the code uses it (external in the map): READ COMMITTED reads, row
locks held from the first write to the end of the transaction, a blocked writer
that goes on with what it had decided, and one transaction of a waiting cycle
failed: `InDeadlock` says when. `raced` records which ids were written on an outdated read.

**TodoSync** composes user, list model, repository, engine, network and server.
Each device has its repository (`repo`, `meta`), its list (`view`) and its worker
(`pc`, `attempt`, `cursor`, `request`, `answer`, `serverTime`). The stages of `pc`
are those of the engine, divided where something can happen in between:

| action | code |
| --- | --- |
| `AddItem`, `SetDone`, `RemoveItem` | `TodoListModel` and the repository calls it makes, reload included |
| `StartSync` | `SyncController::startSync`, start of `syncOnce` |
| `PullQuery`, `PullStamp` | the two halves of `SyncService.pull`: the query, then `Instant.now()` |
| `PullApply` | `applyPullItems`; the writes in `failed` are refused by SQLite, which nobody notices |
| `PullGarbled`, `PushGarbled` | a 2xx answer that does not parse: nothing is applied and the engine goes on |
| `PushSend`, `PushServe`, `PushApply` | `listDirty` and the request; `SyncService.push` as one step; `applyPushResults` |
| `Reconcile` | `setMeta` and the finisher of success |
| `Retry`, `Fail` | a failed call with attempts left; the last one, or a 401 |
| `ServeZombie` | the server carries out a push whose sender has given it up |
| `Crash` | the process dies and is started again; of an answer, a prefix is stored |
| `Tick` | time passes |

A push is one step here: what two transactions do to each other is `PushTx`'s
subject. A worker that cannot open the repository fails like one that is
answered 401 at once. `behind` is a history variable: the pairs of a device and an
item for which a write was committed too late for the device's cursor, or a pulled
row was refused by SQLite, or (in `RepoErrors`) a pulled row replaced an edit that could
not be read.

**MobileSync** extends `TodoSync` by devices that run the mobile core (`Mobiles`).
They share the steps that are alike (`PullQuery`, `PullStamp`, `PushSend`,
`PushServe`, `Retry`, `Fail`) and have their own where `SyncEngine.kt` and `TodoStore.kt`
differ: `MobilePullApply` leaves the cursor alone, `MobileGarbled` ends the
synchronisation, `MobileReconcile` stores the time of the last pull. Nothing shows or
restarts the mobile store yet, so there is neither a list nor a crash.

**ServerStore** adds to `MobileSync`, which is `TodoSync` where no device is a mobile, a
history variable: `merged`, the writes of every request the server has taken in, on time
or late. Its refinement mapping `Value` shows the server's table to `LwwStore` as a store;
`ImplementsLww` says that the whole system, as far as the table is concerned, is one.

**RepoErrors** extends `TodoSync` by the statements SQLite may refuse besides the writes
of answers: a cursor, a row of a pull, the dirty rows or the list that is not read, or not
to its end, and an edit of the user. The repository does not tell a refused read from an
empty answer, and nobody asks.

**SyncControl** is `SyncController` with the settings file and the servers. `main` is
the state of the main thread, `worker` that of the thread, `finishers` the queue between
them:

| action | code |
| --- | --- |
| `Launch` | `main`, `loadSettings` |
| `SetServerUrl` | the setter, from a field that is disabled while syncing |
| `RegisterDevice`, `StartSync` (`Begin`) | the slots up to the join of the thread before |
| `StartWorker` | the join returns, the new thread runs |
| `RegisterFails`, `Register`, `RegisterAnswer` | `runRegisterWorker`: no answer; `DeviceService.register`; the answer, which may be lost |
| `SyncEnds` | `runSyncWorker`, whose inside is `TodoSync` |
| `WorkerReturns` | the thread function returns, after it has posted |
| `RunFinisher` | the event loop runs `finishFromWorker` and the finisher |
| `Quit`, `Destroyed` | the window is closed; `~SyncController` has joined |
| `Crash` | the process dies, with its queue |

Tokens are numbers in the order of their issue. `lost` is a history variable: tokens
whose answer was lost, or that were in flight when the program ended.

**Bytes** has what the C++ code does with texts: `find`, `substr`, `strtoul`,
`isspace`, numbers in decimal and hexadecimal. **JsonText** is `Json.cpp` on bytes:
`Dump` and the functions of the recursive-descent parser, each of which returns its
value and the position behind it. **IsoTime** is `isoFromMs` and `msFromIso`, with
`gmtime` and `timegm` (external). **HttpClient** is one request: its actions are the
calls of `roundtrip` that may fail, `Recv` takes some more bytes of the answer, and
`RecvEnds` parses what there is, whether the connection ended, failed or timed out.
In the head of an answer, a name or a word is one symbol. **Wire** composes them: the
answers are what RFC 9112 and RFC 8259 allow the server to write (a reference
definition, not the code's), with the value each one means.

**MCTodoSync**, **MCPushTx**, **MCServerStore**, **MCRepoErrors**, **MCSyncControl** and
**MCWire** give the constants small values for TLC.

Operators whose comment begins with "Slip" are wrong variants of the definition
after them. Nothing uses them; substituted for their neighbour, they show that a
property notices such a mistake.

## The runs

| run | what it checks | instance |
| --- | --- | --- |
| `sync_safety` | types, `VersionsIdentifyWrites`, `OnlyLateWritesAreMissed`, `UnpushedEditSurvives`, `SyncNeverRegresses`, `RepushIdempotent`, `ImplementsLww` (the server's table refines `LwwStore`) | 2 devices, one 1 ms ahead; 1 item; 4 edits; 1 attempt; 1 fault |
| `refused_statements` | `OnlyLateWritesAreMissed`, `OnlyRefusedReadsLoseEdits` | 2 devices, one 1 ms ahead; 2 items (symmetric); 2 edits; 1 attempt; 1 fault, refused reads and edits among them |
| `sync_liveness` | `SyncsWindDown`, `SyncTerminates`, `DevicesConverge` | 2 devices; 1 item; 4 edits; 2 attempts; no fault (failed calls are free) |
| `mobile_sync` | `OnlyLateWritesAreMissed`, `UnpushedEditSurvives`, `ImplementsLww`, `EnginesConverge` | 1 desktop, 1 mobile device; 1 item; 2 edits; 2 attempts; 1 fault |
| `sync_control` | types, `FlagCoversWork`, `RegistrationsRemembered`, `RegistersWhereClicked`, `ClicksAndQuitsEnd` | 2 servers, a wrong and an empty address; 3 registrations; 3 starts |
| `wire_answers` | `WholeOrNothing`, `ArrivedAnswerUnderstood`, `RequestsAreJson`, `StampsSurvive` | 1,084 answers, each cut off anywhere |
| `push_concurrent` | types, `OnlyRacesLoseWrites`, `FailedRequestsLeaveNothing`, `SomeoneGoesOn`, `StatementsRunOut`, `EveryRequestEnds` | 2 threads, 2 items, 4 requests, 1 restart |
| `push_serial` | `ImplementsLww` (refinement of `LwwStore`), `VersionsGrow` | the same, 1 thread |
| `missed_update` | finds a counterexample to `NothingBehindCursor` | clocks agree, no faults |
| `last_header` | finds a counterexample to `ChunkedUnderstood` | the answers to one registration, in every framing |
| `stale_list` | finds a counterexample to `ViewMatchesRepo` | 1 attempt, no faults |
| `lost_update` | finds a counterexample to `NewestWriteWins` | as `push_concurrent` |

Bounds. Two devices are enough for every conflict between an editor and a reader,
or between two editors; four edits let each device edit an item twice around the
other's, and the runs that add a second item, or an engine of the other kind, have
two. The
server's clock makes one step (`MaxTime`), which with a
device ahead gives stamps before, at and after a cursor. Two attempts give a retry
and a last one; the code's third repeats the second. One fault is one lost answer,
garbled answer, refused write, abandoned request or crash: the interesting runs are
those in which everything else goes right afterwards and the damage stays. Failed
calls without a trace on the server are not counted and are free. In `PushTx` the
requests name two items in opposite orders, tie on one of them, are stamped before
and after each other, and one fails at its end. In `SyncControl` three registrations
give one that is remembered, one that is lost and one after it, on two servers, and three
starts give a restart after a restart with a token. `MaxRequests`, `MaxRestarts`,
`MaxEdits`, `MaxTime`, `MaxFaults`, `MaxDevices` and `MaxStarts` bound counters in the
guards, nothing else. The safety of `TodoSync`, `MobileSync`, `RepoErrors`, `PushTx` and
`SyncControl` does not rest on these bounds: it is proved for all values of them.

The documents of `wire_answers` are an object with one string, for each kind of
character (with a short escape, with none, of one to four bytes in UTF-8) in each of its
spellings; three numbers in several notations; a nested value with and without white
space and with a repeated key; and stamps at the turns of days, years and leap years, with
and without a fraction. Each is sent in chunks of 1, 7 and 40 bytes with and without
extensions, with `Content-Length` and with bytes behind the body, or until the
connection ends, the header first or last. `BufSize` is 2: what recv returns may end
at any byte, within a line end, a chunk size or an escape, and a bigger buffer ends at no
other. Stamps are pairs of seconds and milliseconds because TLC's integers have 32 bits,
so their years are 1970 to 2038.

Deadlock is checked in all runs of `TodoSync` (a device can always start to
synchronise) and `MobileSync`. It is not in those of `PushTx`, where the model stops when
`MaxRequests` have been answered, of `HttpClient`, where a request ends with its
response, and of `SyncControl`, which stops when the program has ended `MaxStarts` times.

Fairness. `LiveSpec` of `TodoSync` is fair to each device's worker step: it is a
thread of its own, each of its socket calls has a timeout, and its retries are
counted. Nothing is assumed of users, of the network, of crashes or of abandoned
requests; `DevicesConverge` therefore says "if every device completes a
synchronisation again and again", which no fairness guarantees. `LiveSpec` of
`PushTx` is fair to each server thread, with PostgreSQL's deadlock detector as
one of its steps. `MobileSpec`, and with it `StoreSpec` of `ServerStore`, is fair to the
engine step of each device, like `TodoSync`. `LiveSpec` of `SyncControl` is fair to the main thread - the event loop runs
what is queued, a join returns when its thread has - and to the worker, whose calls
have timeouts; nothing is assumed of users, servers and crashes.

## What the checks found

- `missed_update`: a pull filters by the stamp a device gave a row when it was
  edited, with a cursor that is the server's time of the last pull. An edit made
  before another device's pull and pushed after it is never pulled by that device,
  with perfect clocks and a perfect network. `OnlyLateWritesAreMissed` shows that
  this, and rows refused by SQLite, are all that gets lost.
- `lost_update`: two overlapping pushes of one item both read, both accept, and
  the last to commit wins. `OnlyRacesLoseWrites` shows that nothing else loses
  writes in the merge.
- `last_header`: the head of an answer is cut off before the empty line, so its last
  header has no line end and is never looked at. If that is `Transfer-Encoding`, the
  chunk sizes stay in the body, which does not parse. Tomcat writes other headers
  behind it; `ArrivedAnswerUnderstood` shows that then every framing is understood.
- `stale_list`: after a synchronisation that pulled and then failed the list is not
  reloaded; ticking an item in it writes the outdated copy back as a new edit, which
  can bring a deleted item back.
- `refused_statements`: a pull that cannot read a row takes it for absent and replaces
  it by the server's, even if it is dirty; the edit is lost. `OnlyRefusedReadsLoseEdits`
  shows that no other refused statement costs an edit; without its last case it fails in
  this run. With two faults there is more: if a push of the lost edit had been given up
  and is carried out later, the server holds a write of the device that the device itself
  neither holds nor will ever ask for. The run has one fault and cannot show it; the
  proof came across it. Such an item counts as `behind`.

## What is proved

`TodoSyncProofs` (theorems about `TodoSync!Spec`):

- `TypeCorrect`: the types, with `ShownIsStored` - what the list shows is stored,
  rows never vanish - which `removeItem` needs to find its row.
- `VersionsAgree`: `VersionsIdentifyWrites`. It is inductive given the types, when
  stated of all `Copies` of an item at once: the server's row, the rows in answers
  on their way, and the clean rows of repositories. `CopiesStep` shows that a step
  copies copies, except that the server's own step makes one; `TodosGrow` that this one
  has the highest version and is not an older write.
- `EditsSurvive`: `UnpushedEditSurvives`, by the inductive invariant `EditInv`.
  A push in flight carries exactly the dirty rows as they still are
  (`PostedIsDirty`: this is where the locked window matters), its answer is not older
  (`AnswerBeatsEdit`), and no dirty row is stamped after the device's last edit
  (`EditsAreStamped`).
- `SyncsNeverRegress`: `SyncNeverRegresses`, from `VersionsAgree` for pulls and
  `EditInv` for pushes.
- `SyncsEnd`: `SyncsWindDown`. Each step leaves a synchronisation where it is, ends a
  stage, ends an attempt, or ends it (`SyncGoesOn`), and attempts are counted from 1 to
  `MaxAttempts` (`AttemptsCounted`): `WorkLeft` falls. This is the safety half of
  `SyncTerminates`; that a running worker does go on is its fairness.

`CursorProofs` (theorems about `TodoSync!Spec`) goes on from there:

- `RepushesChangeNothing`: `RepushIdempotent`. A request may be carried out long after it
  was given up, so the invariant must speak of every form in which a write of a device is
  still about (`DeviceWrites`: dirty rows, requests in flight and given up, the server's
  row). `StampsIdentifyWrites` says that one stamp among them is one write, none later
  than the device's last edit; `WritesStep` that only the user's edits add to them.
- `SyncInvariant`, `LateWritesOnly`: `OnlyLateWritesAreMissed`. That a device holds or
  will ask for a row is not inductive: it is broken unless one knows that a cursor
  is not ahead of the server's clock and that the one in memory is not behind the stored one
  (`CursorsInOrder`), that an answer covers all between the cursor it was asked with and
  its own time (`AllCurrent`, by stage of the engine), that a request whose answer is on
  its way has been merged (`AnswerIsMerged`), and that a request that was given up is
  merged already or covered by an edit its sender still has to push (`ZombiesCovered`).
  `SyncInv` is their conjunction with the types, `VersionsIdentifyWrites` and `EditInv`.

These proofs do not go through the actions of `TodoSync` one by one. An action is shown
once to have a shape: the server may take in one request (`ServerStep`), or one row of a
device may change by its user, by a pull or by a push (`RepoStep`), or a cursor moves
(`DeviceStep`); the invariants are preserved by every step of such a shape. So the
actions of the two extensions only have to be shown to have one.

`MobileSyncProofs` (theorems about `MobileSync!MobileSpec`): `MobileInvariant`, `SyncInv`
for any mix of desktop and mobile devices, and from it `MobilesMissLateWritesOnly`,
`MobileEditsSurvive`, `MobileSyncsNeverRegress`, `MobileRepushesChangeNothing` and
`MobileSyncsEnd`.

`ServerStoreProofs` (theorems about `ServerStore!StoreSpec`): `SyncImplementsLww`, the
refinement of `LwwStore` by the whole system, with any devices of both kinds, clocks,
retries, abandoned requests, faults and crashes. The store needs to know that its latest
write is one write, so `StampsIdentifyWrites` is stated again of all the writes a device
has about or has ever had taken in (`StampsAreUnique`), and a row of the server beats or
is each write taken in (`StoreHolds`); `StoreInvariant` is the two with `SyncInv`.

`RepoErrorsProofs` (theorems about `RepoErrors!ErrorSpec`): `ErrorInvariant`, `SyncInv`
with any number of refused statements, together with `FreshAnswers` - the answer of a pull
has no version older than a clean row of its device, so a row that was not read and is
replaced is replaced by itself or a newer one - and from it `ErrorsMissLateWritesOnly`,
`RefusedReadsOnly` and `ErrorSyncsEnd`.

`MergePolicyProofs`: `MergeIdempotent` and `MergeCommutes` for all rows, items and
devices.

`SyncControlProofs` (theorems about `SyncControl!Spec`), all from the inductive
invariant `IInv`, for any servers, numbers of registrations and starts:

- `TypeCorrect`: the types.
- `FlagIsTrue`: `FlagCoversWork`. By itself it says nothing of a window that is being
  closed, or of what a click has prepared; `OneJob` adds that nothing of a gone process
  is left when the next one starts.
- `RegistersAtClick`: `RegistersWhereClicked`. A thread that has not yet read the
  address finds the captured one (`AddressKept`), which holds because the flag, and with
  it `OneJob`, keeps the field locked.
- `TokensRemembered`: `RegistrationsRemembered`. It needs `TokensInOrder`: what is in
  flight is not older than the saved token, so taking it over forgets nothing, and the
  token in memory is the saved one, so a crash forgets nothing more than was in flight.

`PushTxProofs` (theorems about `PushTx!Spec`), for any threads, requests, items and
devices, from the inductive invariant `IInv`:

- `TypeCorrect`: the types.
- `FailuresLeaveNothing`: `FailedRequestsLeaveNothing`. By itself it does not say what
  the open transactions are about to commit. `WrittenIsAsked` and `WriteIsAtItem` add that
  a transaction holds nothing but writes of its own request, `PassedHasRow` that every
  item it has passed has a row, in the table or in the transaction: where push skips an
  item, in a conflict, it has read a row, and rows stay.
- `NeverAllStuck`: `SomeoneGoesOn`, for any finite number of threads. If every thread with
  a request waited for a row lock, each would wait for a thread that has a request itself
  (`WaitsForBusy`, which is where `EndTx` must free the locks), and a finite set in which
  each waits for a member of the set contains a ring (`WaitingMakesRing`: the smallest of
  its subsets like it), which PostgreSQL breaks.
- `RequestsGetOn`: `StatementsRunOut`. A thread stays, gets on or starts (`ThreadsMove`),
  and stays within its request (`InRequest`). With `NeverAllStuck` it is the safety half
  of `EveryRequestEnds`: some thread has a step, and each of its steps brings its request
  nearer to its end.
- `RacesOnlyLoseWrites`: `OnlyRacesLoseWrites`, by the inductive invariant `LwwInv`. By
  itself the property does not say what the open transactions will make of an item.
  `HoldsLatest` adds that, of an item nobody raced for, a transaction would replace the
  row by a newer one, and has a row not older than each write of its request that it has
  passed; `Exclusive`, the row lock, that no other transaction changes the row meanwhile;
  `Decides` that what is about to be written was decided on the row that was read. That a
  device stamps no two edits of an item alike makes the latest write unique.
- `UnracedPushImplementsLww` and `UnracedVersionsGrow`: as long as no write is made on an
  outdated read, any number of transactions at once implement `LwwStore`, and versions
  only grow. `OneThreadNeverRaces` and `SerialPushImplementsLww`: with one request at a
  time this is always so, which is what `push_serial` checks.

The assumptions are those of the modules: device ids are positive integers, skews
are integers that leave every clock after the epoch, `NoRow` is no row, the set
of ids and the set of server threads are finite, addresses at which no server answers are no servers, the bounds are natural numbers. In `TodoSync` a device stamps
its edits in increasing order (`CanEdit`). In `PushTx` the items of a request are a
sequence, of a known device, and the malformed id is no id.

Only model-checked: the liveness properties (`SyncTerminates`, `DevicesConverge`,
`EnginesConverge`, `EveryRequestEnds`, `ClicksAndQuitsEnd`), which are out of the prover's
reach together with everything that needs ENABLED, and `HttpClient`, `JsonText`, `IsoTime`
and `Wire`: their recursive definitions, whose results for every text would take an
induction over data, are beyond it.

## What is not modelled

- The conflict log, status texts, names of devices, hashes of tokens.
- Clocks that step back; several instances of the application on one file; a server
  that keeps a connection alive by single bytes.
- What ties a token and a cursor to an address: after a change of the server the code
  goes on with the cursor of the old one. No document says what it should do.
- The bytes of a request's head (its body is what `Dump` writes); numbers that are no
  short decimals, and their rounding; texts that are no JSON in ways a server does not
  write; stamps before 1970 or with another zone than Z, which the server does not
  write either.
- Of the mobile core, its own `MergePolicy.kt`, which nothing calls, and its transport, a
  class of the platform.
- Layout, tests, build files and vendored code.

## Plan

1. Done: `MergePolicy`, `TodoSync`, `LwwStore`, `PushTx`, and the proofs above.
2. Done: `MobileSync`, `RepoErrors`, `SyncControl` and the proofs of it and of
   `PushTx`, and `HttpClient`, `JsonText`, `IsoTime` and their composition `Wire`.
3. Done: the proofs of `RepushIdempotent`, of `OnlyLateWritesAreMissed` in `TodoSync` and
   its two extensions, of `OnlyRacesLoseWrites`, and of the refinement of `LwwStore`.
4. Done: `ServerStore`, the server's table of the composed system, abandoned requests
   included, as a refinement of `LwwStore`, and the proofs of progress: `SomeoneGoesOn`,
   `StatementsRunOut`, `SyncsWindDown`.
5. Open: clocks that step back, with edits of a device that are stamped alike or out of
   order.
