# Verification of memory-guard

memory-guard sits between agents and their memory store. It gates writes
(`validate_write`), scopes and redacts reads (`validate_read`), isolates doubtful
writes (`review_quarantine`) and proves deletions (`verify_delete`). This directory
models it in TLA+, checks the models with TLC and proves the results that matter
most with TLAPS. Paths below are relative to the repository.

## The system

| Part | State it keeps | Operations | Hard behaviour | What makes it correct |
|---|---|---|---|---|
| Guard (`guard.go`) | `g.mu`, the store, `g.baselines` | the four verbs | handlers interleave wherever `g.mu` is free; copies used after the unlock | reads isolated, deletions final, residue reported, verbs atomic |
| Key policy (`keys.go`) | `g.baselines` (in process) | `evaluateKeyPolicy` | baseline and entry change in two critical sections; baselines lost at restart | reserved slots agree, baselines backed |
| Identity (`principal.go`) | none | `principalFromMap`, `boundKeyFor`, `readerVisibilityKey` | two functions must derive matching keys | the access rule, no forged shared scope |
| IPC server (`ipc.go`) | the socket path, one goroutine per connection | `serve`, `handleConn` | the path is removed, bound and chmodded by name, by racing processes; silent clients, lost replies | a private path that leads to a server, every request ends |
| Detector seam (`detector.go`) | none (regex, native) | flags, redaction | none (pure) | text matching, not modelled |
| Presidio detector (`detector_presidio.go`, `presidio/`) | a sidecar process and its pipes | start, exchange, close | dead or hung sidecar | a request is answered or fails |
| MemoryStore (`store.go`) | the entries | Put, Get, Delete, ScanScoped, AllByIndex | two indexes to keep together | the seam's contract |
| FileStore (`store_file.go`) | a snapshot file and a temp file | the same, on disk | crashes and power failures inside `save`, unreadable lines | never torn, deleted bytes gone |
| Residue scan (`residue.go`) | none | `residueScanIndexes`, `deletionHash` | spellings, thresholds at short contents, copies in lagging indexes | no respelled copy missed, no common word reported |
| Audit emission (`audit.go`) | `AsyncSink.ch` | Emit, drain, Close | full buffer, slow or failing transport | order, no blocking |
| Audit transport (`audit_trail_sink.go`) | none | one exchange per event | deadlines | bounded wait |
| Self-reinforcement (`self_reinforcement.go`) | per-subject history | `Inspect` | clock read before the lock, eviction, cap | flags deserved, repetitions noticed |
| Size anomaly (`detector_size.go`) | per-key ring of sizes | `Inspect`, `CombineInspectors` | zero variance, cold start | no false verdict at the edges |
| Configuration and CLI (`main.go`, `*_config.go`) | none | start-up, `write`, `read` | bad values, a one-shot beside a server on one store file | fail closed before the socket is touched |

The guard calls the detector before any lock, the stores under `g.mu`, the inspector
and the audit sink outside it. `AsyncSink` is the only background goroutine. The
hazards are listed in `PROJECT.json` at their lines.

## The modules

| Module | Models | Extends / instances |
|---|---|---|
| `Identity` | `principal.go` | |
| `GuardData` | requests, answers, entries, detector relations, the access rule `MayRead` | `Identity` |
| `MemoryGuard` | the server: handlers, lock, store, baselines, audit queue, crashes | `GuardData` |
| `GuardContract` | what the four verbs promise: each takes effect at one instant | `GuardData` |
| `GuardProperties` | the properties of the guard and the refinement mapping | `MemoryGuard`, `GuardContract` |
| `MCGuard` | texts, principals and requests of the small instances | `GuardProperties` |
| `GuardProofs` | the theorems of the guard, and that it implements the contract | `GuardProperties`, `TLAPS` |
| `StoreContract` | the MemoryStore seam | |
| `TwoIndexStore` | the two-index adapter | `StoreContract` |
| `Residue` | the residue scan as operators: number words, spellings of figures, tokens, the four tiers | |
| `DeletionGate`, `MCDeletionGate` | `verify_delete` over the two-index store and a lagging cache, with the scan; the words and contents of the instance | `Residue`, `TwoIndexStore` |
| `DeletionProofs` | the theorems of the two indexes and of the deletion over them | `DeletionGate`, `TLAPS` |
| `FileStore`, `FileStoreProofs` | the persistent adapter, one system call per step, and its proofs | `StoreContract` |
| `SelfReinforcement` | the repetition inspector: its state, actions and properties | |
| `SizeAnomaly` | the size inspector: its window and verdict, and a reference verdict | |
| `WriteInspectors`, `MCWriteInspectors` | both, combined behind the seam as the program wires them | `SelfReinforcement`, instance of `SizeAnomaly` |
| `InspectorProofs` | the theorems of both inspectors | `WriteInspectors`, `TLAPS` |
| `AsyncSink`, `AsyncSinkProofs` | the audit channel, its goroutine and the exchange with the service, and their proofs | |
| `PresidioSidecar`, `PresidioProofs` | the sidecar process, its pipes and the calls of the detector, and the proofs | |
| `PresidioOverlay`, `OverlayProofs` | how the sidecar's entities are laid over the native redaction, and the proofs | |
| `SpelledOverlay`, `MCSpelledOverlay` | the same beside it with its placeholders spelled out as text; the letters of the instance | `PresidioOverlay` |
| `Server`, `ServerProofs` | processes around one socket path and one store file, their connections, and the proofs | |

### The guard's model and the code

`pc[h]` says where a handler is. A verb is cut into steps at every point where
another handler may run: the gate (no lock), the two halves of `evaluateKeyPolicy`,
the inspector, the `Put` critical section, the event after it, and the reply.
A critical section that is one store or registry operation is one step enabled when
`mu = Free`. `VerifyDelete` holds `g.mu` over several steps (`fetch`, `delete`,
`verify`), so its steps do interleave with everything that takes no lock.
`held[h]` is what the handler copied out of the store; `ValidateRead` and
`ReviewQuarantine` decide on it after the unlock, as the code does. The order of
flags and the wording of summaries are left out; flags are a set. `pii:<LABEL>` flags
are one flag `pii`, and the behavioral flags one flag `behavioral`.

Texts are model values. `Redact`, `Injected`, `Borderline` and `PII` are what the
Detector seam says about them, `Residual` what the residue scan says of a deleted and
a surviving content. A query is the set of contents it is a substring of. The baseline
hash and the deletion hash are taken to be free of collisions: they are what they digest.
Of an absent entry the code digests the id and an empty text (`guard.go:350-354`), here `None`:
contents are not empty in the model, since two deletes of an entry with an empty content do
yield equal proofs. A reply may be lost (`ReplyLost`), the process may die anywhere (`Crash`)
and comes back with the store only when it is the FileStore (`Durable`). That the FileStore
keeps what it acknowledged is assumed here and is the business of `FileStore`, as is the
refusal to reopen a file that cannot be read (`file_oversized`): the guard's model then has no
process, and nothing left to say.

`forwarded` is what the queue handed to the transport, in that order. Whether and when an
event reaches the trail is `AsyncSink`'s: an exchange that hits its deadline may be appended
behind later events (`OnlyLateOnesOvertaken`), so `OfferOrder` speaks of the order in which
events are handed on. That each is handed on once and appended at most once
(`OneProofPerEntry`, `AtMostOnce`) gives one proof in the trail.

The history variables (`written`, `acked`, `gone`, `seen`, `sent`, `epoch`)
record what the properties compare with; no guard of a code action reads them, except
that an id is minted once (`FreshIds`, `randHex` draws 48 bits) and clients name ids
they were given, or an id that never existed.

### The stores

`StoreContract` is the seam: entries by id and the answer of the last verb.
`TwoIndexStore` changes both indexes in one step, because the guard's lock covers
them; what is checked is that they agree over any sequence of overwrites and deletes, which
matters because `AllByIndex` would report a stale link to a live id as the primary's
entry. `FileStore` splits `save` at its system calls. A file is `[lines, torn, synced]`:
a crash inside `write` leaves it torn, and a power failure tears any file not yet
flushed. Renaming is taken to be atomic and durable once it has returned (`save` does not
flush the directory, so a file system that delays the rename could show the old snapshot
after a power failure: out of the model). There is one writing process, as ADR-012 says.
`Oversized` are the contents whose line exceeds the 16 MiB the scanner accepts.

### The residue scan

In `Residue` a content is a sequence of tokens. A word is known by what the scan asks of it
(stop word, shorter than three letters, as long as `strongTokenMinLen`, number word, in
capitals), a figure by its value, its digits and its spelling: 5000, 5,000 or 5k. Number
words are folded, separators stripped and `k` expanded by what the code does to them; the
tiers follow the code on the result, including that folded commas leave the groups of three as
tokens of their own and that a digit token is found inside other figures. `strings.Contains`
looks inside words as well: `HeadsOf`, `TailsOf` and `InnerOf` say which words begin, end or
contain which others, and a span of several words may begin and end inside one ("cat dog" in
"concat dogma"). Figures have up to nine digits, and `k`, `m` and `b` alone are no words, since
a figure in front would swallow them. Left out: the currency sign, decimals, the suffixes `m`
and `b`, the overflow of the folded sums, and which class and fragment the summary quotes.

`DeletionGate` makes the store calls of `VerifyDelete` steps, over the two indexes of
`TwoIndexStore` and the recency cache of `residue_indexes_test.go`, the repository's model of an
index whose `Delete` leaves the copy behind (`Purge`). The guard holds its lock, so the other
verbs run between two deletions. `Queries` is the set of scan queries tried.

### The server

In `Server` a process is started at any time and walks through `main.go`: configuration, then
`Remove`, `Listen` and `Chmod` of the path, each a step of its own because other processes use
the same path. The configuration is one step, since nobody else can see it, and ends in
exit 2 for the processes in `Misconfigured`. `path` is the process whose socket the
file names; `Remove` and `Chmod` act on whatever is there. A connection is accepted into a
goroutine of its own; `AcceptFails` is the error of `Accept` when the descriptors are used
up, after which the deferred `Close` unlinks the path. The store file is shared: a verb that
mutates reads it whole and replaces it, under the mutex of its own process. `Kill` is a
signal or a panic of the store. `truth`, `claimed` and `together` are history. The damage two
processes can do to the shared temp file, as opposed to each other's updates, is not modelled.

### The audit path

`MemoryGuard` has the order in which the verbs offer events and a lossy queue behind
them; `AsyncSink` is that queue in detail. `Emit` is one step, since its select is. With
room in the buffer and the sink closed Go picks a case at random, so an event offered
after Close may be accepted and stay in the buffer: the properties speak of what was
accepted before. The goroutine's steps are those of `drain`, and of one
`AuditTrailSink.Emit` at a time. The service is external, and handles each connection on
its own: a line it was given may be appended after the client gave up. Each call of
`Emit` carries an event of its own; `offered`, `accepted`, `taken`, `early` and `late` are
history. The mapping to the service's event format is left out.

### The Presidio detector

`PresidioSidecar` makes every blocking call of `startLocked` and `analyze` a step, with the
processes of `presidio/sidecar.py` running, printing and dying in between. A line on a pipe
is of one of four kinds: readiness, an error, the entities of a text, or noise, which
does not parse as an answer (a line that does, printed by a library, is not
modelled). In `PresidioOverlay` a text is a sequence of characters and its Go string the
sequence of their bytes. `ReplaceAll` is cut into single replacements, which the
properties cannot tell apart, because they speak of the end. A native recognizer redacts
single characters. A placeholder is one symbol there, so its properties and theorems hold for
entities whose value does not occur in a placeholder, and for texts that contain none.
`SpelledOverlay` runs beside it on the output as text, with the placeholders written out and
one `ReplaceAll` for each value: `SpelledOutAlike` says that the two agree as long as no value
has a character of a placeholder. A value with such characters may break a placeholder up (see
the findings).

A running process is always within reach of `Close` (`RunningIsClosable`), which is not to say
that it is used: after a line that does not decode, `dead` is set, the process runs on, every
redaction is refused it, and `Start` reports success without starting anything (see the
findings).

### The inspectors

`WriteInspectors` gives every write to both inspectors in turn, as `CombineInspectors`
does; each has a lock of its own, so concurrent writes may pass them in different
orders. `SelfReinforcement` cuts its `Inspect` between the clock reading and the lock; a
`human_authored` write passes it by without a trace (`Skip`) and is measured all the
same. The code's slice of records is a set here, each record with its place `nth` in recording
order: pruning filters the set, trimming keeps the `MaxHistory` records of the latest places.
Contents are sets of tokens, the threshold is compared in integers.
`SizeAnomaly` compares squares of integers where the code compares floats; on the exact
boundary of Sigma deviations the code's rounding may decide either way. Equal sizes
give a variance of exactly zero in both.

## The runs

| Run | Shows | Bounds |
|---|---|---|
| `guard_contract` | `TypeOK`, `ReadIsolation`, the guard implements `GuardContract` | 2 handlers, 3 requests, 1 crash, writers and readers of all identity classes, both key classes, quarantine |
| `guard_deletion` | `DeletionIsFinal`, `ResidueIsReported`, `OneProofPerEntry`, `OfferOrder` | 2 handlers, 4 requests, 1 crash, buffer of 2 |
| `guard_slots` | `ReservedSlotAgrees`, `BaselineIsBacked`, `EveryRequestEnds` | 2 handlers, 3 keyed writes, 1 crash, buffer of 1 |
| `deletion_gate` | `IndexesAgree`, the contract, `SpelledAmountFolds`, `RespelledCopyIsReported`, `NamedElsewhereIsStale`, `OneCommonWordIsNotResidue` | 2 ids, some 60 contents in all spellings, 8 spelled amounts, unbounded sequences |
| `file_store` | `NeverTorn`, `DeletedBytesGone`, the contract | 2 ids, 2 crashes, unbounded operations |
| `file_oversized` | violation of `RestartSeesTruth` (finding) | the same |
| `write_inspectors` | `TypeOK`, `FlagIsDeserved`, `RepetitionIsNoticed`, `OutlierOfItsWindow` | 2 writers, 4 writes, 2 keys, 3 sizes, histories and windows of 2, thresholds of 2 |
| `async_sink` | `NoneLostInside`, `EarlyEventsForwarded`, `AtMostOnce`, `OnlyLateOnesOvertaken`, `AcceptedIsForwarded` | 4 events, buffer of 2 |
| `presidio_sidecar` | `AnswersMatch`, `RunningIsClosable`, `DegradedForAReason`, `EveryCallReturns` | 2 callers, 4 calls, 2 texts, 2 processes, 1 stray line |
| `presidio_overlay` | `NoValueLeft`, `NestedValuesCovered`, `SpelledOutAlike` | all texts of up to 4 of four characters (plain, two-byte, native PII, one that the native placeholder has too), all answers of up to 2 entities |
| `presidio_offsets` | violation of `FoundIsRedacted` (finding) | texts of 2 characters, 1 entity |
| `server` | `ServedPathIsPrivate`, `RacingStartsLeaveAServer`, `LostUpdatesNeedTwoProcesses`, `SentRequestEnds` | 2 servers, a misconfigured one, a one-shot, 2 connections, 2 descriptors, 1 kill |

Why the bounds are enough. Every lock is one mutex, so two handlers show all orders of two
critical sections; in `guard_slots` three requests, so that a rejected, a
matching and an establishing writer meet. Deletion needs the entry, its residue, and two
competing deletes: four requests; their events overflow an audit buffer of two. A crash matters once before and once after an
acknowledgement; one is enough in the guard because nothing but the store survives it, two
in the FileStore because a temp file left by the first may meet the second. The
inspectors' histories are capped at two and four writes pass through them; with a cooldown of
one tick and two clock values a record is inside the cooldown, exactly as old, or younger
than the reader's clock. Four
events are one more than a buffer of two and an exchange hold, so that the buffer is full,
drained and full again. Two processes let a sidecar be closed or replaced; one stray
line is what shifts the answers by one. Two entities meet in every way, nested, apart
and repeated, within four characters. In `deletion_gate` a deleted and a surviving content suffice, because the scan compares them in pairs; every content is tried against
every other. Two servers race for a path, and a third adds no new order of remove, bind
and chmod between two of them; two connections are a silent one and one that waits, or
two updates of one file. In
`file_store` deadlock is not checked: a store whose file cannot be read stays down,
which is what `file_oversized` is about. Nor is it in `async_sink` (the goroutine exits after
Close), nor in the Presidio runs and `server`, where the calls and processes of the instance end.

Fairness matters in four runs. In `guard_slots`, `SF_vars(Serve(h))` stands for the Go
scheduler, which runs every runnable goroutine, and for `sync.Mutex`, which hands itself to
a waiter starved for a millisecond; `WF_vars(Drain)` for the transport's two-second
deadlines. Clients and crashes are not fair: nobody has to send a request. In `async_sink`,
`WF_vars(DrainStep)`: the goroutine runs, and the dial and the deadline bound each of its waits.
In `presidio_sidecar`, `SF_vars(CallerStep(c))` for the mutex, and `WF_vars(Sidecar(p))`: a
process that runs loads its model and answers. The last is an assumption about
`presidio/sidecar.py`, which answers every line; the detector has no deadline of its
own, and a sidecar that hangs would block every call. In `server`, `WF_vars(Run(p))` and
`SF_vars(Serve(c))` for the scheduler and the mutex: a process goes on once started, its loop
accepts, its handlers run; clients may stay silent for ever, and nobody has to start or kill.

## What is proved

All theorems hold for every value of the constants that satisfies the named assumptions, in
particular for any number of handlers, requests and crashes.

* `TypeCorrect` (`GuardProofs`): `TypeOK`, strengthened with `StepFits`, which says that the
  request of a handler is of the verb its step belongs to and that `Verify` has an answer to
  give. `TypeOK` alone is not inductive, since `Text(h)` is only a text for a write.
* `ReservedSlotsAgree` (`GuardProofs`). The baseline is pinned in one critical section and the
  entry stored in a later one. The invariant `SlotInv` ties the three places together: a
  handler past the baseline check of a reserved key carries the pinned content, and so does
  every entry stored under the key in this process lifetime. It is preserved because a baseline
  is never changed once pinned, and a restart that clears them clears the handlers.
* `BaselinesAreBacked` (`GuardProofs`): a baseline comes from a stored write or one on its way;
  the steps between the pin and the `Put` only move forward, and both die in a crash.
* `ReadsAreIsolated` (`GuardProofs`). The property speaks of an answer only. `EntryInv` carries
  it back to the gate: a write past the gate is not injected and has the quarantine flag
  exactly when its text is borderline; every entry in the store, and in a handler's copy, is
  the redaction of its author's text under the author's key; a reader's copy holds only entries
  of its visible keys. The lemma `KeysDecide` is the access rule: `BoundKeyFor(w)` is among
  `VisibleKeys(r)` exactly when `MayRead(r, w)`.
* `DeletionsAreFinal`, `ResidueIsAlwaysReported` (`GuardProofs`).
  `LifeInv` says that `VerifyDelete` alone holds `mu` from its fetch to its scan, that an id in
  an unsent answer was minted, that the id of a delete past its `Delete` step is
  absent and, since ids are minted once and a client names only ids it was told, stays so, and
  that a reader's copy has no id that was confirmed gone before it arrived. Neither of the two
  is inductive alone: the answers are sent after the lock is given back.
* `ProofsAreUnique`, `OffersAreOrdered` (`GuardProofs`) speak of the events the sink accepted:
  what was forwarded and what is queued. `AuditInv` adds to `LifeInv` that an id with a proof
  among them is no longer stored, so that no handler between its fetch and its event can hold a
  copy of it, and that an id whose redaction event is still to be offered was told to nobody, so
  that nobody can have deleted it. The queue may drop any event: the lemmas on `Thinning` say
  that both properties pass to a sequence with events left out.
* `GuardMeetsContract` (`GuardProofs`). Under the mapping of `GuardProperties`, a baseline
  is pinned at its critical section, a write takes effect at `Put` or at its refusal, a read or
  review at its copy, a delete at its `Delete` step, whatever the other handlers do in between;
  the remaining steps are calls, answers and stutters. The step-simulation lemmas, one per
  verb, rest on `CallInv`: `SlotInv`, `EntryInv` and `LifeInv`, that a write at its `Put` was
  allowed past the key policy, and that the copy a delete took is still the entry.
* `IndexesAlwaysAgree`, `TwoIndexImplementsStore` (`DeletionProofs`): the agreement is
  inductive with `TypeOK`, and gives that the secondary index shows the primary's contents,
  which is what the contract asks of `AllByIndex`. `DeletionKeepsStore`: the steps of
  `DeletionGate` are steps of the store, so both hold of it.
* `NamedCopiesAreStale`, `CleanRepliesAreClean`, `SecondaryNeverNamed`,
  `CopiesAreReported`, `LaggingCachesAreReported` (`DeletionProofs`): what `verify_delete`
  certifies, for every choice of contents and texts. The reply is given after the scan, so the
  invariant `GateInv` carries the scan's answer, and the absence of the id, from the scan to
  the reply; it adds that the cache holds the primary's entry for every id present
  (`CacheFollows`), so that what a lagging cache keeps under a deleted id is the deleted
  entry. An index other than the primary is then named only when the primary has no residue, and
  what the cache has beyond it are entries the primary lost. A clean reply means that no tier matches any survivor of any index. A copy is a
  text found in the survivor as it stands, or after both are normalised; what the
  normalisation makes of a spelling is left to TLC (below).
* `CommonWordsAreNotResidue` (`DeletionProofs`), for every vocabulary, with words inside other
  words, and all contents. The property counts a word as shared when the survivor shows it alone
  or inside a longer word. A number word leaves a figure in what is read, whatever follows it,
  so a text whose normal form has no figure has no number word and is its normal form
  (`OnlyWordsRead`). Normalisation neither adds a word to a survivor (`OnlyReadWords`) nor hides
  one (`WordsAreRead`), so what its normal form shows it shows as well (`NormalShows`), and every
  word of a matched span is shown, the first and last perhaps inside longer ones
  (`SpanIsShown`). The distinctive tokens keep the order of the text (`FlattenPlaces`), so
  distinct tokens are at distinct places. Each tier then needs a strong token, of which there is
  none, or two different tokens that the survivor shows (`OneWordIsNoMatch`).
* `NoValueIsLeft` (`OverlayProofs`), for texts and answers of any size, a placeholder being a
  symbol no value contains. The invariant `Pending` says that a value to be found in the output
  is still waiting, which holds because a replacement brings nothing out: an occurrence in the
  new output avoids the placeholder and so lies in what stood before or behind the value
  replaced. The lemmas say what `FlattenSeq` and `ReplaceFirstSubSeq` return.
* `NestedValuesAreCovered` (`OverlayProofs`), under the same reading of placeholders. The invariant
  `LayInv` says where the output comes from: an increasing map takes its places to bytes of the
  text, a byte that is still there is followed by what came from the next one (`Placed`), and
  the bytes that are gone are native PII or lie in replaced occurrences, none of which is
  shorter than a value still to come (`Accounted`). Nesting then gives `Settled`: an occurrence
  whose value is no longer waiting has no byte left in the output, for otherwise none of it
  could have been replaced, all of it would still stand together (`KeptRun`) and its value
  would occur. At the end the bytes in the output and the bytes outside every value are the
  same places, listed in the same order (`SameEnumeration`). The order by length is what
  `Accounted` needs: with a shorter value first, the longer one would be broken up.
* `CanonicalNeverTorn`, `DeletedBytesAreGone`, `FileImplementsStore` (`FileStoreProofs`). The
  invariant says what the temp file holds at each step of `save`, that the draft is the
  canonical snapshot with the pending mutation applied, and that a record which was answered
  for and is not in the canonical file is in the temp file neither. The last part is why a
  delete that finds the id already gone need not rewrite the file.
* `NothingLostInside`, `EarlyEventsAreForwarded` (`AsyncSinkProofs`): the channel and what was
  taken from it make up what was accepted; a goroutine that left its loop saw the sink closed,
  and it exits on an empty channel, when all that was accepted is taken.
* `TrailAtMostOnce`, `TrailInOrder` (`AsyncSinkProofs`): the current event was taken last and
  has not travelled while its exchange dials; an event on its way is the current one or one
  that timed out. `AtMostOnce` alone is not inductive: it does not say that the event about to
  be sent is new.
* `ServedPathAlwaysPrivate`, `RacesLeaveAServer` (`ServerProofs`). The invariant says that a
  claimed path names a server past its `Listen`, or that one is about to bind it: `Remove` is
  followed by `Listen` in the same process, and an `AddressInUse` is another one's socket. The
  last chmod before `accept` reaches whatever is bound, which is why the mode holds although
  the sockets may be swapped.
* `UpdatesAreKept` (`ServerProofs`): the file alone is not inductive. The invariant adds that
  only a process that may use the store is inside its mutex, one verb at a time, and that while
  no two processes have overlapped the verb inside has read what the file still holds.
* `RunningSidecarsAreClosable`, `FallbackHasAReason`, `AnswersAlwaysMatch` (`PresidioProofs`).
  `LockInv` says who holds `d.mu` and which process it may speak to. `PipeInv` says what the
  pipes hold: while the sidecar is not marked dead, nothing but stray lines between exchanges,
  and during one either the reader's request or one answer to it. An exchange that breaks may
  leave an answer behind, but sets `dead`, and only a new process with empty pipes clears it.
* `InspectorTypes`, `FlagsAreDeserved`, `RepetitionsAreNoticed` (`InspectorProofs`). A verdict
  counts records of a history, the properties count writes of the log. `HistoryInv` relates the
  two: a record is a logged write of its subject, and a logged write is in its history, or
  older than the cooldown, or followed by `MaxHistory` writes of its subject. A record evicted
  by a writer with an old clock reading has aged out by the clock too, because a reading is
  never ahead of it; a record trimmed has `MaxHistory` newer ones, each logged at a
  place of its own. The two counts are then compared by the injections from records to places
  and back (`OneToOne`). The cap (`CapHolds`) is proved from the least record kept, which a
  well-founded order provides.
* `OutliersAreOfTheirWindow` (`InspectorProofs`): the ring of a key is the end of all its sizes
  (`RingKeepsTheEnd`), so a verdict compares its write with the latest `WindowSize` sizes
  before it, itself excluded, and stands while others are measured. That the comparison is the
  sigma test is an identity of sums: n times the sum of squares less the square of the sum is
  the sum of the squared distances of the pairs (`DeviatesIsOutlier`), proved by adding one
  size at a time.

Assumptions: `SubjectsAssumption` (a subject is neither empty nor the shared marker),
`DetectorAssumption` (redaction is idempotent and yields contents), `KeyAssumption`,
`IdAssumption` (a client does not guess an id), `RequestAssumption`, `NoneAssumption`,
`AbsenceAssumption`, `ServerAssumption`, `AbsentAssumption`, `FileAssumption`,
`SinkAssumption`, `ProcessAssumption`, `TextAssumption` (a text is a sequence of tokens),
`NumberWordAssumption` (number words have natural values, "and" is a stop word),
`SubwordAssumption` (a word that ends another lies past its first letter), `LettersAssumption`
(every placeholder has a spelling),
`OffersAssumption`, `NoIndexAssumption` (`None` names no index), `NativeAssumption` (the native
detector's placeholder is none of the sidecar's labels), `BoundAssumption`, and the four of `PresidioSidecar`, by which `None` is no
caller, text, process or result. `MappingAssumption` says that `None` is nothing the contract
keeps or answers, the `NoneAssumption` of `SelfReinforcement` that it is neither a call nor a
verdict; its `DetectorAssumption` and the `SizeAssumption` of `WriteInspectors` give the ranges
of the configuration. TLC evaluates each of them in the runs of its module.

Only model-checked:

* liveness (`EveryRequestEnds`, `AcceptedIsForwarded`, `EveryCallReturns`, `SentRequestEnds`),
  which under fairness is out of the prover's reach;
* what the normalisation makes of the words and figures of the instance (`SpelledAmountFolds`,
  `RespelledCopyIsReported`): both speak of given contents; the general part is
  `CopiesAreReported`;
* the agreement of the overlay with its placeholders spelled out (`SpelledOutAlike`).

The provers cannot instantiate the library's induction theorems, which take an operator. Where a
proof is by induction, it is over the set of the numbers for which the claim holds (`Induction`,
from the least element of a set of naturals), and the functions of the models are defined by
recursion over prefixes (`Recursion`).

## Findings

Shown by a run:

* A record longer than the scanner's limit is stored, and then no verb and no restarted
  process can read the file (`file_oversized`; `store_file.go:24-25`).
* The sidecar's offsets count characters and the detector's slices count bytes: behind a
  character outside ASCII the wrong text is redacted (`presidio_offsets`;
  `detector_presidio.go:252-253`).

Met while modelling, behaviours of the models that contradict a comment, with no run of their own:

* A writer attested with the subject `shared://` is bound to the unbound key
  (`principal.go:200-202`) and reads under `shared://` (`principal.go:220-221`), so that it does
  not read its own entries; `guard.go:59-60` says the two keys are the same.
* A write refused or flagged by the key policy (`guard.go:214`), quarantined, or flagged by an
  inspector is answered without an audit event; `guard.go:23-24` says every detection
  is emitted.
* The self-reinforcement history is ordered by the lock and not by the clock
  (`self_reinforcement.go:142`); its comment says time-ordered (`self_reinforcement.go:74`).
* After an exchange broke, `Start` returns nil and starts nothing (`detector_presidio.go:125-127`);
  its comment says that it spawns the sidecar and waits for it (`detector_presidio.go:113`).
  After a line that does not decode (231-234) the process with its loaded model runs on, refused
  by every redaction (212-214), until an explicit `Close`.
* A later value is searched and replaced in the placeholders already put in
  (`detector_presidio.go:296-303`): a LOCATION "US" turns `<US_SSN>` into `<<LOCATION>_SSN>`, and
  the flag of the broken placeholder stays. The comment promises that native placeholders are
  not disturbed (`detector_presidio.go:253-256`). `SpelledOverlay` has this behaviour: without its
  premise `SpelledOutAlike` fails.
* Tier 3 counts the tokens of the deleted content with their repetitions, so that "done done
  done" is reported for a survivor that only shares "done"; `residue.go:53-58` says that a
  shared common word is no residue. `OneCommonWordIsNotResidue` asks for distinct words.
* A figure with commas is folded into its groups (5,000 into 5 and 000), and a digit token is
  looked for inside other figures: a short number alone makes residue of unrelated ones.
* Number words that follow each other without belonging together are folded into one figure
  ("five three hundred" gives 800), and a figure before a scale word ("5 thousand") is not
  folded (`residue.go:372-378` speaks of paraphrases of amounts in general).
* Text without number words is returned verbatim according to `residue.go:377`, and comes back
  with its whitespace collapsed.
* `docs/spec/behaviors.md:167` says that `write` leaves nothing behind; with
  `MEMGUARD_STORE=file` it persists its entry, and `read` persists its query (`main.go:178`).
* "Removes any stale socket" (`docs/spec/behaviors.md:138`): the socket of a running server is
  removed as well (`ipc.go:13`), which goes on without a path.
* An empty first line closes the connection with no response
  (`docs/spec/behaviors.md`, B-004); a line holding only a newline is answered
  `bad_request` (`ipc.go:31-38`).

## Not modelled, and the plan

Not modelled: the patterns of the regex and native detectors and what Presidio recognises
(pure text matching), JSON and socket framing, OCSF layout, the parsing of flags and
environment values (an unusable value is one that `Misconfigured` has), the documentation
scripts.

Left: the order in which two writers of one subject pass the inspector against the order of their
`Put`s, which no property relates.
