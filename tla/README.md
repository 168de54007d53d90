# Azoth in TLA+

Azoth is a Go library for programs that talk to language models, local ones
first: a streaming client for OpenAI-compatible servers, adapters for hosted
providers, a fair slot pool for one shared endpoint, and small supporting
packages (tool registry, SQLite migrations, IPC framing, network guard). This
directory holds TLA+ models of its concurrent and stateful parts, the TLC
configurations that check them on small instances, and theorems about them that
TLAPS proves for every value of their parameters.

Line numbers are those of the Go files next to this directory; `PROJECT.json`
maps every definition to the lines it stands for.

## The system

| Part | State it keeps | Operations | What is hard |
|---|---|---|---|
| Slot pool `llm/pool.go` | `inflight`, FIFO `queue` of waiters, each with a one-element channel and a `done` flag | `Acquire`, `abandon`, `releaser`, `release` | hand-off racing cancellation and the queue timer; the send after the unlock |
| Pooled client, iterator `llm/pooled.go`, `llm/stream.go` | two channels, the slot, a derived context | `PooledClient.Chat`, the forwarder, `Stream`'s loop and its deferred drain | order of release and close; early break against a hanging endpoint |
| Connection tracker, retries, probe `llm/connstate.go`, `llm/openai.go`, `llm/probe.go` | `state`, `probing`; the loop counters of each call | `Get`, `Set`, `ClaimProbe`, `ReleaseProbe`; `doChatRequest`, `doChatRequestRetryingStatus`, `Chat`'s error path; `probeLoop` | several calls and the probe change one state; nested retries; contexts ending in every wait |
| OpenAI stream `llm/openai.go`, `llm/sse.go` | the SSE channel and `sseErr`, the event channel, merged fragments, usage, abort reason | `ParseSSE`, the stream loop, `abort`, `drainSSE` | parser parked on an unbuffered send; watchdog against late chunks; what may follow an abort |
| Tool-call accumulator `llm/toolcall.go` | fragments by index | `Merge`, `Finalize` | order, missing ids, malformed arguments |
| Loop guard `llm/loopguard.go` | a window of recent text | `add`, `addReasoning` | thresholds and window edges |
| Inline call recovery `llm/inline_toolcall.go` | none | `ParseInlineToolCalls` | which text goes with a call, which stays |
| Messages `llm/messages.go` | the conversation, kept by the caller | `FilterForRequest`, `MarshalJSON`, `UnmarshalJSON` | a form that is stable over any number of hops |
| API errors, token estimate | none | pure functions | formats |
| `Complete` `llm/complete.go` | none of its own | folds a `Stream` | what a stream that ends early yields |
| Anthropic, Bedrock, Vertex adapters | a tracker, a lazily built SDK client, in-flight tool calls | `Chat`, request builders, probes | same event contract from three different wire protocols; one conversation for three APIs with rules of their own |
| Store `store/migrate.go`, `store/store.go` | the database, its `user_version` | `Open`, `Migrate` | crashes between body, bump and commit; two processes; changing releases |
| Tool registry `tools/registry.go` | the map, the memoized definitions | `Register`, `Unregister`, `Get`, `List`, `Filter`, `Without`, `ToolDefs` | a cache under an RWMutex with a double check |
| Debug log `llm/openai.go` | the writer, a flag that mirrors it | `SetDebug`, `Debugf` | flag and writer change apart |
| IPC `ipc/` | a byte stream | `Pack`, `Write`, `Read`, `CheckPeerUID` | frames cut at any byte |
| Network guard `netsec/` | none | `IsDeniedIP`, `DialContext` | checked address against dialled address |
| Paths, tool arguments, schemas | none | string and map handling | nothing concurrent |

How they interact: an application calls `Stream` (or `Chat`) on a
`PooledClient`; that takes a slot of the `Pool`, calls the inner client, and
forwards its events on a second channel. The inner client runs the retry loops
against the endpoint, records what it learns in its `ConnTracker`, and starts a
goroutine that turns the chunks of the parser goroutine into events. A call
that loses the endpoint starts the recovery probe, which changes the same
tracker. Cancellation travels the other way: the loop that stops cancels its
context and drains, the request fails, the parser and the stream goroutine end,
the forwarder sees its input closed, and the slot goes to the next waiter.

What makes each part correct, and where it could go wrong, is listed line by
line under `hazards` in `PROJECT.json`, with the properties that watch it.

## Modules

| Module | Contents | Extends or instantiates |
|---|---|---|
| `SlotPool` | what a pool promises: holders, a FIFO line, capacity | |
| `Pool` | `pool.go`, one action per critical section | `SlotPool` through a refinement mapping (`SlotsSpec`) |
| `PooledChat` | `pooled.go` and `stream.go` over an arbitrary inner client | `Pool`, whose actions its own contain; `UsesPool` states that it takes no others |
| `PoolProofs` | the pool's inductive invariant, safety theorems and refinement; slot and stream in step, the use of the pool, no event lost | `PooledChat` |
| `ChatConn` | tracker, retry loops, error path, probe | |
| `ChatConnProofs` | one probe, the request budget, an indicator that tells of no trouble no call had | `ChatConn` |
| `EventProtocol` | what a consumer may rely on in the channel of `ChatClient.Chat` | |
| `ChatStream` | parser, stream goroutine, drainer, consumer | `EventProtocol` through a refinement mapping (`KeepsProtocol`) |
| `ChatStreamProofs` | truthful end, faithful events, the budget, refinement of the event contract | `ChatStream` |
| `Adapters` | the hosted vendors' clients: stream translation, tracker, probes | `EventProtocol`, one instance for each call (`KeepsContract`) |
| `AdaptersProofs` | types, one probe, refinement of the event contract by every call, events as the stream says | `Adapters` |
| `Migrate` | `Migrate` on a database shared by processes that crash | |
| `MigrateProofs` | cursor and schema in step, one writer, what success means | `Migrate` |
| `Registry` | `tools/registry.go`: the map and the memoized definitions | |
| `DebugLog` | `SetDebug` and `Debugf` | |
| `ToolCalls` | the accumulator of tool-call fragments | |
| `LoopGuard` | the repetition detector | |
| `InlineCalls` | tool calls that leak into the text | |
| `Frames` | IPC framing on a stream that may break | |
| `SequenceLemmas` | facts about numbers and sequences: least counterexamples, what `FlattenSeq` computes | |
| `LibraryProofs` | what the registry, the debug log, the framing, the loop guard, the accumulator and the inline recovery guarantee | `Registry`, `DebugLog`, `Frames`, `LoopGuard`, `ToolCalls`, `InlineCalls`, `SequenceLemmas` |
| `Messages` | messages and their JSON form | |
| `Requests` | the request builders of the three hosted vendors, for conversations an agent loop may hold | `Messages` |
| `ConversationProofs` | JSON hops keep the meaning; limits, completeness, stable prefixes and answered rounds of every request | `Messages`, `Requests`, `SequenceLemmas` |
| `MCRequests` | messages, drafts and settings for TLC; conversations alone | `Requests` |
| `MCLibrary` | the nine parts that share no state, one at a time, with TLC's values | `Migrate`, `Registry`, `ToolCalls`, `LoopGuard`, `Frames`, `MCRequests` (with `Messages`), `DebugLog`, `InlineCalls` |
| `MCChatStream`, `MCAdapters`, `MCMigrate` | values TLC needs | the module they name |

Each component module also defines a few operators whose names begin with
`Mut`: plausible mistakes in the code (a missing reset, a swapped order). The
checked model never uses them; replacing the definition they belong to must
make TLC find the property listed with them violated, which shows that the
property depends on that piece of code.

### Pool

`inflight`, `queue`, `done` and `ch` are the fields of the code. A call's `pc`
follows `Acquire`: `AcquireFast` and `AcquirePark` are the two outcomes of the
first critical section, `Granted`, `Cancelled` and `TimedOut` the three arms of
the select, in which Go picks any ready one. `AbandonHanded` and
`AbandonParked` are the two outcomes of `abandon`. A release is two steps:
`HandOff` or `Free` under the mutex, and after it the `Send` on the waiter's
channel, because that is where the interesting interleaving lies: the waiter
may have left the select by then. `CallRelease` is the releaser with its
`sync.Once`; a caller may call it again. `MaxUses` bounds the Acquire calls of
one caller.

### PooledChat

The pool is `Pool` itself: `PoolStep` is a step of a call inside `Acquire` or `release`,
and the forwarder's release is `CallRelease`. The inner client is external and may do
what the `ChatClient` interface allows: fail, send up to `MaxEvents` events, hang,
close. Its `Chat` need not return, because the POST has no time limit
(openai.go:252-257). Once its context is cancelled it returns and closes its channel,
which is what `ChatConn` (`EndedContextReturns`) and `ChatStream` (`CancelEnds`) show of
the OpenAI client under a consumer that keeps receiving. `ForwardRecv`, `ForwardSend`
and `ForwardEnds` are the forwarder; the two defers run in the code's order, release
before close. `Break` is a loop body that returns false: cancel, then drain.

### ChatConn

Every method of `ConnTracker` is one critical section and one step;
`Set(Disconnected)` and `ClaimProbe` are two, as in the code. `net` is the
endpoint: when it is down requests and pings fail, when it is up they may be
answered, and a request may also fail for another reason (a stale keep-alive
connection). A response is one of three classes: accepted, retryable, final
(which includes a `Retry-After` beyond the limit). What `ClassifyTransportError`
treats as a transport failure is the set `Transport`, `context.DeadlineExceeded`
included, because its `Timeout` method says true. `MaxFlips` bounds the outages.

### ChatStream

Chunks are sets of parts (`reason`, `text`, `call`, ...), handled in the order of the
code; `noise` is a fragment of a call that never gets a name, which `Finalize` drops.
`Scan` hands a chunk to the unbuffered channel, on which the parser is parked until the
stream goroutine (`Recv`) or the drainer (`Drain`) takes it. A body ends with `[DONE]`,
with a plain end, with a read error, or cut off; with `Framed` the last is always an
error. `StallFires` competes with `Recv` as the two arms of the select do. The loop
guard is a choice at each delta, because its verdict depends on text that the model does
not keep. Every send waits for room on the event channel and for nothing else, as in the
code. A cancelled context or closed body makes a pending read fail; what is already in
the scanner's buffer may still be delivered. `Channel` is the event channel as
`EventProtocol` sees it: deltas, calls, usage, done or error.

### Adapters

One module for `llm/anthropic`, `llm/bedrock` and `llm/vertex`: the initial state picks
the vendor, `hosted` being the Bedrock and Vertex variants of the Messages API client,
which share `streamAnthropic` but have the stub probe. `wire` is what the vendor's
stream has delivered so far, in the order the vendors' servers keep (`Delivers`):
content first, then one usage report from Converse and any number of them from the
Messages API, whose client forwards each. It is external and drives the translation one
item at a time. A Gemini chunk counts as one item for each part or field, because
everything between two sends is local to the goroutine. `Translation` and `Ending` read
the expected events off the whole wire, without accumulators, and `Translated` compares
them with what the code sent. The order in which each vendor sets the tracker is the
code's: Converse once the request is answered, Gemini before it is sent, the Messages
API when the stream has ended.

### Migrate

A release is a sequence of version numbers in directory order; `NoVersion` is a
file without a numeric prefix. `Start` lists, sorts, rejects, and reads
`user_version`, once and outside any transaction. `Body`, `Bump` and `Commit` are
one migration: the body takes SQLite's write lock and works on a draft, the bump
writes the cursor to the draft, the commit replaces the database. `Fails` covers
every error return and rolls back; `Restart` is a crash or an exit at any point,
after which the process comes back, possibly with another release. `Bumped`
does what SQLite does with a number beyond 32 bits: it stores 0.

### Registry

Every critical section is a step. `ToolDefs` has two: `FastHit` or `FastMiss` under the
read lock, then, with nothing held in between, `SlowPath` under the write lock, which
looks again. `Derive` is `Filter` and `Without`. `seen` is a history variable: the
definitions the registry has had since the call began, which is what `Snapshots`
allows the call to return. Names are numbers, so that sorting means something.

### DebugLog

`SetDebug` stores the flag and replaces the writer at two moments, in opposite orders
for on and off; `Debugf` loads the flag, loads the writer under the read lock and
writes without one. A line may be lost beside a `SetDebug` call, as in the code, but
not otherwise (`calm` remembers which calls were alone).

### ToolCalls, LoopGuard, InlineCalls

Pure algorithms, fed step by step as the stream loop feeds them, and compared with a
definition that looks at everything fed so far: the fragments of an index joined at
once; a unit repeated at the very end of the whole text, or windows of the whole
reasoning; the places of calls and of prose in relation to the tags around them. The
guard's thresholds are parameters; `GuardAssumption` holds of the code's values. A text
of `InlineCalls` is a sequence of tokens: tags, whole function elements, JSON objects
that name a call, and prose.

### Frames

Bytes carry their frame and place, so that a frame put together from parts of two would
show. `ReadError` keeps the four errors apart that an end of the stream gives, and
`IsEOF` is what `errors.Is(err, io.EOF)` says of them. `Write` is two writes; `Read`
takes one byte after another, because `io.ReadFull` accepts any split. `Cut` ends the
stream behind any byte. One goroutine writes and one reads: the package has no lock, and
its callers serialize.

### Messages and Requests

`Marshal` and `Unmarshal` are the two directions of the JSON form, with texts,
payloads and addresses as strings that are only compared; `Hop` sends a message
through both once more.

`Requests` keeps a conversation and asks of every reachable one what each vendor is
sent. The agent loop (`Say`) is external: it answers the calls of a turn in their
order before anybody else speaks, and may put in system reminders and ignored rows at
any time, which is what the translators' comments expect. Some call ids are unique, as
the vendors make them; others come again in every turn, as the library makes them
(toolcall.go:82, inline_toolcall.go:129, vertex.go:181-186). `Translated` is the walk over
the messages, with the buffer of results that Bedrock and Gemini need and the user turn
per result that the Messages API gets; `Translatable` is what makes the whole
request an error; `Marked`, `Thinking` and `Resolves` are the options. Every text, part
and call is a piece named by its place, so that `NothingDropped` can follow it. That
property speaks of the messages that have a place in a vendor's form (`Fitting`); what
happens to the others is told below. The limit on the answer is assumed to fit the
32 bits it is sent in (`SettingsAssumption`).

## Runs

| Run | Instance | Shows |
|---|---|---|
| `pool` | 4 calls, 2 slots, queue timeout, each call may acquire and release twice | slot accounting, capacity, no barging, no lost or double hand-off, refinement of `SlotPool`; a parked call returns by its context, by the timer, or by the releases of the others, each without the other two |
| `pooled` | 2 loops, size 0 (clamped to 1), 2 events, channels of 1 | slot held exactly while the stream is open, end and error visible only after the release, nothing lost or reordered, a break frees the slot although the inner client would hang, the next loop is served |
| `conn` | 2 calls, 2 transport and 2 status attempts, 2 outage edges | one probe, request budget, an indicator with a cause, ended contexts return although no answer and no timer comes, a watching probe clears the marker and exits |
| `conn_lost` | 2 calls, no retries | violation: the marker may stay after the endpoint is back |
| `conn_deadline` | 2 calls, no retries | violation: a caller's deadline is taken for an outage |
| `stream` | 3 chunks of 8 kinds, event channel of 1, guard, watchdog, budget 1, unframed body | events faithful and calls whole, truthful end, the event contract, budget only for thinking; parser exits, cancel ends, stall ends |
| `adapters` | 4 vendors, one call of 4 items with 2 tool blocks, one rival call | events are the translation of the stream, the event contract but for repeated reports of the Messages API, one probe |
| `adapters_usage` | Messages API, one call of 4 items | violation: two usage reports in one call |
| `migrate_race` | 2 processes, 1 call each | violation: a migration runs although the cursor has reached it |
| `migrate_wide` | 1 process, a version beyond the cursor's range | violation: the cursor becomes 0 |
| `requests_names` | Gemini, conversations of up to 6 messages with two rounds | violation: a result under the name of a later call |
| `library` | 2 processes, 2 calls each, 4 releases; 2 registries, 2 tools, 2 callers; 3 fragments on 2 indices; texts of 9 runes over 2; 3 frames of up to 2 bytes; 2336 messages; conversations of up to 5 out of 14 drafts, 5 settings, 3 vendors; 2 setters, 1 logger, 3 files; texts of 5 tokens | cursor names the last migration, forward moves, success applies; answers of `ToolDefs` true during the call; calls as streamed; loops and only loops cut; frames arrive; JSON hops keep the meaning; rounds answered, prefixes stable, nothing dropped, limits kept; the log follows `SetDebug`; inline calls recovered |

Why these bounds are enough. Two slots and four calls let one call hold, one be handed a
slot, one wait and one barge at the same time; the order of the queue needs two waiters.
Two loops on one slot are a holder and a waiter. The races of the tracker need two calls
and a probe; a third call adds no new pair of critical sections. Two attempts of either
loop distinguish first, repeated and last. Three chunks make a delta before, at and
after the one that exceeds a budget of one. A channel of one is full after one send, so
blocking happens everywhere. Four items make a whole call and its usage report, two
interleaved blocks, or two parallel calls. Two processes with a crash and a second call
reach every mix of old copy and new cursor; the releases list out of order, fill a gap
later, and are refused for a duplicate or an unnumbered file. In `library`: two callers
are one that fills the cache beside one that looks; three fragments are two of one call
with one of the other in between; the guard's parameters are small enough that nine
runes fill its tail, wrap it and go three scans beyond its window; three frames leave
one whole before and after the one that breaks; five messages are a round of two calls
with both results and a reminder between them, or two rounds under one id; two
overlapping `SetDebug` calls with three files replace a writer twice; five tokens are a
block with prose behind it and a second closing tag. The theorems below drop these
bounds for the properties they cover.

`CHECK_DEADLOCK FALSE` stands in every configuration because every model ends:
calls return, streams close, bounded environments run out.

### Fairness

The Go scheduler runs every runnable goroutine, so steps of a goroutine that are
its own (`Scheduled` in `Pool`, `ChatStep` and `ProbeStep` in `ChatConn`,
`Goroutine`, `Drain` and `Receive` in `ChatStream`, the forwarder and drainer in
`PooledChat`) are weakly fair. A pending request or read fails once its context is
cancelled, because `net/http` closes the connection. The probe's ticker fires and its
ping has a time limit; the queue timer fires where the property assumes it, and the
watchdog fires. In `ChatConn` neither an answer nor the timers of the two waits are fair: a
call returns by its context alone (`EndedContextReturns`), so a wait that did not watch
it would be found.

No fairness is assumed of the endpoint: it need not answer, send, or end a body; in
`PooledChat` the inner `Chat` must return only when its context is cancelled. Nor of an
application: a loop need not break, a holder need not release (`HoldersRelease` is a
hypothesis of the one property that needs it), a context need not end.
`WatchedClears`, which includes the exit of the probe, assumes that the endpoint finally
stays up; the first half of `NextServed` assumes that requests are answered
(`RequestsAnswered`) and that no loop ranges for ever (`LoopsEnd`), the second half, for
a call whose own context ends, assumes neither. These are not the library's to promise,
and stand in the properties and not in the specification.

## Proofs

All theorems hold for every value of the constants under the named assumptions
in the modules. Three of these say what the inputs are: `SpecimensAssumption` (a
message's parts are a sequence), `DraftsAssumption` (what an agent loop may add:
only assistants call, and neither calls nor results are audit rows) and
`SettingsAssumption` (budgets are numbers, and the limit on an answer fits 32 bits).

Several theorems are about what a fold or a scan over a sequence of any length
computes. The prover has no induction rule for that, so `SequenceLemmas` derives one from
the library's facts on well-founded sets: a set of numbers that is not empty has a
least element (`LeastNumber`), hence a set that holds 0 and the successor of each of its
numbers holds all (`AllNumbers`). With it `FlattenSeq` of a longer sequence is
`FlattenSeq` of the shorter one and the last element (`FlattenMore`), the walks of
`Requests` and `InlineCalls` are unfolded step by step, and `AllSequences` lets a fact
grow with a conversation.

* **Pool.** `PoolInvariant` proves the inductive `PoolInv`. Slot accounting alone is
  not inductive: between the hand-off and the receive a slot belongs to nobody
  who runs, so the invariant also says where each call is with respect to queue,
  `done`, channel and pending send, and that whoever is parked implies that the
  pool is full. From it follow `PoolSlotsCounted`,
  `PoolQueueImpliesFull`, `PoolSendNeverBlocks`, and `PoolImplementsSlotPool`, the
  step simulation of the FIFO pool.
* **PooledChat.** `ChatSlotFollowsStream` proves that the pool's view of a call and
  the forwarder's progress agree; `ChatStreamHoldsSlot` and `ChatEndedHoldsNothing`
  follow. `ChatUsesPool` proves that every step of the composition is a step of `Pool`
  or leaves it alone, so what is proved of the pool holds of it. `ChatNothingLost`
  rests on `FlowInv`: events are numbered as they are produced, every buffer on their
  way holds a run of consecutive numbers that starts where the one before it ends, and
  the last one ends at `sent`. Putting the runs end to end (`RunConcat`) gives the whole
  stream, for any number of events and any capacities.
* **ChatConn.** `ConnInv` joins the types, `OneProbe` and `AttemptsCounted`, which ties
  the number of requests sent to the two loop counters; the bound of
  `ConnPostBudget` is its consequence by monotonicity of multiplication.
  `ConnTroubleHasCause` is an invariant over the tracker and all calls: each value of
  the indicator has a call that explains it. It needs `LastAttemptFails` (the loop gives
  up on a network error with its last attempt only); a step of one call leaves the
  explanations by the others alone (`OthersStay`), and a step that takes its own away
  sets the tracker.
* **ChatStream.** `StreamInv` ties the parser, the stream goroutine and the channel
  together: before the last steps no usage and no ending was sent, a loop that left
  by abort has its reason, a loop that left without one has seen every chunk of a
  parser that is closed, and the last event of a closed channel agrees with all of
  that. `StreamEndTellsTruth` is its consequence. `StreamKeepsProtocol` adds lemmas
  on `Channel` (it is a sequence; sending appends one kind) and shows that every
  step is `Content`, `Usage` or `End` of `EventProtocol`, or a stutter.
  `FaithfulInv` adds what `StreamEventsFaithful` and `StreamBudgetOnlyThinking` need:
  while a chunk is being handled, the deltas on the channel are those of the chunks
  before it and of the parts of this one already sent (`DeltasFaithful`), the merged
  fragments are those of the chunks taken (`CallsFaithful`), and the budget's counter
  is the number of thoughts sent while the model has not acted (`ThoughtsCounted`).
* **Adapters.** `AdaptersOneProbe` needs only the types: `Claim` alone starts a probe.
  For `AdaptersKeepContract` a step is first classified by what it says on the channel
  of one call (`SaysContent`, `SaysUsage`, `SaysEnd`, `SaysNothing`; the other calls'
  channels stay untouched), and `ReportedLast` says when usage can have been reported:
  behind the block APIs' content by what `Delivers` lets a server do, for Gemini only
  after the stream, by the adapter itself. One report per call is proved for Converse
  and Gemini; for the Messages API the step `Repeats`, which is no part of the contract,
  is allowed, and `adapters_usage` shows that it happens. `AdaptersTranslated` compares
  the channel with the whole wire. Its invariant `ToldInv` has two halves for each call:
  what the adapter's variables remember is what the wire has carried (`WireKept`: the
  open tool blocks, the calls counted, the last usage report, the reason to stop), and
  what has been sent is the translation of the items handled so far (`Told`). An item
  adds at most one event, whose place is its rank among the items that speak; lemmas on
  ranks replace an induction over the wire.
* **Migrate.** `MigrateInv` says what the holder of the write lock has in its draft,
  and that its next version is above its copy of the cursor. Under `VersionsFit` (every
  version can be stored in `user_version`; `migrate_wide` shows why it is needed) it
  gives `MigrateCursorNamesLast`, `MigrateOneWriter` and `MigrateCursorAdvances` for any
  number of processes. `MigrateSuccessApplies` adds an invariant on the loop's progress:
  a version left behind is covered by the cursor copy and, if newer than the
  starting cursor, has been run.
* **Registry.** `RegistryInv` joins what `Snapshots` needs and does not say: a memoized
  slice is the present content (`CacheFresh`), and a call past its first look has
  witnessed the present content (`CallsWatch`), so whatever `SlowPath` returns, found or
  built, was true during the call.

* **Debug log.** `DebugInv` says of every open file whose it is (`OneOwner`: the writer,
  or one setter's hands), that where the flag lags behind the writer a setter is about
  to see to it (`FlagFollows`), and what a logger beside no setter holds (`CalmLines`).
* **Framing.** `FramesInv` follows the bytes by arithmetic on their places: what was
  read is an initial part of what was written (`ReadInOrder`), the pipe holds the bytes
  between the reader's place and the writer's (`PipeInOrder`), and a reader that has
  stopped did so where the stream broke, with the error of that place (`EndInOrder`).
* **Loop guard.** Proved for every alphabet, threshold and way to cut a text into
  fragments. `GuardInv` says that the buffers are the ends of the texts, that at the
  last look nothing was seen (`Looked`), that a streak of low scans has taken the
  reasoning it was counted over (`StreakEarned`), and where the last window with
  novelty was (`Scanned`). `CyclicIsRepeats` shows that looking at the bounded buffer with
  one span for each unit finds exactly what the whole text ends with; it needs the
  assumption that the buffer holds the longest span (`GuardAssumption`).

* **ToolCalls.** `CallsInv` compares the accumulator's map with the fragments, index by
  index (`KeptAsSent`): name and arguments are what was sent for the index, joined, and
  the id is the last that was not empty. A fragment changes one index, and `FlattenMore`
  says that it adds its piece at the end. `CallsComeAsStreamed` follows, because the
  finished calls are a selection of the indices in ascending order (`Selection`).
* **InlineCalls.** `ScanKept` is the invariant of the scan, token by token: the blocks
  found so far lie one behind the other, each from an opening tag to the first closing
  tag behind it (`Blocked`), and nothing has closed the one that is open. So the blocks
  are disjoint and in order, they are the pairs of tags that `TagPairs` describes without
  a scan, `Parsed` takes what such a pair yields, and `InlineCallsRecovered` holds of
  texts of any length.
* **Messages.** `WireInv` says that the JSON form is one that `Marshal` writes and
  reads like the first one. `HopKeeps` shows that cutting such a form into a message and
  writing it out again gives the same blocks (`GoodBlocks`), except that a text alone
  may change between its two notations.
* **Requests.** The conversation is arbitrary, so every fact about a request is proved
  by following the walk as the conversation grows. `CallInv` says that the results so far
  answer the first calls, in order; no id needs to be unique for that. Where Gemini's
  names are concerned (`Resolvable`: ids that come again name the same function) an id
  finds its call's name whatever is added later (`NameFound`), and so a longer
  conversation is walked as the shorter one was and then one message on (`WalkedMore`).
  Beside it stand three arguments.
  `RequestsDropNothing`: the pieces placed and those that wait are those that a
  translation speaks (`Spoken`, `Told`), and of messages that fit this is all there is
  (`ToldAsExpected`). `PrefixInv` (`RequestsKeepPrefixes`): the turns of each
  earlier request begin those made so far, or will once the results that wait are
  placed; no user or assistant turn can come between results, because the loop answers
  first; the system text is told message by message (`SystemIs`) and so grows only with
  system messages (`SystemKept`). `RoundInv` (`RequestsAnswerRounds`): the walk is between
  rounds (`Idle`), or in one whose calls are the conversation's last and whose results are
  those already placed or collected (`Busy`). `RequestsWithinLimits` needs only types and
  the arithmetic of `Budget`.

Every invariant and every action property of the runs that pass is stated by a theorem.
Only model-checked are the liveness properties: the proof system does not handle
fairness and `ENABLED`. The refinements are proved as step simulation, which is all
that `SlotsSpec`, `KeepsProtocol` and `KeepsContract` claim.

## Disagreements between the code and its documentation

Each is a run that ends in a violation; `findings` in `PROJECT.json` quotes the text.

* The probe keeps its claim between its last look at the state and its exit. A
  call that goes Disconnected in that window starts no probe, and the marker stays
  until the user sends another turn (`conn_lost`).
* A context deadline returned by the retry loop is classified once more and
  counts as a network time-out (`conn_deadline`).
* The Messages API adapter forwards every `message_delta` as an `EventUsage`; the event's
  comment promises at most one per call (`adapters_usage`).
* Gemini results are named by the last call in the whole history with the same id; the
  comment speaks of the preceding assistant message, and ids made up by the library come
  again in every turn (`requests_names`).
* The cursor is read outside the transactions, so two processes may both run a
  migration (`migrate_race`).
* A timestamp prefix exceeds `user_version`, which becomes 0 (`migrate_wide`).

Not runs of their own, because a property states what does hold, or nothing is promised:

* README.md:31-32 promises that a cut connection is an error. A body that is delimited by
  the end of the connection cannot be told from one cut off (sse.go:24-25 says so); the
  stream then ends with `EventDone`. `EndTellsTruth` shows that a read error never does.
* A frame cut right behind its prefix yields an error that wraps `io.EOF` (ipc.go:87-88), so
  `errors.Is`, which ipc_test.go:56-62 uses, takes it for an orderly close.
  `FramesArrive` says that this is the only such place, and that a comparison with `==`
  tells the two apart.
* Text parts of a tool result are dropped for Gemini without an error, although
  vertex.go:612-617 says they remain in the payload: only the message's own text is in
  it; parts of a result in a type it does not know are passed over, too. Bedrock and
  Gemini drop the text parts of system messages and messages in unknown roles. `Fitting`
  leaves all of these out of `NothingDropped`.
* System reminders are hoisted into the system text, which stands before the turns and is
  itself cached; adding one changes the prefix that a vendor has cached, as
  anthropic.go:709-712 grants ("every turn that doesn't touch them"). `PrefixStable`
  says so; for Gemini, an id that comes again under another name renames results that
  were sent before.
* Malformed call arguments in the history make every later request an error; blank
  ones are accepted by the Messages API only, arrays not by Gemini.
* The clamp of the thinking budget leaves less than the API's minimum of 1024 when the
  limit on the answer is 1024 or less, against anthropic.go:337-338; `WithinLimits` claims
  the range only where there is one.
* When one `<tool_call>` block yields a call, all blocks are cut from the text, those that
  did not parse too, with their prose; inline_toolcall.go:24-29 speaks of "the parsed
  blocks". A second function element in one block is dropped. `InlineRecovered` states
  exactly this: what may vanish is what stands between two tags.
* A call that is cancelled in its backoff leaves the indicator at reconnecting
  (openai.go:319-321), until another call sets it; `TroubleHasCause` names such a
  call as a cause.
* A JSON hop drops the `Ignored` and `Synthetic` flags (they are tagged so), and a part
  whose address is itself a data: URL comes back as bytes.
* `Complete` returns the partial text of a stream that the watchdog or the loop guard
  aborted as a success: the reason is on `EventDone`, which it drops.
* Two overlapping calls of `SetDebug` may leave the flag set without a file, which costs
  only the formatting; the converse does not happen (`LogFollows`).

## Not modelled

Formatting, parsing and I/O without control state: paths, tool arguments and
schemas, `Retry-After` parsing, error wording, token counts and the token estimate,
file modes and the DSN of `Open`, the expressions inside an inline call, peer
credentials (one system call and a comparison). `IsDeniedIP` is a table of address
classes and `DialContext` a loop over one lookup's answers, without state. `Complete`
is one of the consumers of `PooledChat`. `llmtest` is a test double whose behaviours
the inner client of `PooledChat` includes (it may close without an ending). The SDK
clients of the adapters are built lazily: either of two that race works, and what
the first call's context does to a memoized error is the SDK's matter.

## Plan

What is left, in this order:

1. Shorter proofs: the unfolding lemmas of `ToolCalls`, `InlineCalls` and `Requests`
   have the same shape and could share more of `SequenceLemmas`.
2. A part of a Gemini result in a property of its own, once the code says what it is to
   become.
