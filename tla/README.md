# Truewire, specified

TLA+ specifications of the runtime cores of Truewire, what runs in a generated client
underneath every call, and of the command that puts a client on disk.  `tla/` holds the modules, the TLC configurations that
check them on small instances, and the proofs TLAPS checks for every instance.
`PROJECT.json` lists the runs, the source lines each definition stands for, the hazards
the properties answer to and the disagreements between code and documentation found on
the way.

    tlc -config PySocket.cfg MC_PySocket.tla      # one run per .cfg, see "Runs"
    tlapm PySocket_proofs.tla                      # one *_proofs module per component

## 1. The system

Truewire compiles declared endpoints of a remote API into clients in Python, TypeScript,
Go and Rust.  The compiler (`packages/truewire`) is sequential text processing, but it
keeps state on disk that outlives it, and the walks it generates page through collections that
change under them.  The four runtime cores own connections, timers and queues shared by
concurrent callers.  They are written to the same design, Python's first; the Python one is the
most elaborate and has the most modules here, the other three share one family.

| Part | State it keeps | Operations | What is hard about it | What makes it correct |
|---|---|---|---|---|
| Python connection, `ws/socket.py` | `_ctx_future` (the slot), `open_lock`, `_exits`, per connection the WebSocket, its listener and pinger tasks, `closed` | `open`/`ctx`, `force_open`, `close`, `force_close`, `__aexit__`, `wait` | callers join a dial in flight, replace a dead connection, are cancelled at any await; the owner leaves meanwhile | one dial at a time; the slot never holds a connection of an owner who has left; callers get the one in use, alive unless they have just dialed it, or an error that is theirs; what leaks is named; every call ends |
| Python subscriptions, `ws/streams.py` | `subscriptions` (a queue per channel), `message_keys`, per stream its connection and `unsubscribed` | `subscribe`, `on_msg`, reading, `unsubscribe`, `__aexit__` | the queue exists before the connection is known; a read is three tasks; a stream outlives its connection; a channel is subscribed anew | notifications complete, in order, of one connection; a stale stream harms no newer one; a failure releases everyone and frees the channel |
| Python requests, `ws/rpc.py` (and `streams_rpc.py`, which has both) | `replies`, `counter` | `rpc_request`, `on_msg` | late and duplicate replies, cancellation, the connection changing between send and wait | a request gets its own reply; the table does not leak; a failed connection ends its requests |
| Python uncorrelated replies, `ws/serial.py` | `lock`, `replies` queue | `request` | a cancelled request leaves its reply for the next | each reply to its request |
| HTTP: `http.py`, `http.ts`, `http.rs`, `http.go`; `util/rate_limit.py` | Python's `_client`; `_pace_lock` or `paceTail`, `_next_start`; a semaphore and expiry times | `request`, `_pace`, `__aexit__`; `acquire`, `release` | cancellation in a queue of waiters; which failures may be retried | starts at least 1/rate apart, no slot lost, at most three attempts, nothing sent twice that the server may have acted on |
| Paging and seek: `util/paging.py`, `seek.ts`, `seek.go`, `paging.rs` and the walks that `codegen/*` generates | the position, the rows carried over from the last page, in TypeScript a total | next page, iterate again | rows sharing a boundary key, pages cut by the venue, spans, a collection that changes during the walk | no row lost, given twice or out of range; an error only for cause; an end |
| TypeScript connection, `core-ts/src/ws/socket.ts` | `#opening`, `#current`, `#closing` | `open`, `close`, `closeContext` | one `#closing` for all; promises resolved one callback at a time | one connection in use, none forgotten but by a failed greeting, `close` leaves none behind but by a borrowed closing, every call ends |
| Go connection, `core-go/ws/socket.go` | `mu`, `current`, `opening` | `Open`, `Close` | real parallelism; `Close` during an opening | the same, but for what `Close` leaves behind |
| Rust connection, `truewire-core/src/ws/socket.rs` | the `state` mutex, a link and its two tasks | `open`, `close` | a future may be dropped at any await, with the lock held; one wait under it has no timeout | the same, and every call ends unless that wait does not |
| TypeScript, Go and Rust requests and streams, the rest of `ws` | maps of replies and queues | `rpcRequest`, `subscribe`, ... | as in Python | not modelled |
| Generation of a package, `cli/generate.py` | the files of a package, its manifest, the manifest of older releases | `generate`, `--check`, `--delete` | killed between any two steps; clones, merges and people's edits between commands | what was generated is up to date; nothing is deleted that no command wrote |
| Mock server, `mock.py` | recorded exchanges, sessions | serve | a test double | replays what was recorded |
| The rest of the compiler: `codegen`, `generation`, `spec`, `plan`, `cli`, ... | none | commands | nothing concurrent, nothing kept | out of scope here |

How they interact.  A generated client holds one core object per transport.  An endpoint
calls `rpc_request`, `subscribe` or `request`; these ask the `Socket` for its connection
(`self.ctx`, which dials on demand) and wait through `Socket.wait`, which races their
future against the two background tasks of that connection.  The listener task calls back
`on_msg`, which completes reply futures and fills subscription queues.  Whoever entered
`async with` owns the connection: its `__aexit__` counts an exit (`_exits`) and closes
what is in the slot; callers without an owner share the same object.  So the shared state
is the slot and the tables, and the hard behaviours are the interleavings of callers,
listener, pinger and owner between two awaits.  A walk sits above all that: one request after
another, each as good as the answer to the one before.  Generation runs long before, and
interacts with the rest only through the files it leaves.

## 2. Modules

    OwnedConnection            what a core promises of its connections (abstract)
      ^ refined by
    PySocket                   socket.py            MC_PySocket       PySocket_proofs
      ^ assumed by
    PyStreams                  streams.py           MC_PyStreams      PyStreams_proofs
    PyRpc                      rpc.py               MC_PyRpc          PyRpc_proofs

    CoreSocket                 what the three other clients have in common
      ^ extended by
    TsSocket, GoSocket,        socket.ts, socket.go, socket.rs
    RustSocket
      ^ composed in
    Cores (refines             the three, one chosen in Init
      OwnedConnection too)                          MC_Cores          Cores_proofs

    PyHttp                     http.py
      ^ extended by
    TsHttp, RustHttp           http.ts, http.rs
      ^ composed in
    Http                       the three, one chosen in Init
                                                    MC_PyHttp         Http_proofs

    PageSize  <- Seek, IndexWalk                    pure operators
      ^ used by
    Paging                     the walks            MC_Paging         Paging_proofs
                                                                      (on Seek_lemmas)

    Generate                   generate.py          MC_Generate       Generate_proofs

**OwnedConnection** is the promise in five lines: one slot; a dial only into an empty
slot; a dial becomes the live connection only for the owner that was there when it
started; leaving empties the slot; what has left the slot never comes back.

**PySocket** translates `socket.py` branch by branch.  Each member of `Calls` is one
`open()`.  A call dials at most once, so its dial, the future it puts into `_ctx_future`
and the connection it opens all bear the name of the call.  An asyncio task runs
uninterrupted from one real suspension to the next, so an action runs from one suspension
to the next: `Open` from the call to the first await that suspends, `WakeConnected` from
the joined future to the next, and so on.  `Enter` is `_open` up to there, and is reused
where the code recurses.  Awaiting a finished future, taking a free lock and closing what
is already closed do not suspend, and are part of the action around them.  `force_open` may be overridden by a
handshake of its own, which is part of the dial: a connection that is made while it goes on may fail before the dialer
wakes, and the dialer is given it unchecked (`Dialed`, socket.py:243); and one whose handshake then fails or is
cancelled stays open with nobody to close it (`Undial`).  `open_lock`
is not a variable: it is held exactly while some call is `dialing`.  asyncio runs ready
tasks first in, first out; the module runs them in any order, which includes that one.

| Variable | In the code |
|---|---|
| `cur`, `fut` | `_ctx_future`: whose attempt it is, and what has become of that future |
| `exits`, `seen`, `retried`, `replaced` | `_exits` and the arguments of `_open` |
| `ws`, `served`, `closed` | the WebSocket's state; neither background task done; `Context.closed` |
| `pc`, `on`, `outcome` | where each task is suspended, on what, and how the call ended |

**PyStreams** has one `subscribe()` and the stream it returns per member of `Subs`.  A
read of a stream is three tasks in the code: `queue_get` takes a notification, the task
inside `wait` sees that, and the reader wakes.  They are three actions (`Take`,
`InnerDone`, `WakeItem`), because the listener can fail between any two, and a fourth: the `gather` of the
`finally` (streams.py:118) suspends in Python 3.10 and 3.11 though what it gathers is done, so the reader is
`settling` until `Settled`, and may be cancelled there (`CancelSettle`), past the handler that would have freed its channel.  `due` and `got`
are history: what arrived for the stream and what its consumer was given.  A connection is
`alive`; `draining` (no longer OPEN, frames still to be read); `deaf` (the pinger failed, the
listener reads on) or `dead`.  The connection logic is that of PySocket, reduced to what
a subscriber can see: at once the one in use if alive, else a fresh one after closing the
dead one, else an error, and an error in any case if an owner left meanwhile.  Messages are numbered and
carry the connection they came over, no content; a channel is a name, and `message_key` is the
function from the wire's name to the local one.

**PyRpc** has one `rpc_request()` per member of `Calls`; those in `Bound` are made inside
`wait(..., ctx=ctx)`, which pins `self.ctx` for them through a context variable.  A peer has
the set `wire` of requests it was sent and may answer each of them never, once, twice or late.
`rpc_send` belongs to the subclass, so it is modelled by the one thing every one does (take the
connection, write) and may suspend on either side of that.

**PyHttp** has one `request()` per member of `Requests`: its attempts, the httpx client each of
them takes, the queue behind `_pace_lock` and the slots it hands out.  Time is in ticks, `Gap`
of which are `1/rate` (0 is no rate); the monotonic clock and `_next_start` appear as
`due`, the ticks between them.  Nothing suspends between the moment a request has its slot and its
sending, so they are one action.  httpx and the server are external: an httpx client is closed
from the moment its exit is entered and raises a `RuntimeError` from then on; a server has
not acted on a request it answered with 429 or 503 without a redirect, nor before any connection
opened.  How long a retry waits is left open, which covers `_backoff` and `_retry_after` except that
a `Retry-After` over the cap ends the call.  Opening an httpx client does not fail.

**Http** is a client of one of three cores, chosen in `Init`: PyHttp's, or one whose steps *TsHttp* or
*RustHttp* tell where they differ.  `fetch` and reqwest's client are in the place of an httpx
client that is open from the start and that nobody closes.  In TypeScript every paced request takes a
turn on `paceTail`, a chain of promises that is as good as the queue of a lock, prepares (signs) itself within the
turn and takes the slot as it calls `fetch`, so one that fails to prepare leaves the slot free;
without a rate its requests share nothing, so that case is Python's and Rust's (`Gap = 0`).  In Rust the slot is taken
first and the request prepared after, so a request that cannot be prepared uses one up.  Both tell an
ambiguous failure to connect by the method: the members of `Safe` ask for no action, so what follows
their redirects is not counted in `acted`.  Rust tells a redirect by the URL of the reply; one that leads
*back* to the URL of the request passes for none, and a 429 or 503 after it has the request sent
again whatever its method.  `LoopsBack` takes that branch, counts what the first hop did and remembers the
request in `looped`.
Go's client sends each request once, at once, and has neither retry nor pacing.

**Cores** is a client of one of the other three cores, chosen in `Init`, over the variables
of `CoreSocket`; the table there says which field of which language each variable is.  A call
of `open()` dials at most once in each of them, so a connection bears the name of the call that
dialed it, as in PySocket.  *TsSocket*: callbacks run to completion, so an action runs to the next await
of a pending promise; awaiting a settled one is a step (`again`, `joining`), since other callbacks
run first.  Its `forceOpen` may be overridden by one that greets (socket.ts:140): `Greets`, `Greeted`, `GreetFails`.  *GoSocket*: goroutines interleave everywhere, what runs under `mu` or in a `sync.Once`
is one action.  *RustSocket*: a future may be dropped at every await (`DropOpen`, `DropClose`); the
tokio mutex is held exactly while a call is `opening`.  The clients differ in what they ask of a
connection before they hand it out again (`Usable`): Go and Rust whether its waits have failed,
TypeScript only its `readyState`.  So a TypeScript connection whose ping failed, which aborts it
and leaves it open (socket.ts:183), is returned by `open()` again and again: the code does so, and
the properties ask no more than the code does.  Go's `Close` looks only at `current`, so what is being
dialed survives it (socket.go:268).

**Paging** is one walk over a collection.  A walk is a record of what its declaration and
its caller's arguments fix (strategy, direction, sizes, bounds, terminator); `Init` chooses it.
The venue is the environment: `Appear`, `Withdraw` and `Amend` change what it holds
between two requests.  Asking for a page and folding over it is one action, since the fold is
pure; it is `SeekStep` of *Seek* or `IndexDone` and `NextIndex` of *IndexWalk*, with the sizes of *PageSize*.  The
four languages share the definitions, translated from the generated text in `codegen/*` and the
cores' `seek` and `paging`; where TypeScript differs, in totals, a walk says `strict`.  `held` is
history: every collection the venue held during this walk.  Filters of rows are written as
`Select(rows, I)`, the rows at the indexes of `I`, and the loop that drops carried rows one by one as
`Unmatched`, which counts: a row is left when more rows equal to it have come than were carried.  `MC_Paging`
holds the loop as the code has it (`DropEach`), and TLC evaluates that the two agree
(`FreshByContentIsTheLoop`).

**Generate** has the files of one package (`tree`), the manifest that says which of them the
generator owns, the manifest at the path of releases up to 0.10 (`legacy`), and one command at a time,
`todo` being the files it has yet to delete, write or format.  `Stop` ends it at any step, with the
file under its pen torn or not.  Between commands people edit, remove and replace files, change
the specification (`plan`), clone without an uncommitted manifest, or leave a merge conflict in
one.  Contents are what `--check` can tell apart: a person's, torn, rendered before or
after formatting (`python` is the language that has the latter).  `written` and `strays` are history: the paths a command has written, and what the
generator wrote that no manifest tells of any more.

`StreamsRpc` (`streams_rpc.py`) is the two put together by repetition: its `subscribe` is
PyStreams, its `rpc_request` PyRpc.  Its `__aexit__` clears `replies` as well, and no
module has that.

## 3. Runs

| Run | Instance | Shows |
|---|---|---|
| `pysocket` | 3 calls, an owner that leaves up to 2 times, fair | the safety of the slot, that PySocket implements OwnedConnection, that every `open()` ends and connections out of use go away |
| `pystreams` | 2 streams, a plain and a keyed channel, 2 connections, 2 notifications, 1 exit, fair | what a consumer gets, who frees a channel, and that a failed connection releases whoever waits on it |
| `pyrpc` | 2 requests, one bound, 2 connections, fair | replies, the table, and bound requests to their end |
| `pyhttp` | each of 3 cores, 3 requests (of a safe method; redirecting; with a body to be sent once), 2 ticks a slot, 1 exit in Python, fair | what is sent again, how starts are spaced, which client is closed, and that requests end |
| `cores` | each of 3 cores, 3 calls, 1 close, fair | one connection in use, none lost, what `close` leaves behind, OwnedConnection, every call ends |
| `paging` | every kind of walk over at most 5 rows, 1 change, 1 restart, fair | complete, without duplicates, in range, raising only for cause, ending |
| `generate` | 3 paths of 2 renderings, 3 changes by people, 2 commands cut short | what a `generate` that ends well leaves, and what may be deleted |

Five more runs end in a violation: see "Where code and documentation part".

Why these bounds.  In PySocket three calls let one join a doomed dial of another, try again, join
a connection that dies, close it and dial for itself; two exits make "an exit it did not see" differ
from "an exit".  The safety properties are proved for any number of both.  In PyStreams two notifications are needed for an order, two streams for
a channel subscribed anew, and two connections for a stream that outlives its own.  Liveness
excludes symmetry, so names are taken in one order (`MCNamedInOrder`); and the state
constraint `MCFewTogether` keeps apart what needs no other: a second notification goes without an exit, and either of
them with at most one `unsubscribe()`.  Safety there is proved without it.  In PyRpc two
requests are needed to confuse two ids, and two connections to confuse where a reply comes.
In PyHttp a slot of
two ticks can be half over, of three requests one can queue behind one that queues, and the exit
can meet each of them anywhere; `RETRY_ATTEMPTS` is the code's own 3.
In Cores three calls let a connection be closed while a second is dialed and a third still waits for
the first; calls of `close()` meet only through what they leave, so a second adds no case.  In Paging
four keys make three pages of two overlapping rows and two spans; a key of a non-unique cursor holds
up to two rows, equal or not; five rows make a third page for an index; sizes are left out, one, the maximum and over it.  In Generate a path
can be owned, planned, both or neither, with a third to stand for the files before and after
the step that stops; two commands cut short leave one stray under another.
The bounds are `Calls`, `MaxExits`, `Subs`, `Conns`, `MaxNotes`, `Kinds`, `Requests`, `Gap`,
`Closers`, `MaxCloses`, `Walks`, `Collections`, `Arrivals`, `MaxChanges`, `MaxRestarts`, `Paths`, `Versions`
and `MaxStops`; nothing else is capped.  Deadlock is not checked: when the calls are over and nothing fails, these systems
rest.

### What the properties say

*PySocket.*  `NoConnectionOutlivesOwner`: what is in the slot was dialed for the owner
present now.  `OneDialInFlight`: exactly the attempt in the slot is being dialed.
`ClosedByOwnerIsDeserved`: that error reaches only a call during which an owner left.
`DetachedIsBeingClosed`, `ClosedByOneTask`: a connection out of the slot has one task closing it.
Two connections have none (`Abandoned`): one whose discarding call was cancelled, and one whose dial
failed or was cancelled in an override's own handshake.
`OpenReturnsTheConnectionInUse` (of each step): what `open()` returns is in the slot, and alive
then unless the call dialed it itself: the code returns that one unchecked.  `KeepsPromise`: the refinement.  `EveryCallEnds`, `DetachedIsEventuallyGone`: liveness.

*PyStreams.*  `NothingLostOrReordered`: given + taken + queued is exactly what was due, while
the queue is registered; what a consumer has is always a prefix of what was due.
`OwnConnectionOnly`: no stream ever holds what came over another connection.
`OverFreesTheChannel`: nothing that has ended keeps its channel, but for a stream whose reader was cancelled
while `settling` (`unsettled`), which keeps it until `unsubscribe()`.  `ForgetsOnlyItself` (of each
step): a queue goes only with its own stream or its owner.  `DropReleasesEveryone`: liveness.
The first two say nothing of a channel an owner has swept from under a live subscription
(`Swept`): it may be subscribed a second time, and the two streams then share what the peer sends.

*PyRpc.*  `RepliesMatch`, `TableIsWhatIsInFlight`, `BoundWaitsWhereItSent`, and the liveness of
bound requests, `BoundRequestsEnd`.

*PyHttp, and Http for all three cores.*  `NothingActedOnIsSentAgain`: no failure, redirect or status makes the client repeat what
the server may have acted on.  One client does: a Rust request that was redirected back to its own URL and then
answered with 429 or 503 is sent again, POST or not (http.rs:536), although http.rs:359 says redirected replies
are not retried.  The property excepts those requests by name (`looped`) and no others.  `StartsAreSpaced` (of each step): starts are `1/rate` apart over
all callers, retries and cancelled waiters included.  `PlacesAreGivenBack`: who was cancelled
in the queue keeps neither place nor slot.  `OpenClientIsReachable`: no httpx client is left open where
no exit will find it.  `StaleOnlyByLaterExit`: an attempt holds a closed client only through
an exit that came after it took it, or one that was cut short.  `RequestsEnd`: liveness.

*Cores.*  `NoLiveConnectionIsLost`: a connection whose waits have not failed is in the slot, or
in the hands of a Go `Close`; but a TypeScript `forceOpen` that greets and fails leaves its connection
open, as open() forgets a failed opening without ever having seen the connection (socket.ts:131).  The property excepts those
by name (`LeftByItsGreeting`).  `OpenReturnsTheConnectionInUse` (of each step): what `open()` returns
is what later calls will get too, and usable unless the call dialed it itself.  `CloseLeavesNothingBehind`
(of each step): a TypeScript or Rust `close` that waited for a dial or a closing leaves nothing in the slot that was
there or being dialed when it was called.  The exception is `Borrowed`: a TypeScript `close` that finds the closing of
*another* connection in progress is given that one (socket.ts:215) and returns with its own still in use, although
socket.ts:202 says "Close the connection if one was opened" and a test (test/socket.test.ts:85) that it closes exactly
what was opened.  It leaves its own and no other.  `KeepsPromise`.  `EveryTaskEnds`: liveness, but for tasks that are
`Stalled` for good behind a Rust hang-up (see *Fairness*).

*Paging.*  `NothingSkipped`: a walk that is done gave every row that was in range all along.
`NothingTwice`: no row more often than the venue ever held it.  `NothingOutside`: none beyond the
caller's bounds.  `ErrorIsDeserved`: a walk by key refuses only for one of the causes ADR 0013 gives, and a walk by index or token
for none.  What it excepts by name is the total that TypeScript goes on demanding: one on every page, the same throughout
(`TotalDemanded`; docs/typescript.md:344 says so, ADR 0013:190-194 that the check was dropped in every renderer), and, in a `page` walk, the same
as in an *earlier iteration* of the response, which `totalSeen` keeps (`TotalLeftOver`; endpoint.py:776 and 1155),
although docs/typescript.md:338 calls `next(state)` pure in `state`.  Neither refusal is deserved.  `EveryWalkEnds`.
Index walks count rows, so for them the first two ask that the collection only grew at its end (`Anchored`).
`Advances` (of each step, in `Paging_proofs`): a request from which the walk goes on has moved it forwards.

*Generate.*  `GeneratedIsUpToDate`: a `generate` that ends well leaves what `--check` asks for,
and nothing else of the generator's but strays.  `DeletesOnlyWhatItWrote` (of each step): a command
deletes only where a command once wrote.

### Fairness, and what justifies it

The event loop runs every task that is ready: weak fairness for each wake-up, task by task.
`open_timeout` ends every dial one way or the other, and `close_timeout` of the websockets
library ends every closing handshake *that some task awaits*; hence `DialEnds` and
`HandshakeEnds`, the latter only while a task is closing the connection.  No fairness
for what others choose: users calling, cancelling or leaving, peers answering or sending,
connections and background tasks failing.  In PyHttp time passes, and httpx's timeouts end
every send whatever the server does; in TypeScript and Rust the timeout is the caller's to give, and is assumed, as is
that a signer returns.  So no property relies on a server that answers.

In Cores each runtime runs every task it can (`Progress`, task by task): dials and the closings of `close()` are bounded by
the code's timeouts, and `OnOpen`, `on_open` and a greeting of `forceOpen` are assumed to return.  The hang-up after a
Rust `on_open` that failed has no fairness: `close_sink()` is awaited without a timeout there, with the lock
held (socket.rs:564-567; only line 611 has one), so a peer that does not read keeps every `open()` and `close()`
waiting, and `EveryTaskEnds` excepts those (`Stalled`).  Go's hang-up is bounded by its WebSocket library.  Rust grants its lock in any
order, so weak fairness of each waiter asks less than tokio's FIFO gives.  In Paging the caller goes on asking for
pages; the formula is weak fairness of the four `...Next` actions with its ENABLED written out, as
TLC evaluates that much faster.  Generate has no fairness: a command may always be killed.

### Where code and documentation part

Five runs end in a violation, each of one sentence of the repository.

* `pysocket_abandoned`: a call that is cancelled while discarding the connection it opened
  for an owner who left (`force_close`, socket.py:251) leaves it half closed with nobody to close it;
  `close` aborts it in the same situation.  That is why `DetachedIsBeingClosed` and
  `DetachedIsEventuallyGone` except a cancelled call.
* `pystreams_drop`: a notification that arrives together with the failure of the
  connection is lost to a reader that is already waiting.  `wait` asks whether *its own
  task* is done, which takes one more turn of the event loop than `queue_get` does; the reader raises and throws away what `queue_get` holds.  The comment in
  `stream()` and the changelog say it is delivered first.  The same turn separates a reply
  from `rpc_request`: a reply may have come and the request still fail with its connection.
* `pystreams_swept`: `__aexit__` awaits the handshake, then clears the table, and with
  it the queue of a subscription made meanwhile on a new connection: connected, and silent
  for ever.
* `pyrpc_moved`: a plain request resolves the connection to send on, and again to
  wait on.  If the first failed while the send was suspended, it waits on a second
  one that never saw the request.  Requests inside a `wait` are pinned and do not
  (`BoundRequestsEnd`, `BoundWaitsWhereItSent`).

* `pyhttp_exit`: a request takes the httpx client, then waits for its slot (http.py:204); an owner who
  leaves meanwhile closes that client, and the request ends in httpx's `RuntimeError`,
  which is none of the package's errors.

Elsewhere a property that holds excepts by name what the code does against its documentation, or leaves undone; each
exception is needed, as the run fails without it:

| Exception | Property | What the code does |
|---|---|---|
| `Abandoned` (PySocket) | `DetachedIsBeingClosed`, `DetachedIsEventuallyGone` | a failed or cancelled handshake of an override leaves its connection open |
| `unsettled` (PyStreams) | `OverFreesTheChannel` | a reader cancelled at streams.py:118 keeps its channel |
| `looped` (PyHttp) | `NothingActedOnIsSentAgain` | Rust retries after a redirect to the own URL, against http.rs:359 |
| `LeftByItsGreeting` (Cores) | `NoLiveConnectionIsLost` | a failed TypeScript greeting leaves its connection open |
| `Borrowed` (Cores) | `CloseLeavesNothingBehind` | a TypeScript `close` waits for another's closing and leaves its own connection, against socket.ts:202 |
| `Stalled` (Cores) | `EveryTaskEnds` | a Rust hang-up without a timeout holds the lock |
| `TotalDemanded`, `TotalLeftOver` (Paging) | `ErrorIsDeserved` | TypeScript refuses a missing, moved or left-over total, against ADR 0013:190 and docs/typescript.md:338 |
| `Unmeasured` (Paging) | `NothingSkipped`, `EveryWalkEnds` | a TypeScript walk divides by a size nobody stated |

`pystreams_drop`, `pystreams_swept` and `pyrpc_moved` were also reproduced by running the Python code against a stubbed connection.

## 4. Proofs

TLAPS checks the seven modules `*_proofs` and `Seek_lemmas`: for any set of calls, streams,
requests, connections, paths, rows and walks, any `Gap` and any bound, from the named assumptions in the modules only
(`OwnerIsNoCall`, `NoneIsNoCall`, `MaxExitsIsNat`; `NoneIsNothing`, `BoundsAreNat`, `KindsAreKinds`,
`KindsAreApart`; `BoundAreCalls`, `CallsAreFinite`; `GapIsNat`,
`MaxClosesIsNat`, `RetryIsBoolean`, `OwnerIsNoRequest`; `ClosersAreNoCalls`, `NoneIsNoConnection`;
`PathsAreOrdered`, `NoneIsNoVersion`; `RowsAssumption`, `WalksAssumption`).  The runs evaluate each of them.

*PySocket.*  Proved: `TypeOK`, `NoConnectionOutlivesOwner`, `OneDialInFlight`,
`ClosedByOwnerIsDeserved`, `DetachedIsBeingClosed`, `ClosedByOneTask`.  None is inductive.  The invariant `IInv` adds

* `AttemptsOfCalls`: what a future and a connection may be, given where the call that made them is;
* `SlotHoldsLiveWork`: the slot holds a pending dial or an opened, unclosed connection of the
  present owner, so `close` always clears the slot for what it closes;
* `OnIsMeant`: a task that joins, closes or returned a connection is on one of the right kind;
* `Dooms`: no call has seen more exits than there were; an attempt that ended in
  `closedByOwner` was made before an exit; and a dial that may yet doom a call, because that call has
  retried or its joined connect is over, started no earlier than the call did.

The argument then goes action by action, one lemma each, and one conjunct at a time beneath it.

`PySocket_proofs` also proves `KeepsPromise` and `OpenReturnsTheConnectionInUse` from `IInv`.  The mapping
`Life` reads what the abstract specification calls dialing, live, retired or gone off a future, the slot and the
TCP connection.  Every way into `close` retires what is in the slot (`Retires`), since what is not closed has
not left it; the end of a TCP connection is seen only of one that has (`Ends`); an exit is one abstract
`Leave`, whether it closes anything or leaves a dial to be discarded; all else stutters (`Unseen`).

*PyRpc.*  Proved: `TypeOK`, `RepliesMatch`, `TableIsWhatIsInFlight`, `BoundWaitsWhereItSent`.  The reply
to another request cannot reach one because the entry under an id belongs to a request in flight with that id
(`TableIsWhatIsInFlight`), what a peer answers bears the id of the request it was sent
(`WireIsTrue`), and started requests have different ids (`OwnIds`: they lie below the counter).
The counter equals the number of requests started, which is what keeps it inside `Ids`.

*Http.*  Proved, for the three cores at once: `TypeOK`, `NothingActedOnIsSentAgain`, `OpenClientIsReachable`,
`StaleOnlyByLaterExit`, `PlacesAreGivenBack`, `StartsAreSpaced`.  `IInv` adds that the queue is
exactly the requests that pace, each once (`Lists`), who may hold `lock` (`Locked`), that `client` is the last one opened unless closed (`Counted`), that what an attempt holds
was opened (`HeldWasOpened`), what has been acted on by when (`Unsent`), and that
`due + since` is always `Gap` (`Slots`), from which the spacing follows: a request starts at `due = 0`.
Lemmas about `Append`, `Tail` and `RemoveAt` on a list without repetition carry the queue.
`HttpIInv` adds that a client open from the start stays so (`Ready`).  Every step of the three is one of a few
(`PySteps`, `TsSteps`, `RustSteps`): what they have in common (`Common`), to queue (`Queues`), to pace (`Paces`), or to
end before the sending (`Unsendable`); each has one lemma, whoever's step it is.

*PyStreams.*  Proved: `TypeOK`, `NothingLostOrReordered`, `OwnConnectionOnly`,
`OverFreesTheChannel`, `ForgetsOnlyItself`.  `IInv` adds what a stream holds at each `pc` (`Shapes`), that a queue is registered under its own channel
and a key is one that was asked for (`TablesFit`), that only the connection in use is listened to
(`OneListens`), that a live stream is registered and what a peer serves is routed to a stream of that
connection (`Served`), and what a read in its three tasks may hold (`Reads`).  That notifications stay in
order follows from sequences alone: given, taken and queued, end to end, are what was due.

*Cores.*  Proved for the three at once: `TypeOK`, `NoLiveConnectionIsLost`,
`CloseLeavesNothingBehind`, `KeepsPromise` and `OpenReturnsTheConnectionInUse`.  `IInv` says whose dial a call waits for (`DialsOfCalls`), what the slot may hold
(`SlotsFit`, and `TsSlotsFit`, where a connection stays in `opening` while it is in use), what a task holds on to (`OnIsMeant`), and that a
`close` past its wait has none of what it was asked to close in the slot, or, borrowing, at most its own (`AskedIsClosed`).  `SlotMoves`
lists what one step can do to the slot; the refinement has one abstract action for each.

*Generate.*  Proved: `TypeOK`, `GeneratedIsUpToDate`, `DeletesOnlyWhatItWrote`.  `IInv` says that
a manifest names only paths a command has written (`ClaimsAreEarned`), that a command past its first
steps has the new manifest or none (`ManifestIsLoaded`), that what the generator wrote is in a manifest, planned by the command
at work, or a stray (`NothingUntold`), and what is done when the command has come as far as it has (`Progress`).

*Paging.*  Proved: `TypeOK`, `NothingSkipped`, `NothingTwice`, `NothingOutside`, `ErrorIsDeserved` and
`Advances`, for walks of any kind that `WalksAssumption` allows over rows of any keys and contents, in collections of any
length, with pages of any size, and any number of changes and restarts.  `RowsAssumption` has keys be
integers, which order as times and numbers do; a string key is one that is only compared for equality.  A row is looked at with its
kin (`Kin`): the rows in the caller's range with the same key, or, where the key is not unique, the same content.
`Tally` counts them in a sequence, and a row is `Settled` when some collection of this walk held it no more often than it
was handed over.  `IInv` says of a walk under way

* by key (`SeekInv`): rows behind the position are settled; what was handed over lies at the position or behind it; at the
  position, it is exactly what is carried, and that was all held by one collection.  A page may be cut in the middle of a key,
  so "at the position" and "behind it" cannot be one: whether the position itself is behind
  depends on the bound being included (`Behind`);
* by token (`TokenInv`): rows up to the cursor are settled, and nothing past it was handed over;
* by index (`IndexInv`): if the collection only grew, what was handed over are the rows of the longest collection at
  indexes already passed, each once, and all of the shortest collection's (`Filled`); a total seen earlier is that
  of a collection of this iteration, or of an earlier one (`TotalInv`).

A page of a walk is a pure function, so it is reasoned about apart from the variables: what the venue serves is
described by which rows it takes and which it leaves (`Answers`, `Follows`, `IndexAnswers`), the page is
split by the outcomes of the fold (`SeekCases`), and each keeps the invariant or ends the walk with all settled
(`SeekPageKeeps`, `TokenPageKeeps`, `IndexPageKeeps`).  The heart of the first is that a page overlaps the one before: carried
rows that come again are dropped once each (`FreshOfUnique`, `FreshOfContent`), a row that is left out comes
after everything a full page holds (`LeavesSettled`), and an edge short of the far bound leaves no row between two requests
(`SeekMovesToEdge`).  Every terminator but the one `Unmeasured` excepts is sound, as it holds only when the page ends
at the end of the collection or past it (`IndexEnds`), and complete, as a page past the end meets it (`IndexStops`).
`Seek_lemmas` has what this needs of sequences: `Select` takes the rows at its indexes in order, `Tally` adds up over `\o`, and
`Unmatched` leaves of each row the copies in excess.  `IInv` and `Advances` were first checked by TLC over the states of `paging`.

`Advances` is the half of `EveryWalkEnds` that is a safety property.  What it takes from there to the end is a
measure that descends (the keys and span edges ahead are finitely many) and the caller's fairness: that is left to TLC.

*Checked by TLC only:* liveness under fairness, which this prover does not do (nor ENABLED, nor induction over a
recursive definition): `EveryCallEnds`, `DetachedIsEventuallyGone`, `DropReleasesEveryone`, `BoundRequestsEnd`,
`RequestsEnd`, `EveryTaskEnds`, `EveryWalkEnds`; and that `Unmatched` is the loop, which is an induction over the page.

## 5. Not modelled, and why

The contents of frames and the parsers subclasses supply; logging, recordings, proxies and URLs; `ping`'s
interval (the pinger fails whenever it likes).  A subclass's own handshake in `force_open` appears in
PyRpc as a bound request and in PySocket as part of the dial; what it says is left out.  Two `unsubscribe()` calls at once on a stream, and two
readers of one.  Memory and the sizes of queues, which are unbounded in the code.  `serial.py`,
`rate_limit.py`, the TypeScript, Go and Rust requests and streams, the mock server, the gRPC
wrapper and the compiler's passes, for the reasons `PROJECT.json` gives at each; the hazards listed
there without a property are theirs, but for three: a key of `message_keys` that outlives its subscription
(streams.py:76), TypeScript's failed ping (told of under *Modules*), and the
file edited in place of the last paragraph here.

*Paging* takes a venue at its declaration's word.  `WalksAssumption` says what that is, and these are left out because
the code cannot do well by them: a span with both ends excluded (a row on an inner edge is in neither
request); a cursor that is not unique beside an excluded near bound that cuts a page in two; a venue whose real
maximum is below the declared one (its full pages pass for short ones); string keys listed against the walk; pages of one
row behind a cap nobody states.  `Unmeasured` excepts one walk the properties fail for: in
TypeScript, an offset walk up to a total of *pages* whose size is not known divides by 1 or by undefined
(codegen/typescript/endpoint.py:846) and ends after as many rows as there are pages; ADR 0013 has it counted by
the page size.  A TypeScript `page` walk keeps `totalSeen` from one iteration to the next
(endpoint.py:776) and refuses the second if the total moved in between (endpoint.py:1155): `TotalLeftOver`.
A Python offset walk asked for pages of 0 rows divides by zero where Rust's guards against it.

*Generate* leaves out how a plan is built, symbolic links, and directories left empty by a
deletion.  What it does not promise, because the manifest knows paths and not contents: an endpoint that becomes
`handwritten`, its generated file then edited in place, is deleted by the next `generate`
(generate.py:980); a person's file at a path that comes to be planned is overwritten; and what a
command cut short before its manifest wrote stays, owned by no one, if the plan then changes
(`strays`).

## 6. Plan

Done: the Python connection, subscriptions and requests; HTTP in Python, TypeScript and Rust; the
TypeScript, Go and Rust connections; paging in all four; generation; and proofs of every safety property of it.  Next, most important first:

1. **Requests and streams of the other cores** (streams.ts, rpc.ts, correlate.go, the link's tables in socket.rs),
   composed as Cores composes the connections: the hazards at streams.ts:169 and socket.rs:358.
2. **Serial and RateLimit**: requests matched by order, and permits; both lose count by one cancellation.
3. **StreamsRpc** as a composition of PyStreams and PyRpc over one connection, with the `replies`
   its exit clears.

These can share the runs there are: a client of one core chosen in `Init` takes no run of its own.
