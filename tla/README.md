# SpexCode, checked

TLA+ models of the parts of SpexCode in which several processes share one state: the SQLite session
protocol, the application composed on it, the delivery of queued messages to agents, the notices a
watcher gets of another session's state, the board cache, the launch queue, the cutover from the legacy
files to the database, and the supervisor that keeps a backend behind the port. TLC checks every model on
small instances. TLAPS proves the most important invariants of eight of them for every value of the
constants.

## 1. The system

SpexCode runs coding agents as *sessions* of one project. All durable facts are in one SQLite database
per project and in small files beside it. Several processes have them open at once: the backend
(`spex serve`, a supervisor with a child it replaces on every code change), commands (`spex session ...`),
hooks of the agents, and inbox listeners. None of them is privileged: each opens the database itself.

| Component | State it keeps | Operations | Hard because |
|---|---|---|---|
| session-protocol (`packages/session-protocol`) | addresses, immutable message rows with an enqueue sequence and a consumption mark | initialize, enqueue, dequeue, retire, withTransaction | handles of several processes, crashes inside a transaction, retries under an idempotency key |
| session-topology | typed directed edges between sessions | attach, detach, reparent, subscribe, unsubscribe, recipients | no operation order may close a cycle |
| session-events | an append-only log per subject | append, hasMessageEvent, replay | the log and the state row are two records of one fact |
| session-runtime | one binding per namespace and session, with a generation | bind, unbind, resolve | a binding goes stale while an adapter call is awaited |
| session-application (`production.ts`) | state rows and follow cursors, over the four above | createSession, transitionSession, attachWatcher, enqueue(Conversation)Message, broadcast, dequeueForRuntime, advanceFollowCursor, ... | one transaction must move row, edge, event and cursor together |
| delivery lock, record lock | one file per session, holding a pid | claim, reclaim from a dead owner, release | every system call is a step another process can come between |
| queue delivery (`sessions.ts`) | the debt set and the running loops of a process | sendText, wakes, push, the sweep, drainSession, deliverQueueHead, inbox verbs | the queue is drained by whoever comes, backends die and overlap, adapters refuse |
| watch notices (`sessions.ts`) | nothing of its own: events, relations, cursors and queues | post-commit wake, reconcile, subscribe, cancel, reparent | series of transactions of several processes interleave and break off |
| supervisor (`supervise.ts`) | the selected child, the reload loop, two timers | reload, the poll, retry, exit handler | a code change, a death and a failed boot may meet |
| launch queue and lifecycle (`sessions.ts`) | rows, held slots, readiness observers, one drain flight | drainQueue, startQueued, the readiness observer, stop, close, resume, archive | a census that is older than the rows and the slots it is compared with |
| store cutover and JSON migration (`session-application.ts`, `migration.ts`) | which files exist: database, marker, fence, tree, backup | the canonical access, the first import, the residue import, the lease of a fresh store | crashes and failures between two steps of the importer |
| graph cache and stream (`graphCache.ts`) | the cached board and its revision, what is owed, two flights | invalidate, read, patrol, build, splice | two producers publish into one board, signals are missed |
| Codex generations, host resources | ownership records of native processes | acquire, reclaim | probes of the operating system |
| spec-core, lint, issues, materialize, dashboard, desktop, gateway, packaging | text, pages, files | | sequential, or pure input and output |

The components call each other downwards: `sessions.ts` calls the application, which calls topology,
events, runtime and protocol inside one protocol transaction. Upwards there is one callback, the
post-commit wake (`wakeCommittedRecipients`), which reconciles watch notices and starts a drain. Sideways,
processes meet in the database, in the lock files, and through `POST /api/sessions/:id/push`.

What makes each correct is in section 3; what could go wrong and would hardly be tested is listed, line by
line, under `hazards` in `PROJECT.json`.

## 2. Modules

```
Mailbox  <= implemented by =  SessionProtocol --- SessionProtocol_proofs
   |                               |  (each operation is one transaction)
   | used by                  SessionApplication --- SessionApplication_proofs
   |                               |  implements
QueueDelivery                 FollowLedger
   | EXTENDS  \                    |  used by
DeliveryLock   QueueDelivery_proofs   WatchNotices --- WatchNotices_proofs

StoreCutover --- StoreCutover_proofs      (before the database is there)
LaunchQueue  --- LaunchQueue_proofs       (one backend starts the sessions)
GraphCache   --- GraphCache_proofs        (one backend answers for the board)
Supervisor   --- Supervisor_proofs        (one process keeps a backend)
```

`MC*.tla` and `MC*.cfg` instantiate the modules for TLC. `PROJECT.json` maps every definition to the lines
it models.

**Mailbox** is what the protocol promises: a FIFO inbox per exact address, a key accepted once for ever,
an address closed only when empty. An inbox is a set of letters whose ids are their places in the order of
acceptance. No rows, no transactions. The mapping takes the pending rows of an address as its letters and the
keys of all its rows as spent. QueueDelivery is a user of one such inbox: what its senders, drains and inbox
commands do to the recipient's queue is a step of Mailbox. Engine and deliveries meet at this one promise: the
model of the deliveries asks nothing of the queue that the engine does not allow.

**FollowLedger** is what the application promises the watchers of one subject: a history that only grows,
relations by name of which at most one is the tree parent's, and a place in the history per watcher that
never moves back. SessionApplication implements it for every subject, with its log, edges and cursors as
history, relations and places; the series of WatchNotices, which keep a copy of these of their own, move them
only as the ledger allows. The copy can drift from the application's tables only within this promise.

**SessionProtocol** models `engine.ts`. `db` is the committed store, `working` what the connection with the
write lock sees, `writer` who that is, `reply` what each handle was last told. A public write is one action
(`BEGIN IMMEDIATE .. COMMIT`); `withTransaction` is `Begin`, any number of nested enqueues, and `Commit`,
`Rollback` or `Crash`. Rejections have actions of their own (`EnqueueRefused`, `BusyRejected`,
`ReentryRejected`, ...). A row is never deleted, so position in `log` is the enqueue sequence and
consumption is a mark, as in the schema. Contents stand for the hashed bytes.

**SessionApplication** models `production.ts` with topology and events. Because SessionProtocol's
transactions are atomic (`TransactionAtomic`), every operation here is one action over committed tables.
A status stands for status, proposal and note together. Removed edges are dropped, as no query reads them.

**DeliveryLock** models `claimDeliveryLock` system call by system call: create exclusively, write the pid,
or find the file, read it, probe the owner, unlink it when dead, start again. `alive` is per process, a
process may hold several tasks (the record lock uses the same steps), and `End` kills a process in any of
them, leaving its file. `LockNext` lets any claim start at any time.

**QueueDelivery** EXTENDS DeliveryLock with the loop of `drainSession`: the claim, the head and binding
read under it, the adapter's answer, the comparison and the removal as two transactions (the code's
`listPending` and `dequeue`), the release, and the second look after an empty pass. Around it are the
triggers: `Send`, `Wake` (notes the debt, drains), `Call` (the push route and the end of a resume, which
drain without noting it), `Sweep`, `BindRuntime`, `Resume`; `RevokeSender`; inbox commands; backends that
end and start. The adapter accepts or refuses freely. A message is its number in the order of acceptance,
so order is a comparison of numbers. A *fault* is a read or a transaction that throws, as a busy database does
(`BusyRejected` in SessionProtocol): in a drain before its loop starts (`DrainThrows`), in a pass of the loop, the
removal after the adapter's acceptance included (`Throws`), and in a recovery pass, whose flag is cleared before it
(`RecoveryPass`, at a backend's start and on `RequestDeliveryRecovery`). Three history variables say what a fault
left behind: `lapsed` the messages whose removal threw, `unaware` the backends whose recovery pass did, `stuck` that
the head was left where it is. The pass that a raised flag asks for happens at once instead of at the next tick.

**WatchNotices** models how the events of one subject become prompts of its watchers. Each series
(`reconcileWatchDeliveries`, `subscribeSessionWatch`, `reparentSessionRecords`) is a `job` of a process, one
action per transaction. `Reconcile` takes the items of one query as the code does, oldest event first, and
`Skip`, `Queue` and `Advance` go through them one by one while other processes change relations and cursors.
`feed[w]` is everything `w`'s queue ever accepted, `since[w]` where `w`'s present feed began.
`FollowFromHead` joins the read of the history with the advance of the cursor. A pass may go on without watchers
whose record it cannot read (`Reconcile`), and any series may break off in a throw (`Throws`); `lapsed` remembers whom
such a pass left out, until they are woken again (`Wake`, `RequestDeliveryRecovery`). Left out: listing relations,
the removal of a former parent's prompts on a reparent, `readinessWakeSuppressed`.

**StoreCutover** models the answer of `sessionApplicationCutoverState` from which files exist, and every
operation that changes them: `Migrate`, `Check`, `TakeFence`, `Stage`, `Install`, `Mark`, `Retire`, `Seal`
(the first import), `Quarantine`, `Absorb`, `Recheck` (the residue import, file by file and transaction by
transaction), `Acquire`, `PlainCreate`, `WriteRow`, `Release`, `Wipe*` (a create and its lease). `Fail` is a
step that throws, with what the `catch` of the importer takes down again; `Crash` ends a process between
any two steps. A legacy directory is the set of its pieces. The event ids of an import are a hash of the
input files, modelled by its preimage (`Seeds`), because whether a timeline is replayed twice depends on it.
`CutoverState` reads the files at one point; the inputs are read before the fence is written, as in the code.
A retired envelope without a row is refused for ever and is not among the initial trees. An access of a marked store
opens it before the residue is imported, which makes the file when it is gone (`Opened`). `Refused` collects every
reason for which an access throws whatever it tries. The last release counts the rows and unlinks the database in one
step, and on a fresh project one process is up: a row that another process writes between the two is not modelled.

**LaunchQueue** models one backend's `drainQueue`: `Census`, `Read`, `Look`, `Admit`, `Start`, `Launch` and
`Publish` are the stretches between its awaits. Between them come the readiness observers, which see the agent
ready (`SeeReady`) and publish that (`Ready`) or fail to (`Unready`), run out of time (`TimeOut`), or cannot
record what came of the boot (`Unrecorded`: the slot is given back, the stamp stays); the agents; a declaration
(`Declare`) and its opposite, a prompt that makes a resting or failed session active again (`Reenter`); `Stop`,
`Close`, and a `Crash` after which memory is empty and the windows and rows remain. The pass reads the rows of a
candidate set kept in memory, which is seeded when a backend starts and refreshed by events; every session here
is older than the backend, so the set is all that are not closed (`Read`). Guards on `pass.next` stand for the
record lock, which the drainer holds from `Start` to `Publish`. The adapter is one without a launch receipt, the
host one that refuses a second window of a name (tmux), and its `launch` happens or throws as a whole.

**GraphCache** models `graphCache.ts`. The inputs of a board are versions that only grow: of its topology,
and of each session's record and liveness. `build` is the structural flight with what it has captured so far,
`splice` the session flight beside it; counters that a flight captures and compares later (`gen`,
`sessionGeneration`, `sessionProjectionPublication`, `topologyGeneration`) are flags of the flight that say
whether the counter has moved. Each producer reads all its inputs at one point. A watchdog that fires is a
failure of the build (`BuildFail`) and a late settlement of the splice, whose rows the code publishes all the
same. Left out: the issue stamp and its first initialisation, the subtractive move of worktree roots, inputs
that return to an earlier content.

**Supervisor** models `reload`, the source poll, the debounce and retry timers and a child's exit in a
source workspace. A version is a number, a build and a child are the version they were made from. The
synchronous build keeps the event loop busy, hence the guard `Free` on every callback. A boot may be `Unhealthy`,
after which the loop breaks off and sets the retry timer, or throw (`BootThrows`: no port, no process), after which
`reload` ends by its `finally` and sets none; `aborted` remembers that until the next call. Shutdown, the public port
and the proxy are left out.

## 3. What the runs check

| Run | Instance | Properties |
|---|---|---|
| protocol | 2 addresses, 2 handles, 1 key, 2 contents, 3 rows | `RepliesHold`, `TransactionAtomic`, and `ImplementsMailbox`: the rows implement Mailbox under the mapping at the end of `SessionProtocol` |
| application | 3 sessions, 2 statuses, 1 watch channel, 1 key; at most 3 events and messages together, 2 cursors, 2 watch edges | `Acyclic`, `ParentAgrees`, `ReplayAgrees`, `ToldOnce`, and `ImplementsLedger`: every subject is a FollowLedger |
| delivery | 2 backends one after the other, the first may be killed, 2 messages, 2 bindings, triggers send, bind and recover, 1 throw | `Exclusion`, `DebtNoted`, `UsesMailbox`, liveness `DebtIsPaid` |
| delivery_every | 2 backends that may overlap, an inbox command, triggers broadcast and resume, the close of a sender, 1 throw | `NothingDropped`, `InOrder`, `FileInHand`, `NoWakeLost` |
| watch | a backend that may be replaced once and a command, 2 watchers, 3 events, 1 subscription or move and its cancellation, 1 throw or unreadable record | `NoticeOnce`, `ToldInOrder`, `NothingSkipped`, `EventOwed`, `FollowsLedger`, liveness `AllFollowed` |
| supervisor | 4 versions, 4 deaths, failed boots or boots that throw | `RestartOwed`, `NoticedIsOwed`, liveness `ServesAgain` and `NoticedIsBuilt` |
| graph | 1 session, 1 later version of the topology and of its record or its liveness, 1 failure or late settlement | `AnchorHonest`, `StructureCarriedOrOwed`, `TopologyForward`, `RowsForward`, liveness `BoardConverges` |
| cutover | 2 processes, 2 directories with the trees of `SomeTrees`, 2 creates, 2 crashes or failures | `NothingLost`, `NeverAmbiguous`, `Resumable`, `StoreGrows`, liveness `Settles` |
| launch | 2 sessions that can be launched, a cap of 1, 1 crash or step that fails | `BootsWithinCap`, `SlotsKept`, `StaysDown`, liveness `QueueServed` |
| overlap, inbox, missed | as small as the case allows | one documented promise each that the code does not keep: `OneHolder`, `GivenOut`, `NothingMissed`, see 5 |

Every property of a passing run has a mutant in `PROJECT.json`: a plausible bug in a mapped definition that
breaks it. The type invariants of all eight modules are proved and not checked again; so are `FifoOrder`,
`OneRowPerKey` and `NothingStranded`, which follow from `ImplementsMailbox`, `CursorForward`, from
`ImplementsLedger`, and `HistoryUnbroken`.

**Why the bounds are enough.** Three rows allow a retried key, a conflict, and a message behind another; two
handles allow every pairwise interleaving, and the write lock serialises more of them. Three sessions allow a
cycle that no two edges close and a move between two parents. Two messages and two bindings allow a message
behind a refused head and a removal under a stale generation; two backends allow every hand-over from a dead or
retiring one. Three events allow one before, inside and after a subscription or a move. One throw allows each of
the places where a pass can break off, before and after a kill. Four faults allow a death during a reload, a
failed boot and a failed retry. One later version of every input allows each of the two flights to be older than
the other, and one failure allows a producer to lose what it had consumed; either the record or the liveness of
its session moves, and the proof covers both. Two directories allow an import that is interrupted between two
sessions, two faults a crash in the recovery from a failure, two processes an importer beside an importer, a
create or a release. Two sessions and a cap of one allow one that waits behind the boot, the residue, the window
or the prompts of the other; the cap is proved for any number. `Broken` is empty in the run, so that its
liveness speaks of both. Bounds stand in the guards (`MaxEvents`, `MaxSends`, `MaxFaults`, ...), or for the
application in the constraint `Small`; a model that has used up its bounds stops, so `CHECK_DEADLOCK FALSE`
where it can.

**What the passing runs assume.** `Exclusion` holds while no process has ended, and `NothingDropped` and
`InOrder` also with two processes of which one ended: with three, reclaiming is unsound (run overlap).
`NothingDropped` speaks of behaviours up to the first message that an inbox command removes, because the race of
the two removers drops one (run inbox, where `GivenOut` says the same without that condition). `InOrder` excepts
the messages whose removal threw (5, again). The delivery run has no resume or broadcast trigger and no
overlapping backends, because `DebtIsPaid` fails with them (5, push). `DebtNoted` and `DebtIsPaid` except a
backend whose recovery pass threw, until something names the recipient to it (5, unseeded); `DebtIsPaid` and
`NoWakeLost` further except a lock file left blank by a process that ended between creating and writing it;
nobody ever reclaims that one. A write of the pid that fails in a process that goes on would leave the same file
and is not modelled.
`DebtNoted`, the state that `DebtIsPaid` starts from, holds under the same triggers and without overlapping
backends; `NoWakeLost` speaks of what no debt notes: between a refusal, a throw or a kill and the next start of
a loop it is silent (`stuck`). `FileInHand` and `UsesMailbox` hold with every trigger, inbox command, throw and
overlap. `ToldInOrder` and `NothingSkipped` speak of watchers whose relation has stood since the start; run
missed shows what happens otherwise. In the watch run the backend may end and the command may not, because
`AllFollowed` fails with a command that ends (5, untold), and with it `EventOwed`; both except the watchers that
a pass left out because it threw or could not read their record (5, unread), until they are woken again.
`RestartOwed` and `ServesAgain` except a reload that ended in a boot that threw (5, dead), until `reload` is
called again. `NoticedIsBuilt` speaks of behaviours without a death or a failed boot: a crash reload or a retry
that finds `pending` set loops with its own reason, which skips the build, and a failed boot drops `pending`, so
an edit noticed then waits for the next edit. `RowsForward` excepts the commit of a build of rows alone and
`QueueServed` names four causes for which sessions wait for ever: the three of `NobodyStarves` in 5, and a
session that a person prompts again and again. `BootsWithinCap` does not count a boot whose observer could not
record its end. `Resumable` names the one reason for which an access is refused for good, a fence without a
marker: an importer that ends between the two leaves it, and only a person takes it away. In the cutover run a
project without a tree and without a store is opened by one process: a second that answers "fresh" at the same
time is not modelled.

**Fairness.** Delivery: weak fairness of every step of a loop, of wakes, calls and the sweep (timers and
microtasks of a backend that runs), and strong fairness of `Insert`: an adapter that is asked again and
again accepts at some time. Watch: weak fairness of a series that has begun, strong fairness of `Reconcile`,
because a process between two series gives the microtask its turn. In both, throws have a bound and so come to an
end; a store that is busy for ever is not promised anything. Supervisor: timers fire and a boot ends.
Graph: producers settle (their watchdog bounds them), the backoff is a time that passes, and the patrol runs
every fifteen seconds while a stream has a subscriber; readers, signals and failures have no fairness.
Cutover: canonical accesses keep coming, a process goes on with what it does, and a create is released in its
`finally`. Launch: `superviseQueue` ticks for ever, an observer has a deadline, a boot comes to something, and
no agent stays active for ever without declaring or ending. Users, crashes, adapters' refusals and edits have no
fairness anywhere.

## 4. What is proved

For every value of the constants, under the named `ASSUME`s only:

- **SessionProtocol_proofs**: the types, `FifoOrder`, `OneRowPerKey`, `NothingStranded`, `RepliesHold`,
  `TransactionAtomic`, and the refinement `ImplementsMailbox`. The inductive invariant states the store's
  properties of `working` as well as of `db`, since a commit publishes the one as the other, that both are equal
  while nobody writes, that rows of `db` stay rows of `working`, and that replies are true of the rows they name
  and no two handles took one row. For the refinement it is added that `working` differs from `db` by unread
  rows of live addresses alone (`Appends`): a commit is then one batch of deliveries, a dequeue takes the oldest
  letter, and every other step opens an address, closes an empty one or is not seen.
- **SessionApplication_proofs**: the types, `Acyclic`, `ParentAgrees`, `ReplayAgrees`, `HistoryUnbroken`,
  `ToldOnce`, `CursorForward`, and the refinement `ImplementsLedger`. Acyclicity is stated as "no non-empty set
  of sessions in which each has a predecessor in the set"; a new edge that closed such a set would start from a
  session reachable from its end, which `ValidEdge` refuses. `Reachable` is the intersection of the closed sets,
  so the proof needs no induction over paths. For the ledger each operation is seen from every subject: it is a
  step of the subject it is about, and a stutter for the others; that a subject has one tree parent comes from
  `ParentAgrees`.
- **QueueDelivery_proofs**: of the lock, its types and `Exclusion`; of the deliveries, the types, `InOrder`, and
  `NothingDropped`: with inbox commands about, up to the first message one of them removes (run inbox).
  `Exclusion` is not inductive alone: until a process ends nobody reaches the stage that unlinks, so the file
  stands from its creation to its release and has one owner. Of two processes of which one has ended, the other
  is the only one that works (`LockSound`). On that rests the rest: one loop at most is between its claim and
  its release, the queue is sorted and nothing that landed is younger than what waits, a message that landed and
  still waits is in a loop's hands or its binding is over, and the head a loop is about to remove landed or
  belongs to a closed sender. A removal that throws is where the second of these fails, and only there: that
  message landed, waits, and is in nobody's hands (`lapsed`). `FileInHand` needs nothing of this: it follows the
  file through every crossing of opens, reclaims and unlinks, for any number of tasks and deaths. `DebtNoted` is
  inductive with the types, under the hypotheses that its statement names: no overlap, and only triggers that
  note the recipient. `UsesMailbox` takes from the invariant that a removal takes the first of a sorted queue,
  the oldest letter of the box.
- **WatchNotices_proofs**: the types, `NoticeOnce`, `ToldInOrder`, `NothingSkipped`, `EventOwed` where only the
  backend may end, and `FollowsLedger`. A process between its query and its last item acts on what it read, also
  when it breaks off; the invariant says of each one what it still holds (`InHand`): the events it has not come
  to and those it has passed leave no gap above the cursor of a standing relation.
- **StoreCutover_proofs**: the types, `NothingLost`, `NeverAmbiguous`, `Resumable`, `StoreGrows`. A process that
  retires files must know that each is already in the store or the backup, whatever the others do to the tree
  meanwhile; the invariant states that for every stage, that a fence stands from its writing to the marker, and
  that the fresh store which a release may remove has no session and no other writer. `Resumable` adds that an
  envelope with its second name has its row: who retires it knows that its session is in the store, and no row
  ever leaves a store that has one. What remains of the reasons to refuse an access is the fence without a
  marker (`OnlyFenceRefuses`).
- **LaunchQueue_proofs**: the types, `BootsWithinCap`, `SlotsKept`, `StaysDown`. A session that boots is held by
  a slot, counted by the pass that is about to look at it, or known to nobody because the backend has just
  ended; the invariant relates the census, the rows and the slots of a pass, which are read at three different
  times. `SlotsKept` adds that what the drainer has chosen has no slot yet.
- **GraphCache_proofs**: the types, `AnchorHonest`, `StructureCarriedOrOwed`, `TopologyForward`,
  `RowsForward`. The invariant orders what a flight has captured between the cached board and the inputs, says
  which signals a sample covers while no later one came, and that a splice whose base was replaced knows it.
- **Supervisor_proofs**: the types, `RestartOwed` and `NoticedIsOwed`, inductive together.

Only model-checked: `NoWakeLost`, the six liveness properties (`DebtIsPaid`, `AllFollowed`, `ServesAgain`,
`NoticedIsBuilt`, `BoardConverges`, `Settles`) and `QueueServed`. A proof of the liveness properties needs to
reason about ENABLED and fairness, which the prover does not do. Where such a property rests on something that
must be true all along, that part is an invariant and is proved: `DebtNoted` for `DebtIsPaid`, `EventOwed` for
`AllFollowed`, `RestartOwed` and `NoticedIsOwed` for the supervisor's two, `SlotsKept` for `QueueServed`,
`StructureCarriedOrOwed` for `BoardConverges`, `Resumable` and `NeverAmbiguous` for `Settles`. What is left to
TLC is that fair steps use what is owed up.

## 5. Where code and documents disagree

Three are runs that TLC must find violated; `findings` in `PROJECT.json` quotes the promise.

- **overlap**: two processes that both read a dead owner both reclaim, the second unlinking the first's new
  lock.
- **inbox**: comparing the head and removing it are two transactions, so an inbox command and the delivery
  loop may remove two messages for one.
- **missed**: subscribing sets the cursor to the head it reads after it sent the snapshot; an event between
  the two is never told. A reparent has the same window for the new parent (`sessions.ts:353-367`), whose feed is
  not promised to be complete; the property speaks of watchers by hand alone.

The others were found with the same modules and are stated there as definitions that no run lists; the
constants that show them are given.

- **again** (`LandsOnce`, the delivery run with `Mortal = {}`, `Wakes = {"send"}`, `MaxBinds = 1`): the removal of a
  message the adapter has taken is a transaction of its own (`sessions.ts:4194-4196`). When it throws
  (`PROTOCOL_DATABASE_BUSY`, `engine.ts:255-258`), the message is still the head and the same backend hands it over
  again under the same binding; comms/spec.md:28 says "retried until it lands, in order, exactly once". The keyed
  settlement of delivery-queue/spec.md:87-94 is not in the code.
- **unseeded** (`DebtAlwaysNoted`, the delivery run with `Wakes = {"send"}`): the flag of the recovery pass is
  cleared before the pass (`sessions.ts:1534`), so a pass that throws seeds nothing and is not made up for, against
  delivery-queue/spec.md:150 ("seeds the set once at startup (or after an unknown source/recovery failure)").
- **unread** (`ReadAgain`, the watch run with `Mortal = {}`, `MaxCalls = 0`): a watcher whose record cannot be read
  is left out of the pass, and no tick comes back to it, against the comment at `sessions.ts:1486` ("a transient
  record read is retried on the next tick").
- **dead** (`RetriesUntilHealthy`, supervisor run): `reload` has a `finally` and no `catch` (`supervise.ts:163-184`),
  so a boot that throws leaves it without a retry, and after a crash of the child nothing serves until the next
  source change, against serve/spec.md:38-39 ("retries replacement boot until a healthy child is available").
- **push** (`DebtIsPaid`, the delivery run with `"broadcast"` or `"resume"` in `Wakes`): a drain asked for by the
  push route or a resume notes no debt; when the adapter refuses it, the sweep never retries, against the
  delivery-queue spec ("delivered when it can be").
- **untold** (`AllFollowed`, the watch run with `Mortal = {cli}`): a command that ends between its commit and
  its microtask leaves an event that a running backend does not translate.
- **`NeverLags`** (graph run): a build of rows alone commits over what a splice published while it ran and is
  not rebased (`graphCache.ts:626` asks for a full scope), so the board can show an older row with nothing owed
  until the patrol looks; graph-cache/spec.md:119 and 130-131 say the cache can never lag what the stream pushes.
- **`FreshCarriesStructure`** (graph run): a verification that finds the structure moved turns into a full
  build, but `readBoard` (`graphCache.ts:749`) does not count it as owed, so a reader is answered "fresh"
  meanwhile; see graph-cache/spec.md:166-168.
- **`HistoryOnce`** (cutover run with one process and one fault): the event ids of a residue import depend on a
  digest of the whole remaining tree. An import that was interrupted while it retired files starts again over a
  smaller tree and replays the remaining timelines under other ids, against the comment of `replayTimeline`
  and json-migration/spec.md:51-52; the test at migration.test.ts:229 interrupts before anything is retired.
- **`NobodyStarves`** (launch run, and with `Broken = {1}`): a pass ends at the first session it cannot
  start (`sessions.ts:1404-1406`), so an older session whose branch is gone holds up every later one; a session
  that declared after its launch and died before its readiness keeps its stamp and takes a slot in every pass
  (`sessions.ts:922`, `1380`); a backend that ends between the host's launch and the published row leaves a
  queued row whose next launch throws on the duplicate window. launch/spec.md:224 says one such session does not
  starve the rest.
- **`WorkWithinCap`** (launch run): the liveness is the census', the held slots are those of the count. A
  session whose observer gave its slot back in between is in neither, and one more is started.

## 6. Not modelled, and the plan

Not modelled, with reasons under `components`: text processing (spec-core, lint, issues, materialize), user
interface and packaging, HTTP plumbing, terminal adapters beyond accept or refuse, operating system probes.
Most lines of the repository are of these kinds (rendering, parsing, layout, command-line text), and the map
covers a few percent of all lines; the lines that keep shared state are where the modules are.

Done: SessionProtocol and Mailbox; SessionApplication; DeliveryLock; QueueDelivery; WatchNotices; Supervisor;
StoreCutover; LaunchQueue; GraphCache. What would come next:

1. **RuntimeBinding** in SessionApplication: bind, unbind and the generation check over several namespaces, and
   the proof that a generation names one native runtime; QueueDelivery's binding then refers to it.
2. LaunchQueue with the creation of sessions and resume, and with a second backend on the same root.
3. QueueDelivery with a store that may be busy for ever, and a failing write of the lock file; with several
   senders: close under the sender's lock, a reparent that removes the former parent's prompts. WatchNotices
   with creation in two steps and `session wait`.
4. StoreCutover with two processes that find a fresh project at once.
5. The graph stream: subscribers, the deltas they get and the board they hold after a reconnect.
6. Proofs: what stays true of the lock with three or more processes of which one has ended; that rows which a
   signal named are carried or owed, but for the ways the code loses them (`NeverLags`).
