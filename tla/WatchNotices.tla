------------------------------ MODULE WatchNotices ------------------------------
(***************************************************************************)
(* How a subject's state events become prompts in its watchers' queues:    *)
(* reconcileWatchDeliveries, subscribeSessionWatch, cancelSessionWatch and *)
(* reparentSessionRecords of spec-cli/src/sessions.ts.                     *)
(*                                                                         *)
(* Each is a series of transactions of the session application with no     *)
(* await between them, so a process runs one series at a time, the series  *)
(* of several processes interleave, and a process may end inside one. A    *)
(* read or a transaction may throw, a busy database or a record that       *)
(* cannot be read; a fault is such a throw, and nothing retries it. Only   *)
(* what these series read and write is kept here: one subject's state      *)
(* events, the relations to it, the follow cursors, and the notices each   *)
(* watcher's queue ever accepted.                                          *)
(***************************************************************************)
EXTENDS Naturals, Sequences

CONSTANTS
  Watchers,   \* sessions that may watch the subject
  None,       \* no watcher, no cursor
  Procs,      \* processes that open the session application
  Backend,    \* the process that runs superviseDelivery
  Mortal,     \* the processes that may end
  Parent0,    \* the subject's parent at creation
  Statuses,   \* what a transition may set: "active" and some others
  MaxEvents,  \* bound: events of the subject
  MaxCalls,   \* bound: subscriptions and reparentings
  MaxEnds,    \* bound: ends of processes
  MaxFaults   \* bound: reads and transactions that throw

ASSUME WatchAssumption ==
  /\ None \notin Watchers \cup Nat
  /\ Backend \in Procs /\ Mortal \subseteq Procs /\ Parent0 \in Watchers
  /\ "active" \in Statuses
  /\ MaxEvents \in Nat \ {0} /\ MaxCalls \in Nat /\ MaxEnds \in Nat /\ MaxFaults \in Nat

VARIABLES
  log,      \* the statuses of the subject's state events
  sources,  \* sources[w]: the relations from w to the subject
  cursor,   \* cursor[w]: w's follow cursor for the subject, None without row
  feed,     \* feed[w]: the notices w's queue has accepted, oldest first
  due,      \* due[p]: the watchers p's commits will reconcile
  job,      \* job[p]: the series p is in
  calls,    \* how often a subscription or a reparenting began
  ends,     \* how often a process has ended
  moved,    \* the watchers whose relation has changed since the start
  since,    \* since[w]: the newest event when w's present feed began
  faults,   \* how many reads and transactions have thrown
  lapsed    \* history: the watchers a pass left out, until they are woken again

store == <<log, sources, cursor, feed>>
thrown == <<faults, lapsed>>
vars == <<store, due, job, calls, ends, moved, since, thrown>>

Sources == {"parent", "watch:parent", "watch:manual"}
Idle == [do |-> "idle"]
Goto(p, j) == job' = [job EXCEPT ![p] = j]

Present == log[Len(log)]
Recipients(src) == {w \in Watchers : src[w] # {}}
ParentOf(src) == IF \E w \in Watchers : "parent" \in src[w]
                   THEN CHOOSE w \in Watchers : "parent" \in src[w] ELSE None

(* p will reconcile the watchers in W. *)
Wake(p, W) == due' = [due EXCEPT ![p] = @ \cup W] /\ lapsed' = lapsed \ W

(* What throws leaves these watchers out, and is only logged. *)
Fault(W) == faults < MaxFaults /\ faults' = faults + 1 /\ lapsed' = lapsed \cup W

Calling == calls < MaxCalls /\ calls' = calls + 1

(* advanceFollowCursor *)
AdvancedAnyway(w, n) == [cursor EXCEPT ![w] = n]
Advanced(w, n) == IF cursor[w] # None /\ cursor[w] >= n THEN cursor ELSE [cursor EXCEPT ![w] = n]

(* The queue accepts a notice once per idempotency key: the event's id, or *)
(* the text of a snapshot.                                                 *)
SameKey(a, b) ==
  a.by = b.by /\ IF a.by = "snapshot" THEN a.status = b.status ELSE a.of = b.of
AcceptedAgain(w, notice) == [feed EXCEPT ![w] = Append(@, notice)]
Accepted(w, notice) ==
  IF \E i \in DOMAIN feed[w] : SameKey(feed[w][i], notice)
    THEN feed ELSE [feed EXCEPT ![w] = Append(@, notice)]

(* attachWatcher: a relation that exists already is refused, and the       *)
(* callers go on without its cursor update.                                *)
Attach(w, source) ==
  /\ sources' = [sources EXCEPT ![w] = @ \cup {source}]
  /\ cursor' = IF source \in sources[w] THEN cursor ELSE Advanced(w, Len(log))
  /\ moved' = moved \cup {w}
  /\ since' = [since EXCEPT ![w] =
                 IF sources[w] = {} \/ (source = "watch:manual" /\ source \notin sources[w])
                   THEN Len(log) ELSE @]

-----------------------------------------------------------------------------
(* A transition commits its event and the list of watchers to wake.        *)

Transition(p, status) ==
  /\ job[p] = Idle /\ Len(log) < MaxEvents
  /\ log' = Append(log, status)
  /\ Wake(p, Recipients(sources))
  /\ UNCHANGED <<sources, cursor, feed, job, calls, ends, moved, since, faults>>

-----------------------------------------------------------------------------
(* reconcileWatchDeliveries *)

(* readWatchEvents: what each woken watcher has not followed yet. The loop *)
(* goes through it by event, oldest first. An active status that did not   *)
(* leave the queue is routine to a watcher that is only the parent.        *)
Routine(src, n) ==
  "watch:manual" \notin src /\ log[n] = "active" /\ (n = 1 \/ log[n - 1] # "queued")
After(w) == IF cursor[w] = None THEN 0 ELSE cursor[w]
Items(W) ==
  {[w |-> w, n |-> n, routine |-> Routine(sources[w], n)] :
     w \in Recipients(sources) \cap W, n \in DOMAIN log}
UnreadLatest(W) == {i \in Items(W) : i.n > After(i.w) /\ i.n = Len(log)}
UnreadFromNext(W) == {i \in Items(W) : i.n > After(i.w) + 1}
Unread(W) == {i \in Items(W) : i.n > After(i.w)}
Newest(items) == {i \in items : \A j \in items : i.n >= j.n}
Oldest(items) == {i \in items : \A j \in items : i.n <= j.n}

Translating(items) == IF items = {} THEN Idle ELSE [do |-> "translate", items |-> items]

(* A pass goes on without the watchers whose record it cannot read.        *)
Reconcile(p) ==
  /\ job[p] = Idle /\ due[p] # {}
  /\ \E W \in SUBSET due[p] :
       /\ Goto(p, Translating(Unread(W)))
       /\ IF W = due[p] THEN UNCHANGED thrown ELSE Fault(due[p] \ W)
  /\ due' = [due EXCEPT ![p] = {}]
  /\ UNCHANGED <<store, calls, ends, moved, since>>

Skip(p) ==
  /\ job[p].do = "translate"
  /\ \E i \in Oldest(job[p].items) :
       /\ i.routine
       /\ cursor' = Advanced(i.w, i.n)
       /\ Goto(p, Translating(job[p].items \ {i}))
  /\ UNCHANGED <<log, sources, feed, due, calls, ends, moved, since, thrown>>

Queue(p) ==
  /\ job[p].do = "translate"
  /\ \E i \in Oldest(job[p].items) :
       /\ ~i.routine
       /\ feed' = Accepted(i.w, [by |-> "event", of |-> i.n, status |-> log[i.n]])
       /\ Goto(p, [do |-> "advance", items |-> job[p].items, told |-> i])
  /\ UNCHANGED <<log, sources, cursor, due, calls, ends, moved, since, thrown>>

Advance(p) ==
  /\ job[p].do = "advance"
  /\ cursor' = Advanced(job[p].told.w, job[p].told.n)
  /\ Goto(p, Translating(job[p].items \ {job[p].told}))
  /\ UNCHANGED <<log, sources, feed, due, calls, ends, moved, since, thrown>>

-----------------------------------------------------------------------------
(* subscribeSessionWatch and cancelSessionWatch *)

Subscribe(p, w) ==
  /\ job[p] = Idle /\ Calling
  /\ Goto(p, [do |-> "attach", w |-> w,
               notice |-> [by |-> "snapshot", of |-> Len(log), status |-> Present]])
  /\ UNCHANGED <<store, due, ends, moved, since, thrown>>

AttachManual(p) ==
  /\ job[p].do = "attach"
  /\ Attach(job[p].w, "watch:manual")
  /\ Goto(p, [job[p] EXCEPT !.do = "snapshot"])
  /\ UNCHANGED <<log, feed, due, calls, ends, thrown>>

Snapshot(p) ==
  /\ job[p].do = "snapshot"
  /\ feed' = Accepted(job[p].w, job[p].notice)
  /\ Goto(p, [job[p] EXCEPT !.do = "head"])
  /\ UNCHANGED <<log, sources, cursor, due, calls, ends, moved, since, thrown>>

FollowFromHead(p) ==
  /\ job[p].do = "head"
  /\ cursor' = Advanced(job[p].w, Len(log))
  /\ Wake(p, {job[p].w})
  /\ Goto(p, Idle)
  /\ UNCHANGED <<log, sources, feed, calls, ends, moved, since, faults>>

Cancel(p, w) ==
  /\ job[p] = Idle /\ "watch:manual" \in sources[w]
  /\ sources' = [sources EXCEPT ![w] = @ \ {"watch:manual"}]
  /\ moved' = moved \cup {w}
  /\ UNCHANGED <<log, cursor, feed, due, job, calls, ends, since, thrown>>

-----------------------------------------------------------------------------
(* reparentSessionRecords, one at a time under its record lock. The event  *)
(* is published with the tree edge moved and the watch relations as they   *)
(* were.                                                                   *)

Reparent(p, new) ==
  LET old == ParentOf(sources)
      src == [w \in Watchers |-> IF w = old THEN sources[w] \ {"parent"}
                                 ELSE IF w = new THEN sources[w] \cup {"parent"}
                                 ELSE sources[w]]
  IN  /\ job[p] = Idle /\ Len(log) < MaxEvents /\ Calling
      /\ \A q \in Procs : job[q].do \notin {"detach", "adopt", "introduce", "settle"}
      /\ new # old
      /\ log' = Append(log, Present)
      /\ sources' = src
      /\ Wake(p, Recipients(src))
      /\ moved' = moved \cup ({old, new} \ {None})
      /\ since' = [w \in Watchers |-> IF w = new /\ sources[w] = {} THEN Len(log) + 1 ELSE since[w]]
      /\ Goto(p, [do |-> "detach", old |-> old, w |-> new,
                   notice |-> [by |-> "reparent", of |-> Len(log) + 1, status |-> Present]])
      /\ UNCHANGED <<cursor, feed, ends, faults>>

DetachFormer(p) ==
  /\ job[p].do = "detach"
  /\ sources' = IF job[p].old = None THEN sources
                ELSE [sources EXCEPT ![job[p].old] = @ \ {"watch:parent"}]
  /\ Goto(p, IF job[p].w = None THEN Idle ELSE [job[p] EXCEPT !.do = "adopt"])
  /\ UNCHANGED <<log, cursor, feed, due, calls, ends, moved, since, thrown>>

AttachParent(p) ==
  /\ job[p].do = "adopt"
  /\ Attach(job[p].w, "watch:parent")
  /\ Goto(p, [job[p] EXCEPT !.do = "introduce"])
  /\ UNCHANGED <<log, feed, due, calls, ends, thrown>>

Introduce(p) ==
  /\ job[p].do = "introduce"
  /\ feed' = Accepted(job[p].w, job[p].notice)
  /\ Goto(p, [job[p] EXCEPT !.do = "settle"])
  /\ UNCHANGED <<log, sources, cursor, due, calls, ends, moved, since, thrown>>

Settle(p) ==
  /\ job[p].do = "settle"
  /\ cursor' = Advanced(job[p].w, job[p].notice.of)
  /\ Goto(p, Idle)
  /\ UNCHANGED <<log, sources, feed, due, calls, ends, moved, since, thrown>>

-----------------------------------------------------------------------------
(* What throws inside a series breaks it off.                              *)
Throws(p) ==
  /\ job[p] # Idle
  /\ Fault(IF job[p].do \in {"translate", "advance"} THEN {i.w : i \in job[p].items} ELSE {})
  /\ Goto(p, Idle)
  /\ UNCHANGED <<store, due, calls, ends, moved, since>>

(* The backend's recovery pass reconciles every watcher: on its first tick  *)
(* and when a source watcher of the board failed (requestDeliveryRecovery). *)
RequestDeliveryRecovery ==
  /\ Wake(Backend, Watchers)
  /\ UNCHANGED <<store, job, calls, ends, moved, since, faults>>

(* A process ends and another takes its place.                             *)

EndForgetful(p) ==
  /\ p \in Mortal /\ ends < MaxEnds
  /\ ends' = ends + 1
  /\ Goto(p, Idle)
  /\ due' = [due EXCEPT ![p] = {}]
  /\ UNCHANGED <<store, calls, moved, since, thrown>>
End(p) ==
  /\ p \in Mortal /\ ends < MaxEnds
  /\ ends' = ends + 1
  /\ Goto(p, Idle)
  /\ due' = [due EXCEPT ![p] = IF p = Backend THEN Watchers ELSE {}]
  /\ lapsed' = IF p = Backend THEN {} ELSE lapsed
  /\ UNCHANGED <<store, calls, moved, since, faults>>

(* The subject was created under Parent0, which has watched it since.      *)
Init ==
  /\ log = <<"queued">>
  /\ sources = [w \in Watchers |-> IF w = Parent0 THEN {"parent", "watch:parent"} ELSE {}]
  /\ cursor = [w \in Watchers |-> IF w = Parent0 THEN 1 ELSE None]
  /\ feed = [w \in Watchers |-> <<>>]
  /\ due = [p \in Procs |-> {}] /\ job = [p \in Procs |-> Idle]
  /\ calls = 0 /\ ends = 0 /\ moved = {} /\ since = [w \in Watchers |-> 1]
  /\ faults = 0 /\ lapsed = {}

InSeries(p) ==
  Skip(p) \/ Queue(p) \/ Advance(p)
    \/ AttachManual(p) \/ Snapshot(p) \/ FollowFromHead(p)
    \/ DetachFormer(p) \/ AttachParent(p) \/ Introduce(p) \/ Settle(p)

Next ==
  \/ \E p \in Procs :
       \/ Reconcile(p) \/ InSeries(p) \/ Throws(p) \/ End(p)
       \/ \E status \in Statuses : Transition(p, status)
       \/ \E w \in Watchers : Subscribe(p, w) \/ Cancel(p, w)
       \/ \E new \in Watchers \cup {None} : Reparent(p, new)
  \/ RequestDeliveryRecovery

Spec == Init /\ [][Next]_vars

(* The event loop finishes a series it has begun and, however many follow, *)
(* gives the microtask or the timer that reconciles its turn. Nothing      *)
(* throws for ever (MaxFaults).                                            *)
FairSpec == Spec /\ \A p \in Procs : WF_vars(InSeries(p)) /\ SF_vars(Reconcile(p))

-----------------------------------------------------------------------------
(* Properties *)

Notices == [by : {"event", "snapshot", "reparent"}, of : 1 .. MaxEvents, status : Statuses \cup {"queued"}]

WatchTypeOK ==
  /\ log \in Seq(Statuses \cup {"queued"}) /\ Len(log) \in 1 .. MaxEvents
  /\ sources \in [Watchers -> SUBSET Sources]
  /\ cursor \in [Watchers -> (0 .. Len(log)) \cup {None}]
  /\ feed \in [Watchers -> Seq(Notices)]
  /\ due \in [Procs -> SUBSET Watchers]
  /\ since \in [Watchers -> 1 .. Len(log)]
  /\ faults \in 0 .. MaxFaults /\ lapsed \subseteq Watchers

Tells(w, n) == {i \in DOMAIN feed[w] : feed[w][i].by = "event" /\ feed[w][i].of = n}

(* No event reaches a watcher twice, though every process that commits,    *)
(* and the backend's recovery, translates the same events.                 *)
NoticeOnce ==
  \A w \in Watchers, n \in DOMAIN log : \A i, j \in Tells(w, n) : i = j

(* A watcher whose relation stands is told the changes one by one, in the  *)
(* order they were committed.                                              *)
ToldInOrder == \A w \in Watchers \ moved : \A i, j \in DOMAIN feed[w] :
  i < j => feed[w][i].of < feed[w][j].of

(* The cursor of such a watcher never passes an event that is neither      *)
(* routine to it nor told.                                                 *)
NothingSkipped == \A w \in Watchers \ moved : \A n \in DOMAIN log :
  cursor[w] # None /\ since[w] < n /\ n <= cursor[w] =>
    Routine(sources[w], n) \/ Tells(w, n) # {}

(* While a watcher is behind, some process has the newest event in hand or *)
(* will look for it: no order of commits, reconciliations, changes of      *)
(* relations and restarts of the backend leaves an event nobody owes. The  *)
(* one way out is a pass that threw or could not read the watcher's        *)
(* record: then only the next commit, subscription or recovery looks again.*)
Owes(p, w) ==
  \/ w \in due[p]
  \/ /\ job[p].do \in {"translate", "advance"}
     /\ \E i \in job[p].items : i.w = w /\ i.n = Len(log)
EventOwed == \A w \in Recipients(sources) :
  After(w) < Len(log) => w \in lapsed \/ \E p \in Procs : Owes(p, w)

(* Not kept by the code (README, Divergences): what a comment in            *)
(* reconcileWatchDeliveries says of a watcher that a pass leaves out ("a   *)
(* transient record read is retried on the next tick"). As long as it is   *)
(* behind, a pass that will look at it is on its way.                      *)
ReadAgain == \A w \in Recipients(sources) :
  After(w) < Len(log) => \E p \in Procs : Owes(p, w)

(* The series keep to the ledger of follows the session application        *)
(* implements (module FollowLedger): with an event the subject changes     *)
(* hands as a whole, a cursor starts at the newest event and never goes    *)
(* back or past it, whichever process moves it and however old its item.   *)
Ledger == INSTANCE FollowLedger WITH
  Relations <- Sources,
  Tree <- "parent",
  length <- Len(log),
  relations <- sources,
  place <- cursor

FollowsLedger == Ledger!LedgerSpec

(* Every event is followed in the end by everyone who keeps watching and   *)
(* whom no pass has left out since it was last woken.                      *)
AllFollowed == \A w \in Watchers :
  []<>(sources[w] = {} \/ w \in lapsed \/ (cursor[w] # None /\ cursor[w] >= Len(log)))

(* What the session-follow spec says of a manual watch (it "explicitly asks *)
(* for the complete feed and includes it"): who watches by hand and nothing *)
(* else is told of every change its cursor has passed since it was shown   *)
(* the present state, or of something newer.                               *)
NothingMissed == \A w \in Watchers, n \in DOMAIN log :
  sources[w] = {"watch:manual"} /\ since[w] < n /\ cursor[w] # None /\ n <= cursor[w] =>
    \E i \in DOMAIN feed[w] : feed[w][i].of >= n
=============================================================================
