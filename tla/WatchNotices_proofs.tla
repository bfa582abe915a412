-------------------------- MODULE WatchNotices_proofs --------------------------
(***************************************************************************)
(* What a watcher is told, for any watchers, any number of processes that  *)
(* translate the same events, any of which may end at any step, and any    *)
(* number of events and changes of relations.                              *)
(*                                                                         *)
(* The series of notices keep the follow ledger; the newest event owed to  *)
(* a watcher is proved where only the backend may end.                     *)
(***************************************************************************)
EXTENDS WatchNotices, TLAPS

Marks == Statuses \cup {"queued"}
Heard(n) == [by : {"event", "snapshot", "reparent"}, of : 1 .. n, status : Marks]
Found(n) == [w : Watchers, n : 1 .. n, routine : BOOLEAN]

(* The series a process can be in, when the log has n events. *)
Translations(n) == [do : {"translate"}, items : SUBSET Found(n)]
Advances(n) == [do : {"advance"}, items : SUBSET Found(n), told : Found(n)]
Subscriptions(n) == [do : {"attach", "snapshot", "head"}, w : Watchers, notice : Heard(n)]
Adoptions(n) ==
  [do : {"adopt", "introduce", "settle"}, old : Watchers \cup {None}, w : Watchers, notice : Heard(n)]
Moves(n) ==
  [do : {"detach"}, old : Watchers \cup {None}, w : Watchers \cup {None}, notice : Heard(n)]
Jobs(n) == {Idle} \cup Translations(n) \cup Advances(n) \cup Subscriptions(n)
             \cup Adoptions(n) \cup Moves(n)

(* The type invariant but for what throws, which no other part reads. *)
StoreTyped ==
  /\ log \in Seq(Statuses \cup {"queued"}) /\ Len(log) \in 1 .. MaxEvents
  /\ sources \in [Watchers -> SUBSET Sources]
  /\ cursor \in [Watchers -> (0 .. Len(log)) \cup {None}]
  /\ feed \in [Watchers -> Seq(Notices)]
  /\ due \in [Procs -> SUBSET Watchers]
  /\ since \in [Watchers -> 1 .. Len(log)]
Faulty == faults \in 0 .. MaxFaults /\ lapsed \subseteq Watchers

TypeInv ==
  /\ StoreTyped
  /\ job \in [Procs -> Jobs(Len(log))]
  /\ moved \subseteq Watchers

(* A series that changes a relation has said so before it queues or moves  *)
(* a cursor.                                                               *)
Owned == \A p \in Procs :
  /\ job[p].do \in {"snapshot", "head", "detach", "adopt", "introduce", "settle"} =>
       job[p].w \in moved \cup {None}
  /\ job[p].do = "detach" => job[p].old \in moved \cup {None}

(* An event has one notice in a feed, however many translate it. *)
Once == \A w \in Watchers : \A i, j \in DOMAIN feed[w] :
  feed[w][i].by = "event" /\ feed[w][j].by = "event" /\ feed[w][i].of = feed[w][j].of => i = j

(* A relation that stands since the start has its cursor and, behind it,   *)
(* nothing but events; what it was told has no gap.                        *)
Covered(w, n) == Routine(sources[w], n) \/ Tells(w, n) # {}
Standing ==
  \A w \in Watchers \ moved :
    /\ sources[w] # {} => cursor[w] # None /\ cursor[w] >= since[w]
    /\ \A i \in DOMAIN feed[w] : feed[w][i].by = "event" /\ feed[w][i].of \in DOMAIN log
    /\ \A m, n \in DOMAIN log :
         since[w] < n /\ n < m /\ Tells(w, m) # {} => Covered(w, n)

(* What a process still has to translate leaves no gap either.             *)
Listed(items, w, n) == \E j \in items : j.w = w /\ j.n = n
Behind(items, i) ==
  /\ since[i.w] < i.n
  /\ i.routine = Routine(sources[i.w], i.n)
  /\ \A n \in DOMAIN log : since[i.w] < n /\ n < i.n => Covered(i.w, n) \/ Listed(items, i.w, n)
HandOf(p) ==
  /\ job[p].do \in {"translate", "advance"} =>
       \A i \in job[p].items : i.w \notin moved => Behind(job[p].items, i)
  /\ job[p].do = "advance" =>
       /\ job[p].told \in job[p].items
       /\ job[p].told.w \notin moved =>
            \A n \in DOMAIN log : since[job[p].told.w] < n /\ n <= job[p].told.n => Covered(job[p].told.w, n)
InHand == \A p \in Procs : HandOf(p)

IInv == TypeInv /\ Owned /\ Once /\ Standing /\ ToldInOrder /\ NothingSkipped /\ InHand

-----------------------------------------------------------------------------
LEMMA JobsGrow ==
  ASSUME NEW m \in Nat, NEW n \in Nat, m <= n
  PROVE  /\ Jobs(m) \subseteq Jobs(n) /\ Heard(m) \subseteq Heard(n) /\ Found(m) \subseteq Found(n)
         /\ 1 .. m \subseteq 1 .. n
<1>1. 1 .. m \subseteq 1 .. n
  OBVIOUS
<1>2. Heard(m) \subseteq Heard(n) /\ Found(m) \subseteq Found(n)
  BY <1>1 DEF Heard, Found
<1> HIDE DEF Heard, Found
<1>3. /\ Translations(m) \subseteq Translations(n) /\ Advances(m) \subseteq Advances(n)
      /\ Subscriptions(m) \subseteq Subscriptions(n) /\ Adoptions(m) \subseteq Adoptions(n)
      /\ Moves(m) \subseteq Moves(n)
  BY <1>2 DEF Translations, Advances, Subscriptions, Adoptions, Moves
<1> QED BY <1>1, <1>2, <1>3 DEF Jobs

LEMMA JobFields ==
  ASSUME NEW n \in Nat, NEW j \in Jobs(n)
  PROVE  /\ j.do = "translate" => j \in Translations(n)
         /\ j.do = "advance" => j \in Advances(n)
         /\ j.do \in {"attach", "snapshot", "head"} => j \in Subscriptions(n)
         /\ j.do \in {"adopt", "introduce", "settle"} => j \in Adoptions(n)
         /\ j.do = "detach" => j \in Moves(n)
<1>1. CASE j = Idle
  BY <1>1 DEF Idle
<1>2. CASE j \in Translations(n)
  BY <1>2 DEF Translations
<1>3. CASE j \in Advances(n)
  BY <1>3 DEF Advances
<1>4. CASE j \in Subscriptions(n)
  BY <1>4 DEF Subscriptions
<1>5. CASE j \in Adoptions(n)
  BY <1>5 DEF Adoptions
<1>6. CASE j \in Moves(n)
  BY <1>6 DEF Moves
<1> QED BY <1>1, <1>2, <1>3, <1>4, <1>5, <1>6 DEF Jobs

(* One job changes. *)
Elsewhere(p) == \A q \in Procs : q # p => job'[q] = job[q]
LEMMA JobStep ==
  ASSUME TypeInv, NEW n \in Nat, Len(log) <= n, NEW p \in Procs, NEW j \in Jobs(n), Goto(p, j)
  PROVE  job' \in [Procs -> Jobs(n)] /\ job'[p] = j /\ Elsewhere(p)
<1>1. Len(log) \in Nat
  BY DEF TypeInv, StoreTyped
<1>2. job \in [Procs -> Jobs(n)]
  BY <1>1, JobsGrow DEF TypeInv
<1> QED BY <1>2 DEF Goto, Elsewhere

LEMMA AdvancedTyped ==
  ASSUME TypeInv, NEW w \in Watchers, NEW n \in 0 .. Len(log), cursor' = Advanced(w, n), log' = log
  PROVE  /\ cursor' \in [Watchers -> (0 .. Len(log)) \cup {None}]
         /\ \A v \in Watchers : v # w => cursor'[v] = cursor[v]
         /\ cursor'[w] = n \/ cursor'[w] = cursor[w]
         /\ cursor'[w] # None /\ cursor'[w] >= n
         /\ cursor[w] # None => cursor'[w] >= cursor[w]
<1>1. Len(log) \in Nat /\ cursor \in [Watchers -> (0 .. Len(log)) \cup {None}] /\ None \notin Nat
  BY WatchAssumption DEF TypeInv, StoreTyped
<1>2. CASE cursor[w] # None /\ cursor[w] >= n
  BY <1>1, <1>2 DEF Advanced
<1>3. CASE ~(cursor[w] # None /\ cursor[w] >= n)
  <2>1. cursor' = [cursor EXCEPT ![w] = n]
    BY <1>3 DEF Advanced
  <2> QED BY <1>1, <1>3, <2>1
<1> QED BY <1>2, <1>3

LEMMA AcceptedTyped ==
  ASSUME TypeInv, NEW w \in Watchers, NEW x \in Notices, feed' = Accepted(w, x)
  PROVE  /\ feed' \in [Watchers -> Seq(Notices)]
         /\ \A v \in Watchers : v # w => feed'[v] = feed[v]
         /\ \/ feed'[w] = feed[w] /\ \E i \in DOMAIN feed[w] : SameKey(feed[w][i], x)
            \/ /\ feed'[w] = Append(feed[w], x)
               /\ \A i \in DOMAIN feed[w] : ~SameKey(feed[w][i], x)
<1>1. feed \in [Watchers -> Seq(Notices)]
  BY DEF TypeInv, StoreTyped
<1>2. CASE \E i \in DOMAIN feed[w] : SameKey(feed[w][i], x)
  BY <1>1, <1>2 DEF Accepted
<1>3. CASE ~ \E i \in DOMAIN feed[w] : SameKey(feed[w][i], x)
  <2>1. feed' = [feed EXCEPT ![w] = Append(@, x)]
    BY <1>3 DEF Accepted
  <2> QED BY <1>1, <1>3, <2>1
<1> QED BY <1>2, <1>3

LEMMA ParentTyped == ParentOf(sources) \in Watchers \cup {None}
BY DEF ParentOf

LEMMA ItemsTyped ==
  ASSUME TypeInv, NEW W
  PROVE  Unread(W) \in SUBSET Found(Len(log)) /\ Translating(Unread(W)) \in Jobs(Len(log))
<1>1. Len(log) \in Nat /\ DOMAIN log = 1 .. Len(log)
  BY DEF TypeInv, StoreTyped
<1>2. \A w, n : Routine(sources[w], n) \in BOOLEAN
  BY DEF Routine
<1>3. Items(W) \subseteq Found(Len(log))
  <2> SUFFICES ASSUME NEW x \in Items(W) PROVE x \in Found(Len(log))
    OBVIOUS
  <2>1. PICK w \in Watchers, n \in 1 .. Len(log) : x = [w |-> w, n |-> n, routine |-> Routine(sources[w], n)]
    BY <1>1 DEF Items, Recipients
  <2>2. Routine(sources[w], n) \in BOOLEAN
    BY <1>2
  <2> QED BY <2>1, <2>2 DEF Found
<1>4. Unread(W) \in SUBSET Found(Len(log))
  BY <1>3 DEF Unread
<1> QED BY <1>4 DEF Translating, Jobs, Translations

LEMMA RestTyped ==
  ASSUME NEW n, NEW items \in SUBSET Found(n)
  PROVE  Translating(items) \in Jobs(n)
BY DEF Translating, Jobs, Translations

(* What each step of a translation does. *)
LEMMA SkipDoes ==
  ASSUME TypeInv, NEW p \in Procs, Skip(p)
  PROVE  \E i \in Oldest(job[p].items) :
           /\ i \in Found(Len(log)) /\ job[p].items \in SUBSET Found(Len(log)) /\ i.routine
           /\ job[p].do = "translate" /\ cursor' = Advanced(i.w, i.n)
           /\ job' \in [Procs -> Jobs(Len(log))] /\ Elsewhere(p)
           /\ job'[p] = Translating(job[p].items \ {i})
           /\ UNCHANGED <<log, sources, feed, due, calls, ends, moved, since>>
<1>1. Len(log) \in Nat /\ Len(log) <= Len(log) /\ job[p] \in Jobs(Len(log))
  BY DEF TypeInv, StoreTyped
<1>2. job[p] \in Translations(Len(log))
  BY <1>1, JobFields DEF Skip
<1>3. job[p].items \in SUBSET Found(Len(log))
  BY <1>2 DEF Translations
<1>4. PICK i \in Oldest(job[p].items) :
        i.routine /\ cursor' = Advanced(i.w, i.n) /\ Goto(p, Translating(job[p].items \ {i}))
  BY DEF Skip
<1>5. i \in Found(Len(log)) /\ job[p].items \ {i} \in SUBSET Found(Len(log))
  BY <1>3, <1>4 DEF Oldest
<1>6. /\ job' \in [Procs -> Jobs(Len(log))] /\ Elsewhere(p)
      /\ job'[p] = Translating(job[p].items \ {i})
  BY <1>1, <1>4, <1>5, RestTyped, JobStep
<1> QED BY <1>3, <1>4, <1>5, <1>6 DEF Skip

LEMMA QueueDoes ==
  ASSUME TypeInv, NEW p \in Procs, Queue(p)
  PROVE  \E i \in Oldest(job[p].items) :
           /\ i \in Found(Len(log)) /\ job[p].items \in SUBSET Found(Len(log)) /\ ~i.routine
           /\ job[p].do = "translate"
           /\ [by |-> "event", of |-> i.n, status |-> log[i.n]] \in Notices
           /\ feed' = Accepted(i.w, [by |-> "event", of |-> i.n, status |-> log[i.n]])
           /\ job' \in [Procs -> Jobs(Len(log))] /\ Elsewhere(p)
           /\ job'[p] = [do |-> "advance", items |-> job[p].items, told |-> i]
           /\ UNCHANGED <<log, sources, cursor, due, calls, ends, moved, since>>
<1>1. /\ Len(log) \in Nat /\ Len(log) <= Len(log) /\ job[p] \in Jobs(Len(log))
      /\ Len(log) <= MaxEvents /\ \A n \in 1 .. Len(log) : log[n] \in Statuses \cup {"queued"}
  BY DEF TypeInv, StoreTyped
<1>2. job[p] \in Translations(Len(log))
  BY <1>1, JobFields DEF Queue
<1>3. job[p].items \in SUBSET Found(Len(log))
  BY <1>2 DEF Translations
<1>4. PICK i \in Oldest(job[p].items) :
        /\ ~i.routine
        /\ feed' = Accepted(i.w, [by |-> "event", of |-> i.n, status |-> log[i.n]])
        /\ Goto(p, [do |-> "advance", items |-> job[p].items, told |-> i])
  BY DEF Queue
<1>5. i \in Found(Len(log))
  BY <1>3, <1>4 DEF Oldest
<1>6. i.n \in 1 .. Len(log)
  BY <1>5 DEF Found
<1>7. [by |-> "event", of |-> i.n, status |-> log[i.n]] \in Notices
  BY <1>1, <1>6, WatchAssumption DEF Notices
<1>8. [do |-> "advance", items |-> job[p].items, told |-> i] \in Jobs(Len(log))
  BY <1>3, <1>5 DEF Jobs, Advances
<1>9. /\ job' \in [Procs -> Jobs(Len(log))] /\ Elsewhere(p)
      /\ job'[p] = [do |-> "advance", items |-> job[p].items, told |-> i]
  BY <1>1, <1>4, <1>8, JobStep
<1> QED BY <1>3, <1>4, <1>5, <1>7, <1>9 DEF Queue

LEMMA AdvanceDoes ==
  ASSUME TypeInv, NEW p \in Procs, Advance(p)
  PROVE  /\ job[p].items \in SUBSET Found(Len(log)) /\ job[p].told \in Found(Len(log))
         /\ job[p].do = "advance" /\ cursor' = Advanced(job[p].told.w, job[p].told.n)
         /\ job' \in [Procs -> Jobs(Len(log))] /\ Elsewhere(p)
         /\ job'[p] = Translating(job[p].items \ {job[p].told})
         /\ UNCHANGED <<log, sources, feed, due, calls, ends, moved, since>>
<1>1. Len(log) \in Nat /\ Len(log) <= Len(log) /\ job[p] \in Jobs(Len(log))
  BY DEF TypeInv, StoreTyped
<1>2. job[p] \in Advances(Len(log))
  BY <1>1, JobFields DEF Advance
<1>3. job[p].items \in SUBSET Found(Len(log)) /\ job[p].told \in Found(Len(log))
  BY <1>2 DEF Advances
<1>4. job[p].items \ {job[p].told} \in SUBSET Found(Len(log))
  BY <1>3
<1>5. Goto(p, Translating(job[p].items \ {job[p].told}))
  BY DEF Advance
<1>6. /\ job' \in [Procs -> Jobs(Len(log))] /\ Elsewhere(p)
      /\ job'[p] = Translating(job[p].items \ {job[p].told})
  BY <1>1, <1>4, <1>5, RestTyped, JobStep
<1> QED BY <1>3, <1>6 DEF Advance

(* The other series go from stage to stage. *)
LEMMA NextStage ==
  ASSUME TypeInv, NEW p \in Procs, NEW do \in {"snapshot", "head", "adopt", "introduce", "settle"},
         Goto(p, [job[p] EXCEPT !.do = do]),
         \/ job[p].do \in {"attach", "snapshot"} /\ do \in {"snapshot", "head"}
         \/ /\ job[p].do \in {"detach", "adopt", "introduce"} /\ job[p].w # None
            /\ do \in {"adopt", "introduce", "settle"}
  PROVE  /\ job' \in [Procs -> Jobs(Len(log))] /\ Elsewhere(p) /\ job'[p].do = do
         /\ job'[p].w = job[p].w
<1>1. Len(log) \in Nat /\ Len(log) <= Len(log) /\ job[p] \in Jobs(Len(log))
  BY DEF TypeInv, StoreTyped
<1>2. CASE job[p] \in Subscriptions(Len(log)) /\ do \in {"snapshot", "head"}
  <2>1. /\ [job[p] EXCEPT !.do = do] \in Subscriptions(Len(log))
        /\ [job[p] EXCEPT !.do = do].do = do /\ [job[p] EXCEPT !.do = do].w = job[p].w
    BY <1>2 DEF Subscriptions
  <2>2. [job[p] EXCEPT !.do = do] \in Jobs(Len(log))
    BY <2>1 DEF Jobs
  <2> QED BY <1>1, <2>1, <2>2, JobStep
<1>3. CASE job[p] \in Adoptions(Len(log)) /\ do \in {"adopt", "introduce", "settle"}
  <2>1. /\ [job[p] EXCEPT !.do = do] \in Adoptions(Len(log))
        /\ [job[p] EXCEPT !.do = do].do = do /\ [job[p] EXCEPT !.do = do].w = job[p].w
    BY <1>3 DEF Adoptions
  <2>2. [job[p] EXCEPT !.do = do] \in Jobs(Len(log))
    BY <2>1 DEF Jobs
  <2> QED BY <1>1, <2>1, <2>2, JobStep
<1>4. CASE job[p] \in Moves(Len(log)) /\ job[p].w # None /\ do \in {"adopt", "introduce", "settle"}
  <2>1. /\ [job[p] EXCEPT !.do = do] \in Adoptions(Len(log))
        /\ [job[p] EXCEPT !.do = do].do = do /\ [job[p] EXCEPT !.do = do].w = job[p].w
    BY <1>4 DEF Adoptions, Moves
  <2>2. [job[p] EXCEPT !.do = do] \in Jobs(Len(log))
    BY <2>1 DEF Jobs
  <2> QED BY <1>1, <2>1, <2>2, JobStep
<1> QED BY <1>1, <1>2, <1>3, <1>4, JobFields

LEMMA ToIdle ==
  ASSUME TypeInv, NEW p \in Procs, Goto(p, Idle)
  PROVE  job' \in [Procs -> Jobs(Len(log))] /\ Elsewhere(p) /\ job'[p] = Idle /\ Idle.do = "idle"
<1>1. Len(log) \in Nat /\ Len(log) <= Len(log) /\ Idle \in Jobs(Len(log)) /\ Idle.do = "idle"
  BY DEF TypeInv, StoreTyped, Jobs, Idle
<1> QED BY <1>1, JobStep

-----------------------------------------------------------------------------
Prefix == Len(log) <= Len(log') /\ \A n \in DOMAIN log : n \in DOMAIN log' /\ log'[n] = log[n]
Standstill == \A w \in Watchers \ moved' : sources'[w] = sources[w] /\ since'[w] = since[w]

Grows == feed' = feed \/ \E w \in Watchers, x \in Notices : feed' = Accepted(w, x)

(* What every step does that is not one of a translation. *)
Effect(p) ==
  /\ TypeInv' /\ Prefix /\ Standstill /\ moved \subseteq moved' /\ Elsewhere(p)
  /\ \A w \in Watchers \ moved' : feed'[w] = feed[w] /\ cursor'[w] = cursor[w]
  /\ Grows
  /\ job'[p].do \notin {"translate", "advance"}
  /\ job'[p].do \in {"snapshot", "head", "detach", "adopt", "introduce", "settle"} =>
       job'[p].w \in moved' \cup {None}
  /\ job'[p].do = "detach" => job'[p].old \in moved' \cup {None}

LEMMA TransitionDoes ==
  ASSUME TypeInv, NEW p \in Procs, NEW status \in Statuses, Transition(p, status)
  PROVE  Effect(p)
<1>1. /\ Len(log) \in Nat /\ log \in Seq(Statuses \cup {"queued"}) /\ DOMAIN log = 1 .. Len(log)
      /\ Len(log) < MaxEvents /\ log' = Append(log, status) /\ job[p] = Idle /\ MaxEvents \in Nat
      /\ Len(log) >= 1
  BY WatchAssumption DEF TypeInv, StoreTyped, Transition
<1>2. /\ log' \in Seq(Statuses \cup {"queued"}) /\ Len(log') = Len(log) + 1
      /\ \A n \in DOMAIN log : log'[n] = log[n]
      /\ DOMAIN log' = 1 .. Len(log')
  BY <1>1
<1>3. job' \in [Procs -> Jobs(Len(log'))]
  BY <1>1, <1>2, JobsGrow DEF Transition, TypeInv
<1>4. /\ cursor \in [Watchers -> (0 .. Len(log')) \cup {None}] /\ since \in [Watchers -> 1 .. Len(log')]
  BY <1>1, <1>2 DEF TypeInv, StoreTyped
<1>5. due' \in [Procs -> SUBSET Watchers]
  BY DEF Transition, Wake, TypeInv, StoreTyped, Recipients
<1>6. StoreTyped'
  BY <1>1, <1>2, <1>4, <1>5 DEF StoreTyped, Transition, TypeInv
<1>7. TypeInv'
  BY <1>3, <1>6 DEF TypeInv, Transition
<1>8. job'[p].do = "idle"
  BY <1>1 DEF Transition, Idle
<1>9. Prefix
  BY <1>1, <1>2 DEF Prefix
<1> QED BY <1>7, <1>8, <1>9 DEF Effect, Grows, Transition, Standstill, Elsewhere

LEMMA SubscribeDoes ==
  ASSUME TypeInv, NEW p \in Procs, NEW w \in Watchers, Subscribe(p, w)
  PROVE  Effect(p)
<1>1. /\ Len(log) \in Nat /\ Len(log) >= 1 /\ Len(log) <= Len(log) /\ log[Len(log)] \in Marks
      /\ DOMAIN log = 1 .. Len(log)
  BY DEF TypeInv, StoreTyped, Marks
<1> DEFINE x == [by |-> "snapshot", of |-> Len(log), status |-> Present]
           j == [do |-> "attach", w |-> w, notice |-> x]
<1>2. x \in Heard(Len(log))
  BY <1>1 DEF Heard, Present
<1>3. j \in Jobs(Len(log)) /\ j.do = "attach"
  <2> HIDE DEF x
  <2> QED BY <1>2 DEF Jobs, Subscriptions
<1>4. Goto(p, j)
  BY DEF Subscribe
<1> HIDE DEF j
<1>5. job' \in [Procs -> Jobs(Len(log))] /\ job'[p] = j /\ Elsewhere(p)
  BY <1>1, <1>3, <1>4, JobStep
<1>6. UNCHANGED <<log, sources, cursor, feed, due, ends, moved, since>>
  BY DEF Subscribe, store
<1>7. TypeInv'
  BY <1>5, <1>6 DEF TypeInv, StoreTyped
<1> QED BY <1>1, <1>3, <1>5, <1>6, <1>7 DEF Effect, Grows, Prefix, Standstill

LEMMA AttachTyped ==
  ASSUME TypeInv, NEW w \in Watchers, NEW source \in Sources, Attach(w, source), log' = log
  PROVE  /\ sources' \in [Watchers -> SUBSET Sources]
         /\ cursor' \in [Watchers -> (0 .. Len(log)) \cup {None}]
         /\ since' \in [Watchers -> 1 .. Len(log)]
         /\ moved' \subseteq Watchers /\ moved \subseteq moved' /\ w \in moved'
         /\ \A v \in Watchers : v # w => sources'[v] = sources[v] /\ since'[v] = since[v] /\ cursor'[v] = cursor[v]
<1>1. Len(log) \in Nat /\ Len(log) >= 1 /\ Len(log) \in 0 .. Len(log) /\ Len(log) \in 1 .. Len(log)
  BY DEF TypeInv, StoreTyped
<1>2. sources' = [sources EXCEPT ![w] = @ \cup {source}] /\ moved' = moved \cup {w}
  BY DEF Attach
<1>3. cursor' = cursor \/ cursor' = Advanced(w, Len(log))
  BY DEF Attach
<1>4. /\ cursor' \in [Watchers -> (0 .. Len(log)) \cup {None}]
      /\ \A v \in Watchers : v # w => cursor'[v] = cursor[v]
  <2>1. CASE cursor' = cursor
    BY <2>1 DEF TypeInv, StoreTyped
  <2> QED BY <1>1, <1>3, <2>1, AdvancedTyped
<1>5. \E n \in 1 .. Len(log) : since' = [since EXCEPT ![w] = n]
  BY <1>1 DEF Attach, TypeInv, StoreTyped
<1>6. /\ since' \in [Watchers -> 1 .. Len(log)]
      /\ \A v \in Watchers : v # w => since'[v] = since[v]
  BY <1>5 DEF TypeInv, StoreTyped
<1>7. sources' \in [Watchers -> SUBSET Sources] /\ \A v \in Watchers : v # w => sources'[v] = sources[v]
  BY <1>2 DEF TypeInv, StoreTyped
<1> QED BY <1>2, <1>4, <1>6, <1>7 DEF TypeInv

LEMMA AttachDoes ==
  ASSUME TypeInv, NEW p \in Procs, AttachManual(p) \/ AttachParent(p)
  PROVE  Effect(p)
<1>1. /\ Len(log) \in Nat /\ Len(log) <= Len(log) /\ job[p] \in Jobs(Len(log))
      /\ DOMAIN log = 1 .. Len(log)
  BY DEF TypeInv, StoreTyped
<1>2. /\ job[p].w \in Watchers
      /\ Attach(job[p].w, "watch:manual") \/ Attach(job[p].w, "watch:parent")
      /\ UNCHANGED <<log, feed, due, calls, ends>>
  <2>1. CASE AttachManual(p)
    <3>1. job[p] \in Subscriptions(Len(log))
      BY <1>1, <2>1, JobFields DEF AttachManual
    <3> QED BY <2>1, <3>1 DEF AttachManual, Subscriptions
  <2>2. CASE AttachParent(p)
    <3>1. job[p] \in Adoptions(Len(log))
      BY <1>1, <2>2, JobFields DEF AttachParent
    <3> QED BY <2>2, <3>1 DEF AttachParent, Adoptions
  <2> QED BY <2>1, <2>2
<1>3. /\ job' \in [Procs -> Jobs(Len(log))] /\ Elsewhere(p)
      /\ job'[p].do \in {"snapshot", "introduce"} /\ job'[p].w = job[p].w
  BY <1>2, WatchAssumption, NextStage DEF AttachManual, AttachParent
<1>4. /\ sources' \in [Watchers -> SUBSET Sources]
      /\ cursor' \in [Watchers -> (0 .. Len(log)) \cup {None}]
      /\ since' \in [Watchers -> 1 .. Len(log)]
      /\ moved' \subseteq Watchers /\ moved \subseteq moved' /\ job[p].w \in moved'
      /\ \A v \in Watchers : v # job[p].w =>
           sources'[v] = sources[v] /\ since'[v] = since[v] /\ cursor'[v] = cursor[v]
  BY <1>2, AttachTyped DEF Sources
<1>5. TypeInv'
  BY <1>2, <1>3, <1>4 DEF TypeInv, StoreTyped
<1> QED BY <1>1, <1>2, <1>3, <1>4, <1>5 DEF Effect, Grows, Prefix, Standstill

LEMMA TellDoes ==
  ASSUME TypeInv, Owned, NEW p \in Procs, Snapshot(p) \/ Introduce(p)
  PROVE  Effect(p)
<1>1. /\ Len(log) \in Nat /\ Len(log) <= Len(log) /\ job[p] \in Jobs(Len(log))
      /\ DOMAIN log = 1 .. Len(log) /\ Len(log) \in 1 .. MaxEvents
  BY DEF TypeInv, StoreTyped
<1>2. job[p] \in Subscriptions(Len(log)) \cup Adoptions(Len(log))
  BY <1>1, JobFields DEF Snapshot, Introduce
<1>3. job[p].w \in Watchers /\ job[p].notice \in Heard(Len(log))
  BY <1>2 DEF Subscriptions, Adoptions
<1>4. job[p].notice \in Notices /\ job[p].w \in moved
  <2>1. \A n \in 1 .. Len(log) : n \in 1 .. MaxEvents
    BY <1>1, WatchAssumption
  <2>2. job[p].notice \in Notices
    BY <1>3, <2>1 DEF Heard, Notices, Marks
  <2> QED BY <1>3, <2>2, WatchAssumption DEF Owned, Snapshot, Introduce
<1>5. feed' = Accepted(job[p].w, job[p].notice) /\ UNCHANGED <<log, sources, cursor, due, calls, ends, moved, since>>
  BY DEF Snapshot, Introduce
<1>6. /\ feed' \in [Watchers -> Seq(Notices)]
      /\ \A v \in Watchers : v # job[p].w => feed'[v] = feed[v]
  BY <1>3, <1>4, <1>5, AcceptedTyped
<1>7. /\ job' \in [Procs -> Jobs(Len(log))] /\ Elsewhere(p)
      /\ job'[p].do \in {"head", "settle"} /\ job'[p].w = job[p].w
  BY <1>3, WatchAssumption, NextStage DEF Snapshot, Introduce
<1>8. TypeInv'
  BY <1>5, <1>6, <1>7 DEF TypeInv, StoreTyped
<1> QED BY <1>1, <1>3, <1>4, <1>5, <1>6, <1>7, <1>8 DEF Effect, Grows, Prefix, Standstill

LEMMA FollowDoes ==
  ASSUME TypeInv, Owned, NEW p \in Procs, FollowFromHead(p) \/ Settle(p)
  PROVE  Effect(p)
<1>1. /\ Len(log) \in Nat /\ Len(log) <= Len(log) /\ job[p] \in Jobs(Len(log))
      /\ DOMAIN log = 1 .. Len(log) /\ Len(log) \in 0 .. Len(log)
  BY DEF TypeInv, StoreTyped
<1>2. job[p] \in Subscriptions(Len(log)) \cup Adoptions(Len(log))
  BY <1>1, JobFields DEF FollowFromHead, Settle
<1>3. job[p].w \in Watchers /\ job[p].notice \in Heard(Len(log))
  BY <1>2 DEF Subscriptions, Adoptions
<1>4. job[p].notice.of \in 0 .. Len(log) /\ job[p].w \in moved
  BY <1>1, <1>3, WatchAssumption DEF Heard, Owned, FollowFromHead, Settle
<1>5. UNCHANGED <<log, sources, feed, calls, ends, moved, since>> /\ Goto(p, Idle)
  BY DEF FollowFromHead, Settle
<1>6. cursor' = Advanced(job[p].w, Len(log)) \/ cursor' = Advanced(job[p].w, job[p].notice.of)
  BY DEF FollowFromHead, Settle
<1>7. /\ cursor' \in [Watchers -> (0 .. Len(log)) \cup {None}]
      /\ \A v \in Watchers : v # job[p].w => cursor'[v] = cursor[v]
  BY <1>1, <1>3, <1>4, <1>5, <1>6, AdvancedTyped
<1>8. /\ job' \in [Procs -> Jobs(Len(log))] /\ Elsewhere(p) /\ job'[p].do = "idle"
  BY <1>5, ToIdle
<1>9. due' \in [Procs -> SUBSET Watchers]
  <2>1. due \in [Procs -> SUBSET Watchers]
    BY DEF TypeInv, StoreTyped
  <2>2. due' = [due EXCEPT ![p] = @ \cup {job[p].w}] \/ due' = due
    BY DEF FollowFromHead, Wake, Settle
  <2> QED BY <1>3, <2>1, <2>2
<1>10. TypeInv'
  BY <1>5, <1>7, <1>8, <1>9 DEF TypeInv, StoreTyped
<1> QED BY <1>1, <1>4, <1>5, <1>7, <1>8, <1>10 DEF Effect, Grows, Prefix, Standstill

LEMMA CancelDoes ==
  ASSUME TypeInv, NEW p \in Procs, NEW w \in Watchers, Cancel(p, w)
  PROVE  Effect(p)
<1>1. Len(log) \in Nat /\ DOMAIN log = 1 .. Len(log)
  BY DEF TypeInv, StoreTyped
<1>2. /\ UNCHANGED <<log, cursor, feed, due, job, ends, since>> /\ job[p] = Idle
      /\ sources' = [sources EXCEPT ![w] = @ \ {"watch:manual"}] /\ moved' = moved \cup {w}
  BY DEF Cancel
<1>3. /\ sources' \in [Watchers -> SUBSET Sources]
      /\ \A v \in Watchers : v # w => sources'[v] = sources[v]
  BY <1>2 DEF TypeInv, StoreTyped
<1>4. TypeInv'
  BY <1>2, <1>3 DEF TypeInv, StoreTyped
<1>5. job'[p].do = "idle"
  BY <1>2 DEF Idle
<1> QED BY <1>1, <1>2, <1>3, <1>4, <1>5 DEF Effect, Grows, Prefix, Standstill, Elsewhere

LEMMA EndDoes ==
  ASSUME TypeInv, NEW p \in Procs, End(p) \/ Throws(p)
  PROVE  Effect(p)
<1>1. Len(log) \in Nat /\ DOMAIN log = 1 .. Len(log)
  BY DEF TypeInv, StoreTyped
<1>2. UNCHANGED <<log, sources, cursor, feed, calls, moved, since>> /\ Goto(p, Idle)
  BY DEF End, Throws, store
<1>3. job' \in [Procs -> Jobs(Len(log))] /\ Elsewhere(p) /\ job'[p].do = "idle"
  BY <1>2, ToIdle
<1>4. due' \in [Procs -> SUBSET Watchers]
  BY DEF End, Throws, TypeInv, StoreTyped
<1>5. TypeInv'
  BY <1>2, <1>3, <1>4 DEF TypeInv, StoreTyped
<1> QED BY <1>1, <1>2, <1>3, <1>5 DEF Effect, Grows, Prefix, Standstill

LEMMA ReparentDoes ==
  ASSUME TypeInv, NEW p \in Procs, NEW new \in Watchers \cup {None}, Reparent(p, new)
  PROVE  Effect(p)
<1> DEFINE old == ParentOf(sources)
           n == Len(log) + 1
           x == [by |-> "reparent", of |-> n, status |-> Present]
           j == [do |-> "detach", old |-> old, w |-> new, notice |-> x]
<1>1. /\ Len(log) \in Nat /\ log \in Seq(Marks) /\ DOMAIN log = 1 .. Len(log) /\ Present \in Marks
      /\ Len(log) < MaxEvents /\ log' = Append(log, Present) /\ MaxEvents \in Nat /\ Len(log) >= 1
  BY WatchAssumption DEF TypeInv, StoreTyped, Reparent, Marks, Present
<1>2. /\ log' \in Seq(Marks) /\ Len(log') = n /\ n \in Nat /\ Len(log) <= n
      /\ \A k \in DOMAIN log : log'[k] = log[k]
      /\ DOMAIN log' = 1 .. n
  BY <1>1
<1>3. x \in Heard(n)
  BY <1>1, <1>2 DEF Heard
<1>4. old \in Watchers \cup {None}
  BY ParentTyped
<1>5. j \in Jobs(n) /\ j.do = "detach" /\ j.old = old /\ j.w = new
  <2> HIDE DEF x, old, n
  <2> QED BY <1>3, <1>4 DEF Jobs, Moves
<1>6. Goto(p, j)
  BY DEF Reparent
<1>7. /\ moved' = moved \cup ({old, new} \ {None})
      /\ due' = [due EXCEPT ![p] = @ \cup Recipients(sources')]
      /\ UNCHANGED <<cursor, feed, ends>>
      /\ sources' = [w \in Watchers |-> IF w = old THEN sources[w] \ {"parent"}
                                 ELSE IF w = new THEN sources[w] \cup {"parent"}
                                 ELSE sources[w]]
      /\ since' = [w \in Watchers |-> IF w = new /\ sources[w] = {} THEN n ELSE since[w]]
  BY DEF Reparent, Wake
<1> HIDE DEF j, x
<1>8. job' \in [Procs -> Jobs(n)] /\ job'[p] = j /\ Elsewhere(p)
  BY <1>2, <1>5, <1>6, JobStep
<1>9. /\ cursor' \in [Watchers -> (0 .. n) \cup {None}]
      /\ since' \in [Watchers -> 1 .. n]
      /\ sources' \in [Watchers -> SUBSET Sources]
      /\ due' \in [Procs -> SUBSET Watchers]
  <2> HIDE DEF old
  <2>1. cursor' \in [Watchers -> (0 .. n) \cup {None}]
    BY <1>1, <1>2, <1>7 DEF TypeInv, StoreTyped
  <2>2. since' \in [Watchers -> 1 .. n]
    BY <1>1, <1>2, <1>7 DEF TypeInv, StoreTyped
  <2>3. sources' \in [Watchers -> SUBSET Sources]
    BY <1>7 DEF TypeInv, StoreTyped, Sources
  <2>4. due' \in [Procs -> SUBSET Watchers]
    BY <1>7 DEF TypeInv, StoreTyped, Recipients
  <2> QED BY <2>1, <2>2, <2>3, <2>4
<1>10. moved' \subseteq Watchers /\ moved \subseteq moved' /\ old \in moved' \cup {None} /\ new \in moved' \cup {None}
  BY <1>4, <1>7 DEF TypeInv
<1>11. TypeInv'
  <2>1. n \in 1 .. MaxEvents
    BY <1>1
  <2>2. log' \in Seq(Statuses \cup {"queued"}) /\ Len(log') \in 1 .. MaxEvents
    BY <1>2, <2>1 DEF Marks
  <2>3. feed' \in [Watchers -> Seq(Notices)]
    BY <1>7 DEF TypeInv, StoreTyped
  <2> HIDE DEF n, old
  <2>4. StoreTyped'
    BY <1>2, <1>9, <2>2, <2>3 DEF StoreTyped
  <2> QED BY <1>2, <1>8, <1>10, <2>4 DEF TypeInv
<1>12. Standstill
  <2> SUFFICES ASSUME NEW w \in Watchers, w \notin moved' PROVE sources'[w] = sources[w] /\ since'[w] = since[w]
    BY DEF Standstill
  <2> HIDE DEF old
  <2>1. w # old /\ w # new
    BY <1>7, WatchAssumption
  <2> QED BY <1>7, <2>1
<1>13. Prefix
  BY <1>1, <1>2 DEF Prefix
<1> QED BY <1>5, <1>7, <1>8, <1>10, <1>11, <1>12, <1>13 DEF Effect, Grows

LEMMA DetachDoes ==
  ASSUME TypeInv, Owned, NEW p \in Procs, DetachFormer(p)
  PROVE  Effect(p)
<1>1. /\ Len(log) \in Nat /\ Len(log) <= Len(log) /\ job[p] \in Jobs(Len(log))
      /\ DOMAIN log = 1 .. Len(log)
  BY DEF TypeInv, StoreTyped
<1>2. job[p] \in Moves(Len(log))
  BY <1>1, JobFields DEF DetachFormer
<1>3. /\ job[p].old \in Watchers \cup {None} /\ job[p].w \in Watchers \cup {None}
      /\ job[p].old \in moved \cup {None} /\ job[p].w \in moved \cup {None}
  BY <1>2 DEF Moves, Owned, DetachFormer
<1>4. UNCHANGED <<log, cursor, feed, due, calls, ends, moved, since>>
  BY DEF DetachFormer
<1>5. /\ sources' \in [Watchers -> SUBSET Sources]
      /\ \A v \in Watchers : v # job[p].old => sources'[v] = sources[v]
  BY <1>3 DEF DetachFormer, TypeInv, StoreTyped
<1>6. /\ job' \in [Procs -> Jobs(Len(log))] /\ Elsewhere(p)
      /\ job'[p].do \in {"idle", "adopt"}
      /\ job'[p].do = "adopt" => job'[p].w = job[p].w
  <2>1. CASE job[p].w = None
    <3>1. Goto(p, Idle)
      BY <2>1 DEF DetachFormer
    <3> QED BY <3>1, ToIdle
  <2>2. CASE job[p].w # None
    <3>1. Goto(p, [job[p] EXCEPT !.do = "adopt"])
      BY <2>2 DEF DetachFormer
    <3> QED BY <2>2, <3>1, NextStage DEF DetachFormer
  <2> QED BY <2>1, <2>2
<1>7. TypeInv'
  BY <1>4, <1>5, <1>6 DEF TypeInv, StoreTyped
<1>8. \A w \in Watchers \ moved' : sources'[w] = sources[w]
  BY <1>3, <1>4, <1>5, WatchAssumption
<1> QED BY <1>1, <1>3, <1>4, <1>6, <1>7, <1>8 DEF Effect, Grows, Prefix, Standstill

(* What a translation starts with. *)
LEMMA ReconcileDoes ==
  ASSUME TypeInv, NEW p \in Procs, Reconcile(p)
  PROVE  \E W \in SUBSET due[p] :
           /\ job' \in [Procs -> Jobs(Len(log))] /\ Elsewhere(p)
           /\ Unread(W) \in SUBSET Found(Len(log))
           /\ job'[p] = Translating(Unread(W))
           /\ due' \in [Procs -> SUBSET Watchers]
           /\ UNCHANGED <<log, sources, cursor, feed, calls, ends, moved, since>>
           /\ IF W = due[p] THEN UNCHANGED thrown ELSE Fault(due[p] \ W)
<1>1. due[p] \in SUBSET Watchers /\ due' \in [Procs -> SUBSET Watchers] /\ Len(log) \in Nat /\ Len(log) <= Len(log)
  BY DEF TypeInv, StoreTyped, Reconcile
<1>2. UNCHANGED <<log, sources, cursor, feed, calls, ends, moved, since>>
  BY DEF Reconcile, store
<1>3. PICK W \in SUBSET due[p] :
        /\ Goto(p, Translating(Unread(W)))
        /\ IF W = due[p] THEN UNCHANGED thrown ELSE Fault(due[p] \ W)
  BY DEF Reconcile
<1>4. Unread(W) \in SUBSET Found(Len(log)) /\ Translating(Unread(W)) \in Jobs(Len(log))
  BY ItemsTyped
<1>5. job' \in [Procs -> Jobs(Len(log))] /\ job'[p] = Translating(Unread(W)) /\ Elsewhere(p)
  BY <1>1, <1>3, <1>4, JobStep
<1> QED BY <1>1, <1>2, <1>3, <1>4, <1>5

-----------------------------------------------------------------------------
(* What stays true of a watcher whose relation stands. *)
Calm == TypeInv' /\ Prefix /\ Standstill /\ Grows /\ moved \subseteq moved'

LEMMA FeedKept ==
  ASSUME TypeInv, Grows, NEW w \in Watchers
  PROVE  /\ \A i \in DOMAIN feed[w] : i \in DOMAIN feed'[w] /\ feed'[w][i] = feed[w][i]
         /\ \A n : Tells(w, n) # {} => Tells(w, n)' # {}
<1>1. feed[w] \in Seq(Notices)
  BY DEF TypeInv, StoreTyped
<1>2. \A i \in DOMAIN feed[w] : i \in DOMAIN feed'[w] /\ feed'[w][i] = feed[w][i]
  <2>1. CASE feed' = feed
    BY <2>1
  <2>2. ASSUME NEW v \in Watchers, NEW x \in Notices, feed' = Accepted(v, x)
        PROVE  \A i \in DOMAIN feed[w] : i \in DOMAIN feed'[w] /\ feed'[w][i] = feed[w][i]
    <3>1. feed'[w] = feed[w] \/ feed'[w] = Append(feed[w], x)
      BY <2>2, AcceptedTyped
    <3> QED BY <1>1, <3>1
  <2> QED BY <2>1, <2>2 DEF Grows
<1> QED BY <1>2 DEF Tells

LEMMA OnceStep ==
  ASSUME TypeInv, Once, Grows
  PROVE  Once'
<1>1. CASE feed' = feed
  BY <1>1 DEF Once
<1>2. ASSUME NEW v \in Watchers, NEW x \in Notices, feed' = Accepted(v, x) PROVE Once'
  <2> SUFFICES ASSUME NEW w \in Watchers, NEW i \in DOMAIN feed'[w], NEW j \in DOMAIN feed'[w],
                      feed'[w][i].by = "event", feed'[w][j].by = "event",
                      feed'[w][i].of = feed'[w][j].of
               PROVE  i = j
    BY DEF Once
  <2>1. CASE feed'[w] = feed[w]
    BY <2>1 DEF Once
  <2>2. CASE feed'[w] # feed[w]
    <3>1. /\ feed[w] \in Seq(Notices) /\ w = v /\ feed'[w] = Append(feed[w], x)
          /\ \A k \in DOMAIN feed[w] : ~SameKey(feed[w][k], x)
      BY <1>2, <2>2, AcceptedTyped DEF TypeInv, StoreTyped
    <3>2. /\ Len(feed'[w]) = Len(feed[w]) + 1 /\ Len(feed[w]) \in Nat
          /\ DOMAIN feed[w] = 1 .. Len(feed[w]) /\ DOMAIN feed'[w] = 1 .. Len(feed[w]) + 1
          /\ \A k \in DOMAIN feed[w] : feed'[w][k] = feed[w][k]
          /\ feed'[w][Len(feed[w]) + 1] = x
      BY <3>1
    <3>3. \A k \in DOMAIN feed[w] :
            ~(feed'[w][k].by = "event" /\ x.by = "event" /\ feed'[w][k].of = x.of)
      BY <3>1, <3>2 DEF SameKey
    <3>4. CASE i \in DOMAIN feed[w] /\ j \in DOMAIN feed[w]
      BY <3>2, <3>4 DEF Once
    <3> QED BY <3>2, <3>3, <3>4
  <2> QED BY <2>1, <2>2
<1> QED BY <1>1, <1>2 DEF Grows

LEMMA CoveredKept ==
  ASSUME TypeInv, Calm, NEW w \in Watchers, w \notin moved', NEW n \in DOMAIN log
  PROVE  /\ Routine(sources[w], n)' = Routine(sources[w], n)
         /\ Covered(w, n) => Covered(w, n)'
<1>1. sources'[w] = sources[w] /\ log'[n] = log[n] /\ Len(log) \in Nat /\ DOMAIN log = 1 .. Len(log)
  BY DEF Calm, Standstill, Prefix, TypeInv, StoreTyped
<1>2. n = 1 \/ log'[n - 1] = log[n - 1]
  BY <1>1 DEF Calm, Prefix
<1>3. Routine(sources[w], n)' = Routine(sources[w], n)
  BY <1>1, <1>2 DEF Routine
<1>4. Tells(w, n) # {} => Tells(w, n)' # {}
  BY FeedKept DEF Calm
<1> QED BY <1>3, <1>4 DEF Covered

LEMMA BehindKept ==
  ASSUME TypeInv, Calm, NEW items \in SUBSET Found(Len(log)), NEW i \in items,
         i.w \notin moved', Behind(items, i)
  PROVE  Behind(items, i)'
<1>1. /\ i.w \in Watchers /\ i.n \in DOMAIN log /\ Len(log) \in Nat /\ DOMAIN log = 1 .. Len(log)
      /\ Len(log') \in Nat /\ DOMAIN log' = 1 .. Len(log') /\ Len(log) <= Len(log')
  BY DEF Found, TypeInv, StoreTyped, Calm, Prefix
<1>2. since'[i.w] = since[i.w] /\ Routine(sources[i.w], i.n)' = Routine(sources[i.w], i.n)
  BY <1>1, CoveredKept DEF Calm, Standstill
<1>3. ASSUME NEW n \in DOMAIN log', since'[i.w] < n, n < i.n
      PROVE  Covered(i.w, n)' \/ Listed(items, i.w, n)
  <2>1. n \in DOMAIN log
    BY <1>1, <1>3
  <2>2. Covered(i.w, n) \/ Listed(items, i.w, n)
    BY <1>2, <1>3, <2>1 DEF Behind
  <2> QED BY <1>1, <2>1, <2>2, CoveredKept
<1> QED BY <1>2, <1>3 DEF Behind, Listed

LEMMA HandKept ==
  ASSUME TypeInv, InHand, Calm, NEW q \in Procs, job'[q] = job[q]
  PROVE  HandOf(q)'
<1>1. job[q] \in Jobs(Len(log)) /\ Len(log) \in Nat /\ HandOf(q)
  BY DEF TypeInv, StoreTyped, InHand
<1>2. /\ job[q].do \in {"translate", "advance"} => job[q].items \in SUBSET Found(Len(log))
      /\ job[q].do = "advance" => job[q].told \in Found(Len(log))
  BY <1>1, JobFields DEF Translations, Advances
<1>3. ASSUME job[q].do \in {"translate", "advance"}, NEW i \in job[q].items, i.w \notin moved'
      PROVE  Behind(job[q].items, i)'
  <2>1. Behind(job[q].items, i)
    BY <1>1, <1>3 DEF HandOf, Calm
  <2> DEFINE items == job[q].items
  <2>2. Behind(items, i) /\ items \in SUBSET Found(Len(log)) /\ i \in items /\ items' = items
    BY <1>2, <1>3, <2>1
  <2>3. since'[i.w] = since[i.w]
    BY <1>2, <1>3 DEF Calm, Standstill, Found
  <2> QED
    <3>1. ASSUME NEW its \in SUBSET Found(Len(log)), i \in its, Behind(its, i) PROVE Behind(its, i)'
      BY <1>3, <3>1, BehindKept
    <3>2. PICK its \in SUBSET Found(Len(log)) : its = job[q].items
      BY <2>2
    <3>3. Behind(its, i)'
      BY <2>2, <3>1, <3>2
    <3> QED BY <3>2, <3>3
<1>4. ASSUME job[q].do = "advance", job[q].told.w \notin moved',
             NEW n \in DOMAIN log', since'[job[q].told.w] < n, n <= job[q].told.n
      PROVE  Covered(job[q].told.w, n)'
  <2>1. PICK w \in Watchers : w = job[q].told.w
    BY <1>2, <1>4 DEF Found
  <2>2. n \in DOMAIN log
    BY <1>1, <1>2, <1>4 DEF Found, Calm, TypeInv, StoreTyped
  <2>3. since'[w] = since[w] /\ w \notin moved
    BY <1>4, <2>1 DEF Calm, Standstill
  <2>4. Covered(w, n)
    BY <1>1, <1>4, <2>1, <2>2, <2>3 DEF HandOf
  <2>5. Covered(w, n)'
    BY <1>4, <2>1, <2>2, <2>4, CoveredKept
  <2> QED BY <2>1, <2>5
<1>5. job[q].do = "advance" => job[q].told \in job[q].items
  BY <1>1 DEF HandOf
<1> QED BY <1>3, <1>4, <1>5 DEF HandOf

(* Every step that is not one of a translation. *)
LEMMA EffectKeeps ==
  ASSUME IInv, NEW p \in Procs, Effect(p)
  PROVE  IInv'
<1>1. TypeInv /\ Calm /\ Len(log) \in Nat /\ DOMAIN log = 1 .. Len(log)
  BY DEF IInv, Effect, Calm, TypeInv, StoreTyped
<1>2. Owned'
  <2> SUFFICES ASSUME NEW q \in Procs
               PROVE  /\ job'[q].do \in {"snapshot", "head", "detach", "adopt", "introduce", "settle"} =>
                           job'[q].w \in moved' \cup {None}
                      /\ job'[q].do = "detach" => job'[q].old \in moved' \cup {None}
    BY DEF Owned
  <2>1. CASE q = p
    BY <2>1 DEF Effect
  <2>2. CASE q # p
    BY <1>1, <2>2 DEF Effect, Elsewhere, Calm, IInv, Owned
  <2> QED BY <2>1, <2>2
<1>3. Once'
  BY OnceStep DEF IInv, Effect
<1>4. ASSUME NEW w \in Watchers, w \notin moved'
      PROVE  /\ w \notin moved /\ sources'[w] = sources[w] /\ since'[w] = since[w]
             /\ feed'[w] = feed[w] /\ cursor'[w] = cursor[w]
             /\ \A n : Tells(w, n)' = Tells(w, n)
             /\ \A n \in DOMAIN log : Covered(w, n) => Covered(w, n)'
  <2>1. /\ w \notin moved /\ sources'[w] = sources[w] /\ since'[w] = since[w]
        /\ feed'[w] = feed[w] /\ cursor'[w] = cursor[w]
    BY <1>4 DEF Effect, Standstill
  <2>2. \A n : Tells(w, n)' = Tells(w, n)
    BY <2>1 DEF Tells
  <2> QED BY <1>1, <1>4, <2>1, <2>2, CoveredKept
<1>5. Standing'
  <2> SUFFICES ASSUME NEW w \in Watchers, w \notin moved'
               PROVE  /\ sources'[w] # {} => cursor'[w] # None /\ cursor'[w] >= since'[w]
                      /\ \A i \in DOMAIN feed'[w] : feed'[w][i].by = "event" /\ feed'[w][i].of \in DOMAIN log'
                      /\ \A m, n \in DOMAIN log' :
                           since'[w] < n /\ n < m /\ Tells(w, m)' # {} => Covered(w, n)'
    BY DEF Standing
  <2>1. /\ sources[w] # {} => cursor[w] # None /\ cursor[w] >= since[w]
        /\ \A i \in DOMAIN feed[w] : feed[w][i].by = "event" /\ feed[w][i].of \in DOMAIN log
        /\ \A m, n \in DOMAIN log : since[w] < n /\ n < m /\ Tells(w, m) # {} => Covered(w, n)
    BY <1>4 DEF IInv, Standing
  <2>2. \A i \in DOMAIN feed'[w] : feed'[w][i].by = "event" /\ feed'[w][i].of \in DOMAIN log'
    BY <1>1, <1>4, <2>1 DEF Calm, Prefix
  <2>3. ASSUME NEW m \in DOMAIN log', NEW n \in DOMAIN log', since'[w] < n, n < m, Tells(w, m)' # {}
        PROVE  Covered(w, n)'
    <3>1. Tells(w, m) # {}
      BY <1>4, <2>3
    <3>2. m \in DOMAIN log
      BY <2>1, <3>1 DEF Tells
    <3>3. n \in DOMAIN log
      BY <1>1, <2>3, <3>2 DEF Calm, TypeInv, StoreTyped
    <3> QED BY <1>4, <2>1, <2>3, <3>1, <3>2, <3>3
  <2> QED BY <1>4, <2>1, <2>2, <2>3
<1>6. ToldInOrder'
  BY <1>4 DEF IInv, ToldInOrder
<1>7. NothingSkipped'
  <2> SUFFICES ASSUME NEW w \in Watchers, w \notin moved', NEW n \in DOMAIN log',
                      cursor'[w] # None, since'[w] < n, n <= cursor'[w]
               PROVE  Covered(w, n)'
    BY DEF NothingSkipped, Covered
  <2>1. cursor[w] # None /\ since[w] < n /\ n <= cursor[w] /\ cursor[w] \in 0 .. Len(log)
    BY <1>1, <1>4 DEF TypeInv, StoreTyped
  <2>2. n \in DOMAIN log
    BY <1>1, <2>1 DEF Calm, TypeInv, StoreTyped
  <2>3. Covered(w, n)
    BY <1>4, <2>1, <2>2 DEF IInv, NothingSkipped, Covered
  <2> QED BY <1>4, <2>2, <2>3
<1>8. InHand'
  <2> SUFFICES ASSUME NEW q \in Procs PROVE HandOf(q)'
    BY DEF InHand
  <2>1. CASE q = p
    BY <2>1 DEF HandOf, Effect
  <2>2. CASE q # p
    BY <1>1, <2>2, HandKept DEF Effect, Elsewhere, IInv
  <2> QED BY <2>1, <2>2
<1> QED BY <1>1, <1>2, <1>3, <1>5, <1>6, <1>7, <1>8 DEF IInv, Calm

-----------------------------------------------------------------------------
(* The steps of a translation. *)

(* What they have in common. *)
Translates(p) ==
  /\ TypeInv' /\ Grows /\ Elsewhere(p)
  /\ UNCHANGED <<log, sources, calls, ends, moved, since>>
  /\ job'[p] = Idle \/ job'[p].do \in {"translate", "advance"}

LEMMA TranslatesCalmly ==
  ASSUME IInv, NEW p \in Procs, Translates(p)
  PROVE  /\ TypeInv /\ Calm /\ Owned' /\ Once'
         /\ HandOf(p)' => InHand'
<1>1. TypeInv /\ Len(log) \in Nat /\ DOMAIN log = 1 .. Len(log)
  BY DEF IInv, TypeInv, StoreTyped
<1>2. Calm
  BY <1>1 DEF Calm, Translates, Prefix, Standstill
<1>3. Owned'
  BY DEF Owned, Translates, Elsewhere, IInv, Idle
<1>4. Once'
  BY OnceStep DEF IInv, Translates
<1>5. ASSUME HandOf(p)' PROVE InHand'
  BY <1>1, <1>2, <1>5, HandKept DEF InHand, Translates, Elsewhere, IInv
<1> QED BY <1>1, <1>2, <1>3, <1>4, <1>5

LEMMA IdleHand == ASSUME NEW p \in Procs, job'[p] = Idle PROVE HandOf(p)'
BY DEF HandOf, Idle

LEMMA TranslatingHand ==
  ASSUME NEW p \in Procs, NEW items, job'[p] = Translating(items),
         \A i \in items : i.w \notin moved' => Behind(items, i)'
  PROVE  HandOf(p)'
<1>1. CASE items = {}
  BY <1>1, IdleHand DEF Translating
<1>2. CASE items # {}
  <2>1. job'[p].do = "translate" /\ job'[p].items = items
    BY <1>2 DEF Translating
  <2> QED BY <2>1 DEF HandOf
<1> QED BY <1>1, <1>2

LEMMA ReconcileKeeps ==
  ASSUME IInv, NEW p \in Procs, Reconcile(p)
  PROVE  IInv'
<1>0. TypeInv /\ Len(log) \in Nat /\ DOMAIN log = 1 .. Len(log)
  BY DEF IInv, TypeInv, StoreTyped
<1>1. PICK W \in SUBSET due[p] :
           /\ job' \in [Procs -> Jobs(Len(log))] /\ Elsewhere(p)
           /\ Unread(W) \in SUBSET Found(Len(log))
           /\ job'[p] = Translating(Unread(W))
           /\ due' \in [Procs -> SUBSET Watchers]
           /\ UNCHANGED <<log, sources, cursor, feed, calls, ends, moved, since>>
  BY <1>0, ReconcileDoes
<1>2. TypeInv'
  BY <1>0, <1>1 DEF TypeInv, StoreTyped
<1>3. Translates(p)
  BY <1>1, <1>2 DEF Translates, Grows, Translating
<1>4. Calm /\ Owned' /\ Once' /\ (HandOf(p)' => InHand')
  BY <1>3, TranslatesCalmly
<1>5. Standing' /\ ToldInOrder' /\ NothingSkipped'
  BY <1>1 DEF IInv, Standing, ToldInOrder, NothingSkipped, Covered, Tells, Routine
<1>6. ASSUME NEW i \in Unread(W), i.w \notin moved PROVE Behind(Unread(W), i)
  <2>1. PICK w \in Recipients(sources) \cap W, k \in DOMAIN log :
          i = [w |-> w, n |-> k, routine |-> Routine(sources[w], k)]
    BY DEF Unread, Items
  <2>2. i.w = w /\ i.n = k /\ i.routine = Routine(sources[w], k) /\ k > After(w) /\ w \in Watchers
        /\ w \notin moved /\ sources[w] # {}
    BY <1>6, <2>1 DEF Unread, Recipients
  <2>3. cursor[w] # None /\ cursor[w] >= since[w] /\ cursor[w] \in Nat /\ since[w] \in Nat /\ k > cursor[w]
    BY <1>0, <2>2 DEF IInv, Standing, TypeInv, StoreTyped, After
  <2>4. ASSUME NEW n \in DOMAIN log, since[w] < n, n < k
        PROVE  Covered(w, n) \/ Listed(Unread(W), w, n)
    <3>1. CASE n <= cursor[w]
      BY <2>2, <2>3, <2>4, <3>1 DEF IInv, NothingSkipped, Covered
    <3>2. CASE n > cursor[w]
      <4> DEFINE j == [w |-> w, n |-> n, routine |-> Routine(sources[w], n)]
      <4>1. j \in Items(W) /\ j.w = w /\ j.n = n
        BY <2>1 DEF Items
      <4> HIDE DEF j
      <4>2. j \in Unread(W)
        BY <2>3, <3>2, <4>1 DEF Unread, After
      <4> QED BY <4>1, <4>2 DEF Listed
    <3> QED BY <1>0, <2>3, <3>1, <3>2
  <2>5. since[w] < k
    BY <1>0, <2>3
  <2> QED BY <2>2, <2>4, <2>5 DEF Behind
<1>7. ASSUME NEW its, its = Unread(W) PROVE \A i \in its : i.w \notin moved' => Behind(its, i)'
  <2> SUFFICES ASSUME NEW i \in its, i.w \notin moved' PROVE Behind(its, i)'
    OBVIOUS
  <2>1. Behind(its, i) /\ its \in SUBSET Found(Len(log))
    BY <1>1, <1>6, <1>7
  <2> QED BY <1>0, <1>4, <2>1, BehindKept
<1>8. HandOf(p)'
  <2>1. PICK its : its = Unread(W)
    OBVIOUS
  <2>2. job'[p] = Translating(its) /\ \A i \in its : i.w \notin moved' => Behind(its, i)'
    BY <1>1, <1>7, <2>1
  <2> QED BY <2>2, TranslatingHand
<1> QED BY <1>2, <1>4, <1>5, <1>8 DEF IInv

(* A cursor passes an item behind which everything is covered. *)
LEMMA CursorKeeps ==
  ASSUME IInv, NEW p \in Procs, Translates(p), feed' = feed,
         NEW items \in SUBSET Found(Len(log)), NEW i \in items,
         cursor' = Advanced(i.w, i.n), job'[p] = Translating(items \ {i}),
         \A j \in items : j.w \notin moved => Behind(items, j),
         i.w \notin moved => \A n \in DOMAIN log : since[i.w] < n /\ n <= i.n => Covered(i.w, n)
  PROVE  IInv'
<1>1. /\ TypeInv /\ Calm /\ Owned' /\ Once' /\ (HandOf(p)' => InHand')
      /\ Len(log) \in Nat /\ DOMAIN log = 1 .. Len(log)
      /\ UNCHANGED <<log, sources, moved, since>>
  <2>1. TypeInv /\ Calm /\ Owned' /\ Once' /\ (HandOf(p)' => InHand')
    BY TranslatesCalmly
  <2>2. Len(log) \in Nat /\ DOMAIN log = 1 .. Len(log)
    BY <2>1 DEF TypeInv, StoreTyped
  <2>3. UNCHANGED <<log, sources, moved, since>>
    BY DEF Translates
  <2> QED BY <2>1, <2>2, <2>3
<1>2. i.w \in Watchers /\ i.n \in 1 .. Len(log) /\ i.n \in 0 .. Len(log)
  BY DEF Found
<1>3. /\ \A v \in Watchers : v # i.w => cursor'[v] = cursor[v]
      /\ cursor'[i.w] = i.n \/ cursor'[i.w] = cursor[i.w]
      /\ cursor'[i.w] # None /\ cursor[i.w] # None => cursor'[i.w] >= cursor[i.w]
  BY <1>1, <1>2, AdvancedTyped
<1>4. ToldInOrder'
  BY <1>1 DEF IInv, ToldInOrder
<1>5. ASSUME NEW w \in Watchers, NEW n \in DOMAIN log PROVE Covered(w, n)' = Covered(w, n)
  BY <1>1 DEF Covered, Tells, Routine
<1>6. ASSUME NEW w \in Watchers, w \notin moved, sources[w] # {}
      PROVE  cursor'[w] # None /\ cursor'[w] >= since[w]
  <2>1. cursor[w] # None /\ cursor[w] >= since[w] /\ cursor[w] \in Nat /\ since[w] \in Nat
    BY <1>6, WatchAssumption DEF IInv, Standing, TypeInv, StoreTyped
  <2>2. cursor'[w] = cursor[w] \/ (w = i.w /\ cursor'[w] = i.n /\ i.n >= cursor[w] /\ i.n # None)
    BY <1>2, <1>3, <2>1, WatchAssumption
  <2> QED BY <1>2, <2>1, <2>2
<1>7. Standing'
  BY <1>1, <1>5, <1>6 DEF IInv, Standing, Tells
<1>8. NothingSkipped'
  <2> SUFFICES ASSUME NEW w \in Watchers, w \notin moved, NEW n \in DOMAIN log,
                      cursor'[w] # None, since[w] < n, n <= cursor'[w]
               PROVE  Covered(w, n)
    BY <1>1, <1>5 DEF NothingSkipped, Covered
  <2>1. CASE cursor'[w] = cursor[w]
    BY <2>1 DEF IInv, NothingSkipped, Covered
  <2>2. CASE cursor'[w] # cursor[w]
    BY <1>2, <1>3, <2>2
  <2> QED BY <2>1, <2>2
<1>9. ASSUME NEW its, its = items \ {i}, NEW j \in its, j.w \notin moved' PROVE Behind(its, j)'
  <2>1. /\ Behind(items, j) /\ j.w \notin moved /\ its \in SUBSET Found(Len(log))
        /\ j.w \in Watchers /\ j.n \in 1 .. Len(log) /\ since[j.w] < j.n
    BY <1>1, <1>9 DEF Behind, Found
  <2>2. ASSUME NEW n \in DOMAIN log, since[j.w] < n, n < j.n
        PROVE  Covered(j.w, n) \/ Listed(its, j.w, n)
    <3>1. CASE Covered(j.w, n)
      BY <3>1
    <3>2. CASE Listed(items, j.w, n)
      <4>1. PICK k \in items : k.w = j.w /\ k.n = n
        BY <3>2 DEF Listed
      <4>2. CASE k = i
        <5>1. since[i.w] < n /\ n <= i.n /\ i.w = j.w
          BY <1>2, <2>2, <4>1, <4>2
        <5> QED BY <2>1, <5>1
      <4>3. CASE k # i
        BY <1>9, <4>1, <4>3 DEF Listed
      <4> QED BY <4>2, <4>3
    <3> QED BY <2>1, <2>2, <3>1, <3>2 DEF Behind
  <2>3. Behind(its, j)
    BY <2>1, <2>2 DEF Behind
  <2> QED BY <1>1, <1>9, <2>1, <2>3, BehindKept
<1>10. HandOf(p)'
  <2>1. PICK its : its = items \ {i}
    OBVIOUS
  <2>2. job'[p] = Translating(its) /\ \A j \in its : j.w \notin moved' => Behind(its, j)'
    BY <1>9, <2>1
  <2> QED BY <2>2, TranslatingHand
<1> QED BY <1>1, <1>4, <1>7, <1>8, <1>10 DEF IInv, Calm

LEMMA SkipKeeps ==
  ASSUME IInv, NEW p \in Procs, Skip(p)
  PROVE  IInv'
<1>0. TypeInv /\ Len(log) \in Nat /\ DOMAIN log = 1 .. Len(log)
  BY DEF IInv, TypeInv, StoreTyped
<1>1. PICK i \in Oldest(job[p].items) :
           /\ i \in Found(Len(log)) /\ job[p].items \in SUBSET Found(Len(log)) /\ i.routine
           /\ job[p].do = "translate" /\ cursor' = Advanced(i.w, i.n)
           /\ job' \in [Procs -> Jobs(Len(log))] /\ Elsewhere(p)
           /\ job'[p] = Translating(job[p].items \ {i})
           /\ UNCHANGED <<log, sources, feed, due, calls, ends, moved, since>>
  BY <1>0, SkipDoes
<1>2. i.w \in Watchers /\ i.n \in 1 .. Len(log) /\ i.n \in 0 .. Len(log)
  BY <1>1 DEF Found
<1>3. TypeInv'
  <2>1. cursor' \in [Watchers -> (0 .. Len(log)) \cup {None}]
    BY <1>0, <1>1, <1>2, AdvancedTyped
  <2> QED BY <1>0, <1>1, <2>1 DEF TypeInv, StoreTyped
<1>4. Translates(p)
  BY <1>1, <1>3 DEF Translates, Grows, Translating
<1>5. PICK items \in SUBSET Found(Len(log)) : items = job[p].items
  BY <1>1
<1>6. i \in items /\ \A j \in items : i.n <= j.n
  BY <1>1, <1>5 DEF Oldest
<1>7. \A j \in items : j.w \notin moved => Behind(items, j)
  BY <1>1, <1>5 DEF IInv, InHand, HandOf
<1>8. ASSUME i.w \notin moved, NEW n \in DOMAIN log, since[i.w] < n, n <= i.n PROVE Covered(i.w, n)
  <2>1. Behind(items, i)
    BY <1>6, <1>7, <1>8
  <2>2. CASE n = i.n
    BY <1>1, <2>1, <2>2 DEF Behind, Covered
  <2>3. CASE n < i.n
    <3>1. ~Listed(items, i.w, n)
      BY <1>0, <1>2, <1>6, <2>3 DEF Listed
    <3> QED BY <1>8, <2>1, <2>3, <3>1 DEF Behind
  <2> QED BY <1>0, <1>2, <1>8, <2>2, <2>3
<1>9. feed' = feed /\ cursor' = Advanced(i.w, i.n) /\ job'[p] = Translating(items \ {i})
  BY <1>1, <1>5
<1> QED BY <1>4, <1>6, <1>7, <1>8, <1>9, CursorKeeps

LEMMA AdvanceKeeps ==
  ASSUME IInv, NEW p \in Procs, Advance(p)
  PROVE  IInv'
<1>0. TypeInv /\ Len(log) \in Nat /\ DOMAIN log = 1 .. Len(log)
  BY DEF IInv, TypeInv, StoreTyped
<1>1. /\ job[p].items \in SUBSET Found(Len(log)) /\ job[p].told \in Found(Len(log))
      /\ job[p].do = "advance" /\ cursor' = Advanced(job[p].told.w, job[p].told.n)
      /\ job' \in [Procs -> Jobs(Len(log))] /\ Elsewhere(p)
      /\ job'[p] = Translating(job[p].items \ {job[p].told})
      /\ UNCHANGED <<log, sources, feed, due, calls, ends, moved, since>>
  BY <1>0, AdvanceDoes
<1>2. job[p].told.w \in Watchers /\ job[p].told.n \in 0 .. Len(log)
  BY <1>1 DEF Found
<1>3. TypeInv'
  <2>1. cursor' \in [Watchers -> (0 .. Len(log)) \cup {None}]
    BY <1>0, <1>1, <1>2, AdvancedTyped
  <2> QED BY <1>0, <1>1, <2>1 DEF TypeInv, StoreTyped
<1>4. Translates(p)
  BY <1>1, <1>3 DEF Translates, Grows, Translating
<1>5. HandOf(p)
  BY DEF IInv, InHand
<1>6. PICK items \in SUBSET Found(Len(log)), i \in Found(Len(log)) : items = job[p].items /\ i = job[p].told
  BY <1>1
<1>7. i \in items /\ \A j \in items : j.w \notin moved => Behind(items, j)
  BY <1>1, <1>5, <1>6 DEF HandOf
<1>8. i.w \notin moved => \A n \in DOMAIN log : since[i.w] < n /\ n <= i.n => Covered(i.w, n)
  BY <1>1, <1>5, <1>6 DEF HandOf
<1>9. feed' = feed /\ cursor' = Advanced(i.w, i.n) /\ job'[p] = Translating(items \ {i})
  BY <1>1, <1>6
<1> QED BY <1>4, <1>7, <1>8, <1>9, CursorKeeps

LEMMA QueueKeeps ==
  ASSUME IInv, NEW p \in Procs, Queue(p)
  PROVE  IInv'
<1>0. TypeInv /\ Len(log) \in Nat /\ DOMAIN log = 1 .. Len(log)
  BY DEF IInv, TypeInv, StoreTyped
<1>1. PICK i \in Oldest(job[p].items) :
           /\ i \in Found(Len(log)) /\ job[p].items \in SUBSET Found(Len(log)) /\ ~i.routine
           /\ job[p].do = "translate"
           /\ [by |-> "event", of |-> i.n, status |-> log[i.n]] \in Notices
           /\ feed' = Accepted(i.w, [by |-> "event", of |-> i.n, status |-> log[i.n]])
           /\ job' \in [Procs -> Jobs(Len(log))] /\ Elsewhere(p)
           /\ job'[p] = [do |-> "advance", items |-> job[p].items, told |-> i]
           /\ UNCHANGED <<log, sources, cursor, due, calls, ends, moved, since>>
  BY <1>0, QueueDoes
<1>2. i.w \in Watchers /\ i.n \in 1 .. Len(log)
  BY <1>1 DEF Found
<1>3. PICK x \in Notices : feed' = Accepted(i.w, x) /\ x.by = "event" /\ x.of = i.n
  BY <1>1
<1>4. /\ feed' \in [Watchers -> Seq(Notices)]
      /\ \A v \in Watchers : v # i.w => feed'[v] = feed[v]
      /\ \/ feed'[i.w] = feed[i.w] /\ \E k \in DOMAIN feed[i.w] : SameKey(feed[i.w][k], x)
         \/ /\ feed'[i.w] = Append(feed[i.w], x)
            /\ \A k \in DOMAIN feed[i.w] : ~SameKey(feed[i.w][k], x)
  BY <1>0, <1>2, <1>3, AcceptedTyped
<1>5. TypeInv'
  BY <1>0, <1>1, <1>4 DEF TypeInv, StoreTyped
<1>6. Translates(p)
  BY <1>1, <1>2, <1>3, <1>5 DEF Translates, Grows
<1>7. Calm /\ Owned' /\ Once' /\ (HandOf(p)' => InHand')
  BY <1>6, TranslatesCalmly
<1>8. PICK items \in SUBSET Found(Len(log)) : items = job[p].items
  BY <1>1
<1>9. i \in items /\ (\A j \in items : i.n <= j.n) /\ \A j \in items : j.w \notin moved => Behind(items, j)
  BY <1>1, <1>8 DEF Oldest, IInv, InHand, HandOf
<1>10. ASSUME i.w \notin moved
       PROVE  /\ since[i.w] < i.n /\ ~Routine(sources[i.w], i.n)
              /\ \A n \in DOMAIN log : since[i.w] < n /\ n < i.n => Covered(i.w, n)
  <2>1. Behind(items, i)
    BY <1>9, <1>10
  <2>2. \A n \in DOMAIN log : n < i.n => ~Listed(items, i.w, n)
    BY <1>0, <1>2, <1>8, <1>9 DEF Listed, Found
  <2> QED BY <1>1, <2>1, <2>2 DEF Behind
<1>11. ASSUME NEW w \in Watchers, NEW n \in DOMAIN log, w \notin moved, Covered(w, n) PROVE Covered(w, n)'
  BY <1>0, <1>1, <1>7, <1>11, CoveredKept
<1>12. ASSUME NEW w \in Watchers, w \notin moved
       PROVE  /\ \A k \in DOMAIN feed'[w] : feed'[w][k].by = "event" /\ feed'[w][k].of \in DOMAIN log
              /\ \A m : Tells(w, m)' # {} => Tells(w, m) # {} \/ (w = i.w /\ m = i.n)
  <2>1. feed[w] \in Seq(Notices)
    BY <1>0 DEF TypeInv, StoreTyped
  <2>2. \A k \in DOMAIN feed[w] : feed[w][k].by = "event" /\ feed[w][k].of \in DOMAIN log
    BY <1>12 DEF IInv, Standing
  <2>3. CASE feed'[w] = feed[w]
    BY <2>2, <2>3 DEF Tells
  <2>4. CASE w = i.w /\ feed'[w] = Append(feed[w], x)
    <3>1. \A k \in DOMAIN feed'[w] : (k \in DOMAIN feed[w] /\ feed'[w][k] = feed[w][k]) \/ feed'[w][k] = x
      BY <2>1, <2>4
    <3> QED BY <1>0, <1>2, <1>3, <2>2, <2>4, <3>1 DEF Tells
  <2> QED BY <1>4, <2>3, <2>4
<1>13. Standing'
  <2> SUFFICES ASSUME NEW w \in Watchers, w \notin moved
               PROVE  /\ sources[w] # {} => cursor[w] # None /\ cursor[w] >= since[w]
                      /\ \A k \in DOMAIN feed'[w] : feed'[w][k].by = "event" /\ feed'[w][k].of \in DOMAIN log
                      /\ \A m, n \in DOMAIN log :
                           since[w] < n /\ n < m /\ Tells(w, m)' # {} => Covered(w, n)'
    BY <1>1 DEF Standing
  <2>1. ASSUME NEW m \in DOMAIN log, NEW n \in DOMAIN log, since[w] < n, n < m, Tells(w, m)' # {}
        PROVE  Covered(w, n)'
    <3>1. Tells(w, m) # {} \/ (w = i.w /\ m = i.n)
      BY <1>12, <2>1
    <3>2. Covered(w, n)
      BY <1>10, <2>1, <3>1 DEF IInv, Standing
    <3> QED BY <1>11, <3>2
  <2>2. sources[w] # {} => cursor[w] # None /\ cursor[w] >= since[w]
    BY DEF IInv, Standing
  <2> QED BY <1>12, <2>1, <2>2
<1>14. ToldInOrder'
  <2> SUFFICES ASSUME NEW w \in Watchers, w \notin moved, NEW k \in DOMAIN feed'[w], NEW l \in DOMAIN feed'[w], k < l
               PROVE  feed'[w][k].of < feed'[w][l].of
    BY <1>1 DEF ToldInOrder
  <2>1. CASE feed'[w] = feed[w]
    BY <1>1, <2>1 DEF IInv, ToldInOrder
  <2>2. CASE feed'[w] # feed[w]
    <3>1. /\ w = i.w /\ feed'[w] = Append(feed[w], x) /\ feed[w] \in Seq(Notices)
          /\ \A h \in DOMAIN feed[w] : ~SameKey(feed[w][h], x)
      BY <1>0, <1>4, <2>2 DEF TypeInv, StoreTyped
    <3>2. \A h \in DOMAIN feed[w] : feed[w][h].by = "event" /\ feed[w][h].of \in DOMAIN log /\ feed[w][h].of # i.n
      BY <1>3, <3>1 DEF IInv, Standing, SameKey
    <3>3. Tells(w, i.n) = {}
      BY <3>2 DEF Tells
    <3>4. ASSUME NEW h \in DOMAIN feed[w] PROVE feed[w][h].of < i.n
      <4>1. feed[w][h].of \in DOMAIN log /\ Tells(w, feed[w][h].of) # {}
        BY <3>2 DEF Tells
      <4>2. ~Covered(w, i.n) /\ since[w] < i.n
        BY <1>10, <3>1, <3>3 DEF Covered
      <4>3. ~(i.n < feed[w][h].of)
        BY <1>0, <1>2, <4>1, <4>2 DEF IInv, Standing
      <4> QED BY <1>0, <1>2, <3>2, <4>1, <4>3
    <3>5. CASE l \in DOMAIN feed[w]
      <4>1. k \in DOMAIN feed[w] /\ feed'[w][k] = feed[w][k] /\ feed'[w][l] = feed[w][l]
        BY <3>1, <3>5
      <4> QED BY <3>5, <4>1 DEF IInv, ToldInOrder
    <3>6. CASE l \notin DOMAIN feed[w]
      <4>1. k \in DOMAIN feed[w] /\ feed'[w][k] = feed[w][k] /\ feed'[w][l] = x
        BY <3>1, <3>6
      <4> QED BY <1>3, <3>4, <4>1
    <3> QED BY <3>5, <3>6
  <2> QED BY <2>1, <2>2
<1>15. NothingSkipped'
  <2> SUFFICES ASSUME NEW w \in Watchers, w \notin moved, NEW n \in DOMAIN log,
                      cursor[w] # None, since[w] < n, n <= cursor[w]
               PROVE  Covered(w, n)'
    BY <1>1 DEF NothingSkipped, Covered
  <2>1. Covered(w, n)
    BY DEF IInv, NothingSkipped, Covered
  <2> QED BY <1>11, <2>1
<1>16. HandOf(p)'
  <2>1. job'[p].do = "advance" /\ job'[p].items = items /\ job'[p].told = i
    BY <1>1, <1>8
  <2>2. ASSUME NEW j \in items, j.w \notin moved' PROVE Behind(items, j)'
    <3>1. Behind(items, j)
      BY <1>1, <1>9, <2>2
    <3> QED BY <1>0, <1>7, <2>2, <3>1, BehindKept
  <2>3. ASSUME i.w \notin moved', NEW n \in DOMAIN log', since'[i.w] < n, n <= i.n
        PROVE  Covered(i.w, n)'
    <3>0. i.w \notin moved /\ n \in DOMAIN log /\ since[i.w] < n
      BY <1>1, <2>3
    <3>1. CASE n < i.n
      <4>1. Covered(i.w, n)
        BY <1>10, <3>0, <3>1
      <4> QED BY <1>2, <1>11, <3>0, <4>1
    <3>2. CASE n = i.n
      <4>1. CASE \E k \in DOMAIN feed[i.w] : SameKey(feed[i.w][k], x)
        <5>1. Tells(i.w, n) # {}
          BY <1>3, <3>2, <4>1 DEF Tells, SameKey
        <5>2. Covered(i.w, n)
          BY <5>1 DEF Covered
        <5> QED BY <1>2, <1>11, <3>0, <5>2
      <4>2. CASE feed'[i.w] = Append(feed[i.w], x)
        <5>1. feed[i.w] \in Seq(Notices)
          BY <1>0, <1>2 DEF TypeInv, StoreTyped
        <5>2. Len(feed[i.w]) + 1 \in DOMAIN feed'[i.w] /\ feed'[i.w][Len(feed[i.w]) + 1] = x
          BY <4>2, <5>1
        <5>3. Tells(i.w, n)' # {}
          BY <1>3, <3>2, <5>2 DEF Tells
        <5> QED BY <5>3 DEF Covered
      <4> QED BY <1>4, <4>1, <4>2
    <3> QED BY <1>0, <1>2, <2>3, <3>0, <3>1, <3>2
  <2> QED BY <1>9, <2>1, <2>2, <2>3 DEF HandOf
<1> QED BY <1>5, <1>7, <1>13, <1>14, <1>15, <1>16 DEF IInv

-----------------------------------------------------------------------------
LEMMA InitHolds == Init => IInv
<1> SUFFICES ASSUME Init PROVE IInv
  OBVIOUS
<1>1. /\ log = <<"queued">> /\ Len(log) = 1 /\ DOMAIN log = {1} /\ log \in Seq(Statuses \cup {"queued"})
      /\ 1 \in 1 .. MaxEvents
  BY WatchAssumption DEF Init
<1>2. /\ sources = [w \in Watchers |-> IF w = Parent0 THEN {"parent", "watch:parent"} ELSE {}]
      /\ cursor = [w \in Watchers |-> IF w = Parent0 THEN 1 ELSE None]
      /\ feed = [w \in Watchers |-> <<>>] /\ moved = {} /\ since = [w \in Watchers |-> 1]
      /\ job = [p \in Procs |-> Idle] /\ due = [p \in Procs |-> {}]
  BY DEF Init
<1>3. StoreTyped
  <2>1. sources \in [Watchers -> SUBSET Sources] /\ due \in [Procs -> SUBSET Watchers]
    BY <1>2 DEF Sources
  <2>2. cursor \in [Watchers -> (0 .. Len(log)) \cup {None}] /\ since \in [Watchers -> 1 .. Len(log)]
    BY <1>1, <1>2
  <2>3. feed \in [Watchers -> Seq(Notices)]
    <3>1. <<>> \in Seq(Notices)
      OBVIOUS
    <3> QED BY <1>2, <3>1
  <2> QED BY <1>1, <2>1, <2>2, <2>3 DEF StoreTyped
<1>4. TypeInv
  BY <1>2, <1>3 DEF TypeInv, Jobs
<1>5. \A p \in Procs : job[p].do = "idle"
  BY <1>2 DEF Idle
<1>6. Owned /\ InHand
  BY <1>5 DEF Owned, InHand, HandOf
<1>7. \A w \in Watchers : feed[w] = <<>> /\ DOMAIN feed[w] = {}
  <2>1. \A w \in Watchers : feed[w] = <<>>
    BY <1>2
  <2>2. DOMAIN <<>> = {}
    OBVIOUS
  <2> QED BY <2>1, <2>2
<1>8. Once /\ ToldInOrder
  BY <1>7 DEF Once, ToldInOrder
<1>9. Standing
  <2>1. \A w \in Watchers, n \in DOMAIN log : Tells(w, n) = {}
    BY <1>7 DEF Tells
  <2>2. \A w \in Watchers : sources[w] # {} => cursor[w] = 1 /\ since[w] = 1
    BY <1>2
  <2>3. 1 # None /\ 1 >= 1
    BY WatchAssumption
  <2>4. \A w \in Watchers : sources[w] # {} => cursor[w] # None /\ cursor[w] >= since[w]
    <3> SUFFICES ASSUME NEW w \in Watchers, sources[w] # {} PROVE cursor[w] # None /\ cursor[w] >= since[w]
      OBVIOUS
    <3>1. cursor[w] = 1 /\ since[w] = 1
      BY <2>2
    <3> QED BY <2>3, <3>1
  <2> QED BY <1>7, <2>1, <2>4 DEF Standing
<1>10. NothingSkipped
  BY <1>1, <1>2 DEF NothingSkipped
<1> QED BY <1>4, <1>6, <1>8, <1>9, <1>10 DEF IInv

LEMMA Inductive == IInv /\ [Next]_vars => IInv'
<1> SUFFICES ASSUME IInv, [Next]_vars PROVE IInv'
  OBVIOUS
<1>0. TypeInv /\ Owned
  BY DEF IInv
<1>1. ASSUME NEW p \in Procs, Reconcile(p) PROVE IInv'
  BY <1>1, ReconcileKeeps
<1>2. ASSUME NEW p \in Procs, InSeries(p) PROVE IInv'
  <2>1. CASE Skip(p)
    BY <2>1, SkipKeeps
  <2>2. CASE Queue(p)
    BY <2>2, QueueKeeps
  <2>3. CASE Advance(p)
    BY <2>3, AdvanceKeeps
  <2>4. CASE AttachManual(p) \/ AttachParent(p)
    BY <1>0, <2>4, AttachDoes, EffectKeeps
  <2>5. CASE Snapshot(p) \/ Introduce(p)
    BY <1>0, <2>5, TellDoes, EffectKeeps
  <2>6. CASE FollowFromHead(p) \/ Settle(p)
    BY <1>0, <2>6, FollowDoes, EffectKeeps
  <2>7. CASE DetachFormer(p)
    BY <1>0, <2>7, DetachDoes, EffectKeeps
  <2> QED BY <1>2, <2>1, <2>2, <2>3, <2>4, <2>5, <2>6, <2>7 DEF InSeries
<1>3. ASSUME NEW p \in Procs, End(p) \/ Throws(p) PROVE IInv'
  BY <1>0, <1>3, EndDoes, EffectKeeps
<1>4. ASSUME NEW p \in Procs, NEW status \in Statuses, Transition(p, status) PROVE IInv'
  BY <1>0, <1>4, TransitionDoes, EffectKeeps
<1>5. ASSUME NEW p \in Procs, NEW w \in Watchers, Subscribe(p, w) PROVE IInv'
  BY <1>0, <1>5, SubscribeDoes, EffectKeeps
<1>6. ASSUME NEW p \in Procs, NEW w \in Watchers, Cancel(p, w) PROVE IInv'
  BY <1>0, <1>6, CancelDoes, EffectKeeps
<1>7. ASSUME NEW p \in Procs, NEW new \in Watchers \cup {None}, Reparent(p, new) PROVE IInv'
  BY <1>0, <1>7, ReparentDoes, EffectKeeps
<1>8. CASE UNCHANGED vars \/ RequestDeliveryRecovery
  <2>1. UNCHANGED <<log, sources, cursor, feed, job, moved, since>>
    BY <1>8 DEF vars, store, RequestDeliveryRecovery
  <2>2. due' \in [Procs -> SUBSET Watchers]
    BY <1>0, <1>8 DEF vars, RequestDeliveryRecovery, Wake, TypeInv, StoreTyped
  <2>5. TypeInv' /\ Owned' /\ Once' /\ ToldInOrder'
    BY <2>1, <2>2 DEF IInv, TypeInv, StoreTyped, Owned, Once, ToldInOrder
  <2>3. Standing' /\ NothingSkipped'
    BY <2>1 DEF IInv, Standing, NothingSkipped, Covered, Tells, Routine
  <2>4. InHand'
    BY <2>1 DEF IInv, InHand, HandOf, Behind, Covered, Tells, Routine, Listed
  <2> QED BY <2>3, <2>4, <2>5 DEF IInv
<1> QED BY <1>1, <1>2, <1>3, <1>4, <1>5, <1>6, <1>7, <1>8 DEF Next

LEMMA Always == Spec => []IInv
BY InitHolds, Inductive, PTL DEF Spec

(* Only the watchers a series has in hand can lapse. *)
LEMMA ItemsWatch ==
  ASSUME TypeInv, NEW p \in Procs, job[p].do \in {"translate", "advance"}
  PROVE  {i.w : i \in job[p].items} \subseteq Watchers
<1>1. job[p] \in Jobs(Len(log)) /\ Len(log) \in Nat
  BY DEF TypeInv, StoreTyped
<1>2. job[p].items \in SUBSET Found(Len(log))
  BY <1>1, JobFields DEF Translations, Advances
<1> QED BY <1>2 DEF Found

LEMMA FaultTyped ==
  ASSUME Faulty, NEW W, W \subseteq Watchers, Fault(W)
  PROVE  Faulty'
BY WatchAssumption DEF Faulty, Fault

LEMMA FaultyStep == TypeInv /\ Faulty /\ [Next]_vars => Faulty'
<1> SUFFICES ASSUME TypeInv, Faulty, [Next]_vars PROVE Faulty'
  OBVIOUS
<1>1. ASSUME faults' = faults, lapsed' \subseteq lapsed PROVE Faulty'
  BY <1>1 DEF Faulty
<1>2. CASE UNCHANGED vars \/ RequestDeliveryRecovery
  BY <1>1, <1>2 DEF vars, thrown, RequestDeliveryRecovery, Wake
<1>3. ASSUME NEW p \in Procs, Reconcile(p) PROVE Faulty'
  <2>1. due[p] \subseteq Watchers
    BY DEF TypeInv, StoreTyped
  <2>2. PICK W \in SUBSET due[p] : IF W = due[p] THEN UNCHANGED thrown ELSE Fault(due[p] \ W)
    BY <1>3, ReconcileDoes
  <2> QED BY <1>1, <2>1, <2>2, FaultTyped DEF thrown
<1>4. ASSUME NEW p \in Procs, Throws(p) PROVE Faulty'
  <2>1. CASE job[p].do \in {"translate", "advance"}
    BY <1>4, <2>1, ItemsWatch, FaultTyped DEF Throws
  <2>2. CASE job[p].do \notin {"translate", "advance"}
    BY <1>4, <2>2, FaultTyped DEF Throws
  <2> QED BY <2>1, <2>2
<1>5. ASSUME NEW p \in Procs, InSeries(p) PROVE Faulty'
  BY <1>1, <1>5 DEF InSeries, Skip, Queue, Advance, AttachManual, Snapshot, FollowFromHead,
                    DetachFormer, AttachParent, Introduce, Settle, Wake, thrown
<1>6. ASSUME NEW p \in Procs, End(p) PROVE Faulty'
  BY <1>1, <1>6 DEF End
<1>7. ASSUME NEW p \in Procs, NEW status \in Statuses, Transition(p, status) PROVE Faulty'
  BY <1>1, <1>7 DEF Transition, Wake
<1>8. ASSUME NEW p \in Procs, NEW w \in Watchers, Subscribe(p, w) \/ Cancel(p, w) PROVE Faulty'
  BY <1>1, <1>8 DEF Subscribe, Cancel, thrown
<1>9. ASSUME NEW p \in Procs, NEW new \in Watchers \cup {None}, Reparent(p, new) PROVE Faulty'
  BY <1>1, <1>9 DEF Reparent, Wake
<1> QED BY <1>2, <1>3, <1>4, <1>5, <1>6, <1>7, <1>8, <1>9 DEF Next

(* Every part of the state keeps its type. *)
THEOREM WatchTypeCorrect == Spec => []WatchTypeOK
<1>1. Init => Faulty
  BY WatchAssumption DEF Init, Faulty
<1>2. IInv => TypeInv
  BY DEF IInv
<1>3. TypeInv /\ Faulty => WatchTypeOK
  BY DEF TypeInv, StoreTyped, Faulty, WatchTypeOK
<1> QED BY <1>1, <1>2, <1>3, FaultyStep, Always, PTL DEF Spec

(* No watcher gets two prompts for one event: not when several processes   *)
(* reconcile it together, nor when one ends between the prompt and the     *)
(* cursor and another translates the event again.                          *)
THEOREM NoticeToldOnce == Spec => []NoticeOnce
<1>1. IInv => NoticeOnce
  BY DEF IInv, Once, NoticeOnce, Tells
<1> QED BY <1>1, Always, PTL

(* A watcher whose relation stands gets its prompts in the order of the    *)
(* events, whoever translates them.                                        *)
THEOREM ToldInOrderAlways == Spec => []ToldInOrder
<1>1. IInv => ToldInOrder
  BY DEF IInv
<1> QED BY <1>1, Always, PTL

(* Its cursor passes no event it was neither told of nor indifferent to.   *)
THEOREM NoneSkipped == Spec => []NothingSkipped
<1>1. IInv => NothingSkipped
  BY DEF IInv
<1> QED BY <1>1, Always, PTL
-----------------------------------------------------------------------------
(* What is owed *)

LEMMA AfterTyped == ASSUME TypeInv, NEW w \in Watchers PROVE After(w) \in 0 .. Len(log)
BY WatchAssumption DEF TypeInv, StoreTyped, After

LEMMA AfterTypedNext == ASSUME TypeInv', NEW w \in Watchers PROVE After(w)' \in 0 .. Len(log')
BY WatchAssumption DEF TypeInv, StoreTyped, After

LEMMA AfterAdvances ==
  ASSUME TypeInv, NEW w \in Watchers, NEW n \in 0 .. Len(log), cursor' = Advanced(w, n), log' = log
  PROVE  After(w)' >= n /\ \A v \in Watchers : After(v)' >= After(v)
<1>1. /\ cursor' \in [Watchers -> (0 .. Len(log)) \cup {None}]
      /\ \A v \in Watchers : v # w => cursor'[v] = cursor[v]
      /\ cursor'[w] # None /\ cursor'[w] >= n
      /\ cursor[w] # None => cursor'[w] >= cursor[w]
  BY AdvancedTyped
<1>2. Len(log) \in Nat /\ cursor \in [Watchers -> (0 .. Len(log)) \cup {None}]
  BY DEF TypeInv, StoreTyped
<1>3. After(w)' >= n /\ After(w)' >= After(w)
  BY <1>1, <1>2 DEF After
<1>4. \A v \in Watchers : v # w => After(v)' = After(v)
  BY <1>1 DEF After
<1> QED BY <1>2, <1>3, <1>4, AfterTyped

(* Where a series leaves its own watcher's cursor. *)
LEMMA FollowsTo ==
  ASSUME TypeInv, NEW p \in Procs, FollowFromHead(p) \/ Settle(p)
  PROVE  \E w \in Watchers, n \in 1 .. Len(log) : cursor' = Advanced(w, n)
<1>1. job[p] \in Jobs(Len(log)) /\ Len(log) \in Nat /\ Len(log) \in 1 .. Len(log)
  BY DEF TypeInv, StoreTyped
<1>2. job[p] \in Subscriptions(Len(log)) \cup Adoptions(Len(log))
  BY <1>1, JobFields DEF FollowFromHead, Settle
<1>3. job[p].w \in Watchers /\ job[p].notice.of \in 1 .. Len(log)
  BY <1>2 DEF Subscriptions, Adoptions, Heard
<1> QED BY <1>1, <1>3 DEF FollowFromHead, Settle

(* Who was left out stays left out or is woken. *)
Noted == \A w \in lapsed : w \in lapsed' \/ \E q \in Procs : w \in due'[q]

(* A step outside a translation takes nothing owed with it. *)
Outside(p) == job[p].do \notin {"translate", "advance"}

LEMMA OwesKept ==
  ASSUME TypeInv, TypeInv', EventOwed, NEW p \in Procs, Outside(p), Elsewhere(p), Noted, log' = log,
         \A q \in Procs : due[q] \subseteq due'[q],
         \A w \in Watchers : sources'[w] # {} =>
           After(w)' >= Len(log) \/ (sources[w] # {} /\ After(w)' >= After(w))
  PROVE  EventOwed'
<1> SUFFICES ASSUME NEW w \in Watchers, sources'[w] # {}, After(w)' < Len(log), w \notin lapsed'
             PROVE  \E q \in Procs : Owes(q, w)'
  BY DEF EventOwed, Recipients
<1>1. After(w) \in Nat /\ After(w)' \in Nat /\ Len(log) \in Nat
  <2>1. After(w) \in 0 .. Len(log) /\ After(w)' \in 0 .. Len(log')
    BY AfterTyped, AfterTypedNext
  <2> QED BY <2>1 DEF TypeInv, StoreTyped
<1>2. sources[w] # {} /\ After(w) < Len(log)
  BY <1>1
<1>3. CASE w \in lapsed
  BY <1>3 DEF Noted, Owes
<1>4. ASSUME NEW q \in Procs, Owes(q, w) PROVE Owes(q, w)'
  <2>1. CASE w \in due[q]
    BY <2>1 DEF Owes
  <2>2. CASE w \notin due[q]
    <3>1. job'[q] = job[q]
      BY <1>4, <2>2 DEF Owes, Outside, Elsewhere
    <3> QED BY <1>4, <2>2, <3>1 DEF Owes
  <2> QED BY <2>1, <2>2
<1> QED BY <1>2, <1>3, <1>4 DEF EventOwed, Recipients

(* A step of a translation keeps all but the item it moves the cursor to.  *)
LEMMA OwesPassed ==
  ASSUME TypeInv, TypeInv', EventOwed, NEW p \in Procs, NEW items \in SUBSET Found(Len(log)), NEW i \in items,
         job[p].do \in {"translate", "advance"}, items = job[p].items, Elsewhere(p),
         cursor' = Advanced(i.w, i.n), job'[p] = Translating(items \ {i}),
         UNCHANGED <<log, sources, due, thrown>>
  PROVE  EventOwed'
<1>0. i.w \in Watchers /\ i.n \in 0 .. Len(log) /\ Len(log) \in Nat
  BY DEF Found, TypeInv, StoreTyped
<1> SUFFICES ASSUME NEW w \in Watchers, sources[w] # {}, After(w)' < Len(log), w \notin lapsed
             PROVE  \E q \in Procs : Owes(q, w)'
  BY DEF EventOwed, Recipients, thrown
<1>1. After(i.w)' >= i.n /\ After(w)' >= After(w) /\ After(w) \in Nat /\ After(w)' \in Nat
  <2>1. After(w) \in 0 .. Len(log) /\ After(w)' \in 0 .. Len(log')
    BY AfterTyped, AfterTypedNext
  <2> QED BY <1>0, <2>1, AfterAdvances
<1>2. PICK q \in Procs : Owes(q, w)
  BY <1>0, <1>1 DEF EventOwed, Recipients
<1>3. CASE w \in due[q] \/ q # p
  BY <1>2, <1>3 DEF Owes, Elsewhere
<1>4. CASE w \notin due[q] /\ q = p
  <2>1. PICK j \in items : j.w = w /\ j.n = Len(log)
    BY <1>2, <1>4 DEF Owes
  <2>2. j # i
    BY <1>0, <1>1, <2>1
  <2>3. job'[p].do = "translate" /\ j \in job'[p].items
    BY <2>1, <2>2 DEF Translating
  <2> QED BY <2>1, <2>3 DEF Owes
<1> QED BY <1>3, <1>4

LEMMA OwedStep ==
  ASSUME Mortal \subseteq {Backend}, IInv, EventOwed, [Next]_vars
  PROVE  EventOwed'
<1>0. TypeInv /\ TypeInv' /\ Len(log) \in Nat /\ Owned
  <2>1. IInv'
    BY Inductive
  <2> QED BY <2>1 DEF IInv, TypeInv, StoreTyped
<1>1. CASE UNCHANGED vars
  BY <1>1 DEF vars, store, thrown, EventOwed, Recipients, After, Owes
<1>2. ASSUME NEW p \in Procs, NEW status \in Statuses, Transition(p, status) PROVE EventOwed'
  <2>1. sources' = sources /\ due'[p] = due[p] \cup Recipients(sources)
    BY <1>0, <1>2 DEF Transition, Wake, TypeInv, StoreTyped
  <2> QED BY <2>1 DEF EventOwed, Owes
<1>3. ASSUME NEW p \in Procs, NEW new \in Watchers \cup {None}, Reparent(p, new) PROVE EventOwed'
  <2>1. due'[p] = due[p] \cup Recipients(sources')
    BY <1>0, <1>3 DEF Reparent, Wake, TypeInv, StoreTyped
  <2> QED BY <2>1 DEF EventOwed, Owes
<1>4. ASSUME NEW p \in Procs, End(p) PROVE EventOwed'
  <2>1. p = Backend /\ Backend \in Procs
    BY <1>4, WatchAssumption DEF End
  <2>2. due'[p] = Watchers
    BY <1>0, <1>4, <2>1 DEF End, TypeInv, StoreTyped
  <2> QED BY <2>1, <2>2 DEF EventOwed, Owes, Recipients
<1>5. ASSUME NEW p \in Procs, Reconcile(p) PROVE EventOwed'
  <2>1. job[p] = Idle /\ due' = [due EXCEPT ![p] = {}] /\ UNCHANGED <<log, sources, cursor>>
    BY <1>5 DEF Reconcile, store
  <2>2. PICK W \in SUBSET due[p] :
          /\ Elsewhere(p) /\ job'[p] = Translating(Unread(W))
          /\ IF W = due[p] THEN UNCHANGED thrown ELSE Fault(due[p] \ W)
    BY <1>0, <1>5, ReconcileDoes
  <2>3. \A q \in Procs : q # p => due'[q] = due[q]
    BY <1>0, <2>1 DEF TypeInv, StoreTyped
  <2>4. lapsed \subseteq lapsed' /\ due[p] \ W \subseteq lapsed'
    BY <2>2 DEF thrown, Fault
  <2> SUFFICES ASSUME NEW w \in Watchers, sources[w] # {}, After(w) < Len(log), w \notin lapsed'
               PROVE  \E q \in Procs : Owes(q, w)'
    BY <2>1 DEF EventOwed, Recipients, After
  <2>5. PICK q \in Procs : Owes(q, w)
    BY <2>4 DEF EventOwed, Recipients
  <2>6. CASE q # p
    BY <2>1, <2>2, <2>3, <2>5, <2>6 DEF Owes, Elsewhere
  <2>7. CASE q = p
    <3>1. w \in W
      BY <2>1, <2>4, <2>5, <2>7 DEF Owes, Idle
    <3> DEFINE i == [w |-> w, n |-> Len(log), routine |-> Routine(sources[w], Len(log))]
    <3>2. Len(log) \in DOMAIN log
      BY <1>0 DEF TypeInv, StoreTyped
    <3>3. i \in Unread(W)
      BY <3>1, <3>2 DEF Unread, Items, Recipients
    <3>4. job'[p].do = "translate" /\ job'[p].items = Unread(W)
      BY <2>2, <3>3 DEF Translating
    <3> QED BY <2>1, <3>3, <3>4 DEF Owes
  <2> QED BY <2>6, <2>7
<1>6. ASSUME NEW p \in Procs, Skip(p) PROVE EventOwed'
  <2>1. PICK i \in Oldest(job[p].items) :
           /\ job[p].items \in SUBSET Found(Len(log))
           /\ job[p].do = "translate" /\ cursor' = Advanced(i.w, i.n) /\ Elsewhere(p)
           /\ job'[p] = Translating(job[p].items \ {i})
           /\ UNCHANGED <<log, sources, due, thrown>>
    BY <1>0, <1>6, SkipDoes DEF Skip
  <2>2. PICK items \in SUBSET Found(Len(log)) : items = job[p].items
    BY <2>1
  <2>3. i \in items
    BY <2>1, <2>2 DEF Oldest
  <2> QED BY <1>0, <2>1, <2>2, <2>3, OwesPassed
<1>7. ASSUME NEW p \in Procs, Advance(p) PROVE EventOwed'
  <2>1. /\ job[p].items \in SUBSET Found(Len(log)) /\ job[p].told \in Found(Len(log))
        /\ job[p].do = "advance" /\ cursor' = Advanced(job[p].told.w, job[p].told.n) /\ Elsewhere(p)
        /\ job'[p] = Translating(job[p].items \ {job[p].told})
        /\ UNCHANGED <<log, sources, due, thrown>>
    BY <1>0, <1>7, AdvanceDoes DEF Advance
  <2>2. job[p].told \in job[p].items
    BY <2>1 DEF IInv, InHand, HandOf
  <2>3. PICK items \in SUBSET Found(Len(log)) : items = job[p].items
    BY <2>1
  <2>4. PICK i \in items : i = job[p].told
    BY <2>2, <2>3
  <2> QED BY <1>0, <2>1, <2>3, <2>4, OwesPassed
<1>8. ASSUME NEW p \in Procs, Queue(p) PROVE EventOwed'
  <2>1. \E i : /\ job[p].do = "translate" /\ Elsewhere(p)
               /\ job'[p] = [do |-> "advance", items |-> job[p].items, told |-> i]
               /\ UNCHANGED <<log, sources, cursor, due, thrown>>
    BY <1>0, <1>8, QueueDoes DEF Queue
  <2>2. job'[p].do = "advance" /\ job'[p].items = job[p].items
    BY <2>1
  <2>3. \A q \in Procs, w \in Watchers : Owes(q, w) => Owes(q, w)'
    BY <2>1, <2>2 DEF Owes, Elsewhere
  <2> QED BY <2>1, <2>3 DEF EventOwed, Recipients, After, thrown
<1>9. ASSUME NEW p \in Procs, AttachManual(p) \/ AttachParent(p) PROVE EventOwed'
  <2>1. /\ job[p].w \in Watchers /\ UNCHANGED <<log, due>> /\ Outside(p) /\ Noted
        /\ \E source \in Sources : Attach(job[p].w, source)
    <3>1. job[p] \in Jobs(Len(log))
      BY <1>0 DEF TypeInv
    <3>2. job[p].w \in Watchers
      <4>1. job[p] \in Subscriptions(Len(log)) \cup Adoptions(Len(log))
        BY <1>0, <1>9, <3>1, JobFields DEF AttachManual, AttachParent
      <4> QED BY <4>1 DEF Subscriptions, Adoptions
    <3> QED BY <1>9, <3>2 DEF AttachManual, AttachParent, Outside, Noted, thrown, Sources
  <2>2. Elsewhere(p)
    BY <1>0, <1>9, AttachDoes DEF Effect
  <2>3. PICK source \in Sources : Attach(job[p].w, source)
    BY <2>1
  <2>4. CASE source \in sources[job[p].w]
    <3>1. sources' = sources /\ cursor' = cursor
      BY <1>0, <2>3, <2>4 DEF Attach, TypeInv, StoreTyped
    <3>2. \A w \in Watchers : After(w)' = After(w) /\ After(w) \in Nat
      BY <1>0, <3>1, AfterTyped DEF After
    <3> QED BY <1>0, <2>1, <2>2, <3>1, <3>2, OwesKept
  <2>5. CASE source \notin sources[job[p].w]
    <3>1. cursor' = Advanced(job[p].w, Len(log)) /\ Len(log) \in 0 .. Len(log)
      BY <1>0, <2>3, <2>5 DEF Attach
    <3>2. PICK v \in Watchers : v = job[p].w
      BY <2>1
    <3>3. After(v)' >= Len(log) /\ \A w \in Watchers : After(w)' >= After(w)
      BY <1>0, <2>1, <3>1, <3>2, AfterAdvances
    <3>4. \A w \in Watchers : w # v => sources'[w] = sources[w]
      BY <1>0, <2>3, <3>2 DEF Attach, TypeInv, StoreTyped
    <3>5. \A w \in Watchers : sources'[w] # {} =>
            After(w)' >= Len(log) \/ (sources[w] # {} /\ After(w)' >= After(w))
      BY <3>3, <3>4
    <3> QED BY <1>0, <2>1, <2>2, <3>5, OwesKept
  <2> QED BY <2>4, <2>5
<1>10. ASSUME NEW p \in Procs, FollowFromHead(p) \/ Settle(p) PROVE EventOwed'
  <2>1. /\ Outside(p) /\ UNCHANGED <<log, sources>> /\ \A q \in Procs : due[q] \subseteq due'[q]
        /\ Noted
    <3>1. due \in [Procs -> SUBSET Watchers]
      BY <1>0 DEF TypeInv, StoreTyped
    <3>2. CASE FollowFromHead(p)
      <4>1. /\ due' = [due EXCEPT ![p] = @ \cup {job[p].w}] /\ lapsed' = lapsed \ {job[p].w}
            /\ UNCHANGED <<log, sources>> /\ job[p].do = "head"
        BY <3>2 DEF FollowFromHead, Wake
      <4>2. due'[p] = due[p] \cup {job[p].w} /\ \A q \in Procs : q # p => due'[q] = due[q]
        BY <3>1, <4>1
      <4> QED BY <4>1, <4>2 DEF Outside, Noted
    <3>3. CASE Settle(p)
      BY <3>3 DEF Settle, Outside, Noted, thrown
    <3> QED BY <1>10, <3>2, <3>3
  <2>2. Elsewhere(p)
    BY <1>0, <1>10, FollowDoes DEF Effect
  <2>3. \E w \in Watchers, n \in 0 .. Len(log) : cursor' = Advanced(w, n)
    <3>1. PICK w \in Watchers, n \in 1 .. Len(log) : cursor' = Advanced(w, n)
      BY <1>0, <1>10, FollowsTo
    <3> QED BY <1>0, <3>1
  <2>4. \A w \in Watchers : After(w)' >= After(w)
    BY <1>0, <2>1, <2>3, AfterAdvances
  <2> QED BY <1>0, <2>1, <2>2, <2>4, OwesKept
<1>11. ASSUME NEW p \in Procs, Snapshot(p) \/ Introduce(p) \/ DetachFormer(p) \/ \E w \in Watchers : Cancel(p, w) \/ Subscribe(p, w)
       PROVE  EventOwed'
  <2>1. /\ Outside(p) /\ UNCHANGED <<log, cursor, due, thrown>>
    <3>1. CASE Snapshot(p) \/ Introduce(p) \/ DetachFormer(p)
      BY <3>1 DEF Snapshot, Introduce, DetachFormer, Outside
    <3>2. ASSUME NEW w \in Watchers, Cancel(p, w) \/ Subscribe(p, w)
          PROVE  Outside(p) /\ UNCHANGED <<log, cursor, due, thrown>>
      <4>1. job[p] = Idle /\ UNCHANGED <<log, cursor, due, thrown>>
        BY <3>2 DEF Cancel, Subscribe, store
      <4> QED BY <4>1 DEF Outside, Idle
    <3> QED BY <1>11, <3>1, <3>2
  <2>2. \A w \in Watchers : sources'[w] \subseteq sources[w]
    <3>1. sources \in [Watchers -> SUBSET Sources]
      BY <1>0 DEF TypeInv, StoreTyped
    <3>2. \/ sources' = sources
          \/ \E v : \E gone : sources' = [sources EXCEPT ![v] = @ \ gone]
      BY <1>11 DEF Snapshot, Introduce, DetachFormer, Cancel, Subscribe, store
    <3> QED BY <3>1, <3>2
  <2>3. Elsewhere(p)
    BY <1>0, <1>11, TellDoes, DetachDoes, CancelDoes, SubscribeDoes DEF Effect
  <2>4. \A w \in Watchers : After(w)' = After(w) /\ After(w) \in Nat
    BY <1>0, <2>1, AfterTyped DEF After
  <2>5. Noted
    BY <2>1 DEF Noted, thrown
  <2> QED BY <1>0, <2>1, <2>2, <2>3, <2>4, <2>5, OwesKept
<1>12. ASSUME NEW p \in Procs, Throws(p) PROVE EventOwed'
  <2>1. /\ Goto(p, Idle) /\ UNCHANGED <<log, sources, cursor, due>>
        /\ Fault(IF job[p].do \in {"translate", "advance"} THEN {i.w : i \in job[p].items} ELSE {})
    BY <1>12 DEF Throws, store
  <2>2. Elsewhere(p)
    BY <1>0, <2>1, ToIdle
  <2>3. lapsed \subseteq lapsed'
    BY <2>1 DEF Fault
  <2>4. \A w \in Watchers : Owes(p, w) => w \in due'[p] \/ w \in lapsed'
    BY <2>1 DEF Owes, Fault
  <2>5. \A q \in Procs, w \in Watchers : q # p /\ Owes(q, w) => Owes(q, w)'
    BY <2>1, <2>2 DEF Owes, Elsewhere
  <2>6. \A q \in Procs, w \in Watchers : w \in due'[q] => Owes(q, w)'
    BY DEF Owes
  <2> QED BY <2>1, <2>3, <2>4, <2>5, <2>6 DEF EventOwed, Recipients, After
<1>13. CASE RequestDeliveryRecovery
  <2>1. Backend \in Procs /\ due'[Backend] = due[Backend] \cup Watchers
    BY <1>0, <1>13, WatchAssumption DEF RequestDeliveryRecovery, Wake, TypeInv, StoreTyped
  <2> QED BY <2>1 DEF EventOwed, Owes, Recipients
<1> QED BY <1>1, <1>2, <1>3, <1>4, <1>5, <1>6, <1>7, <1>8, <1>9, <1>10, <1>11, <1>12, <1>13 DEF Next, InSeries

(* If the processes that commit events, but the backend, live to reconcile *)
(* what they commit, then at every moment whoever is behind is owed the    *)
(* newest event by a process, or has been left out by a pass that threw or *)
(* could not read its record and not been woken since. However many passes *)
(* throw, and wherever, no other watcher is forgotten.                     *)
THEOREM NewestOwed == ASSUME Mortal \subseteq {Backend} PROVE Spec => []EventOwed
<1>1. Init => EventOwed
  <2> SUFFICES ASSUME Init PROVE EventOwed
    OBVIOUS
  <2>1. \A w \in Watchers : sources[w] # {} => cursor[w] = 1
    BY DEF Init
  <2>2. Len(log) = 1 /\ 1 # None
    BY WatchAssumption DEF Init
  <2> QED BY <2>1, <2>2 DEF EventOwed, Recipients, After
<1>2. IInv /\ EventOwed /\ [Next]_vars => EventOwed'
  BY OwedStep
<1> QED BY Always, <1>1, <1>2, PTL DEF Spec

-----------------------------------------------------------------------------
(* The ledger the series keep to *)

OneTree == Ledger!OnlyParent(sources)
Keeps == [Ledger!LedgerNext]_(Ledger!ledger)

LEMMA LedgerFollows ==
  ASSUME NEW w \in Watchers, NEW n \in 1 .. Len(log), cursor' = Advanced(w, n),
         TypeInv, UNCHANGED <<log, sources>>
  PROVE  Keeps /\ OneTree' = OneTree
<1>1. n \in Nat /\ Len(log) \in Nat /\ cursor \in [Watchers -> (0 .. Len(log)) \cup {None}] /\ None \notin Nat
  BY WatchAssumption DEF TypeInv, StoreTyped
<1>2. CASE cursor' = cursor
  BY <1>2 DEF Keeps, Ledger!ledger, OneTree
<1>3. CASE cursor' # cursor
  <2>1. cursor' = [cursor EXCEPT ![w] = n] /\ ~(cursor[w] # None /\ cursor[w] >= n)
    BY <1>3 DEF Advanced
  <2>2. Ledger!Farther(w, n) = n
    BY <1>1, <2>1 DEF Ledger!Farther, Ledger!Read
  <2>3. Ledger!Follow(w, n)
    BY <2>1, <2>2 DEF Ledger!Follow
  <2> QED BY <2>3 DEF Keeps, Ledger!LedgerNext, OneTree
<1> QED BY <1>2, <1>3

LEMMA LedgerWatches ==
  ASSUME TypeInv, NEW w \in Watchers, NEW r \in Sources, r # "parent", Attach(w, r), log' = log
  PROVE  Keeps /\ (OneTree => OneTree')
<1>1. /\ Len(log) \in Nat /\ Len(log) >= 1 /\ cursor \in [Watchers -> (0 .. Len(log)) \cup {None}]
      /\ None \notin Nat /\ sources \in [Watchers -> SUBSET Sources]
  BY WatchAssumption DEF TypeInv, StoreTyped
<1>2. /\ sources' = [sources EXCEPT ![w] = @ \cup {r}]
      /\ cursor' = IF r \in sources[w] THEN cursor ELSE Advanced(w, Len(log))
  BY DEF Attach
<1>3. CASE r \in sources[w]
  <2>1. sources' = sources /\ cursor' = cursor
    BY <1>1, <1>2, <1>3
  <2> QED BY <2>1 DEF Keeps, Ledger!ledger, OneTree
<1>4. CASE r \notin sources[w]
  <2>1. cursor' = Advanced(w, Len(log))
    BY <1>2, <1>4
  <2>2. cursor' = [cursor EXCEPT ![w] = Ledger!Farther(w, Len(log))]
    <3>1. CASE cursor[w] # None /\ cursor[w] >= Len(log)
      <4>1. cursor' = cursor /\ cursor[w] = Len(log)
        BY <1>1, <2>1, <3>1 DEF Advanced
      <4>2. Ledger!Farther(w, Len(log)) = cursor[w]
        BY <1>1, <3>1, <4>1 DEF Ledger!Farther, Ledger!Read
      <4> QED BY <1>1, <4>1, <4>2
    <3>2. CASE ~(cursor[w] # None /\ cursor[w] >= Len(log))
      <4>1. cursor' = [cursor EXCEPT ![w] = Len(log)]
        BY <2>1, <3>2 DEF Advanced
      <4>2. Ledger!Farther(w, Len(log)) = Len(log)
        BY <1>1, <3>2 DEF Ledger!Farther, Ledger!Read
      <4> QED BY <4>1, <4>2
    <3> QED BY <3>1, <3>2
  <2>3. Ledger!Watch(w, r)
    BY <1>2, <1>4, <2>2 DEF Ledger!Watch
  <2>4. OneTree => OneTree'
    BY <1>1, <1>2 DEF OneTree, Ledger!OnlyParent, Ledger!Parents
  <2> QED BY <2>3, <2>4 DEF Keeps, Ledger!LedgerNext
<1> QED BY <1>3, <1>4

LEMMA LedgerUnwatches ==
  ASSUME TypeInv, NEW w \in Watchers, NEW r \in Sources, r # "parent",
         sources' = [sources EXCEPT ![w] = @ \ {r}], UNCHANGED <<log, cursor>>
  PROVE  Keeps /\ (OneTree => OneTree')
<1>1. sources \in [Watchers -> SUBSET Sources]
  BY DEF TypeInv, StoreTyped
<1>2. OneTree => OneTree'
  BY <1>1 DEF OneTree, Ledger!OnlyParent, Ledger!Parents
<1>3. CASE r \notin sources[w]
  <2>1. sources' = sources
    BY <1>1, <1>3
  <2> QED BY <1>2, <2>1 DEF Keeps, Ledger!ledger
<1>4. CASE r \in sources[w]
  <2>1. Ledger!Unwatch(w, r)
    BY <1>4 DEF Ledger!Unwatch
  <2> QED BY <1>2, <2>1 DEF Keeps, Ledger!LedgerNext
<1> QED BY <1>3, <1>4

LEMMA LedgerRecords ==
  ASSUME TypeInv, TypeInv', OneTree', NEW status, log' = Append(log, status), cursor' = cursor,
         \A w \in Watchers : sources'[w] \ {"parent"} = sources[w] \ {"parent"}
  PROVE  Keeps
<1>1. Len(log') = Len(log) + 1 /\ sources' \in [Watchers -> SUBSET Sources]
  BY DEF TypeInv, StoreTyped
<1>2. Ledger!Record
  BY <1>1 DEF Ledger!Record, OneTree, Ledger!OnlyParent, Ledger!Parents
<1> QED BY <1>2 DEF Keeps, Ledger!LedgerNext

(* The move takes the tree relation from its one holder. *)
LEMMA LedgerMoves ==
  ASSUME TypeInv, TypeInv', OneTree, NEW p \in Procs, NEW new \in Watchers \cup {None}, Reparent(p, new)
  PROVE  Keeps /\ OneTree'
<1> DEFINE old == ParentOf(sources)
<1>1. /\ log' = Append(log, Present) /\ cursor' = cursor
      /\ sources' = [w \in Watchers |-> IF w = old THEN sources[w] \ {"parent"}
                                 ELSE IF w = new THEN sources[w] \cup {"parent"}
                                 ELSE sources[w]]
  BY DEF Reparent
<1>2. \A w \in Watchers : "parent" \in sources[w] => w = old
  <2> SUFFICES ASSUME NEW w \in Watchers, "parent" \in sources[w] PROVE w = old
    OBVIOUS
  <2>1. old = CHOOSE v \in Watchers : "parent" \in sources[v]
    BY DEF ParentOf
  <2>2. old \in Watchers /\ "parent" \in sources[old]
    BY <2>1
  <2> QED BY <2>2 DEF OneTree, Ledger!OnlyParent, Ledger!Parents
<1> HIDE DEF old
<1>3. \A w \in Watchers : "parent" \in sources'[w] => w = new
  BY <1>1, <1>2
<1>4. OneTree'
  BY <1>3 DEF OneTree, Ledger!OnlyParent, Ledger!Parents
<1>5. \A w \in Watchers : sources'[w] \ {"parent"} = sources[w] \ {"parent"}
  BY <1>1
<1> QED BY <1>1, <1>4, <1>5, LedgerRecords

LEMMA LedgerStep ==
  ASSUME IInv, OneTree, [Next]_vars
  PROVE  Keeps /\ OneTree'
<1>0. TypeInv /\ TypeInv' /\ Len(log) \in Nat
  <2>1. IInv'
    BY Inductive
  <2> QED BY <2>1 DEF IInv, TypeInv, StoreTyped
<1>1. ASSUME UNCHANGED <<log, sources, cursor>> PROVE Keeps /\ OneTree'
  BY <1>1 DEF Keeps, Ledger!ledger, OneTree
<1>2. CASE UNCHANGED vars \/ RequestDeliveryRecovery
  BY <1>1, <1>2 DEF vars, store, RequestDeliveryRecovery
<1>3. ASSUME NEW p \in Procs, NEW status \in Statuses, Transition(p, status)
      PROVE  Keeps /\ OneTree'
  <2>1. log' = Append(log, status) /\ UNCHANGED <<sources, cursor>>
    BY <1>3 DEF Transition
  <2>2. OneTree'
    BY <2>1 DEF OneTree
  <2> QED BY <1>0, <2>1, <2>2, LedgerRecords
<1>4. ASSUME NEW p \in Procs, Skip(p) PROVE Keeps /\ OneTree'
  <2>1. PICK i \in Found(Len(log)) : cursor' = Advanced(i.w, i.n) /\ UNCHANGED <<log, sources>>
    BY <1>0, <1>4, SkipDoes
  <2> QED BY <1>0, <2>1, LedgerFollows DEF Found
<1>5. ASSUME NEW p \in Procs, Advance(p) PROVE Keeps /\ OneTree'
  <2>1. PICK i \in Found(Len(log)) : cursor' = Advanced(i.w, i.n) /\ UNCHANGED <<log, sources>>
    BY <1>0, <1>5, AdvanceDoes
  <2> QED BY <1>0, <2>1, LedgerFollows DEF Found
<1>6. ASSUME NEW p \in Procs, FollowFromHead(p) \/ Settle(p) PROVE Keeps /\ OneTree'
  <2>1. UNCHANGED <<log, sources>>
    BY <1>6 DEF FollowFromHead, Settle
  <2>2. PICK w \in Watchers, n \in 1 .. Len(log) : cursor' = Advanced(w, n)
    BY <1>0, <1>6, FollowsTo
  <2> QED BY <1>0, <2>1, <2>2, LedgerFollows
<1>7. ASSUME NEW p \in Procs, AttachManual(p) \/ AttachParent(p) PROVE Keeps /\ OneTree'
  <2>1. job[p] \in Jobs(Len(log)) /\ log' = log
    BY <1>0, <1>7 DEF TypeInv, AttachManual, AttachParent
  <2>2. job[p] \in Subscriptions(Len(log)) \cup Adoptions(Len(log))
    BY <1>0, <1>7, <2>1, JobFields DEF AttachManual, AttachParent
  <2>3. PICK w \in Watchers, r \in Sources : r # "parent" /\ Attach(w, r)
    BY <1>7, <2>2 DEF Subscriptions, Adoptions, AttachManual, AttachParent, Sources
  <2> QED BY <1>0, <2>1, <2>3, LedgerWatches
<1>8. ASSUME NEW p \in Procs, NEW w \in Watchers, Cancel(p, w) PROVE Keeps /\ OneTree'
  <2>1. sources' = [sources EXCEPT ![w] = @ \ {"watch:manual"}] /\ UNCHANGED <<log, cursor>>
    BY <1>8 DEF Cancel
  <2> QED BY <1>0, <2>1, LedgerUnwatches DEF Sources
<1>9. ASSUME NEW p \in Procs, DetachFormer(p) PROVE Keeps /\ OneTree'
  <2>1. /\ sources' = IF job[p].old = None THEN sources
                      ELSE [sources EXCEPT ![job[p].old] = @ \ {"watch:parent"}]
        /\ UNCHANGED <<log, cursor>>
    BY <1>9 DEF DetachFormer
  <2>2. job[p].old \in Watchers \cup {None}
    <3>1. job[p] \in Moves(Len(log))
      BY <1>0, <1>9, JobFields DEF TypeInv, DetachFormer
    <3> QED BY <3>1 DEF Moves
  <2> QED BY <1>0, <1>1, <2>1, <2>2, LedgerUnwatches DEF Sources
<1>10. ASSUME NEW p \in Procs,
              \/ Reconcile(p) \/ Queue(p) \/ Snapshot(p) \/ Introduce(p) \/ End(p) \/ Throws(p)
              \/ \E w \in Watchers : Subscribe(p, w)
       PROVE  Keeps /\ OneTree'
  BY <1>1, <1>10 DEF Reconcile, Queue, Snapshot, Introduce, End, Throws, Subscribe, store
<1> QED BY <1>0, <1>2, <1>3, <1>4, <1>5, <1>6, <1>7, <1>8, <1>9, <1>10, LedgerMoves DEF Next, InSeries

(* The series of all processes, interleaved and broken off anywhere, use   *)
(* the application's ledger of the subject only through its operations,    *)
(* and with maxima where several processes write one cursor. Since         *)
(* SessionApplication implements that ledger for every subject, a cursor   *)
(* that reconciliation, a subscription and an adoption all move stands at  *)
(* an event of the log and never goes back.                                *)
THEOREM SeriesKeepLedger == Spec => FollowsLedger
<1>1. Init => Ledger!LedgerInit /\ OneTree
  <2> SUFFICES ASSUME Init PROVE Ledger!LedgerInit /\ OneTree
    OBVIOUS
  <2>1. IInv
    BY InitHolds
  <2>2. /\ Len(log) \in Nat /\ sources \in [Watchers -> SUBSET Sources]
        /\ cursor \in [Watchers -> (0 .. Len(log)) \cup {None}]
    BY <2>1 DEF IInv, TypeInv, StoreTyped
  <2>3. \A w \in Watchers : "parent" \in sources[w] => w = Parent0
    BY DEF Init
  <2>4. Ledger!OnlyParent(sources)
    BY <2>3 DEF Ledger!OnlyParent, Ledger!Parents
  <2> QED BY <2>2, <2>4 DEF Ledger!LedgerInit, OneTree
<1>2. IInv /\ OneTree /\ [Next]_vars => [Ledger!LedgerNext]_(Ledger!ledger) /\ OneTree'
  BY LedgerStep DEF Keeps
<1> QED BY Always, <1>1, <1>2, PTL DEF Spec, FollowsLedger, Ledger!LedgerSpec
=============================================================================
