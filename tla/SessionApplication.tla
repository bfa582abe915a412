-------------------------- MODULE SessionApplication --------------------------
(***************************************************************************)
(* The session application, packages/session-application/src/production.ts *)
(* with the topology and event stores it composes: session-topology and    *)
(* session-events. Every operation is one transaction of the session       *)
(* protocol (module SessionProtocol shows what that gives), so here it is  *)
(* one action over the committed tables.                                   *)
(*                                                                         *)
(* A proposal and a note travel with the status and no decision reads      *)
(* them, so a "status" stands for all three. Edges are kept while active:  *)
(* a removed edge row is never read again. An address is never retired:    *)
(* no code outside the protocol package calls retire. Only the importer    *)
(* creates a session with a runtime, and only tests give a transition      *)
(* explicit recipients.                                                    *)
(***************************************************************************)
EXTENDS Naturals, Sequences, FiniteSets

CONSTANTS
  Sessions,   \* protocol addresses
  None,       \* no parent, no row, no cursor, no idempotency key
  Statuses,   \* lifecycle statuses, each with its proposal and note
  Parent,     \* the relation type of the supervision tree
  Channels,   \* the watch relation types
  Keys,       \* idempotency keys
  MaxEvents,  \* bound: events of one subject
  MaxMail     \* bound: messages of one address

ASSUME ApplicationAssumption ==
  /\ None \notin Sessions \cup Keys \cup Nat
  /\ None \notin [status : Statuses, parent : Sessions \cup {None}]
  /\ Parent \notin Channels
  /\ MaxEvents \in Nat /\ MaxMail \in Nat

VARIABLES
  known,   \* the initialized addresses
  state,   \* session_application_state: state[s] is None or s's row
  edges,   \* the active topology edges <<from, to, relation>>
  log,     \* session_events: log[s][n] is the event of s with event_seq n
  cursor,  \* session_follow_cursors: cursor[w][s], None when there is no row
  mail     \* the keys of the messages address s has accepted, oldest first

appVars == <<known, state, edges, log, cursor, mail>>

Relations == Channels \cup {Parent}
State == [status : Statuses, parent : Sessions \cup {None}]
StateEvent == [kind : {"state"}, status : Statuses, parent : Sessions \cup {None},
               was : State \cup {None}]
MessageEvent == [kind : {"message"}, of : Nat]

-----------------------------------------------------------------------------
(* session-topology *)

ParentEdges(s) == {e \in edges : e[2] = s /\ e[3] = Parent}

(* The sessions the recursive query reaches from x over active rel edges.  *)
Closed(rel, C) == \A e \in edges : (e[3] = rel /\ e[1] \in C) => e[2] \in C
Reachable(x, rel) ==
  {z \in Sessions : \A C \in SUBSET Sessions : (x \in C /\ Closed(rel, C)) => z \in C}

(* validateNewEdge: no self edge, known ends, no cycle in the relation.    *)
ValidEdgeUnlessMutual(known2, f, t, rel) ==
  f # t /\ {f, t} \subseteq known2 /\ <<t, f, rel>> \notin edges
ValidEdge(known2, f, t, rel) ==
  /\ f # t
  /\ {f, t} \subseteq known2
  /\ f \notin Reachable(t, rel)

Attachable(known2, f, t, rel) == ValidEdge(known2, f, t, rel) /\ <<f, t, rel>> \notin edges

(* The active edges after s moves from parent old to parent new.           *)
MovedLeavingOld(known2, s, old, new, next) ==
  \/ new = old /\ next = edges
  \/ /\ new \notin {old, None}
     /\ ValidEdge(known2, new, s, Parent)
     /\ next = edges \cup {<<new, s, Parent>>}
  \/ new = None /\ old # None /\ next = edges \ ParentEdges(s)
Moved(known2, s, old, new, next) ==
  \/ new = old /\ next = edges
  \/ /\ old # None /\ new \notin {old, None}     \* reparent
     /\ ValidEdge(known2, new, s, Parent)
     /\ next = (edges \ ParentEdges(s)) \cup {<<new, s, Parent>>}
  \/ /\ old = None /\ new # None                 \* attach
     /\ Attachable(known2, new, s, Parent)
     /\ next = edges \cup {<<new, s, Parent>>}
  \/ /\ old # None /\ new = None                 \* detach the first parent edge
     /\ \/ ParentEdges(s) = {} /\ next = edges
        \/ \E e \in ParentEdges(s) : next = edges \ {e}

(* recipients: who has an active edge of any relation to s.                *)
Recipients(s) == {w \in Sessions : \E rel \in Relations : <<w, s, rel>> \in edges}

-----------------------------------------------------------------------------
(* createSession and transitionSession *)

Ends(p) == IF p = None THEN {} ELSE {p}
Row(status, p) == [status |-> status, parent |-> p]

ChangeStale(row, was) ==
  LET shown == IF was = None THEN row ELSE was IN
    [kind |-> "state", status |-> shown.status, parent |-> shown.parent, was |-> was]
Change(row, was) ==
  [kind |-> "state", status |-> row.status, parent |-> row.parent, was |-> was]

CreateSession(s, status, p) ==
  LET known2 == known \cup {s} \cup Ends(p) IN
    /\ state[s] = None
    /\ Len(log[s]) < MaxEvents
    /\ \/ p = None /\ edges' = edges
       \/ /\ p # None
          /\ Attachable(known2, p, s, Parent)
          /\ edges' = edges \cup {<<p, s, Parent>>}
    /\ known' = known2
    /\ state' = [state EXCEPT ![s] = Row(status, p)]
    /\ log' = [log EXCEPT ![s] = Append(@, Change(Row(status, p), None))]
    /\ UNCHANGED <<cursor, mail>>

(* The addresses are initialized before the transaction that fails.        *)
CreateRefused(s, p) ==
  LET known2 == known \cup {s} \cup Ends(p) IN
    /\ \/ state[s] # None
       \/ p # None /\ ~Attachable(known2, p, s, Parent)
    /\ known' = known2
    /\ UNCHANGED <<state, edges, log, cursor, mail>>

(* p is the parent asked for; the current one when the call names none.    *)
TransitionSession(s, status, p) ==
  LET known2 == known \cup Ends(p) IN
    /\ state[s] # None
    /\ p # s
    /\ Len(log[s]) < MaxEvents
    /\ Moved(known2, s, state[s].parent, p, edges')
    /\ known' = known2
    /\ state' = [state EXCEPT ![s] = Row(status, p)]
    /\ log' = [log EXCEPT ![s] = Append(@, Change(Row(status, p), state[s]))]
    /\ UNCHANGED <<cursor, mail>>

TransitionRefused(s, p) ==
  LET known2 == known \cup Ends(p) IN
    /\ p # s
    /\ \/ state[s] = None
       \/ /\ state[s] # None
          /\ p \notin {state[s].parent, None}
          /\ ~(IF state[s].parent = None THEN Attachable(known2, p, s, Parent)
                                         ELSE ValidEdge(known2, p, s, Parent))
    /\ known' = known2
    /\ UNCHANGED <<state, edges, log, cursor, mail>>

-----------------------------------------------------------------------------
(* Watching *)

CursorAt(w, s) == IF cursor[w][s] = None THEN 0 ELSE cursor[w][s]

AttachWatcherResets(w, s, ch) ==
  LET known2 == known \cup {w, s} IN
    /\ Attachable(known2, w, s, ch)
    /\ known' = known2
    /\ edges' = edges \cup {<<w, s, ch>>}
    /\ cursor' = [cursor EXCEPT ![w][s] = 0]
    /\ UNCHANGED <<state, log, mail>>

(* A new watch begins at the subject's newest event and never moves an     *)
(* older cursor back.                                                      *)
AttachWatcher(w, s, ch) ==
  LET known2 == known \cup {w, s}
      head == Len(log[s])
  IN  /\ Attachable(known2, w, s, ch)
      /\ known' = known2
      /\ edges' = edges \cup {<<w, s, ch>>}
      /\ cursor' = [cursor EXCEPT ![w][s] = IF CursorAt(w, s) > head THEN @ ELSE head]
      /\ UNCHANGED <<state, log, mail>>

AttachRefused(w, s, ch) ==
  LET known2 == known \cup {w, s} IN
    /\ ~Attachable(known2, w, s, ch)
    /\ known' = known2
    /\ UNCHANGED <<state, edges, log, cursor, mail>>

DetachWatcher(w, s, ch) ==
  /\ <<w, s, ch>> \in edges
  /\ edges' = edges \ {<<w, s, ch>>}
  /\ UNCHANGED <<known, state, log, cursor, mail>>

(* readWatchEvents: the state events of followed subjects past the cursor. *)
WatchEvents(w) ==
  {e \in Sessions \X (1 .. MaxEvents) :
     LET s == e[1]
         n == e[2]
     IN  /\ w \in Recipients(s)
         /\ n \in DOMAIN log[s] /\ log[s][n].kind = "state"
         /\ n > CursorAt(w, s)}

AdvanceFollowCursor(w, s, n) ==
  /\ cursor' = IF cursor[w][s] # None /\ CursorAt(w, s) >= n
                 THEN cursor
                 ELSE [cursor EXCEPT ![w][s] = n]
  /\ UNCHANGED <<known, state, edges, log, mail>>

-----------------------------------------------------------------------------
(* Messages. A keyed message that the address already has is replayed.     *)

Had(s, k) == {n \in DOMAIN mail[s] : k # None /\ mail[s][n] = k}
Accepted(s, k) == IF Had(s, k) = {} THEN Append(mail[s], k) ELSE mail[s]
Told(s, n) == \E i \in DOMAIN log[s] : log[s][i] = [kind |-> "message", of |-> n]

EnqueueMessage(s, k) ==
  /\ Len(mail[s]) < MaxMail
  /\ known' = known \cup {s}
  /\ mail' = [mail EXCEPT ![s] = Accepted(s, k)]
  /\ UNCHANGED <<state, edges, log, cursor>>

ConversationAlwaysTold(s, k) ==
  /\ Len(mail[s]) < MaxMail /\ Len(log[s]) < MaxEvents
  /\ known' = known \cup {s}
  /\ mail' = [mail EXCEPT ![s] = Accepted(s, k)]
  /\ \E n \in IF Had(s, k) = {} THEN {Len(mail[s]) + 1} ELSE Had(s, k) :
        log' = [log EXCEPT ![s] = Append(@, [kind |-> "message", of |-> n])]
  /\ UNCHANGED <<state, edges, cursor>>

(* The message and its public event commit together, and a replay of the   *)
(* message finds its event there.                                          *)
EnqueueConversationMessage(s, k) ==
  /\ Len(mail[s]) < MaxMail /\ Len(log[s]) < MaxEvents
  /\ known' = known \cup {s}
  /\ mail' = [mail EXCEPT ![s] = Accepted(s, k)]
  /\ \E n \in IF Had(s, k) = {} THEN {Len(mail[s]) + 1} ELSE Had(s, k) :
        log' = IF Told(s, n) THEN log
               ELSE [log EXCEPT ![s] = Append(@, [kind |-> "message", of |-> n])]
  /\ UNCHANGED <<state, edges, cursor>>

(* broadcast and notifyRecipients put one message in several inboxes, or,  *)
(* when an address is unknown, in none.                                    *)
Broadcast(R, k) ==
  /\ R \subseteq known
  /\ \A s \in R : Len(mail[s]) < MaxMail
  /\ mail' = [s \in Sessions |-> IF s \in R THEN Accepted(s, k) ELSE mail[s]]
  /\ UNCHANGED <<known, state, edges, log, cursor>>

NotifyRecipients(s) == Broadcast(Recipients(s), None)

-----------------------------------------------------------------------------

AppInit ==
  /\ known = {}
  /\ state = [s \in Sessions |-> None]
  /\ edges = {}
  /\ log = [s \in Sessions |-> <<>>]
  /\ cursor = [w \in Sessions |-> [s \in Sessions |-> None]]
  /\ mail = [s \in Sessions |-> <<>>]

Lifecycle(s) ==
  \E p \in Sessions \cup {None} :
    \/ \E status \in Statuses : CreateSession(s, status, p) \/ TransitionSession(s, status, p)
    \/ CreateRefused(s, p)
    \/ TransitionRefused(s, p)

Watching(w, s) ==
  \/ \E ch \in Channels : AttachWatcher(w, s, ch) \/ AttachRefused(w, s, ch) \/ DetachWatcher(w, s, ch)
  \/ \E n \in DOMAIN log[s] : AdvanceFollowCursor(w, s, n)

Messaging(s) ==
  \/ \E k \in Keys \cup {None} : EnqueueMessage(s, k) \/ EnqueueConversationMessage(s, k)
  \/ NotifyRecipients(s)

AppNext ==
  \/ \E s \in Sessions : Lifecycle(s) \/ Messaging(s)
  \/ \E w, s \in Sessions : Watching(w, s)
  \/ \E R \in SUBSET Sessions, k \in Keys : Broadcast(R, k)

AppSpec == AppInit /\ [][AppNext]_appVars

-----------------------------------------------------------------------------
(* Properties *)

(* Every table has well-typed rows. *)
AppTypeOK ==
  /\ known \subseteq Sessions
  /\ state \in [Sessions -> State \cup {None}]
  /\ edges \subseteq Sessions \X Sessions \X Relations
  /\ log \in [Sessions -> Seq(StateEvent \cup MessageEvent)]
  /\ cursor \in [Sessions -> [Sessions -> Nat \cup {None}]]
  /\ mail \in [Sessions -> Seq(Keys \cup {None})]

(* No relation ever contains a cycle: no set of sessions in which each has *)
(* a predecessor in the set (cycleExists, through attach, reparent and     *)
(* subscribe in any order).                                                *)
Rootless(S, rel) == \A t \in S : \E f \in S : <<f, t, rel>> \in edges
Acyclic == \A rel \in Relations : \A S \in SUBSET Sessions : Rootless(S, rel) => S = {}

(* The parent written in a session's state row and the parent edges of the *)
(* topology are the same fact: one active edge from that parent, or none   *)
(* (transitionSession's choice of attach, reparent or detach).             *)
ParentAgrees ==
  \A s \in Sessions :
    ParentEdges(s) = IF state[s] = None \/ state[s].parent = None
                       THEN {} ELSE {<<state[s].parent, s, Parent>>}

(* Replaying a subject's event log gives its state row, and each change    *)
(* starts from the row the one before it left: no update is lost between   *)
(* reading the row and appending the event (replayState, transitionSession)*)
StateEvents(s) == {n \in DOMAIN log[s] : log[s][n].kind = "state"}
Newest(N, n) == n \in N /\ \A m \in N : m <= n
RowAt(s, n) == Row(log[s][n].status, log[s][n].parent)

ReplayAgrees ==
  \A s \in Sessions :
    /\ state[s] = None => StateEvents(s) = {}
    /\ state[s] # None => \E n \in StateEvents(s) : Newest(StateEvents(s), n) /\ RowAt(s, n) = state[s]

HistoryUnbroken ==
  \A s \in Sessions : \A m, n \in StateEvents(s) :
    (m < n /\ Newest({k \in StateEvents(s) : k < n}, m)) => log[s][n].was = RowAt(s, m)

(* A conversation message is told once in its recipient's public history,  *)
(* however often its acceptance is retried, and only after it was accepted *)
(* (hasMessageEvent inside the enqueueing transaction).                    *)
ToldOnce ==
  \A s \in Sessions : \A m, n \in DOMAIN log[s] :
    log[s][m].kind = "message" =>
      /\ log[s][m].of \in DOMAIN mail[s]
      /\ log[s][n] = log[s][m] => n = m

(* To the rest of SpexCode the application is, for each subject, the       *)
(* ledger of module FollowLedger: events only join it, with one of them    *)
(* the subject may change its one parent, a new watch starts at the newest *)
(* event, and no operation makes a watcher forget how far it has followed  *)
(* (the maxima of attachWatcher and advanceFollowCursor).                  *)
Ledger(s) == INSTANCE FollowLedger WITH
  Watchers <- Sessions,
  Tree <- Parent,
  length <- Len(log[s]),
  relations <- [w \in Sessions |-> {rel \in Relations : <<w, s, rel>> \in edges}],
  place <- [w \in Sessions |-> cursor[w][s]]

KeepsLedger(s) == UNCHANGED Ledger(s)!ledger \/ Ledger(s)!LedgerNext
ImplementsLedger ==
  (\A s \in Sessions : Ledger(s)!LedgerInit) /\ [][\A s \in Sessions : KeepsLedger(s)]_appVars
=============================================================================
