----------------------- MODULE SessionApplication_proofs -----------------------
(***************************************************************************)
(* Theorems about SessionApplication, for any number of sessions, channels,*)
(* keys, events and messages.                                              *)
(*                                                                         *)
(* Two facts about a step carry the invariants. EdgeStep: the edges gain   *)
(* at most one, and that one is valid. LogStep: a session's log and state  *)
(* row change together or not at all.                                      *)
(*                                                                         *)
(* For every subject, each step maps to one of FollowLedger or a stutter.  *)
(***************************************************************************)
EXTENDS SessionApplication, SequenceTheorems, TLAPS

-----------------------------------------------------------------------------
(* Types *)

LEMMA LifecycleType ==
  ASSUME AppTypeOK, NEW s \in Sessions, Lifecycle(s)
  PROVE  AppTypeOK'
<1> USE ApplicationAssumption DEF AppTypeOK
<1> PICK p \in Sessions \cup {None} :
           \/ \E status \in Statuses : CreateSession(s, status, p) \/ TransitionSession(s, status, p)
           \/ CreateRefused(s, p)
           \/ TransitionRefused(s, p)
  BY DEF Lifecycle
<1>1. Ends(p) \subseteq Sessions
  BY DEF Ends
<1>2. ASSUME NEW status \in Statuses, CreateSession(s, status, p)
      PROVE  AppTypeOK'
  <2>1. Row(status, p) \in State
    BY DEF Row, State
  <2>2. Change(Row(status, p), None) \in StateEvent
    BY DEF Change, Row, StateEvent
  <2>3. edges' \subseteq Sessions \X Sessions \X Relations
    BY <1>2 DEF CreateSession, Relations
  <2>4. log' \in [Sessions -> Seq(StateEvent \cup MessageEvent)]
    <3>1. Append(log[s], Change(Row(status, p), None)) \in Seq(StateEvent \cup MessageEvent)
      BY <2>2
    <3> QED BY <1>2, <3>1 DEF CreateSession
  <2> QED BY <1>1, <1>2, <2>1, <2>3, <2>4 DEF CreateSession
<1>3. ASSUME NEW status \in Statuses, TransitionSession(s, status, p)
      PROVE  AppTypeOK'
  <2>1. Row(status, p) \in State
    BY DEF Row, State
  <2>2. Change(Row(status, p), state[s]) \in StateEvent
    BY DEF Change, Row, StateEvent
  <2>3. edges' \subseteq Sessions \X Sessions \X Relations
    BY <1>3 DEF TransitionSession, Moved, Relations
  <2>4. log' \in [Sessions -> Seq(StateEvent \cup MessageEvent)]
    <3>1. Append(log[s], Change(Row(status, p), state[s])) \in Seq(StateEvent \cup MessageEvent)
      BY <2>2
    <3> QED BY <1>3, <3>1 DEF TransitionSession
  <2> QED BY <1>1, <1>3, <2>1, <2>3, <2>4 DEF TransitionSession
<1>4. CASE CreateRefused(s, p) \/ TransitionRefused(s, p)
  BY <1>1, <1>4 DEF CreateRefused, TransitionRefused
<1> QED BY <1>2, <1>3, <1>4

LEMMA WatchingType ==
  ASSUME AppTypeOK, NEW w \in Sessions, NEW s \in Sessions, Watching(w, s)
  PROVE  AppTypeOK'
<1> USE ApplicationAssumption DEF AppTypeOK
<1>1. ASSUME NEW ch \in Channels, AttachWatcher(w, s, ch)
      PROVE  AppTypeOK'
  <2>1. Len(log[s]) \in Nat
    OBVIOUS
  <2>2. edges' \subseteq Sessions \X Sessions \X Relations
    BY <1>1 DEF AttachWatcher, Relations
  <2> DEFINE c == IF CursorAt(w, s) > Len(log[s]) THEN cursor[w][s] ELSE Len(log[s])
  <2>3. c \in Nat \cup {None} /\ cursor' = [cursor EXCEPT ![w][s] = c]
    BY <1>1, <2>1 DEF AttachWatcher
  <2> HIDE DEF c
  <2> QED BY <1>1, <2>2, <2>3 DEF AttachWatcher
<1>2. ASSUME NEW ch \in Channels, AttachRefused(w, s, ch) \/ DetachWatcher(w, s, ch)
      PROVE  AppTypeOK'
  BY <1>2 DEF AttachRefused, DetachWatcher
<1>3. ASSUME NEW n \in DOMAIN log[s], AdvanceFollowCursor(w, s, n)
      PROVE  AppTypeOK'
  <2>1. n \in Nat
    BY DEF StateEvent
  <2> QED BY <1>3, <2>1 DEF AdvanceFollowCursor
<1> QED BY <1>1, <1>2, <1>3 DEF Watching

LEMMA AcceptedType ==
  ASSUME AppTypeOK, NEW s \in Sessions, NEW k \in Keys \cup {None}
  PROVE  Accepted(s, k) \in Seq(Keys \cup {None})
BY DEF AppTypeOK, Accepted

LEMMA BroadcastType ==
  ASSUME AppTypeOK, NEW R \in SUBSET Sessions, NEW k \in Keys \cup {None}, Broadcast(R, k)
  PROVE  AppTypeOK'
BY AcceptedType DEF AppTypeOK, Broadcast

LEMMA MessagingType ==
  ASSUME AppTypeOK, NEW s \in Sessions, Messaging(s)
  PROVE  AppTypeOK'
<1>1. ASSUME NEW k \in Keys \cup {None}, EnqueueMessage(s, k)
      PROVE  AppTypeOK'
  BY <1>1, AcceptedType DEF AppTypeOK, EnqueueMessage
<1>2. ASSUME NEW k \in Keys \cup {None}, EnqueueConversationMessage(s, k)
      PROVE  AppTypeOK'
  <2>1. PICK n \in IF Had(s, k) = {} THEN {Len(mail[s]) + 1} ELSE Had(s, k) :
          log' = IF Told(s, n) THEN log
                 ELSE [log EXCEPT ![s] = Append(@, [kind |-> "message", of |-> n])]
    BY <1>2 DEF EnqueueConversationMessage
  <2>2. n \in Nat
    BY DEF AppTypeOK, Had
  <2>3. [kind |-> "message", of |-> n] \in MessageEvent
    BY <2>2 DEF MessageEvent
  <2>4. Append(log[s], [kind |-> "message", of |-> n]) \in Seq(StateEvent \cup MessageEvent)
    BY <2>3 DEF AppTypeOK
  <2>5. log' \in [Sessions -> Seq(StateEvent \cup MessageEvent)]
    BY <2>1, <2>4 DEF AppTypeOK
  <2> QED BY <1>2, <2>5, AcceptedType DEF AppTypeOK, EnqueueConversationMessage
<1>3. CASE NotifyRecipients(s)
  <2>1. Recipients(s) \in SUBSET Sessions
    BY DEF Recipients
  <2> QED BY <1>3, <2>1, BroadcastType DEF NotifyRecipients
<1> QED BY <1>1, <1>2, <1>3 DEF Messaging

LEMMA TypeStep == ASSUME AppTypeOK, [AppNext]_appVars PROVE AppTypeOK'
<1>1. CASE UNCHANGED appVars
  BY <1>1 DEF appVars, AppTypeOK
<1> QED BY <1>1, LifecycleType, WatchingType, MessagingType, BroadcastType DEF AppNext

(* Every table has well-typed rows, whatever the operations and their      *)
(* order (createSession, transitionSession, attachWatcher, enqueue...).    *)
THEOREM AppTypeCorrect == AppSpec => []AppTypeOK
<1>1. AppInit => AppTypeOK
  BY ApplicationAssumption DEF AppInit, AppTypeOK
<1> QED BY <1>1, TypeStep, PTL DEF AppSpec

-----------------------------------------------------------------------------
(* The topology *)

Gains(f, t, r) ==
  /\ f # t /\ f \notin Reachable(t, r)
  /\ edges' \subseteq edges \cup {<<f, t, r>>}

(* A step removes edges, or adds one that ValidEdge accepted.              *)
LEMMA EdgeStep ==
  ASSUME AppTypeOK, [AppNext]_appVars
  PROVE  \/ edges' \subseteq edges
         \/ \E f, t \in Sessions, r \in Relations : Gains(f, t, r)
<1>1. CASE UNCHANGED appVars
  BY <1>1 DEF appVars
<1>2. ASSUME NEW s \in Sessions, Lifecycle(s)
      PROVE  \/ edges' \subseteq edges
             \/ \E f, t \in Sessions, r \in Relations : Gains(f, t, r)
  <2> PICK p \in Sessions \cup {None} :
             \/ \E status \in Statuses : CreateSession(s, status, p) \/ TransitionSession(s, status, p)
             \/ CreateRefused(s, p)
             \/ TransitionRefused(s, p)
    BY <1>2 DEF Lifecycle
  <2>1. ASSUME NEW status \in Statuses, CreateSession(s, status, p)
        PROVE  edges' \subseteq edges \/ (p \in Sessions /\ Gains(p, s, Parent))
    BY <2>1 DEF CreateSession, Attachable, ValidEdge, Gains
  <2>2. ASSUME NEW status \in Statuses, TransitionSession(s, status, p)
        PROVE  edges' \subseteq edges \/ (p \in Sessions /\ Gains(p, s, Parent))
    BY <2>2 DEF TransitionSession, Moved, Attachable, ValidEdge, Gains
  <2>3. CASE CreateRefused(s, p) \/ TransitionRefused(s, p)
    BY <2>3 DEF CreateRefused, TransitionRefused
  <2> QED BY <2>1, <2>2, <2>3 DEF Relations
<1>3. ASSUME NEW s \in Sessions, Messaging(s)
      PROVE  edges' \subseteq edges
  BY <1>3 DEF Messaging, EnqueueMessage, EnqueueConversationMessage, NotifyRecipients, Broadcast
<1>4. ASSUME NEW w \in Sessions, NEW s \in Sessions, Watching(w, s)
      PROVE  \/ edges' \subseteq edges
             \/ \E f, t \in Sessions, r \in Relations : Gains(f, t, r)
  <2>1. ASSUME NEW ch \in Channels, AttachWatcher(w, s, ch)
        PROVE  Gains(w, s, ch)
    BY <2>1 DEF AttachWatcher, Attachable, ValidEdge, Gains
  <2>2. ASSUME NEW ch \in Channels, AttachRefused(w, s, ch) \/ DetachWatcher(w, s, ch)
        PROVE  edges' \subseteq edges
    BY <2>2 DEF AttachRefused, DetachWatcher
  <2>3. ASSUME NEW n \in DOMAIN log[s], AdvanceFollowCursor(w, s, n)
        PROVE  edges' \subseteq edges
    BY <2>3 DEF AdvanceFollowCursor
  <2> QED BY <1>4, <2>1, <2>2, <2>3 DEF Watching, Relations
<1>5. ASSUME NEW R \in SUBSET Sessions, NEW k \in Keys, Broadcast(R, k)
      PROVE  edges' \subseteq edges
  BY <1>5 DEF Broadcast
<1> QED BY <1>1, <1>2, <1>3, <1>4, <1>5 DEF AppNext

(* The new edge f -> t closes no cycle: a rootless set that uses it keeps, *)
(* without what t reaches, a smaller rootless set of the old edges.        *)
LEMMA AcyclicStep ==
  ASSUME AppTypeOK, Acyclic, [AppNext]_appVars
  PROVE  Acyclic'
<1> SUFFICES ASSUME NEW rel \in Relations, NEW S \in SUBSET Sessions,
                    \A y \in S : \E x \in S : <<x, y, rel>> \in edges'
             PROVE  S = {}
  BY DEF Acyclic, Rootless
<1>1. CASE edges' \subseteq edges
  BY <1>1 DEF Acyclic, Rootless
<1>2. ASSUME NEW f \in Sessions, NEW t \in Sessions, NEW r \in Relations, Gains(f, t, r)
      PROVE  S = {}
  <2>1. CASE rel # r \/ f \notin S \/ t \notin S
    <3>1. \A y \in S : \E x \in S : <<x, y, rel>> \in edges
      BY <1>2, <2>1 DEF Gains
    <3> QED BY <3>1 DEF Acyclic, Rootless
  <2>2. CASE rel = r /\ f \in S /\ t \in S
    <3>1. PICK C \in SUBSET Sessions : t \in C /\ Closed(r, C) /\ f \notin C
      BY <1>2 DEF Gains, Reachable
    <3> DEFINE T == S \ C
    <3>2. \A y \in T : \E x \in T : <<x, y, rel>> \in edges
      <4> TAKE y \in T
      <4>1. PICK x \in S : <<x, y, rel>> \in edges'
        OBVIOUS
      <4>2. <<x, y, rel>> \in edges
        BY <1>2, <3>1, <4>1 DEF Gains
      <4>3. x \notin C
        BY <2>2, <3>1, <4>2 DEF Closed
      <4> QED BY <4>2, <4>3
    <3>3. f \in T
      BY <2>2, <3>1
    <3> QED BY <3>2, <3>3 DEF Acyclic, Rootless
  <2> QED BY <2>1, <2>2
<1> QED BY <1>1, <1>2, EdgeStep

LEMMA ParentStep ==
  ASSUME AppTypeOK, ParentAgrees, [AppNext]_appVars
  PROVE  ParentAgrees'
<1> USE ApplicationAssumption
<1>1. ASSUME edges' = edges, state' = state PROVE ParentAgrees'
  BY <1>1 DEF ParentAgrees, ParentEdges
<1>2. CASE UNCHANGED appVars
  BY <1>1, <1>2 DEF appVars
<1>3. ASSUME NEW s \in Sessions, NEW status \in Statuses, NEW p \in Sessions \cup {None},
             \/ CreateSession(s, status, p)
             \/ TransitionSession(s, status, p)
      PROVE  ParentAgrees'
  <2>1. \A u \in Sessions \ {s} : state'[u] = state[u]
    BY <1>3 DEF CreateSession, TransitionSession, AppTypeOK
  <2>2. state'[s] = Row(status, p)
    BY <1>3 DEF CreateSession, TransitionSession, AppTypeOK
  <2>3. state'[s] # None /\ state'[s].parent = p
    <3>1. Row(status, p) \in State
      BY DEF Row, State
    <3> QED BY <2>2, <3>1 DEF Row, State
  <2>4. ASSUME NEW u \in Sessions \ {s}
        PROVE  {e \in edges' : e[2] = u /\ e[3] = Parent} = ParentEdges(u)
    BY <1>3 DEF CreateSession, TransitionSession, Moved, ParentEdges
  <2>5. {e \in edges' : e[2] = s /\ e[3] = Parent}
          = IF p = None THEN {} ELSE {<<p, s, Parent>>}
    <3>1. CASE CreateSession(s, status, p)
      <4>1. ParentEdges(s) = {}
        BY <3>1 DEF CreateSession, ParentAgrees
      <4> QED BY <3>1, <4>1 DEF CreateSession, ParentEdges
    <3>2. CASE TransitionSession(s, status, p)
      <4>1. state[s] # None
        BY <3>2 DEF TransitionSession
      <4>2. ParentEdges(s) = IF state[s].parent = None THEN {} ELSE {<<state[s].parent, s, Parent>>}
        BY <4>1 DEF ParentAgrees
      <4>3. CASE p = state[s].parent
        BY <3>2, <4>2, <4>3 DEF TransitionSession, Moved, ParentEdges
      <4>4. CASE p # state[s].parent
        <5>1. CASE p = None
          BY <3>2, <4>2, <4>4, <5>1 DEF TransitionSession, Moved, ParentEdges
        <5>2. CASE p # None
          <6>1. edges' = (edges \ ParentEdges(s)) \cup {<<p, s, Parent>>}
            BY <3>2, <4>2, <4>4, <5>2 DEF TransitionSession, Moved
          <6> QED BY <5>2, <6>1 DEF ParentEdges
        <5> QED BY <5>1, <5>2
      <4> QED BY <4>3, <4>4
    <3> QED BY <1>3, <3>1, <3>2
  <2> QED BY <2>1, <2>3, <2>4, <2>5 DEF ParentAgrees, ParentEdges
<1>4. ASSUME NEW s \in Sessions, NEW p \in Sessions \cup {None},
             CreateRefused(s, p) \/ TransitionRefused(s, p)
      PROVE  ParentAgrees'
  BY <1>1, <1>4 DEF CreateRefused, TransitionRefused
<1>5. ASSUME NEW s \in Sessions, Messaging(s) PROVE ParentAgrees'
  BY <1>1, <1>5 DEF Messaging, EnqueueMessage, EnqueueConversationMessage, NotifyRecipients, Broadcast
<1>6. ASSUME NEW w \in Sessions, NEW s \in Sessions, Watching(w, s) PROVE ParentAgrees'
  <2>1. state' = state
    BY <1>6 DEF Watching, AttachWatcher, AttachRefused, DetachWatcher, AdvanceFollowCursor
  <2>2. ASSUME NEW u \in Sessions
        PROVE  {e \in edges' : e[2] = u /\ e[3] = Parent} = ParentEdges(u)
    <3>1. ASSUME NEW ch \in Channels, AttachWatcher(w, s, ch) \/ DetachWatcher(w, s, ch)
          PROVE  {e \in edges' : e[2] = u /\ e[3] = Parent} = ParentEdges(u)
      <4>1. <<w, s, ch>>[3] # Parent
        OBVIOUS
      <4>2. \A e \in edges' \cup edges : e[3] = Parent => (e \in edges' <=> e \in edges)
        BY <3>1, <4>1 DEF AttachWatcher, DetachWatcher
      <4> QED BY <4>2 DEF ParentEdges
    <3>2. CASE edges' = edges
      BY <3>2 DEF ParentEdges
    <3> QED BY <1>6, <3>1, <3>2 DEF Watching, AttachRefused, AdvanceFollowCursor
  <2> QED BY <2>1, <2>2 DEF ParentAgrees, ParentEdges
<1>7. ASSUME NEW R \in SUBSET Sessions, NEW k \in Keys, Broadcast(R, k) PROVE ParentAgrees'
  BY <1>1, <1>7 DEF Broadcast
<1> QED BY <1>2, <1>3, <1>4, <1>5, <1>6, <1>7 DEF AppNext, Lifecycle

(* No relation ever holds a cycle, for any number of sessions and any      *)
(* order of attach, reparent and subscribe (cycleExists).                  *)
THEOREM NoCycle == AppSpec => []Acyclic
<1>1. AppInit => Acyclic
  BY DEF AppInit, Acyclic, Rootless
<1>2. AppTypeOK /\ Acyclic /\ [AppNext]_appVars => Acyclic'
  BY AcyclicStep
<1> QED BY <1>1, <1>2, AppTypeCorrect, PTL DEF AppSpec

(* The parent column and the parent edges never disagree, through every    *)
(* sequence of creations and moves (createSession, transitionSession).     *)
THEOREM OneParent == AppSpec => []ParentAgrees
<1>1. AppInit => ParentAgrees
  BY DEF AppInit, ParentAgrees, ParentEdges
<1>2. AppTypeOK /\ ParentAgrees /\ [AppNext]_appVars => ParentAgrees'
  BY ParentStep
<1> QED BY <1>1, <1>2, AppTypeCorrect, PTL DEF AppSpec

-----------------------------------------------------------------------------
(* The event log *)

Quiet(s) == log'[s] = log[s] /\ state'[s] = state[s]
Changes(s) ==
  /\ state'[s] \in State
  /\ log'[s] = Append(log[s], Change(state'[s], state[s]))
Tells(s, n) ==
  /\ state'[s] = state[s]
  /\ n \in DOMAIN mail'[s] /\ ~Told(s, n)
  /\ log'[s] = Append(log[s], [kind |-> "message", of |-> n])

LEMMA AcceptedGrows ==
  ASSUME AppTypeOK, NEW s \in Sessions, NEW k \in Keys \cup {None}
  PROVE  /\ DOMAIN mail[s] \subseteq DOMAIN Accepted(s, k)
         /\ Had(s, k) = {} => Len(mail[s]) + 1 \in DOMAIN Accepted(s, k)
<1>1. mail[s] \in Seq(Keys \cup {None})
  BY DEF AppTypeOK
<1>2. /\ Len(Append(mail[s], k)) = Len(mail[s]) + 1
      /\ Append(mail[s], k) \in Seq(Keys \cup {None})
      /\ DOMAIN Append(mail[s], k) = 1 .. Len(mail[s]) + 1
  BY <1>1
<1>3. DOMAIN mail[s] = 1 .. Len(mail[s])
  BY <1>1
<1> QED BY <1>1, <1>2, <1>3 DEF Accepted

(* A session's row changes with one event appended that carries the new    *)
(* row and the old one; otherwise the row stays and the log stays, or      *)
(* gains a message that it did not tell before.                            *)
LEMMA LogStep ==
  ASSUME AppTypeOK, [AppNext]_appVars, NEW u \in Sessions
  PROVE  /\ DOMAIN mail[u] \subseteq DOMAIN mail'[u]
         /\ Quiet(u) \/ Changes(u) \/ \E n \in Nat : Tells(u, n)
<1> DEFINE Goal == /\ DOMAIN mail[u] \subseteq DOMAIN mail'[u]
                   /\ Quiet(u) \/ Changes(u) \/ \E n \in Nat : Tells(u, n)
<1>1. ASSUME UNCHANGED <<log, state, mail>> PROVE Goal
  BY <1>1 DEF Quiet
<1>2. ASSUME NEW s \in Sessions, NEW status \in Statuses, NEW p \in Sessions \cup {None},
             CreateSession(s, status, p) \/ TransitionSession(s, status, p)
      PROVE  Goal
  <2>1. Row(status, p) \in State
    BY DEF Row, State
  <2>2. CASE u = s
    <3>1. CASE CreateSession(s, status, p)
      BY <2>1, <2>2, <3>1 DEF CreateSession, AppTypeOK, Changes
    <3>2. CASE TransitionSession(s, status, p)
      BY <2>1, <2>2, <3>2 DEF TransitionSession, AppTypeOK, Changes
    <3> QED BY <1>2, <3>1, <3>2
  <2>3. CASE u # s
    BY <1>2, <2>3 DEF CreateSession, TransitionSession, AppTypeOK, Quiet
  <2> QED BY <2>2, <2>3
<1>3. ASSUME NEW s \in Sessions, Messaging(s)
      PROVE  Goal
  <2>1. ASSUME NEW k \in Keys \cup {None}, EnqueueMessage(s, k)
        PROVE  Goal
    BY <2>1, AcceptedGrows DEF EnqueueMessage, Quiet, AppTypeOK
  <2>2. ASSUME NEW k \in Keys \cup {None}, EnqueueConversationMessage(s, k)
        PROVE  Goal
    <3>1. PICK n \in IF Had(s, k) = {} THEN {Len(mail[s]) + 1} ELSE Had(s, k) :
            log' = IF Told(s, n) THEN log
                   ELSE [log EXCEPT ![s] = Append(@, [kind |-> "message", of |-> n])]
      BY <2>2 DEF EnqueueConversationMessage
    <3>2. mail' = [mail EXCEPT ![s] = Accepted(s, k)] /\ state' = state
      BY <2>2 DEF EnqueueConversationMessage
    <3>3. n \in Nat
      BY DEF AppTypeOK, Had
    <3>4. n \in DOMAIN Accepted(s, k)
      BY AcceptedGrows DEF Had
    <3>5. DOMAIN mail[u] \subseteq DOMAIN mail'[u]
      BY <3>2, AcceptedGrows DEF AppTypeOK
    <3>6. CASE u = s /\ ~Told(s, n)
      <4>1. Tells(u, n)
        BY <3>1, <3>2, <3>4, <3>6 DEF Tells, AppTypeOK
      <4> QED BY <3>3, <3>5, <4>1
    <3>7. CASE u # s \/ Told(s, n)
      <4>1. Quiet(u)
        BY <3>1, <3>2, <3>7 DEF Quiet, AppTypeOK
      <4> QED BY <3>5, <4>1
    <3> QED BY <3>6, <3>7
  <2>3. CASE NotifyRecipients(s)
    BY <2>3, AcceptedGrows DEF NotifyRecipients, Broadcast, Quiet
  <2> QED BY <1>3, <2>1, <2>2, <2>3 DEF Messaging
<1>4. ASSUME NEW R \in SUBSET Sessions, NEW k \in Keys, Broadcast(R, k)
      PROVE  Goal
  BY <1>4, AcceptedGrows DEF Broadcast, Quiet
<1>5. CASE UNCHANGED appVars
  BY <1>1, <1>5 DEF appVars
<1>6. ASSUME NEW w \in Sessions, NEW s \in Sessions, Watching(w, s)
      PROVE  Goal
  BY <1>1, <1>6 DEF Watching, AttachWatcher, AttachRefused, DetachWatcher, AdvanceFollowCursor
<1>7. ASSUME NEW s \in Sessions, NEW p \in Sessions \cup {None},
             CreateRefused(s, p) \/ TransitionRefused(s, p)
      PROVE  Goal
  BY <1>1, <1>7 DEF CreateRefused, TransitionRefused
<1> QED BY <1>2, <1>3, <1>4, <1>5, <1>6, <1>7 DEF AppNext, Lifecycle

LEMMA Appended ==
  ASSUME AppTypeOK, NEW u \in Sessions, NEW e, log'[u] = Append(log[u], e)
  PROVE  /\ DOMAIN log[u] = 1 .. Len(log[u]) /\ Len(log[u]) \in Nat
         /\ DOMAIN log'[u] = 1 .. Len(log[u]) + 1
         /\ log'[u][Len(log[u]) + 1] = e
         /\ \A i \in DOMAIN log[u] : log'[u][i] = log[u][i]
BY DEF AppTypeOK

(* What a change leaves: it is the newest state event, and the older ones  *)
(* stand.                                                                  *)
LEMMA ChangeAdds ==
  ASSUME AppTypeOK, NEW u \in Sessions, Changes(u)
  PROVE  LET n == Len(log[u]) + 1 IN
         /\ {i \in DOMAIN log'[u] : log'[u][i].kind = "state"} = StateEvents(u) \cup {n}
         /\ \A i \in StateEvents(u) : i < n /\ i \in Nat /\ log'[u][i] = log[u][i]
         /\ n \in Nat
         /\ Row(log'[u][n].status, log'[u][n].parent) = state'[u]
         /\ log'[u][n].was = state[u]
<1> DEFINE n == Len(log[u]) + 1
           e == Change(state'[u], state[u])
<1>1. e.kind = "state" /\ e.was = state[u] /\ Row(e.status, e.parent) = state'[u]
  BY DEF Changes, Change, Row, State
<1>2. log'[u] = Append(log[u], e)
  BY DEF Changes
<1> HIDE DEF e
<1>3. /\ DOMAIN log[u] = 1 .. Len(log[u]) /\ Len(log[u]) \in Nat
      /\ DOMAIN log'[u] = 1 .. n
      /\ log'[u][n] = e
      /\ \A i \in DOMAIN log[u] : log'[u][i] = log[u][i]
  BY <1>2, Appended
<1>4. {i \in DOMAIN log'[u] : log'[u][i].kind = "state"} = StateEvents(u) \cup {n}
  BY <1>1, <1>3 DEF StateEvents
<1>5. \A i \in StateEvents(u) : i < n /\ i \in Nat /\ log'[u][i] = log[u][i]
  BY <1>3 DEF StateEvents
<1> QED BY <1>1, <1>3, <1>4, <1>5

LEMMA TellAdds ==
  ASSUME AppTypeOK, NEW u \in Sessions, NEW n \in Nat, Tells(u, n)
  PROVE  /\ {i \in DOMAIN log'[u] : log'[u][i].kind = "state"} = StateEvents(u)
         /\ \A i \in StateEvents(u) : log'[u][i] = log[u][i]
<1> DEFINE e == [kind |-> "message", of |-> n]
<1>1. log'[u] = Append(log[u], e) /\ e.kind # "state"
  BY DEF Tells
<1> HIDE DEF e
<1>2. /\ DOMAIN log[u] = 1 .. Len(log[u]) /\ Len(log[u]) \in Nat
      /\ DOMAIN log'[u] = 1 .. Len(log[u]) + 1
      /\ log'[u][Len(log[u]) + 1] = e
      /\ \A i \in DOMAIN log[u] : log'[u][i] = log[u][i]
  BY <1>1, Appended
<1> QED BY <1>1, <1>2 DEF StateEvents

LEMMA ReplayStep ==
  ASSUME AppTypeOK, ReplayAgrees, [AppNext]_appVars
  PROVE  ReplayAgrees'
<1> SUFFICES ASSUME NEW u \in Sessions
             PROVE  /\ state'[u] = None => StateEvents(u)' = {}
                    /\ state'[u] # None =>
                         \E i \in StateEvents(u)' : Newest(StateEvents(u)', i) /\ RowAt(u, i)' = state'[u]
  BY DEF ReplayAgrees, Newest
<1>1. CASE Quiet(u)
  BY <1>1 DEF Quiet, ReplayAgrees, StateEvents, Newest, RowAt
<1>2. CASE Changes(u)
  <2>1. state'[u] # None
    BY <1>2, ApplicationAssumption DEF Changes, State
  <2>2. PICK n \in Nat :
          /\ StateEvents(u)' = StateEvents(u) \cup {n}
          /\ \A i \in StateEvents(u) : i < n /\ i \in Nat
          /\ Row(log'[u][n].status, log'[u][n].parent) = state'[u]
    BY <1>2, ChangeAdds DEF StateEvents
  <2> QED BY <2>1, <2>2 DEF Newest, RowAt
<1>3. ASSUME NEW n \in Nat, Tells(u, n)
      PROVE  /\ state'[u] = None => StateEvents(u)' = {}
             /\ state'[u] # None =>
                  \E i \in StateEvents(u)' : Newest(StateEvents(u)', i) /\ RowAt(u, i)' = state'[u]
  <2>1. /\ StateEvents(u)' = StateEvents(u)
        /\ \A i \in StateEvents(u) : RowAt(u, i)' = RowAt(u, i)
        /\ state'[u] = state[u]
    BY <1>3, TellAdds DEF StateEvents, RowAt, Tells
  <2> QED BY <2>1 DEF ReplayAgrees
<1> QED BY <1>1, <1>2, <1>3, LogStep

LEMMA HistoryStep ==
  ASSUME AppTypeOK, ReplayAgrees, HistoryUnbroken, [AppNext]_appVars
  PROVE  HistoryUnbroken'
<1> SUFFICES ASSUME NEW u \in Sessions,
                    NEW i \in StateEvents(u)', NEW j \in StateEvents(u)',
                    i < j, Newest({k \in StateEvents(u)' : k < j}, i)
             PROVE  log'[u][j].was = RowAt(u, i)'
  BY DEF HistoryUnbroken, Newest
<1>1. CASE Quiet(u)
  BY <1>1 DEF Quiet, HistoryUnbroken, StateEvents, Newest, RowAt
<1>2. CASE Changes(u)
  <2> DEFINE n == Len(log[u]) + 1
  <2>1. /\ StateEvents(u)' = StateEvents(u) \cup {n}
        /\ \A k \in StateEvents(u) : k < n /\ k \in Nat /\ log'[u][k] = log[u][k]
        /\ n \in Nat /\ log'[u][n].was = state[u]
    BY <1>2, ChangeAdds DEF StateEvents
  <2> HIDE DEF n
  <2>2. CASE j = n
    <3>1. i \in StateEvents(u) /\ \A k \in StateEvents(u) : k <= i
      BY <2>1, <2>2 DEF Newest
    <3>2. state[u] # None
      BY <3>1 DEF ReplayAgrees
    <3>3. PICK m \in StateEvents(u) : Newest(StateEvents(u), m) /\ RowAt(u, m) = state[u]
      BY <3>2 DEF ReplayAgrees
    <3>4. m = i
      BY <2>1, <3>1, <3>3 DEF Newest
    <3> QED BY <2>1, <2>2, <3>1, <3>3, <3>4 DEF RowAt
  <2>3. CASE j # n
    <3>1. i \in StateEvents(u) /\ j \in StateEvents(u)
      BY <2>1, <2>3
    <3>2. Newest({k \in StateEvents(u) : k < j}, i)
      BY <2>1, <3>1 DEF Newest
    <3>3. log[u][j].was = RowAt(u, i)
      BY <3>1, <3>2 DEF HistoryUnbroken
    <3> QED BY <2>1, <3>1, <3>3 DEF RowAt
  <2> QED BY <2>2, <2>3
<1>3. ASSUME NEW n \in Nat, Tells(u, n)
      PROVE  log'[u][j].was = RowAt(u, i)'
  <2>1. /\ StateEvents(u)' = StateEvents(u)
        /\ \A k \in StateEvents(u) : log'[u][k] = log[u][k]
    BY <1>3, TellAdds DEF StateEvents
  <2>2. log[u][j].was = RowAt(u, i)
    BY <2>1 DEF HistoryUnbroken
  <2> QED BY <2>1, <2>2 DEF RowAt
<1> QED BY <1>1, <1>2, <1>3, LogStep

LEMMA ToldStep ==
  ASSUME AppTypeOK, ToldOnce, [AppNext]_appVars
  PROVE  ToldOnce'
<1> SUFFICES ASSUME NEW u \in Sessions, NEW i \in DOMAIN log'[u], NEW j \in DOMAIN log'[u],
                    log'[u][i].kind = "message"
             PROVE  /\ log'[u][i].of \in DOMAIN mail'[u]
                    /\ log'[u][j] = log'[u][i] => j = i
  BY DEF ToldOnce
<1>1. DOMAIN mail[u] \subseteq DOMAIN mail'[u]
  BY LogStep
<1>2. CASE Quiet(u)
  BY <1>1, <1>2 DEF Quiet, ToldOnce
<1>3. ASSUME NEW e, log'[u] = Append(log[u], e), e.kind # "message"
      PROVE  /\ log'[u][i].of \in DOMAIN mail'[u]
             /\ log'[u][j] = log'[u][i] => j = i
  <2>1. i \in DOMAIN log[u] /\ log'[u][i] = log[u][i]
    BY <1>3, Appended
  <2>2. log'[u][j] = log'[u][i] => j \in DOMAIN log[u] /\ log'[u][j] = log[u][j]
    BY <1>3, Appended
  <2> QED BY <1>1, <2>1, <2>2 DEF ToldOnce
<1>4. CASE Changes(u)
  <2>1. Change(state'[u], state[u]).kind # "message"
    BY DEF Change
  <2> QED BY <1>3, <1>4, <2>1 DEF Changes
<1>5. ASSUME NEW n \in Nat, Tells(u, n)
      PROVE  /\ log'[u][i].of \in DOMAIN mail'[u]
             /\ log'[u][j] = log'[u][i] => j = i
  <2> DEFINE e == [kind |-> "message", of |-> n]
             l == Len(log[u]) + 1
  <2>1. /\ e.of \in DOMAIN mail'[u]
        /\ \A k \in DOMAIN log[u] : log[u][k] # e
        /\ log'[u] = Append(log[u], e)
    BY <1>5 DEF Tells, Told
  <2> HIDE DEF e
  <2>2. /\ DOMAIN log'[u] = DOMAIN log[u] \cup {l}
        /\ log'[u][l] = e
        /\ \A k \in DOMAIN log[u] : log'[u][k] = log[u][k]
    BY <2>1, Appended
  <2> QED BY <1>1, <2>1, <2>2 DEF ToldOnce
<1> QED BY <1>2, <1>4, <1>5, LogStep

(* The event log of a subject and its state row tell the same story: the   *)
(* newest state event is the row, and each event starts from the row the   *)
(* one before it left (transitionSession, replayState).                    *)
THEOREM ReplayTrue == AppSpec => [](ReplayAgrees /\ HistoryUnbroken)
<1>1. AppInit => ReplayAgrees /\ HistoryUnbroken
  BY DEF AppInit, ReplayAgrees, HistoryUnbroken, StateEvents
<1>2. AppTypeOK /\ (ReplayAgrees /\ HistoryUnbroken) /\ [AppNext]_appVars
        => (ReplayAgrees /\ HistoryUnbroken)'
  BY ReplayStep, HistoryStep
<1> QED BY <1>1, <1>2, AppTypeCorrect, PTL DEF AppSpec

(* No state event is missing from the middle of a log: each continues from *)
(* the row its predecessor left (transitionSession).                       *)
THEOREM HistoryWhole == AppSpec => []HistoryUnbroken
BY ReplayTrue, PTL

(* The public history tells a conversation message once, after its         *)
(* acceptance, however often it is retried (enqueueConversationMessage).   *)
THEOREM ConversationToldOnce == AppSpec => []ToldOnce
<1>1. AppInit => ToldOnce
  BY DEF AppInit, ToldOnce
<1>2. AppTypeOK /\ ToldOnce /\ [AppNext]_appVars => ToldOnce'
  BY ToldStep
<1> QED BY <1>1, <1>2, AppTypeCorrect, PTL DEF AppSpec

CursorForward ==
  [][\A w, s \in Sessions :
       cursor[w][s] # None => cursor'[w][s] # None /\ cursor'[w][s] >= cursor[w][s]]_appVars

(* No operation moves a follow cursor back or forgets it (attachWatcher,   *)
(* advanceFollowCursor).                                                   *)
THEOREM CursorNeverBack == AppSpec => CursorForward
<1> DEFINE Forward == \A w, s \in Sessions :
             cursor[w][s] # None => cursor'[w][s] # None /\ cursor'[w][s] >= cursor[w][s]
<1>1. AppTypeOK /\ [AppNext]_appVars => [Forward]_appVars
  <2> SUFFICES ASSUME AppTypeOK, [AppNext]_appVars PROVE Forward
    OBVIOUS
  <2>1. CASE cursor' = cursor
    BY <2>1 DEF AppTypeOK
  <2>2. ASSUME NEW w \in Sessions, NEW s \in Sessions, NEW ch \in Channels, AttachWatcher(w, s, ch)
        PROVE  Forward
    <3>1. Len(log[s]) \in Nat
      BY DEF AppTypeOK
    <3> DEFINE c == IF CursorAt(w, s) > Len(log[s]) THEN cursor[w][s] ELSE Len(log[s])
    <3>2. cursor' = [cursor EXCEPT ![w][s] = c]
      BY <2>2 DEF AttachWatcher
    <3>3. cursor[w][s] # None => c # None /\ c >= cursor[w][s]
      BY <3>1, ApplicationAssumption DEF AppTypeOK, CursorAt
    <3> HIDE DEF c
    <3> QED BY <3>2, <3>3 DEF AppTypeOK
  <2>3. ASSUME NEW w \in Sessions, NEW s \in Sessions, NEW n \in DOMAIN log[s],
               AdvanceFollowCursor(w, s, n)
        PROVE  Forward
    <3>1. n \in Nat
      BY DEF AppTypeOK
    <3> QED BY <2>3, <3>1, ApplicationAssumption DEF AdvanceFollowCursor, CursorAt, AppTypeOK
  <2>4. ASSUME NEW s \in Sessions, Lifecycle(s) PROVE cursor' = cursor
    BY <2>4 DEF Lifecycle, CreateSession, TransitionSession, CreateRefused, TransitionRefused
  <2>5. ASSUME NEW s \in Sessions, Messaging(s) PROVE cursor' = cursor
    BY <2>5 DEF Messaging, EnqueueMessage, EnqueueConversationMessage, NotifyRecipients, Broadcast
  <2>6. ASSUME NEW R \in SUBSET Sessions, NEW k \in Keys, Broadcast(R, k) PROVE cursor' = cursor
    BY <2>6 DEF Broadcast
  <2>7. ASSUME NEW w \in Sessions, NEW s \in Sessions, Watching(w, s) PROVE Forward
    <3>1. ASSUME NEW ch \in Channels, AttachRefused(w, s, ch) \/ DetachWatcher(w, s, ch)
          PROVE  cursor' = cursor
      BY <3>1 DEF AttachRefused, DetachWatcher
    <3> QED BY <2>1, <2>2, <2>3, <2>7, <3>1 DEF Watching
  <2>8. CASE UNCHANGED appVars
    BY <2>1, <2>8 DEF appVars
  <2> QED BY <2>1, <2>4, <2>5, <2>6, <2>7, <2>8 DEF AppNext
<1> QED BY <1>1, AppTypeCorrect, PTL DEF AppSpec, CursorForward

-----------------------------------------------------------------------------
(* The ledger of one subject *)

RelationsTo(s) == [w \in Sessions |-> {rel \in Relations : <<w, s, rel>> \in edges}]
PlacesIn(s) == [w \in Sessions |-> cursor[w][s]]

LEMMA LedgerState ==
  ASSUME NEW s \in Sessions
  PROVE  /\ Ledger(s)!ledger = <<Len(log[s]), RelationsTo(s), PlacesIn(s)>>
         /\ \A w \in Sessions : Ledger(s)!Read(w) = CursorAt(w, s)
         /\ RelationsTo(s) \in [Sessions -> SUBSET Relations]
BY DEF Ledger!ledger, Ledger!Read, RelationsTo, PlacesIn, CursorAt

(* Nothing about s changes. *)
LEMMA LedgerStands ==
  ASSUME NEW s \in Sessions, log'[s] = log[s],
         \A w \in Sessions : cursor'[w][s] = cursor[w][s],
         \A w \in Sessions, rel \in Relations : <<w, s, rel>> \in edges' <=> <<w, s, rel>> \in edges
  PROVE  KeepsLedger(s)
<1>1. RelationsTo(s)' = RelationsTo(s) /\ PlacesIn(s)' = PlacesIn(s)
  BY DEF RelationsTo, PlacesIn
<1> QED BY <1>1 DEF KeepsLedger, Ledger!ledger, RelationsTo, PlacesIn

(* The parent edges of s are never those of two parents. *)
LEMMA LedgerParent ==
  ASSUME ParentAgrees, NEW s \in Sessions
  PROVE  Ledger(s)!OnlyParent(RelationsTo(s))
<1>1. \A v, w \in Sessions : <<v, s, Parent>> \in edges /\ <<w, s, Parent>> \in edges => v = w
  BY DEF ParentAgrees, ParentEdges
<1> QED BY <1>1 DEF Ledger!OnlyParent, Ledger!Parents, RelationsTo

LEMMA LedgerRecords ==
  ASSUME AppTypeOK, ParentAgrees', NEW s \in Sessions, NEW e, log'[s] = Append(log[s], e),
         \A w \in Sessions : cursor'[w][s] = cursor[w][s],
         \A w \in Sessions, rel \in Channels : <<w, s, rel>> \in edges' <=> <<w, s, rel>> \in edges
  PROVE  KeepsLedger(s)
<1>1. Len(log'[s]) = Len(log[s]) + 1
  BY DEF AppTypeOK
<1>2. RelationsTo(s)' \in [Sessions -> SUBSET Relations]
  BY DEF RelationsTo
<1>3. Ledger(s)!OnlyParent(RelationsTo(s)')
  <2>1. \A v, w \in Sessions : <<v, s, Parent>> \in edges' /\ <<w, s, Parent>> \in edges' => v = w
    BY DEF ParentAgrees, ParentEdges
  <2> QED BY <2>1 DEF Ledger!OnlyParent, Ledger!Parents, RelationsTo
<1>4. \A w \in Sessions : RelationsTo(s)'[w] \ {Parent} = RelationsTo(s)[w] \ {Parent}
  BY DEF RelationsTo, Relations
<1>5. PlacesIn(s)' = PlacesIn(s)
  BY DEF PlacesIn
<1>6. Ledger(s)!Record
  BY <1>1, <1>2, <1>3, <1>4, <1>5 DEF Ledger!Record, RelationsTo, PlacesIn
<1> QED BY <1>6 DEF KeepsLedger, Ledger!LedgerNext

LEMMA LedgerWatches ==
  ASSUME AppTypeOK, NEW s \in Sessions, NEW u \in Sessions, NEW w \in Sessions, NEW ch \in Channels,
         AttachWatcher(w, u, ch)
  PROVE  KeepsLedger(s)
<1>1. /\ <<w, u, ch>> \notin edges /\ edges' = edges \cup {<<w, u, ch>>} /\ log' = log
      /\ cursor' = [cursor EXCEPT ![w][u] = IF CursorAt(w, u) > Len(log[u]) THEN @ ELSE Len(log[u])]
  BY DEF AttachWatcher, Attachable
<1>2. CASE s = u
  <2>1. ch \notin RelationsTo(s)[w] \cup {Parent} /\ ch \in Relations
    BY <1>1, <1>2, ApplicationAssumption DEF RelationsTo, Relations
  <2>2. RelationsTo(s)' = [RelationsTo(s) EXCEPT ![w] = @ \cup {ch}]
    BY <1>1, <1>2, <2>1 DEF RelationsTo
  <2>3. PlacesIn(s)' = [PlacesIn(s) EXCEPT ![w] = Ledger(s)!Farther(w, Len(log[s]))]
    BY <1>1, <1>2 DEF PlacesIn, AppTypeOK, CursorAt, Ledger!Farther, Ledger!Read
  <2>4. Ledger(s)!Watch(w, ch)
    BY <1>1, <2>1, <2>2, <2>3 DEF Ledger!Watch, RelationsTo, PlacesIn
  <2> QED BY <2>1, <2>4 DEF KeepsLedger, Ledger!LedgerNext
<1>3. CASE s # u
  <2>1. \A v \in Sessions : cursor'[v][s] = cursor[v][s]
    BY <1>1, <1>3 DEF AppTypeOK
  <2> QED BY <1>1, <1>3, <2>1, LedgerStands
<1> QED BY <1>2, <1>3

LEMMA LedgerUnwatches ==
  ASSUME NEW s \in Sessions, NEW u \in Sessions, NEW w \in Sessions, NEW ch \in Channels,
         DetachWatcher(w, u, ch)
  PROVE  KeepsLedger(s)
<1>1. /\ <<w, u, ch>> \in edges /\ edges' = edges \ {<<w, u, ch>>} /\ log' = log /\ cursor' = cursor
  BY DEF DetachWatcher
<1>2. CASE s = u
  <2>1. ch \in RelationsTo(s)[w] \ {Parent} /\ ch \in Relations
    BY <1>1, <1>2, ApplicationAssumption DEF RelationsTo, Relations
  <2>2. RelationsTo(s)' = [RelationsTo(s) EXCEPT ![w] = @ \ {ch}]
    BY <1>1, <1>2, <2>1 DEF RelationsTo
  <2>3. PlacesIn(s)' = PlacesIn(s)
    BY <1>1 DEF PlacesIn
  <2>4. Ledger(s)!Unwatch(w, ch)
    BY <1>1, <2>1, <2>2, <2>3 DEF Ledger!Unwatch, RelationsTo, PlacesIn
  <2> QED BY <2>1, <2>4 DEF KeepsLedger, Ledger!LedgerNext
<1>3. CASE s # u
  BY <1>1, <1>3, LedgerStands
<1> QED BY <1>2, <1>3

LEMMA LedgerFollows ==
  ASSUME AppTypeOK, NEW s \in Sessions, NEW u \in Sessions, NEW w \in Sessions, NEW n \in DOMAIN log[u],
         AdvanceFollowCursor(w, u, n)
  PROVE  KeepsLedger(s)
<1>1. /\ log' = log /\ edges' = edges /\ n \in 1 .. Len(log[u])
      /\ cursor' = IF cursor[w][u] # None /\ CursorAt(w, u) >= n THEN cursor
                   ELSE [cursor EXCEPT ![w][u] = n]
  BY DEF AdvanceFollowCursor, AppTypeOK
<1>2. CASE cursor' = cursor
  BY <1>1, <1>2, LedgerStands
<1>3. CASE cursor' # cursor /\ s = u
  <2>1. cursor' = [cursor EXCEPT ![w][u] = n] /\ ~(CursorAt(w, u) > n)
    BY <1>1, <1>3, ApplicationAssumption DEF AppTypeOK, CursorAt
  <2>2. PlacesIn(s)' = [PlacesIn(s) EXCEPT ![w] = Ledger(s)!Farther(w, n)]
    BY <1>3, <2>1 DEF PlacesIn, AppTypeOK, CursorAt, Ledger!Farther, Ledger!Read
  <2>3. Ledger(s)!Follow(w, n)
    BY <1>1, <2>2 DEF Ledger!Follow, RelationsTo, PlacesIn
  <2> QED BY <1>1, <1>3, <2>3 DEF KeepsLedger, Ledger!LedgerNext
<1>4. CASE cursor' # cursor /\ s # u
  <2>1. \A v \in Sessions : cursor'[v][s] = cursor[v][s]
    BY <1>1, <1>4 DEF AppTypeOK
  <2> QED BY <1>1, <1>4, <2>1, LedgerStands
<1> QED BY <1>2, <1>3, <1>4

(* A change of a session's row moves no edge but its own parent's. *)
LEMMA MovedEdges ==
  ASSUME NEW known2, NEW u \in Sessions, NEW old, NEW new, NEW next, Moved(known2, u, old, new, next)
  PROVE  \A w, v \in Sessions, rel \in Relations :
           v # u \/ rel # Parent => (<<w, v, rel>> \in next <=> <<w, v, rel>> \in edges)
BY DEF Moved, ParentEdges

LEMMA LedgerChanges ==
  ASSUME AppTypeOK, ParentAgrees', NEW s \in Sessions, NEW u \in Sessions,
         NEW status \in Statuses, NEW p \in Sessions \cup {None},
         CreateSession(u, status, p) \/ TransitionSession(u, status, p)
  PROVE  KeepsLedger(s)
<1>1. \A w, v \in Sessions, rel \in Relations :
        v # u \/ rel # Parent => (<<w, v, rel>> \in edges' <=> <<w, v, rel>> \in edges)
  <2>1. CASE CreateSession(u, status, p)
    BY <2>1 DEF CreateSession
  <2>2. CASE TransitionSession(u, status, p)
    BY <2>2, MovedEdges DEF TransitionSession
  <2> QED BY <2>1, <2>2
<1>2. cursor' = cursor /\ \E e : log' = [log EXCEPT ![u] = Append(@, e)]
  BY DEF CreateSession, TransitionSession
<1>3. \A rel \in Channels : rel \in Relations /\ rel # Parent
  BY ApplicationAssumption DEF Relations
<1>4. PICK e : log' = [log EXCEPT ![u] = Append(@, e)]
  BY <1>2
<1>5. CASE s = u
  <2>1. log'[s] = Append(log[s], e)
    BY <1>4, <1>5 DEF AppTypeOK
  <2> QED BY <1>1, <1>2, <1>3, <2>1, LedgerRecords
<1>6. CASE s # u
  <2>1. log'[s] = log[s]
    BY <1>4, <1>6
  <2> QED BY <1>1, <1>2, <1>6, <2>1, LedgerStands
<1> QED BY <1>5, <1>6

LEMMA LedgerMessages ==
  ASSUME AppTypeOK, ParentAgrees', NEW s \in Sessions,
         UNCHANGED <<edges, cursor>>,
         \/ log' = log
         \/ \E u \in Sessions : \E e : log' = [log EXCEPT ![u] = Append(@, e)]
  PROVE  KeepsLedger(s)
<1>1. CASE log'[s] = log[s]
  BY <1>1, LedgerStands
<1>2. CASE log'[s] # log[s]
  <2>1. PICK u \in Sessions : \E e : log' = [log EXCEPT ![u] = Append(@, e)]
    BY <1>2
  <2>2. PICK e : log' = [log EXCEPT ![u] = Append(@, e)]
    BY <2>1
  <2>3. log'[s] = Append(log[s], e)
    BY <1>2, <2>2 DEF AppTypeOK
  <2> QED BY <2>3, LedgerRecords
<1> QED BY <1>1, <1>2

LEMMA LedgerStep ==
  ASSUME AppTypeOK, ParentAgrees', [AppNext]_appVars, NEW s \in Sessions
  PROVE  KeepsLedger(s)
<1>1. CASE UNCHANGED appVars
  BY <1>1, LedgerStands DEF appVars
<1>2. ASSUME NEW u \in Sessions, Lifecycle(u) PROVE KeepsLedger(s)
  <2>1. PICK p \in Sessions \cup {None} :
             \/ \E status \in Statuses : CreateSession(u, status, p) \/ TransitionSession(u, status, p)
             \/ CreateRefused(u, p)
             \/ TransitionRefused(u, p)
    BY <1>2 DEF Lifecycle
  <2>2. CASE CreateRefused(u, p) \/ TransitionRefused(u, p)
    <3>1. UNCHANGED <<edges, cursor, log>>
      BY <2>2 DEF CreateRefused, TransitionRefused
    <3> QED BY <3>1, LedgerMessages
  <2> QED BY <2>1, <2>2, LedgerChanges
<1>3. ASSUME NEW u \in Sessions, Messaging(u) PROVE KeepsLedger(s)
  <2>1. UNCHANGED <<edges, cursor>> /\ (log' = log \/ \E e : log' = [log EXCEPT ![u] = Append(@, e)])
    <3>1. ASSUME NEW k \in Keys \cup {None}, EnqueueConversationMessage(u, k)
          PROVE  UNCHANGED <<edges, cursor>> /\ (log' = log \/ \E e : log' = [log EXCEPT ![u] = Append(@, e)])
      BY <3>1 DEF EnqueueConversationMessage
    <3>2. ASSUME \/ \E k \in Keys \cup {None} : EnqueueMessage(u, k)
                 \/ NotifyRecipients(u)
          PROVE  UNCHANGED <<edges, cursor>> /\ log' = log
      BY <3>2 DEF EnqueueMessage, NotifyRecipients, Broadcast
    <3> QED BY <1>3, <3>1, <3>2 DEF Messaging
  <2> QED BY <2>1, LedgerMessages
<1>4. ASSUME NEW w \in Sessions, NEW u \in Sessions, Watching(w, u) PROVE KeepsLedger(s)
  <2>1. ASSUME NEW ch \in Channels, AttachRefused(w, u, ch) PROVE KeepsLedger(s)
    <3>1. UNCHANGED <<edges, cursor, log>>
      BY <2>1 DEF AttachRefused
    <3> QED BY <3>1, LedgerMessages
  <2> QED BY <1>4, <2>1, LedgerWatches, LedgerUnwatches, LedgerFollows DEF Watching
<1>5. ASSUME NEW R \in SUBSET Sessions, NEW k \in Keys, Broadcast(R, k) PROVE KeepsLedger(s)
  <2>1. UNCHANGED <<edges, cursor, log>>
    BY <1>5 DEF Broadcast
  <2> QED BY <2>1, LedgerMessages
<1> QED BY <1>1, <1>2, <1>3, <1>4, <1>5 DEF AppNext

(* For each subject the application is the ledger its users follow: no     *)
(* order of creations, moves, watches and messages on all subjects takes   *)
(* an event back, gives a subject two parents, starts a new watch in the   *)
(* past or moves a follow cursor back.                                     *)
THEOREM ApplicationIsLedger == AppSpec => ImplementsLedger
<1>1. AppInit => \A s \in Sessions : Ledger(s)!LedgerInit
  <2> SUFFICES ASSUME AppInit, NEW s \in Sessions PROVE Ledger(s)!LedgerInit
    OBVIOUS
  <2>1. Len(log[s]) = 0 /\ edges = {} /\ cursor = [w \in Sessions |-> [t \in Sessions |-> None]]
    BY DEF AppInit
  <2>2. /\ RelationsTo(s) \in [Sessions -> SUBSET Relations]
        /\ PlacesIn(s) \in [Sessions -> (0 .. Len(log[s])) \cup {None}]
    BY <2>1 DEF RelationsTo, PlacesIn
  <2>3. Ledger(s)!OnlyParent(RelationsTo(s))
    BY <2>1 DEF RelationsTo, Ledger!OnlyParent, Ledger!Parents
  <2> QED BY <2>1, <2>2, <2>3 DEF Ledger!LedgerInit, RelationsTo, PlacesIn
<1>2. AppTypeOK /\ ParentAgrees' /\ [AppNext]_appVars
        => [\A s \in Sessions : KeepsLedger(s)]_appVars
  BY LedgerStep
<1> QED BY <1>1, <1>2, AppTypeCorrect, OneParent, PTL DEF AppSpec, ImplementsLedger
=============================================================================
