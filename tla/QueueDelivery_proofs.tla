-------------------------- MODULE QueueDelivery_proofs --------------------------
(***************************************************************************)
(* Proofs about the delivery lock and the deliveries under it, for any     *)
(* number of processes, messages, bindings and inbox commands.             *)
(*                                                                         *)
(* The lock: Exclusion is not inductive. The argument needs that the file  *)
(* stands as long as a task has created it and not released it. Nobody     *)
(* unlinks it in between, because without a dead owner no task reaches the *)
(* stage that reclaims.                                                    *)
(*                                                                         *)
(* The deliveries: while the lock is sound one loop at most is between its *)
(* claim and its release, so what that loop has read of the head stays     *)
(* true up to the commands that take from the same queue. The invariants   *)
(* say what the loop may rely on at each stage.                            *)
(*                                                                         *)
(* The debt: while a message waits, a backend has noted it or is about to, *)
(* where no backend ends beside its replacement. The mailbox: every step   *)
(* sends, takes or leaves the queue as it is.                              *)
(***************************************************************************)
EXTENDS QueueDelivery, TLAPS

Owners == {t \in Tasks : claim[t].at \in {"opened", "held"}}

Guarded ==
  AllAlive =>
    /\ \A t \in Tasks : claim[t].at \notin {"stale", "retry"}
    /\ Owners # {} => file # Absent
    /\ \A t, u \in Owners : t = u

Reading == \A t \in Tasks : claim[t].at = "read" => claim[t].owner \in Pids

(* A process that has ended is inside no call and holds nothing. *)
DeadIdle == \A t \in Tasks : ~alive[PidOf[t]] => claim[t].at = "idle"

LockInv == LockTypeOK /\ Reading /\ Guarded /\ DeadIdle

LEMMA TypeStep == ASSUME LockTypeOK, [LockNext]_lockVars PROVE LockTypeOK'
<1> USE LockAssumption DEF LockTypeOK
<1>1. CASE UNCHANGED lockVars
  BY <1>1 DEF lockVars
<1>2. ASSUME NEW t \in Tasks, Claiming(t) \/ Name(t) \/ GiveUp(t) \/ Release(t)
      PROVE  LockTypeOK'
  <2>1. /\ UNCHANGED alive
        /\ \E c \in [at : Stages, owner : Pids \cup {NoPid}] : claim' = [claim EXCEPT ![t] = c]
    <3>1. At("opened") \in [at : Stages, owner : Pids \cup {NoPid}]
          /\ At("exists") \in [at : Stages, owner : Pids \cup {NoPid}]
          /\ At("stale") \in [at : Stages, owner : Pids \cup {NoPid}]
          /\ At("retry") \in [at : Stages, owner : Pids \cup {NoPid}]
          /\ At("held") \in [at : Stages, owner : Pids \cup {NoPid}]
          /\ At("idle") \in [at : Stages, owner : Pids \cup {NoPid}]
      BY DEF At, Stages, Inside
    <3>2. [at |-> "read", owner |-> Owner] \in [at : Stages, owner : Pids \cup {NoPid}]
      BY DEF Owner, Stages, Inside
    <3> QED BY <1>2, <3>1, <3>2 DEF Claiming, Create, Find, ReadOwner, Condemn, Reclaim, Name,
                                   GiveUp, Release, Step
  <2>2. file' \in [by : Pids, named : BOOLEAN] \cup {Absent}
    <3>1. PidOf[t] \in Pids
      OBVIOUS
    <3>2. CASE Name(t)
      <4>1. CASE file = [by |-> PidOf[t], named |-> FALSE]
        BY <3>1, <3>2, <4>1 DEF Name
      <4>2. CASE file # [by |-> PidOf[t], named |-> FALSE]
        BY <3>2, <4>2 DEF Name
      <4> QED BY <4>1, <4>2
    <3>3. CASE Create(t)
      BY <3>1, <3>3 DEF Create
    <3>4. CASE ~Name(t) /\ ~Create(t)
      BY <1>2, <3>4 DEF Claiming, Find, ReadOwner, Condemn, Reclaim, GiveUp, Release
    <3> QED BY <3>2, <3>3, <3>4
  <2> QED BY <2>1, <2>2
<1>3. ASSUME NEW p \in Pids, End(p) PROVE LockTypeOK'
  <2>1. At("idle") \in [at : Stages, owner : Pids \cup {NoPid}]
    BY DEF At, Stages
  <2> QED BY <1>3, <2>1 DEF End
<1> QED BY <1>1, <1>2, <1>3 DEF LockNext

LEMMA ReadingStep == ASSUME LockTypeOK, Reading, [LockNext]_lockVars PROVE Reading'
<1> USE LockAssumption DEF LockTypeOK, Reading
<1>1. CASE UNCHANGED lockVars
  BY <1>1 DEF lockVars
<1>2. ASSUME NEW t \in Tasks, Claiming(t) \/ Name(t) \/ GiveUp(t) \/ Release(t)
      PROVE  Reading'
  <2>1. CASE ReadOwner(t)
    BY <2>1 DEF ReadOwner, Step, Owner
  <2>2. CASE ~ReadOwner(t)
    BY <1>2, <2>2 DEF Claiming, Create, Find, Condemn, Reclaim, Name, GiveUp, Release, Step, At
  <2> QED BY <2>1, <2>2
<1>3. ASSUME NEW p \in Pids, End(p) PROVE Reading'
  BY <1>3 DEF End, At
<1> QED BY <1>1, <1>2, <1>3 DEF LockNext

(* A step that leaves every process alive changes the stage of one task.   *)
LEMMA GuardedStep == ASSUME LockInv, [LockNext]_lockVars PROVE Guarded'
<1> USE LockAssumption DEF LockInv, LockTypeOK
<1> SUFFICES ASSUME AllAlive' PROVE
      /\ \A t \in Tasks : claim'[t].at \notin {"stale", "retry"}
      /\ Owners' # {} => file' # Absent
      /\ \A t, u \in Owners' : t = u
  BY DEF Guarded
<1>1. CASE UNCHANGED lockVars
  BY <1>1 DEF lockVars, Guarded, AllAlive, Owners
<1>2. ASSUME NEW p \in Pids, End(p) PROVE FALSE
  BY <1>2 DEF End, AllAlive
<1>3. ASSUME NEW t \in Tasks, Claiming(t) \/ Name(t) \/ GiveUp(t) \/ Release(t)
      PROVE  /\ \A u \in Tasks : claim'[u].at \notin {"stale", "retry"}
             /\ Owners' # {} => file' # Absent
             /\ \A u, v \in Owners' : u = v
  <2>1. UNCHANGED alive
    BY <1>3 DEF Claiming, Create, Find, ReadOwner, Condemn, Reclaim, Name, GiveUp, Release, Step
  <2>2. /\ AllAlive
        /\ \A u \in Tasks : claim[u].at \notin {"stale", "retry"}
        /\ Owners # {} => file # Absent
        /\ \A u, v \in Owners : u = v
    BY <2>1 DEF AllAlive, Guarded
  <2>3. claim[t].at = "read" => alive[claim[t].owner]
    BY <2>2 DEF AllAlive, Reading
  <2>4. CASE Create(t)
    <3>1. Owners = {} BY <2>4, <2>2 DEF Create
    <3>2. \A u \in Tasks : claim'[u] = IF u = t THEN At("opened") ELSE claim[u]
      BY <2>4 DEF Create, Step
    <3>3. file' # Absent
      <4>1. [by |-> PidOf[t], named |-> FALSE] \in [by : Pids, named : BOOLEAN]
        OBVIOUS
      <4>2. [by |-> PidOf[t], named |-> FALSE] # Absent
        BY <4>1
      <4> QED BY <2>4, <4>2 DEF Create
    <3>4. \A u \in Owners' : u = t
      BY <3>1, <3>2 DEF Owners
    <3> QED BY <2>2, <3>2, <3>3, <3>4 DEF At
  <2>5. CASE Name(t)
    BY <2>5, <2>2 DEF Name, Step, At, Owners
  <2>6. CASE Find(t) \/ ReadOwner(t) \/ GiveUp(t)
    <3>1. /\ file' = file /\ claim[t].at \notin {"opened", "held"}
          /\ claim'[t].at \in {"exists", "read", "idle"}
          /\ \A u \in Tasks : u # t => claim'[u] = claim[u]
      <4>1. CASE Find(t)
        BY <4>1 DEF Find, Step, At
      <4>2. CASE ReadOwner(t)
        BY <4>2 DEF ReadOwner, Step
      <4>3. CASE GiveUp(t)
        BY <4>3 DEF GiveUp, Step, At
      <4> QED BY <2>6, <4>1, <4>2, <4>3
    <3> QED BY <2>2, <3>1 DEF Owners
  <2>7. CASE Release(t)
    <3>1. \A u \in Owners : u = t BY <2>7, <2>2 DEF Release, Step, Owners
    <3> QED BY <2>7, <2>2, <3>1 DEF Release, Step, At, Owners
  <2>8. ~Condemn(t) /\ ~Reclaim(t)
    BY <2>2, <2>3 DEF Condemn, Reclaim, Step
  <2> QED BY <1>3, <2>4, <2>5, <2>6, <2>7, <2>8 DEF Claiming
<1> QED BY <1>1, <1>2, <1>3 DEF LockNext

LEMMA DeadIdleStep == ASSUME LockTypeOK, DeadIdle, [LockNext]_lockVars PROVE DeadIdle'
<1> USE LockAssumption DEF LockTypeOK, DeadIdle
<1>1. CASE UNCHANGED lockVars
  BY <1>1 DEF lockVars
<1>2. ASSUME NEW t \in Tasks, Claiming(t) \/ Name(t) \/ GiveUp(t) \/ Release(t)
      PROVE  DeadIdle'
  BY <1>2 DEF Claiming, Create, Find, ReadOwner, Condemn, Reclaim, Name, GiveUp, Release, Step, Runs
<1>3. ASSUME NEW p \in Pids, End(p) PROVE DeadIdle'
  BY <1>3 DEF End, At
<1> QED BY <1>1, <1>2, <1>3 DEF LockNext

THEOREM LockInvariant == LockSpec => []LockInv
<1> USE LockAssumption
<1>1. LockInit => LockInv
  BY DEF LockInit, LockInv, LockTypeOK, Reading, Guarded, DeadIdle, Owners, At, Stages, Inside
<1>2. LockInv /\ [LockNext]_lockVars => LockInv'
  BY TypeStep, ReadingStep, GuardedStep, DeadIdleStep DEF LockInv
<1> QED BY <1>1, <1>2, PTL DEF LockSpec

(* Every lock state is well-typed, for any number of processes and tasks.  *)
THEOREM LockTypeCorrect == LockSpec => []LockTypeOK
<1>1. LockInv => LockTypeOK
  BY DEF LockInv
<1> QED BY LockInvariant, <1>1, PTL

(* No two tasks, of one process or of several, hold the queue while every  *)
(* process is alive (claimDeliveryLock, release).                          *)
THEOREM LockExclusive == LockSpec => []Exclusion
<1>1. LockInv => Exclusion
  BY DEF LockInv, Guarded, Exclusion, Owners, Holders
<1> QED BY LockInvariant, <1>1, PTL

-----------------------------------------------------------------------------
(* The deliveries take the lock's own steps. *)

LEMMA LockSteps == ASSUME DeliveryAssumption, [Next]_vars PROVE [LockNext]_lockVars
<1>1. CASE UNCHANGED vars
  BY <1>1 DEF vars
<1>2. ASSUME NEW p \in Pids, ClaimStep(p) \/ Claimed(p) \/ Busy(p) \/ EndPass(p)
      PROVE  LockNext
  BY <1>2, DeliveryAssumption DEF ClaimStep, Claimed, Busy, EndPass, LockNext
<1>3. ASSUME NEW p \in Pids, EndBackend(p) PROVE LockNext
  BY <1>3 DEF EndBackend, LockNext
<1>4. ASSUME NEW p \in Pids,
             \/ Send(p) \/ Wake(p) \/ Call(p) \/ Sweep(p)
             \/ BindRuntime(p) \/ Resume(p) \/ PublishReadyResume(p)
             \/ ReadHead(p) \/ Insert(p) \/ Refuse(p) \/ Confirm(p) \/ Take(p) \/ Recheck(p)
             \/ Throws(p) \/ StartBackend(p) \/ RequestDeliveryRecovery(p)
      PROVE  UNCHANGED lockVars
  BY <1>4 DEF Send, Wake, Call, Sweep, BindRuntime, Resume, PublishReadyResume, ReadHead, Insert,
              Refuse, Confirm, Take, Recheck, Throws, StartBackend, RequestDeliveryRecovery, Unlocked
<1>5. ASSUME \/ Broadcast \/ ReleaseRuntime \/ RevokeSender
             \/ \E i \in Inboxes : Look(i) \/ TakeOne(i)
      PROVE  UNCHANGED lockVars
  BY <1>5 DEF Broadcast, ReleaseRuntime, RevokeSender, Look, TakeOne, Unlocked
<1> QED BY <1>1, <1>2, <1>3, <1>4, <1>5 DEF Next, LoopStep

(* The lock's invariant holds of the deliveries. *)
LEMMA DeliveryLocked == Spec => []LockInv
<1>1. Init => LockInit
  BY DEF Init
<1>2. [Next]_vars => [LockNext]_lockVars
  BY LockSteps, DeliveryAssumption
<1> QED BY LockInvariant, <1>1, <1>2, PTL DEF Spec, LockSpec

-----------------------------------------------------------------------------
(* Types. A loop carries the number of the head and the generation it read. *)

Acting == {"insert", "drop", "confirm", "take"}   \* the head it read is in its hands
Working == Acting \cup Ends \cup {"head"}         \* between the claim and the release
Loops == [at : Working \cup {"off", "call", "recheck"}, msg : 0..MaxSends, gen : 0..MaxBinds]

Typed ==
  /\ queue \in Seq(1..MaxSends) /\ sent \in 0..MaxSends
  /\ landed \in Seq([msg : 1..MaxSends, gen : 1..MaxBinds])
  /\ taken \subseteq 1..MaxSends /\ revoked \subseteq 1..MaxSends
  /\ looking \subseteq Inboxes
  /\ runtime \in [gen : 1..MaxBinds, status : {"unbound", "pending", "bound"}]
  /\ up \subseteq Pids /\ debt \subseteq up
  /\ wakes \in [Pids -> Nat] /\ calls \in [Pids -> Nat]
  /\ loop \in [Pids -> Loops]

(* What a loop holds has been accepted and was read under a binding. *)
HandsTyped ==
  \A p \in Pids :
    /\ loop[p].at \in Acting => loop[p].msg \in 1..sent
    /\ loop[p].at \in {"insert", "confirm"} => loop[p].gen \in 1..runtime.gen

Accepted == \A k \in DOMAIN queue : queue[k] <= sent

(* What is left when the head is removed. *)
LEMMA Tailed ==
  ASSUME NEW S, NEW q \in Seq(S), q # <<>>
  PROVE  /\ Head(q) \in S /\ Head(q) = q[1] /\ 1 \in DOMAIN q
         /\ Tail(q) \in Seq(S)
         /\ \A k \in DOMAIN Tail(q) : k + 1 \in DOMAIN q /\ Tail(q)[k] = q[k + 1]
OBVIOUS

LEMMA QueueShrinks == ASSUME NEW S, NEW q \in Seq(S), q # <<>> PROVE Tail(q) # q
<1>1. Len(Tail(q)) = Len(q) - 1 /\ Len(q) \in Nat
  OBVIOUS
<1>2. \A n \in Nat : n - 1 # n
  OBVIOUS
<1>3. Len(q) - 1 # Len(q)
  BY <1>1, <1>2, Zenon
<1> QED BY <1>1, <1>3, Zenon

LEMMA Elements ==
  ASSUME NEW S, NEW q \in Seq(S)
  PROVE  \A k \in DOMAIN q : q[k] \in S
OBVIOUS

LEMMA Appended ==
  ASSUME NEW S, NEW q \in Seq(S), NEW x \in S
  PROVE  /\ DOMAIN Append(q, x) = 1 .. Len(q) + 1 /\ DOMAIN q = 1 .. Len(q) /\ Len(q) \in Nat
         /\ Append(q, x)[Len(q) + 1] = x
         /\ \A k \in DOMAIN q : Append(q, x)[k] = q[k]
OBVIOUS

LEMMA Counted ==
  ASSUME NEW f \in [Pids -> Nat], NEW p \in Pids
  PROVE  /\ [f EXCEPT ![p] = @ + 1] \in [Pids -> Nat]
         /\ f[p] > 0 => [f EXCEPT ![p] = @ - 1] \in [Pids -> Nat]
OBVIOUS

LEMMA EnterTyped ==
  ASSUME Typed, NEW p \in Pids, NEW stage \in Working \cup {"off", "call", "recheck"}
  PROVE  [loop EXCEPT ![p].at = stage] \in [Pids -> Loops]
<1>1. loop[p] \in Loops
  BY DEF Typed
<1>2. [loop[p] EXCEPT !.at = stage] \in Loops
  BY <1>1 DEF Loops
<1>3. [loop EXCEPT ![p].at = stage] = [loop EXCEPT ![p] = [loop[p] EXCEPT !.at = stage]]
  OBVIOUS
<1> QED BY <1>2, <1>3 DEF Typed

LEMMA OffTyped ==
  ASSUME DeliveryAssumption
  PROVE  Off \in Loops /\ [Off EXCEPT !.at = "call"] \in Loops /\ [Off EXCEPT !.at = "recheck"] \in Loops
BY DeliveryAssumption DEF Off, Loops

(* A drain notes no one but who runs, and starts a loop at its first stage. *)
LEMMA DrainTyped ==
  ASSUME Typed, NEW p \in up, NEW noted \in SUBSET up, TryDrain(p, noted)
  PROVE  debt' \in SUBSET up /\ loop' \in [Pids -> Loops]
<1>1. p \in Pids
  BY DEF Typed
<1>2. [loop EXCEPT ![p].at = "call"] \in [Pids -> Loops]
  BY <1>1, EnterTyped
<1> QED BY <1>2 DEF TryDrain, DrainThrows, Drain, Typed

LEMMA BindTyped ==
  ASSUME DeliveryAssumption, Typed, NEW p \in Pids, NEW status \in {"pending", "bound"},
         Bind(p, status)
  PROVE  runtime' \in [gen : 1..MaxBinds, status : {"unbound", "pending", "bound"}]
BY DeliveryAssumption DEF Bind, Typed

LEMMA TriggersTyped ==
  ASSUME DeliveryAssumption, Typed, NEW p \in Pids,
         \/ Send(p) \/ Wake(p) \/ Call(p) \/ Sweep(p)
         \/ BindRuntime(p) \/ Resume(p) \/ PublishReadyResume(p) \/ EndBackend(p)
         \/ StartBackend(p) \/ RequestDeliveryRecovery(p)
  PROVE  Typed'
<1> USE DeliveryAssumption
<1>1. CASE Send(p)
  <2>1. /\ sent' \in 0..MaxSends /\ queue' \in Seq(1..MaxSends)
        /\ UNCHANGED <<landed, taken, looking>>
    BY <1>1 DEF Send, Accept, Typed
  <2>2. wakes' \in [Pids -> Nat]
    BY <1>1, Counted DEF Send, Typed
  <2> QED BY <1>1, <2>1, <2>2 DEF Send, Typed
<1>2. CASE Wake(p)
  <2>1. p \in up /\ debt \cup {p} \in SUBSET up
    BY <1>2 DEF Wake, Serving, Typed
  <2>2. debt' \in SUBSET up /\ loop' \in [Pids -> Loops]
    BY <1>2, <2>1, DrainTyped DEF Wake
  <2> QED BY <1>2, <2>2, Counted DEF Wake, Typed, mail
<1>3. CASE Call(p)
  <2>1. p \in up /\ debt \in SUBSET up
    BY <1>3 DEF Call, Serving, Typed
  <2>2. debt' \in SUBSET up /\ loop' \in [Pids -> Loops]
    BY <1>3, <2>1, DrainTyped DEF Call
  <2> QED BY <1>3, <2>2, Counted DEF Call, Typed, mail
<1>4. CASE Sweep(p)
  <2>1. p \in up /\ debt \in SUBSET up
    BY <1>4 DEF Sweep, Serving, Typed
  <2>2. debt' \in SUBSET up /\ loop' \in [Pids -> Loops]
    <3>1. CASE TryDrain(p, debt)
      BY <2>1, <3>1, DrainTyped
    <3>2. CASE debt' = debt \ {p} /\ UNCHANGED loop
      BY <2>1, <3>2 DEF Typed
    <3> QED BY <1>4, <3>1, <3>2 DEF Sweep
  <2> QED BY <1>4, <2>2 DEF Sweep, Typed, mail
<1>5. CASE BindRuntime(p)
  <2>1. runtime' \in [gen : 1..MaxBinds, status : {"unbound", "pending", "bound"}]
    BY <1>5, BindTyped DEF BindRuntime
  <2>2. wakes' \in [Pids -> Nat]
    BY <1>5, Counted DEF BindRuntime, Typed
  <2> QED BY <1>5, <2>1, <2>2 DEF BindRuntime, Typed, mail
<1>6. CASE Resume(p)
  <2>1. runtime' \in [gen : 1..MaxBinds, status : {"unbound", "pending", "bound"}]
    BY <1>6, BindTyped DEF Resume
  <2> QED BY <1>6, <2>1 DEF Resume, Typed, mail, triggers
<1>7. CASE PublishReadyResume(p)
  BY <1>7, Counted DEF PublishReadyResume, Typed, mail
<1>8. CASE StartBackend(p)
  BY <1>8 DEF StartBackend, RecoveryPass, Typed, mail
<1>9. CASE EndBackend(p)
  BY <1>9, OffTyped DEF EndBackend, Typed, mail
<1>10. CASE RequestDeliveryRecovery(p)
  BY <1>10 DEF RequestDeliveryRecovery, RecoveryPass, Serving, Typed, mail
<1> QED BY <1>1, <1>2, <1>3, <1>4, <1>5, <1>6, <1>7, <1>8, <1>9, <1>10

LEMMA LoopStepTyped ==
  ASSUME DeliveryAssumption, Typed, HandsTyped, Accepted, NEW p \in Pids, LoopStep(p) \/ Throws(p)
  PROVE  Typed'
<1> USE DeliveryAssumption DEF Rest, Aside, triggers, mail
<1>1. CASE ClaimStep(p)
  BY <1>1 DEF ClaimStep, Typed
<1>2. CASE Claimed(p)
  <2>1. loop' \in [Pids -> Loops]
    BY <1>2, EnterTyped DEF Claimed, Enter, Working
  <2> QED BY <1>2, <2>1 DEF Claimed, Typed
<1>3. CASE Busy(p)
  BY <1>3, OffTyped DEF Busy, Typed
<1>4. CASE ReadHead(p)
  <2>1. queue # <<>> => Head(queue) \in 1..MaxSends
    BY DEF Typed
  <2> DEFINE next == IF queue = <<>> THEN "empty"
                     ELSE IF Head(queue) \in revoked THEN "drop"
                     ELSE IF runtime.status # "bound" THEN "held"
                     ELSE "insert"
             head == IF queue = <<>> THEN 0 ELSE Head(queue)
  <2>2. [at |-> next, msg |-> head, gen |-> runtime.gen] \in Loops
    <3>1. next \in Working /\ head \in 0..MaxSends /\ runtime.gen \in 1..MaxBinds
      BY <2>1 DEF Typed, Working, Acting, Ends
    <3> HIDE DEF next, head
    <3> QED BY <3>1 DEF Loops
  <2>3. loop' \in [Pids -> Loops]
    BY <1>4, <2>2 DEF ReadHead, Typed
  <2> QED BY <1>4, <2>3 DEF ReadHead, Typed
<1>5. CASE Insert(p)
  <2>1. [msg |-> loop[p].msg, gen |-> loop[p].gen] \in [msg : 1..MaxSends, gen : 1..MaxBinds]
    BY <1>5 DEF Insert, HandsTyped, Acting, Typed, Loops
  <2>2. landed' \in Seq([msg : 1..MaxSends, gen : 1..MaxBinds])
    BY <1>5, <2>1 DEF Insert, Typed
  <2>3. loop' \in [Pids -> Loops]
    BY <1>5, EnterTyped DEF Insert, Enter, Working, Acting
  <2> QED BY <1>5, <2>2, <2>3 DEF Insert, Typed
<1>6. CASE Refuse(p)
  <2>1. loop' \in [Pids -> Loops]
    BY <1>6, EnterTyped DEF Refuse, Enter, Working, Ends
  <2> QED BY <1>6, <2>1 DEF Refuse, Typed
<1>7. CASE Confirm(p)
  <2>1. loop' \in [Pids -> Loops]
    BY <1>7, EnterTyped DEF Confirm, Enter, Working, Acting, Ends
  <2> QED BY <1>7, <2>1 DEF Confirm, Typed
<1>8. CASE Take(p)
  <2>1. loop' \in [Pids -> Loops]
    BY <1>8, EnterTyped DEF Take, Enter, Working, Ends
  <2>2. queue' \in Seq(1..MaxSends)
    BY <1>8, Tailed DEF Take, Typed
  <2> QED BY <1>8, <2>1, <2>2 DEF Take, Typed
<1>9. CASE EndPass(p)
  <2>1. loop' \in [Pids -> Loops]
    BY <1>9, OffTyped DEF EndPass, Typed
  <2> QED BY <1>9, <2>1 DEF EndPass, Typed
<1>10. CASE Recheck(p)
  <2>1. loop' \in [Pids -> Loops]
    BY <1>10, EnterTyped DEF Recheck, Enter
  <2> QED BY <1>10, <2>1 DEF Recheck, Typed
<1>11. CASE Throws(p)
  <2>1. Enter(p, "held") \/ Enter(p, "off")
    BY <1>11 DEF Throws
  <2>2. loop' \in [Pids -> Loops]
    <3>1. ASSUME NEW stage \in Working \cup {"off"}, Enter(p, stage) PROVE loop' \in [Pids -> Loops]
      BY <3>1, EnterTyped DEF Enter
    <3>2. "held" \in Working
      BY DEF Working, Ends
    <3> QED BY <2>1, <3>1, <3>2
  <2> QED BY <1>11, <2>2 DEF Throws, Typed
<1> QED BY <1>1, <1>2, <1>3, <1>4, <1>5, <1>6, <1>7, <1>8, <1>9, <1>10, <1>11 DEF LoopStep

LEMMA TypedStep ==
  ASSUME DeliveryAssumption, Typed, HandsTyped, Accepted, [Next]_vars
  PROVE  Typed'
<1>1. CASE UNCHANGED vars
  BY <1>1 DEF vars, mail, triggers, Typed
<1>2. CASE Broadcast
  <2>1. calls' \in [Pids -> Nat]
    BY <1>2, Counted DEF Broadcast, Typed
  <2> QED BY <1>2, <2>1, DeliveryAssumption DEF Broadcast, Accept, Typed
<1>3. CASE ReleaseRuntime
  BY <1>3 DEF ReleaseRuntime, Typed, mail, triggers
<1>4. CASE RevokeSender
  <2>1. revoked' \subseteq 1..MaxSends
    <3>1. PICK m \in 1..sent : revoked' = revoked \cup {m}
      BY <1>4 DEF RevokeSender
    <3>2. sent \in 0..MaxSends /\ revoked \subseteq 1..MaxSends
      BY DEF Typed
    <3>3. m \in 1..MaxSends
      BY <3>2, DeliveryAssumption
    <3> QED BY <3>1, <3>2, <3>3
  <2> QED BY <1>4, <2>1 DEF RevokeSender, Typed, mail, triggers
<1>5. ASSUME NEW i \in Inboxes, Look(i) PROVE Typed'
  BY <1>5 DEF Look, Rest, Aside, triggers, Typed
<1>6. ASSUME NEW i \in Inboxes, TakeOne(i) PROVE Typed'
  <2>1. queue' \in Seq(1..MaxSends) /\ taken' \subseteq 1..MaxSends
    <3>1. queue \in Seq(1..MaxSends) /\ taken \subseteq 1..MaxSends
      BY DEF Typed
    <3>2. CASE queue = <<>>
      BY <1>6, <3>1, <3>2 DEF TakeOne
    <3>3. CASE queue # <<>>
      <4>1. Head(queue) \in 1..MaxSends /\ Tail(queue) \in Seq(1..MaxSends)
        BY <3>1, <3>3, Tailed
      <4> QED BY <1>6, <3>1, <3>3, <4>1 DEF TakeOne
    <3> QED BY <3>2, <3>3
  <2> QED BY <1>6, <2>1 DEF TakeOne, Rest, Aside, triggers, Typed
<1> QED BY <1>1, <1>2, <1>3, <1>4, <1>5, <1>6, TriggersTyped, LoopStepTyped DEF Next

(* What has been thrown, and what it left. *)
Thrown ==
  /\ faults \in 0..MaxFaults /\ lapsed \subseteq 1..MaxSends
  /\ unaware \subseteq up /\ stuck \in BOOLEAN

LEMMA ThrownStep ==
  ASSUME DeliveryAssumption, Typed, HandsTyped, Thrown, [Next]_vars
  PROVE  Thrown'
<1> USE DEF thrown
<1>0. Fault => faults' \in 0..MaxFaults
  BY DeliveryAssumption DEF Fault, Thrown
<1>1. CASE UNCHANGED vars
  BY <1>1 DEF vars, Thrown
<1>2. CASE Broadcast \/ ReleaseRuntime \/ RevokeSender \/ \E i \in Inboxes : Look(i) \/ TakeOne(i)
  BY <1>2 DEF Broadcast, ReleaseRuntime, RevokeSender, Look, TakeOne, Rest, Aside, Thrown
<1>3. ASSUME NEW p \in Pids, Send(p) \/ BindRuntime(p) \/ Resume(p) \/ PublishReadyResume(p)
      PROVE  Thrown'
  BY <1>3 DEF Send, BindRuntime, Resume, PublishReadyResume, Thrown
<1>4. ASSUME NEW p \in Pids, Wake(p) \/ Call(p) \/ Sweep(p)
      PROVE  Thrown'
  <2>1. UNCHANGED <<up, lapsed>> /\ unaware' \subseteq unaware
    BY <1>4 DEF Wake, Call, Sweep
  <2>2. faults' \in 0..MaxFaults /\ stuck' \in BOOLEAN
    BY <1>0, <1>4 DEF Wake, Call, Sweep, TryDrain, Drain, DrainThrows, Thrown
  <2> QED BY <2>1, <2>2 DEF Thrown
<1>5. ASSUME NEW p \in Pids, StartBackend(p) \/ RequestDeliveryRecovery(p)
      PROVE  Thrown'
  <2>1. UNCHANGED <<lapsed, stuck>> /\ up \cup {p} \subseteq up'
    BY <1>5 DEF StartBackend, RequestDeliveryRecovery, Serving
  <2>2. faults' \in 0..MaxFaults /\ unaware' \subseteq unaware \cup {p}
    BY <1>0, <1>5 DEF StartBackend, RequestDeliveryRecovery, RecoveryPass, Thrown
  <2> QED BY <2>1, <2>2 DEF Thrown
<1>6. ASSUME NEW p \in Pids, EndBackend(p) PROVE Thrown'
  BY <1>6 DEF EndBackend, Thrown
<1>7. ASSUME NEW p \in Pids, LoopStep(p) PROVE Thrown'
  <2>1. UNCHANGED <<up, faults, lapsed, unaware>>
    BY <1>7 DEF LoopStep, ClaimStep, Claimed, Busy, ReadHead, Insert, Refuse, Confirm, Take, EndPass,
                Recheck, Rest, Aside
  <2>2. stuck' \in BOOLEAN
    BY <1>7 DEF LoopStep, ClaimStep, Claimed, Busy, ReadHead, Insert, Refuse, Confirm, Take, EndPass,
                Recheck, Rest, Thrown
  <2> QED BY <2>1, <2>2 DEF Thrown
<1>8. ASSUME NEW p \in Pids, Throws(p) PROVE Thrown'
  <2>1. loop[p].at \in {"confirm", "drop", "take"} => loop[p].msg \in 1..MaxSends
    BY DeliveryAssumption DEF HandsTyped, Acting, Typed
  <2>2. lapsed' \subseteq 1..MaxSends /\ stuck' \in BOOLEAN /\ UNCHANGED <<up, unaware>>
    BY <1>8, <2>1 DEF Throws, Thrown
  <2>3. faults' \in 0..MaxFaults
    BY <1>0, <1>8 DEF Throws
  <2> QED BY <2>2, <2>3 DEF Thrown
<1> QED BY <1>1, <1>2, <1>3, <1>4, <1>5, <1>6, <1>7, <1>8 DEF Next

-----------------------------------------------------------------------------
(* Between its claim and its release a loop holds the lock. *)

Linked == \A p \in Pids : loop[p].at \in Working => claim[p].at = "held"

LEMMA DrainLinked ==
  ASSUME Typed, Linked, UNCHANGED claim, NEW p \in Pids, NEW noted, TryDrain(p, noted)
  PROVE  Linked'
<1>1. \A q \in Pids : loop'[q] = loop[q] \/ loop'[q].at = "call"
  BY DEF TryDrain, Drain, DrainThrows, Typed, Loops
<1> QED BY <1>1 DEF Linked, Working, Acting, Ends

LEMMA LinkedStep ==
  ASSUME DeliveryAssumption, LockTypeOK, Typed, Linked, [Next]_vars
  PROVE  Linked'
<1> USE DEF lockVars, Unlocked
<1>1. CASE UNCHANGED vars
  BY <1>1 DEF vars, Linked
<1>2. CASE Broadcast \/ ReleaseRuntime \/ RevokeSender \/ \E i \in Inboxes : Look(i) \/ TakeOne(i)
  BY <1>2 DEF Broadcast, ReleaseRuntime, RevokeSender, Look, TakeOne, Linked
<1>3. ASSUME NEW p \in Pids, Send(p) \/ BindRuntime(p) \/ Resume(p) \/ PublishReadyResume(p)
                             \/ StartBackend(p) \/ RequestDeliveryRecovery(p)
      PROVE  Linked'
  BY <1>3 DEF Send, BindRuntime, Resume, PublishReadyResume, StartBackend, RequestDeliveryRecovery, Linked
<1>4. ASSUME NEW p \in Pids, Wake(p) \/ Call(p) \/ Sweep(p)
      PROVE  Linked'
  BY <1>4, DrainLinked DEF Wake, Call, Sweep, Linked
<1>5. ASSUME NEW p \in Pids, EndBackend(p) PROVE Linked'
  BY <1>5, DeliveryAssumption DEF EndBackend, End, Linked, Off, Working, Acting, Ends, Typed
<1>6. ASSUME NEW p \in Pids, ClaimStep(p) \/ Claimed(p) \/ Busy(p) \/ EndPass(p)
      PROVE  Linked'
  <2>1. p \in Tasks /\ \A q \in Pids : q # p => claim'[q] = claim[q] /\ loop'[q] = loop[q]
    BY <1>6, DeliveryAssumption
       DEF ClaimStep, Claimed, Busy, EndPass, Enter, Claiming, Create, Find, ReadOwner, Condemn,
           Reclaim, Name, GiveUp, Release, Step, LockTypeOK, Typed
  <2>2. loop'[p].at \in Working => claim'[p].at = "held"
    <3>1. CASE ClaimStep(p)
      BY <3>1 DEF ClaimStep, Working, Acting, Ends
    <3>2. CASE Claimed(p)
      BY <3>2, <2>1 DEF Claimed, Name, Step, At, LockTypeOK
    <3>3. CASE Busy(p)
      BY <3>3 DEF Busy, Off, Working, Acting, Ends, Typed
    <3>4. CASE EndPass(p)
      BY <3>4 DEF EndPass, Off, Working, Acting, Ends, Typed
    <3> QED BY <1>6, <3>1, <3>2, <3>3, <3>4
  <2> QED BY <2>1, <2>2 DEF Linked
<1>7. ASSUME NEW p \in Pids, ReadHead(p) \/ Insert(p) \/ Refuse(p) \/ Confirm(p) \/ Take(p)
      PROVE  Linked'
  <2>1. loop[p].at \in Working
    BY <1>7 DEF ReadHead, Insert, Refuse, Confirm, Take, Working, Acting
  <2>2. UNCHANGED claim /\ \A q \in Pids : q # p => loop'[q] = loop[q]
    BY <1>7 DEF ReadHead, Insert, Refuse, Confirm, Take, Enter, Typed
  <2> QED BY <2>1, <2>2 DEF Linked
<1>8. ASSUME NEW p \in Pids, Recheck(p) PROVE Linked'
  BY <1>8 DEF Recheck, Enter, Linked, Working, Acting, Ends, Typed
<1>9. ASSUME NEW p \in Pids, Throws(p) PROVE Linked'
  <2>1. UNCHANGED claim /\ \A q \in Pids : q # p => loop'[q] = loop[q]
    BY <1>9 DEF Throws, Enter, Typed
  <2>2. loop'[p].at \in Working => loop[p].at \in Working
    <3>1. ASSUME NEW stage, Enter(p, stage) PROVE loop'[p].at = stage
      BY <3>1 DEF Enter, Typed, Loops
    <3>2. \/ loop[p].at \in {"head", "advanced", "confirm", "drop", "take"}
          \/ loop'[p].at = "off"
      BY <1>9, <3>1 DEF Throws
    <3> QED BY <3>2 DEF Working, Acting, Ends
  <2> QED BY <2>1, <2>2 DEF Linked
<1> QED BY <1>1, <1>2, <1>3, <1>4, <1>5, <1>6, <1>7, <1>8, <1>9 DEF Next, LoopStep

(* While the lock is sound, one loop at most works on the queue: with two  *)
(* processes of which one has ended, because only the other can.           *)
LEMMA OneWorks ==
  ASSUME DeliveryAssumption, LockInv, Linked, LockSound,
         NEW p \in Pids, NEW q \in Pids, loop[p].at \in Working, loop[q].at \in Working
  PROVE  p = q
<1>1. p \in Tasks /\ q \in Tasks /\ PidOf[p] = p /\ PidOf[q] = q
  BY DeliveryAssumption
<1>2. claim[p].at = "held" /\ claim[q].at = "held"
  BY DEF Linked
<1>3. CASE AllAlive
  BY <1>1, <1>2, <1>3 DEF LockInv, Guarded, Owners
<1>4. CASE ~AllAlive
  <2>1. alive[p] /\ alive[q]
    BY <1>1, <1>2 DEF LockInv, DeadIdle
  <2>2. PICK d \in Pids : ~alive[d]
    BY <1>4 DEF AllAlive
  <2> QED BY <1>4, <2>1, <2>2 DEF LockSound, TwoProcesses
<1> QED BY <1>3, <1>4

(* Nobody comes back to life. *)
LEMMA SoundBefore ==
  ASSUME DeliveryAssumption, LockTypeOK, [Next]_vars
  PROVE  /\ AllAlive' => AllAlive
         /\ LockSound' => LockSound
<1>1. \A p \in Pids : alive'[p] => alive[p]
  <2>1. [LockNext]_lockVars
    BY LockSteps
  <2> QED BY <2>1 DEF LockNext, lockVars, Claiming, Create, Find, ReadOwner, Condemn, Reclaim, Name,
                      GiveUp, Release, Step, End, LockTypeOK
<1> QED BY <1>1 DEF AllAlive, LockSound

-----------------------------------------------------------------------------
(* What the steps do to the queue *)

Accepts ==
  /\ sent < MaxSends /\ sent' = sent + 1 /\ queue' = Append(queue, sent + 1)
  /\ UNCHANGED <<landed, taken, revoked, runtime, loop, lapsed>>

(* A binding is never given back: a generation that is over stays over. *)
BindingGoesOn ==
  /\ runtime'.gen >= runtime.gen
  /\ runtime.status = "unbound" => runtime'.gen > runtime.gen \/ runtime'.status = "unbound"

(* No message moves, no loop comes to hold a head, and a loop that holds    *)
(* one which landed gives it up only by ending or by what it throws.       *)
Calm ==
  /\ UNCHANGED <<queue, sent, landed, taken>>
  /\ revoked \subseteq revoked' /\ lapsed \subseteq lapsed'
  /\ BindingGoesOn
  /\ \A q \in Pids : loop'[q].at \in Acting => loop'[q] = loop[q]
  /\ AllAlive' => \A q \in Pids : loop[q].at \in {"confirm", "take"} =>
                                     loop'[q] = loop[q] \/ loop[q].msg \in lapsed'

LEMMA CalmTriggers ==
  ASSUME Typed, NEW p \in Pids,
         \/ Wake(p) \/ Call(p) \/ Sweep(p) \/ BindRuntime(p) \/ Resume(p)
         \/ PublishReadyResume(p) \/ StartBackend(p) \/ RequestDeliveryRecovery(p)
  PROVE  Calm
<1>1. UNCHANGED <<queue, sent, landed, taken, revoked, lapsed>>
  BY DEF Wake, Call, Sweep, BindRuntime, Resume, PublishReadyResume, StartBackend,
         RequestDeliveryRecovery, mail, thrown
<1>2. BindingGoesOn
  <2>1. runtime.gen \in Nat
    BY DEF Typed
  <2>2. CASE Wake(p) \/ Call(p) \/ Sweep(p) \/ StartBackend(p) \/ RequestDeliveryRecovery(p)
    BY <2>1, <2>2 DEF Wake, Call, Sweep, StartBackend, RequestDeliveryRecovery, BindingGoesOn
  <2>3. CASE BindRuntime(p) \/ Resume(p)
    <3>1. runtime'.gen = runtime.gen + 1
      BY <2>3 DEF BindRuntime, Resume, Bind
    <3> QED BY <2>1, <3>1 DEF BindingGoesOn
  <2>4. CASE PublishReadyResume(p)
    <3>1. runtime'.gen = runtime.gen /\ runtime.status = "pending"
      BY <2>4 DEF PublishReadyResume, Typed
    <3> QED BY <2>1, <3>1 DEF BindingGoesOn
  <2> QED BY <2>2, <2>3, <2>4
<1>3. \A q \in Pids : loop'[q] = loop[q] \/ (loop[q].at = "off" /\ loop'[q].at = "call")
  <2>1. ASSUME NEW noted, TryDrain(p, noted)
        PROVE  \A q \in Pids : loop'[q] = loop[q] \/ (loop[q].at = "off" /\ loop'[q].at = "call")
    BY <2>1 DEF TryDrain, Drain, DrainThrows, Typed, Loops
  <2> QED BY <2>1 DEF Wake, Call, Sweep, BindRuntime, Resume, PublishReadyResume, StartBackend,
                      RequestDeliveryRecovery, triggers
<1> QED BY <1>1, <1>2, <1>3 DEF Calm, Acting

LEMMA CalmLoop ==
  ASSUME Typed, NEW p \in Pids,
         ClaimStep(p) \/ Claimed(p) \/ Busy(p) \/ Refuse(p) \/ EndPass(p) \/ Recheck(p)
  PROVE  Calm
<1>1. UNCHANGED <<queue, sent, landed, taken, revoked, runtime, lapsed>>
  BY DEF ClaimStep, Claimed, Busy, Refuse, EndPass, Recheck, mail, Rest, Aside
<1>2. BindingGoesOn
  BY <1>1 DEF BindingGoesOn, Typed
<1>3. \A q \in Pids : q # p => loop'[q] = loop[q]
  BY DEF ClaimStep, Claimed, Busy, Refuse, EndPass, Recheck, Enter, Typed
<1>4. loop'[p] = loop[p] \/ (loop'[p].at \notin Acting /\ loop[p].at \notin {"confirm", "take"})
  <2>1. CASE ClaimStep(p)
    BY <2>1 DEF ClaimStep
  <2>2. CASE Claimed(p) \/ Busy(p) \/ Refuse(p) \/ Recheck(p)
    BY <2>2 DEF Claimed, Busy, Refuse, Recheck, Enter, Typed, Loops, Acting, Off
  <2>3. CASE EndPass(p)
    BY <2>3 DEF EndPass, Typed, Acting, Ends, Off
  <2> QED BY <2>1, <2>2, <2>3
<1> QED BY <1>1, <1>2, <1>3, <1>4 DEF Calm

LEMMA CalmThrows == ASSUME Typed, NEW p \in Pids, Throws(p) PROVE Calm
<1>1. UNCHANGED <<queue, sent, landed, taken, revoked, runtime>> /\ lapsed \subseteq lapsed'
  BY DEF Throws, mail
<1>2. BindingGoesOn
  BY <1>1 DEF BindingGoesOn, Typed
<1>3. /\ \A q \in Pids : q # p => loop'[q] = loop[q]
      /\ loop'[p].at \notin Acting
      /\ loop[p].at \in {"confirm", "take"} => loop[p].msg \in lapsed'
  BY DEF Throws, Enter, Typed, Loops, Acting
<1> QED BY <1>1, <1>2, <1>3 DEF Calm

LEMMA Shape ==
  ASSUME DeliveryAssumption, LockTypeOK, Typed, [Next]_vars
  PROVE  \/ Calm \/ Accepts
         \/ \E p \in Pids : ReadHead(p) \/ Insert(p) \/ Confirm(p) \/ Take(p)
         \/ \E i \in Inboxes : TakeOne(i)
<1>1. CASE UNCHANGED vars
  BY <1>1 DEF vars, mail, thrown, Calm, BindingGoesOn, Typed
<1>2. CASE Broadcast
  BY <1>2 DEF Broadcast, Accept, Accepts, thrown
<1>3. ASSUME NEW p \in Pids, Send(p) PROVE Accepts
  BY <1>3 DEF Send, Accept, Accepts, thrown
<1>4. CASE ReleaseRuntime \/ RevokeSender \/ \E i \in Inboxes : Look(i)
  <2>1. /\ UNCHANGED <<queue, sent, landed, taken, loop, lapsed>> /\ revoked \subseteq revoked'
        /\ runtime' = runtime \/ runtime' = [runtime EXCEPT !.status = "unbound"]
    BY <1>4 DEF ReleaseRuntime, RevokeSender, Look, Rest, Aside, mail, thrown
  <2>2. runtime.gen \in Nat /\ runtime'.gen = runtime.gen
    BY <2>1 DEF Typed
  <2>3. runtime.status = "unbound" => runtime'.status = "unbound"
    BY <2>1 DEF Typed
  <2> QED BY <2>1, <2>2, <2>3 DEF Calm, BindingGoesOn
<1>5. ASSUME NEW p \in Pids, EndBackend(p) PROVE Calm
  <2>1. UNCHANGED <<queue, sent, landed, taken, revoked, runtime, lapsed>> /\ ~AllAlive'
    BY <1>5 DEF EndBackend, End, AllAlive, mail, LockTypeOK
  <2>2. \A q \in Pids : loop'[q] = loop[q] \/ loop'[q].at = "off"
    BY <1>5 DEF EndBackend, Off, Typed
  <2>3. BindingGoesOn
    BY <2>1 DEF BindingGoesOn, Typed
  <2>4. \A q \in Pids : loop'[q].at \in Acting => loop'[q] = loop[q]
    BY <2>2 DEF Acting
  <2> QED BY <2>1, <2>3, <2>4 DEF Calm
<1> QED BY <1>1, <1>2, <1>3, <1>4, <1>5, CalmTriggers, CalmLoop, CalmThrows DEF Next, LoopStep

-----------------------------------------------------------------------------
(* The queue is in the order of acceptance, whoever takes from it, and all  *)
(* that landed was accepted before and under a binding that has existed.    *)

Sorted == \A k, l \in DOMAIN queue : k < l => queue[k] < queue[l]

LandedBefore ==
  \A i \in DOMAIN landed : landed[i].msg <= sent /\ landed[i].gen <= runtime.gen

Counts == HandsTyped /\ Accepted /\ Sorted /\ LandedBefore

Numbers ==
  /\ sent \in Nat /\ runtime.gen \in Nat
  /\ \A k \in DOMAIN queue : queue[k] \in Nat
  /\ \A i \in DOMAIN landed : landed[i].msg \in Nat /\ landed[i].gen \in Nat
  /\ \A p \in Pids : loop[p].msg \in Nat /\ loop[p].gen \in Nat

LEMMA NumbersTyped == ASSUME DeliveryAssumption, Typed PROVE Numbers
<1> USE DeliveryAssumption
<1>1. sent \in Nat /\ runtime.gen \in Nat
  BY DEF Typed
<1>2. \A k \in DOMAIN queue : queue[k] \in 1..MaxSends
  BY DEF Typed
<1>3. \A i \in DOMAIN landed : landed[i] \in [msg : 1..MaxSends, gen : 1..MaxBinds]
  <2>1. landed \in Seq([msg : 1..MaxSends, gen : 1..MaxBinds])
    BY DEF Typed
  <2> QED BY <2>1, Elements
<1>4. \A p \in Pids : loop[p] \in Loops
  BY DEF Typed
<1>5. \A i \in DOMAIN landed : landed[i].msg \in Nat /\ landed[i].gen \in Nat
  BY <1>3
<1>6. \A p \in Pids : loop[p].msg \in Nat /\ loop[p].gen \in Nat
  BY <1>4 DEF Loops
<1> QED BY <1>1, <1>2, <1>5, <1>6 DEF Numbers

(* Only the head leaves. *)
Removes == queue' = queue \/ (queue # <<>> /\ queue' = Tail(queue))

LEMMA Remains ==
  ASSUME Typed, Removes
  PROVE  \/ queue' = queue
         \/ /\ 1 \in DOMAIN queue /\ Head(queue) = queue[1] /\ queue # <<>> /\ queue' = Tail(queue)
            /\ \A k \in DOMAIN queue' : /\ k \in Nat /\ k >= 1
                                        /\ k + 1 \in DOMAIN queue /\ queue'[k] = queue[k + 1]
<1> SUFFICES ASSUME queue # <<>>, queue' = Tail(queue)
             PROVE  /\ 1 \in DOMAIN queue /\ Head(queue) = queue[1]
                    /\ \A k \in DOMAIN queue' : /\ k \in Nat /\ k >= 1
                                                /\ k + 1 \in DOMAIN queue /\ queue'[k] = queue[k + 1]
  BY DEF Removes
<1>1. queue \in Seq(1..MaxSends)
  BY DEF Typed
<1>2. Tail(queue) \in Seq(1..MaxSends)
  BY <1>1, Tailed
<1>3. \A k \in DOMAIN Tail(queue) : k \in Nat /\ k >= 1
  BY <1>2
<1> QED BY <1>1, <1>3, Tailed

LEMMA OrderOnRemoval ==
  ASSUME DeliveryAssumption, Typed, Accepted, Sorted, Removes, sent' = sent
  PROVE  Accepted' /\ Sorted'
<1>1. CASE queue' = queue
  BY <1>1 DEF Accepted, Sorted
<1>2. CASE queue' # queue
  <2>1. \A k \in DOMAIN queue' : /\ k \in Nat /\ k >= 1
                                 /\ k + 1 \in DOMAIN queue /\ queue'[k] = queue[k + 1]
    BY <1>2, Remains
  <2> QED BY <2>1 DEF Accepted, Sorted
<1> QED BY <1>1, <1>2

LEMMA CountsStep ==
  ASSUME DeliveryAssumption, LockTypeOK, Typed, Typed', Counts, [Next]_vars
  PROVE  Counts'
<1> USE DEF Counts
<1>0. Numbers /\ runtime'.gen \in Nat /\ (\A p \in Pids : loop[p] \in Loops) /\ loop \in [Pids -> Loops]
      /\ queue \in Seq(1..MaxSends) /\ landed \in Seq([msg : 1..MaxSends, gen : 1..MaxBinds])
  <2>1. Numbers
    BY NumbersTyped
  <2>2. runtime'.gen \in 1..MaxBinds
    BY DEF Typed
  <2> QED BY <2>1, <2>2 DEF Typed
<1>1. CASE Calm
  <2>1. HandsTyped'
    BY <1>0, <1>1 DEF Calm, HandsTyped, BindingGoesOn, Acting, Numbers
  <2>2. LandedBefore'
    BY <1>0, <1>1 DEF Calm, LandedBefore, BindingGoesOn, Numbers
  <2> QED BY <1>1, <2>1, <2>2 DEF Calm, Accepted, Sorted
<1>2. CASE Accepts
  <2>1. /\ sent' = sent + 1 /\ loop' = loop /\ landed' = landed /\ runtime' = runtime
        /\ DOMAIN queue' = 1 .. Len(queue) + 1 /\ DOMAIN queue = 1 .. Len(queue) /\ Len(queue) \in Nat
        /\ queue'[Len(queue) + 1] = sent + 1
        /\ \A k \in DOMAIN queue : queue'[k] = queue[k]
    <3>1. /\ sent + 1 \in 1..MaxSends /\ queue' = Append(queue, sent + 1)
          /\ sent' = sent + 1 /\ loop' = loop /\ landed' = landed /\ runtime' = runtime
      BY <1>0, <1>2, DeliveryAssumption DEF Accepts, Typed
    <3> QED BY <1>0, <3>1, Appended
  <2>2. HandsTyped' /\ LandedBefore'
    <3>1. HandsTyped'
      BY <1>0, <2>1 DEF HandsTyped, Numbers
    <3>2. LandedBefore'
      BY <1>0, <2>1 DEF LandedBefore, Numbers
    <3> QED BY <3>1, <3>2
  <2>3. Accepted' /\ Sorted'
    <3>1. \A k \in DOMAIN queue' : k \in DOMAIN queue \/ k = Len(queue) + 1
      BY <2>1
    <3>2. \A k \in DOMAIN queue : queue[k] \in Nat /\ queue[k] <= sent
      BY <1>0 DEF Accepted, Numbers
    <3>3. Accepted'
      <4>1. ASSUME NEW k \in DOMAIN queue' PROVE queue'[k] <= sent'
        <5>1. CASE k \in DOMAIN queue
          BY <1>0, <2>1, <3>2, <5>1 DEF Numbers
        <5>2. CASE k = Len(queue) + 1
          BY <1>0, <2>1, <5>2 DEF Numbers
        <5> QED BY <3>1, <5>1, <5>2
      <4> QED BY <4>1 DEF Accepted
    <3>4. ASSUME NEW k \in DOMAIN queue', NEW l \in DOMAIN queue', k < l
          PROVE  queue'[k] < queue'[l]
      <4>1. k \in DOMAIN queue
        BY <2>1, <3>4
      <4>2. CASE l \in DOMAIN queue
        BY <2>1, <3>4, <4>1, <4>2 DEF Sorted
      <4>3. CASE l = Len(queue) + 1
        BY <1>0, <2>1, <3>2, <4>1, <4>3 DEF Numbers
      <4> QED BY <3>1, <4>2, <4>3
    <3> QED BY <3>3, <3>4 DEF Sorted
  <2> QED BY <2>2, <2>3
<1>3. ASSUME NEW p \in Pids, ReadHead(p) PROVE Counts'
  <2>1. UNCHANGED <<queue, sent, landed, runtime>> /\ \A q \in Pids : q # p => loop'[q] = loop[q]
    BY <1>0, <1>3 DEF ReadHead, mail, Rest, Aside
  <2>2. /\ loop'[p].at \in Acting => queue # <<>>
        /\ queue # <<>> => loop'[p].msg = Head(queue)
        /\ loop'[p].gen = runtime.gen
    <3>1. loop'[p] = [at  |-> IF queue = <<>> THEN "empty"
                              ELSE IF Head(queue) \in revoked THEN "drop"
                              ELSE IF runtime.status # "bound" THEN "held"
                              ELSE "insert",
                      msg |-> IF queue = <<>> THEN 0 ELSE Head(queue),
                      gen |-> runtime.gen]
      BY <1>0, <1>3 DEF ReadHead
    <3> QED BY <3>1 DEF Acting
  <2>3. queue # <<>> => Head(queue) \in 1..sent
    <3>1. ASSUME queue # <<>> PROVE Head(queue) = queue[1] /\ 1 \in DOMAIN queue /\ Head(queue) \in 1..MaxSends
      BY <1>0, <3>1, Tailed
    <3> QED BY <1>0, <3>1, DeliveryAssumption DEF Accepted, Numbers
  <2>4. runtime.gen \in 1..runtime.gen
    BY DeliveryAssumption DEF Typed
  <2> QED BY <2>1, <2>2, <2>3, <2>4 DEF HandsTyped, Accepted, Sorted, LandedBefore, Acting
<1>4. ASSUME NEW p \in Pids, Insert(p) PROVE Counts'
  <2>1. /\ UNCHANGED <<queue, sent, runtime>> /\ \A q \in Pids : q # p => loop'[q] = loop[q]
        /\ loop[p].at = "insert" /\ loop'[p].msg = loop[p].msg /\ loop'[p].gen = loop[p].gen
    BY <1>0, <1>4 DEF Insert, Rest, Aside, Enter
  <2>2. loop[p].msg \in 1..sent /\ loop[p].gen \in 1..runtime.gen
    BY <2>1 DEF HandsTyped, Acting
  <2>3. HandsTyped'
    BY <2>1, <2>2 DEF HandsTyped
  <2>4. LandedBefore'
    <3> DEFINE letter == [msg |-> loop[p].msg, gen |-> loop[p].gen]
    <3>1. landed' = Append(landed, letter) /\ letter.msg = loop[p].msg /\ letter.gen = loop[p].gen
      BY <1>4 DEF Insert
    <3>3. /\ landed \in Seq([msg : 1..MaxSends, gen : 1..MaxBinds])
          /\ letter \in [msg : 1..MaxSends, gen : 1..MaxBinds]
      <4>1. sent \in 0..MaxSends /\ runtime.gen \in 1..MaxBinds
        BY DEF Typed
      <4>2. loop[p].msg \in 1..MaxSends /\ loop[p].gen \in 1..MaxBinds
        BY <2>2, <4>1, DeliveryAssumption
      <4> QED BY <1>0, <4>2
    <3> HIDE DEF letter
    <3>2. /\ DOMAIN landed' = 1 .. Len(landed) + 1 /\ landed'[Len(landed) + 1] = letter
          /\ \A i \in DOMAIN landed : landed'[i] = landed[i]
      BY <3>1, <3>3
    <3>4. letter.msg <= sent /\ letter.gen <= runtime.gen
      BY <2>2, <3>1
    <3>5. DOMAIN landed = 1 .. Len(landed) /\ Len(landed) \in Nat
      BY <3>3
    <3>6. \A i \in DOMAIN landed' : i \in DOMAIN landed \/ i = Len(landed) + 1
      BY <3>2, <3>5
    <3> QED BY <2>1, <3>2, <3>4, <3>6 DEF LandedBefore
  <2> QED BY <2>1, <2>3, <2>4 DEF Accepted, Sorted
<1>5. ASSUME NEW p \in Pids, Confirm(p) \/ Take(p) PROVE Counts'
  <2>1. /\ UNCHANGED <<sent, runtime, landed>> /\ \A q \in Pids : q # p => loop'[q] = loop[q]
        /\ Removes /\ loop[p].at \in Acting
    BY <1>0, <1>5 DEF Confirm, Take, mail, Rest, Aside, Enter, Removes, Acting
  <2>2. loop'[p].at \in Acting => loop'[p].at = "take" /\ loop'[p].msg = loop[p].msg
    <3>1. CASE Confirm(p)
      BY <1>0, <3>1 DEF Confirm, Enter, Acting
    <3>2. CASE Take(p)
      BY <1>0, <3>2 DEF Take, Enter, Acting
    <3> QED BY <1>5, <3>1, <3>2
  <2>3. HandsTyped'
    BY <2>1, <2>2 DEF HandsTyped, Acting
  <2> QED BY <2>1, <2>3, OrderOnRemoval DEF LandedBefore
<1>6. ASSUME NEW i \in Inboxes, TakeOne(i) PROVE Counts'
  BY <1>6, OrderOnRemoval DEF TakeOne, Rest, Aside, Removes, HandsTyped, LandedBefore
<1> QED BY <1>1, <1>2, <1>3, <1>4, <1>5, <1>6, Shape

-----------------------------------------------------------------------------
(* While the lock is sound, what landed is not newer than what waits, nor   *)
(* than the head a loop is about to insert, and landed in order.           *)

Passed ==
  LockSound =>
    /\ \A i \in DOMAIN landed, k \in DOMAIN queue : landed[i].msg <= queue[k]
    /\ \A p \in Pids : loop[p].at = "insert" =>
         /\ \A i \in DOMAIN landed : landed[i].msg <= loop[p].msg
         /\ \A k \in DOMAIN queue : loop[p].msg <= queue[k]
    /\ \A i, j \in DOMAIN landed : i < j => landed[i].msg <= landed[j].msg

(* One message lands at the end. *)
LEMMA InsertLands ==
  ASSUME DeliveryAssumption, Typed, Counts, NEW p \in Pids, Insert(p)
  PROVE  /\ DOMAIN landed = 1 .. Len(landed) /\ Len(landed) \in Nat
         /\ DOMAIN landed' = 1 .. Len(landed) + 1
         /\ landed'[Len(landed) + 1] = [msg |-> loop[p].msg, gen |-> loop[p].gen]
         /\ \A i \in DOMAIN landed : landed'[i] = landed[i]
         /\ loop[p].at = "insert" /\ loop'[p].at = "confirm"
         /\ loop'[p].msg = loop[p].msg /\ loop'[p].gen = loop[p].gen
         /\ \A q \in Pids : q # p => loop'[q] = loop[q]
         /\ UNCHANGED <<queue, sent, taken, revoked, runtime, lapsed>>
<1>1. loop[p] \in Loops /\ landed \in Seq([msg : 1..MaxSends, gen : 1..MaxBinds])
      /\ loop \in [Pids -> Loops]
  BY DEF Typed
<1>2. loop[p].at = "insert" /\ landed' = Append(landed, [msg |-> loop[p].msg, gen |-> loop[p].gen])
  BY DEF Insert
<1>3. [msg |-> loop[p].msg, gen |-> loop[p].gen] \in [msg : 1..MaxSends, gen : 1..MaxBinds]
  <2>1. loop[p].msg \in 1..sent /\ loop[p].gen \in 1..runtime.gen
    BY <1>2 DEF Counts, HandsTyped, Acting
  <2>2. sent \in 0..MaxSends /\ runtime.gen \in 1..MaxBinds
    BY DEF Typed
  <2> QED BY <2>1, <2>2, DeliveryAssumption
<1>4. /\ DOMAIN landed = 1 .. Len(landed) /\ Len(landed) \in Nat
      /\ DOMAIN landed' = 1 .. Len(landed) + 1
      /\ landed'[Len(landed) + 1] = [msg |-> loop[p].msg, gen |-> loop[p].gen]
      /\ \A i \in DOMAIN landed : landed'[i] = landed[i]
  BY <1>1, <1>2, <1>3, Appended
<1>5. loop' = [loop EXCEPT ![p].at = "confirm"] /\ UNCHANGED <<queue, sent, taken, revoked, runtime, lapsed>>
  BY DEF Insert, Enter, Rest, Aside
<1>6. /\ loop'[p].at = "confirm" /\ loop'[p].msg = loop[p].msg /\ loop'[p].gen = loop[p].gen
      /\ \A q \in Pids : q # p => loop'[q] = loop[q]
  BY <1>1, <1>5 DEF Loops
<1> QED BY <1>2, <1>4, <1>5, <1>6

(* A loop reads the head, its sender's marker and the binding. *)
LEMMA HeadRead ==
  ASSUME Typed, NEW p \in Pids, ReadHead(p)
  PROVE  /\ loop[p].at = "head"
         /\ UNCHANGED <<queue, sent, landed, taken, revoked, runtime, lapsed>>
         /\ \A q \in Pids : q # p => loop'[q] = loop[q]
         /\ loop'[p].at \notin {"confirm", "take"}
         /\ loop'[p].at = "drop" => Head(queue) \in revoked
         /\ loop'[p].at = "insert" => runtime.status = "bound"
         /\ loop'[p].at \in Acting =>
              /\ 1 \in DOMAIN queue /\ loop'[p].msg = queue[1] /\ loop'[p].msg = Head(queue)
              /\ loop'[p].gen = runtime.gen
<1>1. loop \in [Pids -> Loops] /\ queue \in Seq(1..MaxSends)
  BY DEF Typed
<1>2. loop' = [loop EXCEPT ![p] =
                 [at  |-> IF queue = <<>> THEN "empty"
                          ELSE IF Head(queue) \in revoked THEN "drop"
                          ELSE IF runtime.status # "bound" THEN "held"
                          ELSE "insert",
                  msg |-> IF queue = <<>> THEN 0 ELSE Head(queue),
                  gen |-> runtime.gen]]
  BY DEF ReadHead
<1>3. queue # <<>> => Head(queue) = queue[1] /\ 1 \in DOMAIN queue
  BY <1>1, Tailed
<1>4. loop[p].at = "head" /\ UNCHANGED <<queue, sent, landed, taken, revoked, runtime, lapsed>>
  BY DEF ReadHead, mail, Rest, Aside
<1>5. \A q \in Pids : q # p => loop'[q] = loop[q]
  BY <1>1, <1>2
<1>6. loop'[p] = [at  |-> IF queue = <<>> THEN "empty"
                          ELSE IF Head(queue) \in revoked THEN "drop"
                          ELSE IF runtime.status # "bound" THEN "held"
                          ELSE "insert",
                  msg |-> IF queue = <<>> THEN 0 ELSE Head(queue),
                  gen |-> runtime.gen]
  BY <1>1, <1>2
<1>7. loop'[p].at = "drop" \/ loop'[p].at = "insert" => queue # <<>>
  BY <1>6
<1>8. loop'[p].at \in Acting => loop'[p].at = "drop" \/ loop'[p].at = "insert"
  BY <1>6 DEF Acting
<1>9. loop'[p].at \notin {"confirm", "take"}
  BY <1>6
<1>10. /\ loop'[p].at = "drop" => Head(queue) \in revoked
       /\ loop'[p].at = "insert" => runtime.status = "bound"
  BY <1>6
<1>11. loop'[p].gen = runtime.gen /\ (queue # <<>> => loop'[p].msg = Head(queue))
  BY <1>6
<1> QED BY <1>3, <1>4, <1>5, <1>7, <1>8, <1>9, <1>10, <1>11

(* The steps that may remove the head, and what they leave of the loops. *)
LEMMA ConfirmOrTake ==
  ASSUME Typed, NEW p \in Pids, Confirm(p) \/ Take(p)
  PROVE  /\ Removes /\ UNCHANGED <<sent, landed, taken, revoked, runtime, lapsed>>
         /\ loop[p].at \in {"confirm", "drop", "take"}
         /\ \A q \in Pids : q # p => loop'[q] = loop[q]
         /\ loop'[p].at \in {"take", "held", "advanced"}
         /\ loop'[p].at = "take" =>
              /\ loop[p].at \in {"confirm", "drop"} /\ queue' = queue
              /\ queue # <<>> /\ Head(queue) = loop[p].msg
              /\ loop'[p].msg = loop[p].msg /\ loop'[p].gen = loop[p].gen
<1>1. loop \in [Pids -> Loops]
  BY DEF Typed
<1>2. CASE Confirm(p)
  <2>1. /\ UNCHANGED <<queue, sent, landed, taken, revoked, runtime, lapsed>>
        /\ loop[p].at \in {"confirm", "drop"}
    BY <1>2 DEF Confirm, mail, Rest, Aside
  <2>2. /\ \A q \in Pids : q # p => loop'[q] = loop[q]
        /\ loop'[p].msg = loop[p].msg /\ loop'[p].gen = loop[p].gen
        /\ \/ loop'[p].at = "take" /\ IsStillHead(p)
           \/ loop'[p].at = "held"
    BY <1>1, <1>2 DEF Confirm, Enter, Loops
  <2> QED BY <2>1, <2>2 DEF IsStillHead, Removes
<1>3. CASE Take(p)
  <2>1. /\ UNCHANGED <<sent, landed, taken, revoked, runtime, lapsed>> /\ loop[p].at = "take" /\ Removes
    BY <1>3 DEF Take, mail, Rest, Aside, Removes
  <2>2. (\A q \in Pids : q # p => loop'[q] = loop[q]) /\ loop'[p].at \in {"held", "advanced"}
    BY <1>1, <1>3 DEF Take, Enter, Loops
  <2> QED BY <2>1, <2>2
<1> QED BY <1>2, <1>3

LEMMA PassedStep ==
  ASSUME DeliveryAssumption, LockInv, Typed, Counts, Linked, Passed, [Next]_vars
  PROVE  Passed'
<1> SUFFICES ASSUME LockSound'
             PROVE  /\ \A i \in DOMAIN landed', k \in DOMAIN queue' : landed'[i].msg <= queue'[k]
                    /\ \A p \in Pids : loop'[p].at = "insert" =>
                         /\ \A i \in DOMAIN landed' : landed'[i].msg <= loop'[p].msg
                         /\ \A k \in DOMAIN queue' : loop'[p].msg <= queue'[k]
                    /\ \A i, j \in DOMAIN landed' : i < j => landed'[i].msg <= landed'[j].msg
  BY DEF Passed
<1>0. LockSound /\ LockTypeOK
  BY SoundBefore DEF LockInv
<1>a. /\ \A i \in DOMAIN landed, k \in DOMAIN queue : landed[i].msg <= queue[k]
      /\ \A p \in Pids : loop[p].at = "insert" =>
           /\ \A i \in DOMAIN landed : landed[i].msg <= loop[p].msg
           /\ \A k \in DOMAIN queue : loop[p].msg <= queue[k]
      /\ \A i, j \in DOMAIN landed : i < j => landed[i].msg <= landed[j].msg
  BY <1>0 DEF Passed
<1>b. Numbers /\ queue \in Seq(1..MaxSends)
  BY NumbersTyped DEF Typed
<1>c. \A p, q \in Pids : loop[p].at \in Working /\ loop[q].at \in Working => p = q
  BY <1>0, OneWorks
<1>1. CASE Calm
  BY <1>1, <1>a DEF Calm, Acting
<1>2. CASE Accepts
  <2>1. /\ loop' = loop /\ landed' = landed
        /\ \A k \in DOMAIN queue' : \/ k \in DOMAIN queue /\ queue'[k] = queue[k]
                                    \/ queue'[k] = sent + 1
    <3>1. sent + 1 \in 1..MaxSends /\ queue' = Append(queue, sent + 1)
      BY <1>2, DeliveryAssumption DEF Accepts, Typed
    <3> QED BY <1>2, <1>b, <3>1, Appended DEF Accepts
  <2>2. \A i \in DOMAIN landed : landed[i].msg <= sent + 1
    BY <1>b DEF Counts, LandedBefore, Numbers
  <2>3. \A p \in Pids : loop[p].at = "insert" => loop[p].msg <= sent + 1
    BY <1>b DEF Counts, HandsTyped, Acting, Numbers
  <2> QED BY <1>a, <2>1, <2>2, <2>3
<1>3. ASSUME NEW p \in Pids, ReadHead(p)
      PROVE  /\ UNCHANGED <<queue, landed>>
             /\ \A q \in Pids : loop'[q].at = "insert" =>
                  /\ \A i \in DOMAIN landed : landed[i].msg <= loop'[q].msg
                  /\ \A k \in DOMAIN queue : loop'[q].msg <= queue[k]
  <2>1. /\ UNCHANGED <<queue, landed>> /\ \A q \in Pids : q # p => loop'[q] = loop[q]
        /\ loop'[p].at = "insert" => 1 \in DOMAIN queue /\ loop'[p].msg = queue[1]
    BY <1>3, HeadRead DEF Acting
  <2>2. 1 \in DOMAIN queue => \A k \in DOMAIN queue : queue[1] <= queue[k]
    BY <1>b DEF Counts, Sorted, Numbers
  <2> QED BY <1>a, <2>1, <2>2
<1>4. ASSUME NEW p \in Pids, Insert(p)
      PROVE  /\ UNCHANGED queue /\ \A q \in Pids : loop'[q].at # "insert"
             /\ \A i \in DOMAIN landed', k \in DOMAIN queue : landed'[i].msg <= queue[k]
             /\ \A i, j \in DOMAIN landed' : i < j => landed'[i].msg <= landed'[j].msg
  <2>1. /\ DOMAIN landed = 1 .. Len(landed) /\ Len(landed) \in Nat
        /\ DOMAIN landed' = 1 .. Len(landed) + 1
        /\ landed'[Len(landed) + 1] = [msg |-> loop[p].msg, gen |-> loop[p].gen]
        /\ \A i \in DOMAIN landed : landed'[i] = landed[i]
        /\ loop[p].at = "insert" /\ loop'[p].at = "confirm"
        /\ \A q \in Pids : q # p => loop'[q] = loop[q]
        /\ UNCHANGED queue
    BY <1>4, InsertLands
  <2>2. \A q \in Pids : loop'[q].at # "insert"
    BY <1>c, <2>1 DEF Working, Acting
  <2>3. /\ \A i \in DOMAIN landed : landed[i].msg <= loop[p].msg
        /\ \A k \in DOMAIN queue : loop[p].msg <= queue[k]
    BY <1>a, <2>1
  <2>4. \A i \in DOMAIN landed' : \/ i \in DOMAIN landed /\ landed'[i] = landed[i]
                                  \/ i = Len(landed) + 1 /\ landed'[i].msg = loop[p].msg
    BY <2>1
  <2>5. ASSUME NEW i \in DOMAIN landed', NEW j \in DOMAIN landed', i < j
        PROVE  landed'[i].msg <= landed'[j].msg
    <3>1. i \in DOMAIN landed /\ landed'[i] = landed[i]
      BY <2>1, <2>5
    <3> QED BY <1>a, <2>3, <2>4, <2>5, <3>1
  <2>6. ASSUME NEW i \in DOMAIN landed', NEW k \in DOMAIN queue
        PROVE  landed'[i].msg <= queue[k]
    BY <1>a, <2>3, <2>4
  <2> QED BY <2>1, <2>2, <2>5, <2>6
<1>5. ASSUME Removes, UNCHANGED landed, \A q \in Pids : loop'[q].at = "insert" => loop'[q] = loop[q]
      PROVE  /\ \A i \in DOMAIN landed, k \in DOMAIN queue' : landed[i].msg <= queue'[k]
             /\ \A q \in Pids : loop'[q].at = "insert" =>
                  /\ \A i \in DOMAIN landed : landed[i].msg <= loop'[q].msg
                  /\ \A k \in DOMAIN queue' : loop'[q].msg <= queue'[k]
  <2>1. \A k \in DOMAIN queue' : \E l \in DOMAIN queue : queue'[k] = queue[l]
    BY <1>5, Remains
  <2> QED BY <1>a, <1>5, <2>1
<1>6. ASSUME NEW p \in Pids, Confirm(p) \/ Take(p)
      PROVE  Removes /\ UNCHANGED landed /\ \A q \in Pids : loop'[q].at = "insert" => loop'[q] = loop[q]
  BY <1>6, ConfirmOrTake
<1>7. ASSUME NEW i \in Inboxes, TakeOne(i)
      PROVE  Removes /\ UNCHANGED landed /\ \A q \in Pids : loop'[q].at = "insert" => loop'[q] = loop[q]
  BY <1>7 DEF TakeOne, Removes
<1>8. CASE \E p \in Pids : ReadHead(p)
  BY <1>a, <1>3, <1>8
<1>9. CASE \E p \in Pids : Insert(p)
  BY <1>4, <1>9
<1>10. CASE \/ \E p \in Pids : Confirm(p) \/ Take(p)
            \/ \E i \in Inboxes : TakeOne(i)
  <2>1. Removes /\ UNCHANGED landed /\ \A q \in Pids : loop'[q].at = "insert" => loop'[q] = loop[q]
    BY <1>6, <1>7, <1>10
  <2> QED BY <1>a, <1>5, <2>1
<1> QED BY <1>0, <1>1, <1>2, <1>8, <1>9, <1>10, Shape

-----------------------------------------------------------------------------
(* While every process is alive, a message that landed and still waits is   *)
(* in the hands of the loop that is about to remove it, or its removal      *)
(* threw, or the binding it landed under is over.                          *)

Lapsed(i) == landed[i].msg \in lapsed
Over(i) == landed[i].gen < runtime.gen \/ runtime.status = "unbound"

InHands(i) ==
  \E p \in Pids : /\ loop[p].at \in {"confirm", "take"}
                  /\ loop[p].msg = landed[i].msg /\ landed[i].gen <= loop[p].gen

Once ==
  AllAlive =>
    /\ \A i, j \in DOMAIN landed :
         i < j /\ landed[i].gen = landed[j].gen /\ ~Lapsed(i) => landed[i].msg < landed[j].msg
    /\ \A p \in Pids : loop[p].at = "insert" =>
         \A i \in DOMAIN landed :
           landed[i].gen = loop[p].gen /\ ~Lapsed(i) => landed[i].msg < loop[p].msg
    /\ \A i \in DOMAIN landed, k \in DOMAIN queue :
         landed[i].msg = queue[k] => Lapsed(i) \/ Over(i) \/ InHands(i)

(* What is left behind a removed head has not landed. *)
LEMMA RestNotLanded ==
  ASSUME DeliveryAssumption, Typed, Counts, LockSound, Passed, Removes, queue' # queue
  PROVE  \A i \in DOMAIN landed, k \in DOMAIN queue' : landed[i].msg < queue'[k]
<1>1. Numbers
  BY NumbersTyped
<1>2. /\ 1 \in DOMAIN queue
      /\ \A k \in DOMAIN queue' : /\ k \in Nat /\ k >= 1
                                  /\ k + 1 \in DOMAIN queue /\ queue'[k] = queue[k + 1]
  BY Remains
<1>3. \A k \in DOMAIN queue' : queue[1] < queue'[k]
  BY <1>2 DEF Counts, Sorted
<1>4. \A i \in DOMAIN landed : landed[i].msg <= queue[1]
  BY <1>2 DEF Passed
<1> QED BY <1>1, <1>2, <1>3, <1>4 DEF Numbers

LEMMA OnceStep ==
  ASSUME DeliveryAssumption, LockInv, Typed, Typed', Counts, Linked, Passed, Once, [Next]_vars
  PROVE  Once'
<1> SUFFICES ASSUME AllAlive'
             PROVE  /\ \A i, j \in DOMAIN landed' :
                         i < j /\ landed'[i].gen = landed'[j].gen /\ ~Lapsed(i)' =>
                           landed'[i].msg < landed'[j].msg
                    /\ \A p \in Pids : loop'[p].at = "insert" =>
                         \A i \in DOMAIN landed' :
                           landed'[i].gen = loop'[p].gen /\ ~Lapsed(i)' =>
                             landed'[i].msg < loop'[p].msg
                    /\ \A i \in DOMAIN landed', k \in DOMAIN queue' :
                         landed'[i].msg = queue'[k] => Lapsed(i)' \/ Over(i)' \/ InHands(i)'
  BY DEF Once
<1>0. AllAlive /\ LockSound /\ LockTypeOK
  BY SoundBefore DEF LockInv, LockSound
<1>a. /\ \A i, j \in DOMAIN landed :
           i < j /\ landed[i].gen = landed[j].gen /\ ~Lapsed(i) => landed[i].msg < landed[j].msg
      /\ \A p \in Pids : loop[p].at = "insert" =>
           \A i \in DOMAIN landed :
             landed[i].gen = loop[p].gen /\ ~Lapsed(i) => landed[i].msg < loop[p].msg
      /\ \A i \in DOMAIN landed, k \in DOMAIN queue :
           landed[i].msg = queue[k] => Lapsed(i) \/ Over(i) \/ InHands(i)
  BY <1>0 DEF Once
<1>b. Numbers /\ Numbers' /\ queue \in Seq(1..MaxSends)
  <2>1. Numbers /\ queue \in Seq(1..MaxSends)
    BY NumbersTyped DEF Typed
  <2>2. Typed' => Numbers'
    BY NumbersTyped, PTL
  <2> QED BY <2>1, <2>2
<1>c. \A p, q \in Pids : loop[p].at \in Working /\ loop[q].at \in Working => p = q
  BY <1>0, OneWorks
<1>d. \A i \in DOMAIN landed : landed[i].gen <= runtime.gen
  BY DEF Counts, LandedBefore
<1>1. CASE Calm
  <2>1. ASSUME NEW i \in DOMAIN landed, Over(i), UNCHANGED landed PROVE Over(i)'
    BY <1>b, <1>d, <1>1, <2>1 DEF Over, Calm, BindingGoesOn, Numbers
  <2>2. ASSUME NEW i \in DOMAIN landed, InHands(i), UNCHANGED landed
        PROVE  InHands(i)' \/ Lapsed(i)'
    <3>1. AllAlive'
      OBVIOUS
    <3> QED BY <1>1, <2>2, <3>1 DEF InHands, Lapsed, Calm
  <2>3. ASSUME NEW i \in DOMAIN landed, Lapsed(i), UNCHANGED landed PROVE Lapsed(i)'
    BY <1>1, <2>3 DEF Lapsed, Calm
  <2>4. /\ UNCHANGED <<landed, queue>>
        /\ \A q \in Pids : loop'[q].at = "insert" => loop'[q] = loop[q]
    BY <1>1 DEF Calm, Acting
  <2> QED BY <1>a, <2>1, <2>2, <2>3, <2>4
<1>2. CASE Accepts
  <2>1. /\ UNCHANGED <<loop, landed, runtime, lapsed>>
        /\ \A k \in DOMAIN queue' : \/ k \in DOMAIN queue /\ queue'[k] = queue[k]
                                    \/ queue'[k] = sent + 1
    <3>1. sent + 1 \in 1..MaxSends /\ queue' = Append(queue, sent + 1)
      BY <1>2, DeliveryAssumption DEF Accepts, Typed
    <3> QED BY <1>2, <1>b, <3>1, Appended DEF Accepts
  <2>2. \A i \in DOMAIN landed : landed[i].msg # sent + 1
    BY <1>b DEF Counts, LandedBefore, Numbers
  <2>3. \A i \in DOMAIN landed :
          Over(i)' = Over(i) /\ InHands(i)' = InHands(i) /\ Lapsed(i)' = Lapsed(i)
    BY <2>1 DEF Over, InHands, Lapsed
  <2> QED BY <1>a, <2>1, <2>2, <2>3
<1>3. ASSUME NEW p \in Pids, ReadHead(p)
      PROVE  /\ UNCHANGED <<queue, landed, lapsed>>
             /\ \A i \in DOMAIN landed, k \in DOMAIN queue :
                  landed[i].msg # queue[k] \/ Lapsed(i) \/ Over(i)'
             /\ \A q \in Pids : loop'[q].at = "insert" =>
                  \A i \in DOMAIN landed :
                    landed[i].gen = loop'[q].gen /\ ~Lapsed(i) => landed[i].msg < loop'[q].msg
  <2>1. /\ loop[p].at = "head" /\ UNCHANGED <<queue, landed, runtime, lapsed>>
        /\ \A q \in Pids : q # p => loop'[q] = loop[q]
        /\ loop'[p].at = "insert" =>
             /\ 1 \in DOMAIN queue /\ loop'[p].msg = queue[1] /\ loop'[p].gen = runtime.gen
             /\ runtime.status = "bound"
    BY <1>3, HeadRead DEF Acting
  <2>2. \A i \in DOMAIN landed : ~InHands(i)
    BY <1>c, <2>1 DEF InHands, Working, Acting
  <2>3. \A i \in DOMAIN landed, k \in DOMAIN queue :
          landed[i].msg # queue[k] \/ Lapsed(i) \/ Over(i)
    BY <1>a, <2>2
  <2>4. \A i \in DOMAIN landed : Over(i)' = Over(i)
    BY <2>1 DEF Over
  <2>5. ASSUME loop'[p].at = "insert", NEW i \in DOMAIN landed, landed[i].gen = loop'[p].gen,
               ~Lapsed(i)
        PROVE  landed[i].msg < loop'[p].msg
    <3>1. landed[i].msg <= queue[1]
      BY <1>0, <2>1, <2>5 DEF Passed
    <3>2. ~Over(i)
      BY <1>b, <2>1, <2>5 DEF Over, Numbers
    <3>3. landed[i].msg # queue[1]
      BY <2>1, <2>3, <2>5, <3>2
    <3> QED BY <1>b, <2>1, <2>5, <3>1, <3>3 DEF Numbers
  <2> QED BY <1>a, <2>1, <2>3, <2>4, <2>5
<1>4. ASSUME NEW p \in Pids, Insert(p)
      PROVE  /\ \A i, j \in DOMAIN landed' :
                  i < j /\ landed'[i].gen = landed'[j].gen /\ ~Lapsed(i)' =>
                    landed'[i].msg < landed'[j].msg
             /\ \A q \in Pids : loop'[q].at # "insert"
             /\ \A i \in DOMAIN landed', k \in DOMAIN queue' :
                  landed'[i].msg = queue'[k] => Lapsed(i)' \/ Over(i)' \/ InHands(i)'
  <2>1. /\ DOMAIN landed = 1 .. Len(landed) /\ Len(landed) \in Nat
        /\ DOMAIN landed' = 1 .. Len(landed) + 1
        /\ landed'[Len(landed) + 1] = [msg |-> loop[p].msg, gen |-> loop[p].gen]
        /\ \A i \in DOMAIN landed : landed'[i] = landed[i]
        /\ loop[p].at = "insert" /\ loop'[p].at = "confirm"
        /\ loop'[p].msg = loop[p].msg /\ loop'[p].gen = loop[p].gen
        /\ \A q \in Pids : q # p => loop'[q] = loop[q]
        /\ UNCHANGED <<queue, runtime, lapsed>>
    BY <1>4, InsertLands
  <2>2. \A q \in Pids : loop'[q].at # "insert"
    BY <1>c, <2>1 DEF Working, Acting
  <2>3. \A i \in DOMAIN landed : ~InHands(i)
    BY <1>c, <2>1 DEF InHands, Working, Acting
  <2>4. ASSUME NEW i \in DOMAIN landed', NEW k \in DOMAIN queue', landed'[i].msg = queue'[k]
        PROVE  Lapsed(i)' \/ Over(i)' \/ InHands(i)'
    <3>1. CASE i \in DOMAIN landed
      BY <1>a, <2>1, <2>3, <2>4, <3>1 DEF Over, Lapsed
    <3>2. CASE i = Len(landed) + 1
      <4>1. landed'[i].msg = loop'[p].msg /\ landed'[i].gen = loop'[p].gen
        BY <2>1, <3>2
      <4>2. landed'[i].gen <= loop'[p].gen
        BY <1>b, <4>1 DEF Numbers
      <4> QED BY <2>1, <4>1, <4>2 DEF InHands
    <3> QED BY <2>1, <3>1, <3>2
  <2>5. ASSUME NEW i \in DOMAIN landed', NEW j \in DOMAIN landed', i < j,
               landed'[i].gen = landed'[j].gen, ~Lapsed(i)'
        PROVE  landed'[i].msg < landed'[j].msg
    <3>1. i \in DOMAIN landed /\ landed'[i] = landed[i] /\ ~Lapsed(i)
      BY <2>1, <2>5 DEF Lapsed
    <3>2. CASE j \in DOMAIN landed
      BY <1>a, <2>1, <2>5, <3>1, <3>2
    <3>3. CASE j = Len(landed) + 1
      BY <1>a, <2>1, <2>5, <3>1, <3>3
    <3> QED BY <2>1, <3>2, <3>3
  <2> QED BY <2>2, <2>4, <2>5
<1>5. ASSUME NEW p \in Pids, Confirm(p) \/ Take(p),
             NEW i \in DOMAIN landed, NEW k \in DOMAIN queue', landed[i].msg = queue'[k]
      PROVE  Lapsed(i)' \/ Over(i)' \/ InHands(i)'
  <2>1. /\ Removes /\ UNCHANGED <<landed, runtime, lapsed>>
        /\ loop[p].at \in {"confirm", "drop", "take"}
        /\ \A q \in Pids : q # p => loop'[q] = loop[q]
    BY <1>5, ConfirmOrTake
  <2>2. queue' = queue
    BY <1>0, <1>b, <1>5, <2>1, RestNotLanded DEF Numbers
  <2>3. CASE Lapsed(i) \/ Over(i)
    BY <2>1, <2>3 DEF Over, Lapsed
  <2>4. CASE ~Lapsed(i) /\ ~Over(i)
    <3>1. InHands(i)
      BY <1>a, <1>5, <2>2, <2>4
    <3>2. /\ loop[p].at \in {"confirm", "take"} /\ loop[p].msg = landed[i].msg
          /\ landed[i].gen <= loop[p].gen
      BY <1>c, <2>1, <3>1 DEF InHands, Working, Acting
    <3>3. 1 \in DOMAIN queue /\ queue # <<>> /\ Head(queue) = queue[1] /\ queue[1] = landed[i].msg
      <4>1. queue # <<>>
        BY <1>b, <1>5, <2>2
      <4>2. 1 \in DOMAIN queue /\ Head(queue) = queue[1]
        BY <1>b, <4>1, Tailed
      <4>3. landed[i].msg <= queue[1]
        BY <1>0, <4>2 DEF Passed
      <4>4. k = 1 \/ queue[1] < queue[k]
        BY <1>b, <1>5, <2>2, <4>2 DEF Counts, Sorted
      <4> QED BY <1>b, <1>5, <2>2, <4>1, <4>2, <4>3, <4>4 DEF Numbers
    <3>4. IsStillHead(p)
      BY <3>2, <3>3 DEF IsStillHead
    <3>5. CASE Take(p)
      BY <2>2, <3>3, <3>5, <1>b, QueueShrinks DEF Take
    <3>6. CASE Confirm(p)
      <4>1. loop[p].at = "confirm"
        BY <3>2, <3>6 DEF Confirm
      <4>2. runtime.status # "unbound" /\ runtime.gen = landed[i].gen
        BY <1>b, <1>d, <2>4 DEF Over, Numbers
      <4>3. loop[p].gen <= runtime.gen
        BY <4>1 DEF Counts, HandsTyped
      <4>4. StillBound(p)
        BY <1>b, <3>2, <4>2, <4>3 DEF StillBound, Numbers
      <4>5. loop'[p].at = "take" /\ loop'[p].msg = loop[p].msg /\ loop'[p].gen = loop[p].gen
        BY <3>4, <3>6, <4>4 DEF Confirm, Enter, Typed, Loops
      <4> QED BY <2>1, <3>2, <4>5 DEF InHands
    <3> QED BY <1>5, <3>5, <3>6
  <2> QED BY <2>3, <2>4
<1>6. CASE \E p \in Pids : ReadHead(p)
  BY <1>a, <1>3, <1>6 DEF Lapsed
<1>7. CASE \E p \in Pids : Insert(p)
  BY <1>4, <1>7
<1>8. CASE \E p \in Pids : Confirm(p) \/ Take(p)
  <2>1. /\ UNCHANGED <<landed, lapsed>>
        /\ \A q \in Pids : loop'[q].at = "insert" => loop'[q] = loop[q]
    BY <1>8, ConfirmOrTake
  <2> QED BY <1>a, <1>5, <1>8, <2>1 DEF Lapsed
<1>9. ASSUME NEW c \in Inboxes, TakeOne(c)
      PROVE  /\ UNCHANGED <<landed, loop, lapsed>>
             /\ \A i \in DOMAIN landed, k \in DOMAIN queue' :
                  landed[i].msg = queue'[k] => Lapsed(i)' \/ Over(i)' \/ InHands(i)'
  <2>1. Removes /\ UNCHANGED <<landed, loop, runtime, lapsed>>
    BY <1>9 DEF TakeOne, Rest, Aside, Removes
  <2>2. \A i \in DOMAIN landed :
          Over(i)' = Over(i) /\ InHands(i)' = InHands(i) /\ Lapsed(i)' = Lapsed(i)
    BY <2>1 DEF Over, InHands, Lapsed
  <2>3. CASE queue' = queue
    BY <1>a, <2>1, <2>2, <2>3
  <2>4. CASE queue' # queue
    BY <1>0, <1>b, <2>1, <2>4, RestNotLanded DEF Numbers
  <2> QED BY <2>1, <2>3, <2>4
<1>10. CASE \E c \in Inboxes : TakeOne(c)
  BY <1>a, <1>9, <1>10 DEF Lapsed
<1> QED BY <1>0, <1>1, <1>2, <1>6, <1>7, <1>8, <1>10, Shape

-----------------------------------------------------------------------------
(* As long as no inbox command has taken a message, the head that a loop is *)
(* about to remove is the one it read, and that one landed or its sender   *)
(* was closed.                                                             *)

Excused == LandedIds \cup taken \cup revoked

Kept ==
  (taken = {} /\ LockSound) =>
    /\ \A m \in 1..sent : m \in ToSet(queue) \/ m \in Excused
    /\ \A p \in Pids :
         /\ loop[p].at \in {"confirm", "drop", "take"} => loop[p].msg \in Excused
         /\ loop[p].at = "take" => queue # <<>> /\ Head(queue) = loop[p].msg

LEMMA KeptStep ==
  ASSUME DeliveryAssumption, LockInv, Typed, Typed', Counts, Linked, Kept, [Next]_vars
  PROVE  Kept'
<1> SUFFICES ASSUME taken' = {}, LockSound'
             PROVE  /\ \A m \in 1..sent' : m \in ToSet(queue') \/ m \in Excused'
                    /\ \A p \in Pids :
                         /\ loop'[p].at \in {"confirm", "drop", "take"} => loop'[p].msg \in Excused'
                         /\ loop'[p].at = "take" => queue' # <<>> /\ Head(queue') = loop'[p].msg
  BY DEF Kept
<1>i. ASSUME NEW i \in Inboxes, TakeOne(i)
      PROVE  taken = {} /\ UNCHANGED <<queue, sent, landed, taken, revoked, loop>>
  BY <1>i DEF TakeOne, Rest, Aside
<1>z. taken = {}
  <2>1. CASE Calm \/ Accepts
    BY <2>1 DEF Calm, Accepts
  <2>2. CASE \E p \in Pids : ReadHead(p) \/ Insert(p) \/ Confirm(p) \/ Take(p)
    BY <2>2 DEF ReadHead, Insert, Confirm, Take, mail
  <2>3. CASE \E i \in Inboxes : TakeOne(i)
    BY <1>i, <2>3
  <2> QED BY <2>1, <2>2, <2>3, Shape DEF LockInv
<1>0. LockSound /\ LockTypeOK
  BY SoundBefore DEF LockInv
<1>a. /\ \A m \in 1..sent : m \in ToSet(queue) \/ m \in Excused
      /\ \A p \in Pids :
           /\ loop[p].at \in {"confirm", "drop", "take"} => loop[p].msg \in Excused
           /\ loop[p].at = "take" => queue # <<>> /\ Head(queue) = loop[p].msg
  BY <1>0, <1>z DEF Kept
<1>b. Numbers /\ queue \in Seq(1..MaxSends)
  BY NumbersTyped DEF Typed
<1>c. \A p, q \in Pids : loop[p].at \in Working /\ loop[q].at \in Working => p = q
  BY <1>0, OneWorks
<1>1. CASE Calm
  <2>1. Excused \subseteq Excused'
    BY <1>1 DEF Calm, Excused, LandedIds
  <2> QED BY <1>1, <1>a, <2>1 DEF Calm, Acting
<1>2. CASE Accepts
  <2>1. /\ UNCHANGED loop /\ Excused' = Excused /\ sent' = sent + 1 /\ queue' = Append(queue, sent + 1)
        /\ sent + 1 \in 1..MaxSends
    <3>1. Excused' = Excused
      BY <1>2 DEF Accepts, Excused, LandedIds
    <3>2. sent < MaxSends => sent + 1 \in 1..MaxSends
      BY DeliveryAssumption DEF Typed
    <3> QED BY <1>2, <3>1, <3>2 DEF Accepts
  <2>2. /\ DOMAIN queue' = 1 .. Len(queue) + 1 /\ DOMAIN queue = 1 .. Len(queue) /\ Len(queue) \in Nat
        /\ queue'[Len(queue) + 1] = sent + 1
        /\ \A k \in DOMAIN queue : queue'[k] = queue[k]
    BY <1>b, <2>1, Appended
  <2>3. ToSet(queue) \subseteq ToSet(queue') /\ sent + 1 \in ToSet(queue')
    BY <2>2 DEF ToSet
  <2>4. \A m \in 1..sent' : m \in 1..sent \/ m = sent + 1
    BY <1>b, <2>1 DEF Numbers
  <2>5. queue # <<>> => queue' # <<>> /\ Head(queue') = Head(queue)
    BY <1>b, <2>1
  <2> QED BY <1>a, <2>1, <2>3, <2>4, <2>5
<1>3. CASE \E p \in Pids : ReadHead(p)
  <2>1. PICK p \in Pids : ReadHead(p)
    BY <1>3
  <2>2. /\ UNCHANGED <<queue, sent, landed, taken, revoked>>
        /\ \A q \in Pids : q # p => loop'[q] = loop[q]
        /\ loop'[p].at \notin {"confirm", "take"}
        /\ loop'[p].at = "drop" => loop'[p].msg \in revoked
    BY <2>1, HeadRead DEF Acting
  <2>3. Excused' = Excused
    BY <2>2 DEF Excused, LandedIds
  <2>4. revoked \subseteq Excused
    BY DEF Excused
  <2> QED BY <1>a, <2>2, <2>3, <2>4
<1>4. CASE \E p \in Pids : Insert(p)
  <2>1. PICK p \in Pids : Insert(p)
    BY <1>4
  <2>2. /\ DOMAIN landed = 1 .. Len(landed) /\ Len(landed) \in Nat
        /\ DOMAIN landed' = 1 .. Len(landed) + 1
        /\ landed'[Len(landed) + 1] = [msg |-> loop[p].msg, gen |-> loop[p].gen]
        /\ \A i \in DOMAIN landed : landed'[i] = landed[i]
        /\ loop'[p].at = "confirm" /\ loop'[p].msg = loop[p].msg
        /\ \A q \in Pids : q # p => loop'[q] = loop[q]
        /\ UNCHANGED <<queue, sent, taken, revoked>>
    BY <2>1, InsertLands
  <2>3. LandedIds \subseteq LandedIds'
    BY <2>2 DEF LandedIds
  <2>4. loop[p].msg \in LandedIds'
    <3>1. Len(landed) + 1 \in DOMAIN landed' /\ landed'[Len(landed) + 1].msg = loop[p].msg
      BY <2>2
    <3> QED BY <3>1 DEF LandedIds
  <2>5. Excused \subseteq Excused' /\ loop[p].msg \in Excused'
    BY <2>2, <2>3, <2>4 DEF Excused
  <2> QED BY <1>a, <2>2, <2>5
<1>5. CASE \E p \in Pids : Confirm(p) \/ Take(p)
  <2>1. PICK p \in Pids : Confirm(p) \/ Take(p)
    BY <1>5
  <2>2. /\ UNCHANGED <<sent, landed, taken, revoked>>
        /\ loop[p].at \in {"confirm", "drop", "take"}
        /\ \A q \in Pids : q # p => loop'[q] = loop[q]
        /\ loop'[p].at \in {"take", "held", "advanced"}
        /\ loop'[p].at = "take" =>
             /\ queue' = queue /\ queue # <<>> /\ Head(queue) = loop[p].msg
             /\ loop'[p].msg = loop[p].msg
    BY <2>1, ConfirmOrTake
  <2>3. Excused' = Excused
    BY <2>2 DEF Excused, LandedIds
  <2>4. \A q \in Pids : q # p => loop'[q].at \notin {"confirm", "drop", "take"}
    BY <1>c, <2>2 DEF Working, Acting
  <2>5. ASSUME NEW m \in ToSet(queue), m \notin Excused PROVE m \in ToSet(queue')
    <3>1. CASE Confirm(p)
      BY <3>1 DEF Confirm, mail
    <3>2. CASE Take(p)
      <4>1. queue # <<>> /\ Head(queue) \in Excused /\ queue' = Tail(queue)
        BY <1>a, <3>2 DEF Take
      <4>2. m # queue[1]
        BY <1>b, <2>5, <4>1, Tailed
      <4>3. \A k \in DOMAIN queue : k = 1 \/ (k - 1 \in DOMAIN Tail(queue) /\ Tail(queue)[k - 1] = queue[k])
        BY <1>b, <4>1
      <4>4. PICK k \in DOMAIN queue : m = queue[k]
        BY <2>5 DEF ToSet
      <4>5. k - 1 \in DOMAIN queue' /\ queue'[k - 1] = m
        BY <4>1, <4>2, <4>3, <4>4
      <4> QED BY <4>5 DEF ToSet
    <3> QED BY <2>1, <3>1, <3>2
  <2> QED BY <1>a, <2>2, <2>3, <2>4, <2>5
<1>6. CASE \E i \in Inboxes : TakeOne(i)
  <2>1. UNCHANGED <<queue, sent, landed, taken, revoked, loop>>
    BY <1>i, <1>6
  <2>2. Excused' = Excused
    BY <2>1 DEF Excused, LandedIds
  <2> QED BY <1>a, <2>1, <2>2
<1> QED BY <1>0, <1>1, <1>2, <1>3, <1>4, <1>5, <1>6, Shape

-----------------------------------------------------------------------------
(* The invariant of the deliveries *)

IInv == LockInv /\ Typed /\ Thrown /\ Counts /\ Linked /\ Passed /\ Once /\ Kept

LEMMA Started == ASSUME DeliveryAssumption, LockAssumption, Init PROVE IInv
<1> USE DeliveryAssumption
<1>1. LockInv
  BY LockAssumption DEF Init, LockInit, LockInv, LockTypeOK, Reading, Guarded, DeadIdle, Owners, At,
                        Stages, Inside
<1>2. /\ queue = <<>> /\ landed = <<>> /\ sent = 0 /\ loop = [p \in Pids |-> Off]
      /\ runtime = [gen |-> 1, status |-> "bound"]
  BY DEF Init
<1>3. Typed /\ Thrown
  <2>1. Typed
    BY <1>2, OffTyped DEF Init, Typed
  <2>2. faults \in 0..MaxFaults /\ lapsed = {} /\ unaware = {}
    BY DeliveryAssumption DEF Init
  <2>3. stuck \in BOOLEAN
    BY DEF Init
  <2>4. Thrown
    BY <2>2, <2>3 DEF Thrown
  <2> QED BY <2>1, <2>4
<1>4. \A p \in Pids : loop[p].at = "off"
  BY <1>2 DEF Off
<1>5. DOMAIN queue = {} /\ DOMAIN landed = {}
  BY <1>2
<1>6. Counts /\ Linked /\ Passed /\ Once
  BY <1>4, <1>5 DEF Counts, HandsTyped, Accepted, Sorted, LandedBefore, Linked, Passed, Once,
                    Working, Acting, Ends
<1>7. Kept
  BY <1>2, <1>4 DEF Kept
<1> QED BY <1>1, <1>3, <1>6, <1>7 DEF IInv

LEMMA Goes == ASSUME DeliveryAssumption, IInv, LockInv', [Next]_vars PROVE IInv'
<1>1. LockInv /\ Typed /\ Thrown /\ Counts /\ Linked /\ Passed /\ Once /\ Kept /\ LockTypeOK
  BY DEF IInv, LockInv
<1>2. Typed' /\ Thrown'
  BY <1>1, TypedStep, ThrownStep DEF Counts
<1>3. Counts' /\ Linked'
  BY <1>1, <1>2, CountsStep, LinkedStep
<1>4. Passed' /\ Once' /\ Kept'
  BY <1>1, <1>2, PassedStep, OnceStep, KeptStep
<1> QED BY <1>2, <1>3, <1>4 DEF IInv

THEOREM DeliveryInvariant == Spec => []IInv
<1>1. Init => IInv
  BY Started, DeliveryAssumption, LockAssumption
<1>2. IInv /\ LockInv' /\ [Next]_vars => IInv'
  BY Goes, DeliveryAssumption
<1> QED BY <1>1, <1>2, DeliveryLocked, PTL DEF Spec

(* Every state of the deliveries is well-typed: in particular only a backend *)
(* that runs owes the recipient a drain.                                    *)
THEOREM DeliveryTypeCorrect == Spec => []DeliveryTypeOK
<1>1. IInv => DeliveryTypeOK
  <2>1. ASSUME Typed PROVE \A p \in Pids : loop[p].at \in {"off", "call", "head", "insert", "drop",
                                         "confirm", "take", "recheck"} \cup Ends
    BY <2>1 DEF Typed, Loops, Working, Acting
  <2> QED BY <2>1 DEF IInv, LockInv, Typed, Thrown, DeliveryTypeOK
<1> QED BY DeliveryInvariant, <1>1, PTL

(* Hand-over follows the order of acceptance, and repeats a message only    *)
(* under a later binding, after the removal of that message threw, or by a *)
(* backend that took over from one that ended, whatever inbox commands do  *)
(* meanwhile (drainSession, deliverQueueHead).                             *)
THEOREM HandedOverInOrder == Spec => []InOrder
<1>1. IInv => InOrder
  BY DEF IInv, InOrder, Passed, Once, Lapsed
<1> QED BY DeliveryInvariant, <1>1, PTL

(* As long as no inbox command has removed a message, one leaves the queue  *)
(* only after the adapter took it or its sender was closed, however many    *)
(* inbox commands look on (deliverQueueHead, dequeueForRuntime,            *)
(* dequeuePendingMessage).                                                 *)
THEOREM NeverDropped == Spec => []NothingDropped
<1>1. IInv => NothingDropped
  BY DEF IInv, NothingDropped, GivenOut, Kept, Excused
<1> QED BY DeliveryInvariant, <1>1, PTL

(* The deliveries take the lock as claimDeliveryLock gives it: one holder   *)
(* while every process is alive.                                           *)
THEOREM DeliveryExclusive == Spec => []Exclusion
<1>1. IInv => Exclusion
  BY DEF IInv, LockInv, Guarded, Exclusion, Owners, Holders
<1> QED BY DeliveryInvariant, <1>1, PTL
-----------------------------------------------------------------------------
(* What a lock file says of its creator, with any number of ended processes *)

Attended ==
  file # Absent /\ alive[file.by] =>
    \E t \in Tasks : PidOf[t] = file.by /\ claim[t].at \in {"opened", "held"}

LEMMA AttendedStep == ASSUME LockTypeOK, Attended, [LockNext]_lockVars PROVE Attended'
<1> USE LockAssumption DEF LockTypeOK
<1>1. CASE UNCHANGED lockVars
  BY <1>1 DEF lockVars, Attended
<1>2. ASSUME NEW t \in Tasks, Claiming(t) \/ Name(t) \/ GiveUp(t) \/ Release(t)
      PROVE  Attended'
  <2>1. UNCHANGED alive /\ \A u \in Tasks : u # t => claim'[u] = claim[u]
    BY <1>2 DEF Claiming, Create, Find, ReadOwner, Condemn, Reclaim, Name, GiveUp, Release, Step
  <2>2. CASE Create(t)
    BY <2>2 DEF Create, Step, At, Attended
  <2>3. CASE Reclaim(t) \/ Release(t)
    BY <2>3 DEF Reclaim, Release, Attended
  <2>4. CASE Name(t)
    <3>1. claim'[t].at = "held"
      BY <2>4 DEF Name, Step, At
    <3>2. CASE file = [by |-> PidOf[t], named |-> FALSE]
      <4>1. file' = [file EXCEPT !.named = TRUE]
        BY <2>4, <3>2 DEF Name
      <4>2. file # Absent
        <5>1. PidOf[t] \in Pids
          OBVIOUS
        <5>2. file \in [by : Pids, named : BOOLEAN]
          BY <3>2, <5>1
        <5> QED BY <5>2
      <4>3. file'.by = file.by
        BY <3>2, <4>1
      <4> QED BY <2>1, <3>1, <4>2, <4>3 DEF Attended
    <3>3. CASE file # [by |-> PidOf[t], named |-> FALSE]
      <4>1. file' = file
        BY <2>4, <3>3 DEF Name
      <4> QED BY <2>1, <3>1, <4>1 DEF Attended
    <3> QED BY <3>2, <3>3
  <2>5. CASE Find(t) \/ ReadOwner(t) \/ Condemn(t) \/ GiveUp(t)
    <3>1. file' = file /\ claim[t].at \notin {"opened", "held"}
      BY <2>5 DEF Find, ReadOwner, Condemn, GiveUp, Step
    <3> QED BY <2>1, <3>1 DEF Attended
  <2> QED BY <1>2, <2>2, <2>3, <2>4, <2>5 DEF Claiming
<1>3. ASSUME NEW p \in Pids, End(p) PROVE Attended'
  <2>1. /\ file' = file /\ \A q \in Pids : alive'[q] => alive[q] /\ q # p
        /\ \A u \in Tasks : PidOf[u] # p => claim'[u] = claim[u]
    BY <1>3 DEF End
  <2>2. file # Absent => file.by \in Pids
    OBVIOUS
  <2> QED BY <2>1, <2>2 DEF Attended
<1> QED BY <1>1, <1>2, <1>3 DEF LockNext

(* Where a loop stands fits where its claim stands. *)
Minded ==
  \A p \in Pids : /\ claim[p].at \in Inside => loop[p].at = "call"
                  /\ claim[p].at = "held" => loop[p].at \in Working

LEMMA DrainMinded ==
  ASSUME LockTypeOK, Typed, Minded, UNCHANGED claim, NEW p \in Pids, NEW noted, TryDrain(p, noted)
  PROVE  Minded'
BY DEF TryDrain, DrainThrows, Drain, Typed, Minded, Working, Acting, Ends

LEMMA MindedStep ==
  ASSUME DeliveryAssumption, LockTypeOK, Typed, Minded, [Next]_vars
  PROVE  Minded'
<1> USE DEF lockVars, Unlocked
<1>1. CASE UNCHANGED vars
  BY <1>1 DEF vars, Minded
<1>2. CASE Broadcast \/ ReleaseRuntime \/ RevokeSender \/ \E i \in Inboxes : Look(i) \/ TakeOne(i)
  BY <1>2 DEF Broadcast, ReleaseRuntime, RevokeSender, Look, TakeOne, Minded
<1>3. ASSUME NEW p \in Pids, Send(p) \/ BindRuntime(p) \/ Resume(p) \/ PublishReadyResume(p)
                             \/ StartBackend(p) \/ RequestDeliveryRecovery(p)
      PROVE  Minded'
  BY <1>3 DEF Send, BindRuntime, Resume, PublishReadyResume, StartBackend, RequestDeliveryRecovery, Minded
<1>4. ASSUME NEW p \in Pids, Wake(p) \/ Call(p) \/ Sweep(p)
      PROVE  Minded'
  BY <1>4, DrainMinded DEF Wake, Call, Sweep, Minded
<1>5. ASSUME NEW p \in Pids, EndBackend(p) PROVE Minded'
  <2>1. /\ claim' = [t \in Tasks |-> IF PidOf[t] = p THEN At("idle") ELSE claim[t]]
        /\ loop' = [loop EXCEPT ![p] = Off]
    BY <1>5 DEF EndBackend, End
  <2>2. \A q \in Pids : /\ q = p => claim'[q].at = "idle"
                        /\ q # p => claim'[q] = claim[q] /\ loop'[q] = loop[q]
    BY <2>1, DeliveryAssumption DEF At, Typed
  <2> QED BY <2>2 DEF Minded, Inside
<1>6. ASSUME NEW p \in Pids, ClaimStep(p) \/ Claimed(p) \/ Busy(p) \/ EndPass(p)
      PROVE  Minded'
  <2>1. p \in Tasks /\ \A q \in Pids : q # p => claim'[q] = claim[q] /\ loop'[q] = loop[q]
    BY <1>6, DeliveryAssumption
       DEF ClaimStep, Claimed, Busy, EndPass, Enter, Claiming, Create, Find, ReadOwner, Condemn,
           Reclaim, Name, GiveUp, Release, Step, LockTypeOK, Typed
  <2>2. /\ claim'[p].at \in Inside => loop'[p].at = "call"
        /\ claim'[p].at = "held" => loop'[p].at \in Working
    <3>1. CASE ClaimStep(p)
      <4>1. loop'[p].at = "call"
        BY <3>1 DEF ClaimStep
      <4>2. claim'[p].at \in Inside
        BY <3>1, <2>1 DEF ClaimStep, Claiming, Create, Find, ReadOwner, Condemn, Reclaim, Step, At,
                          Inside, LockTypeOK
      <4> QED BY <4>1, <4>2 DEF Inside
    <3>2. CASE Claimed(p)
      BY <3>2, <2>1 DEF Claimed, Name, Step, At, Inside, LockTypeOK, Enter, Typed, Working
    <3>3. CASE Busy(p) \/ EndPass(p)
      <4>1. claim' = [claim EXCEPT ![p] = At("idle")]
        BY <3>3 DEF Busy, EndPass, GiveUp, Release, Step
      <4>2. claim'[p].at = "idle"
        BY <2>1, <4>1 DEF At, LockTypeOK
      <4> QED BY <4>2 DEF Inside
    <3> QED BY <1>6, <3>1, <3>2, <3>3
  <2> QED BY <2>1, <2>2 DEF Minded
<1>7. ASSUME NEW p \in Pids, ReadHead(p) \/ Insert(p) \/ Refuse(p) \/ Confirm(p) \/ Take(p)
                             \/ Recheck(p)
      PROVE  Minded'
  <2>1. UNCHANGED claim /\ \A q \in Pids : q # p => loop'[q] = loop[q]
    BY <1>7 DEF ReadHead, Insert, Refuse, Confirm, Take, Recheck, Enter, Typed
  <2>2. loop[p].at # "call" /\ (loop[p].at \in Working => loop'[p].at \in Working)
    <3>1. CASE Recheck(p)
      BY <3>1 DEF Recheck, Working, Acting, Ends
    <3>2. CASE ReadHead(p)
      <4>1. /\ loop[p].at = "head"
            /\ loop'[p].at \in {"empty", "drop", "held", "insert"}
        BY <3>2 DEF ReadHead, Typed
      <4> QED BY <4>1 DEF Working, Acting, Ends
    <3>3. CASE Insert(p) \/ Refuse(p) \/ Confirm(p) \/ Take(p)
      <4>1. /\ loop[p].at \in Acting
            /\ loop'[p].at \in {"confirm", "held", "take", "advanced"}
        <5>1. ASSUME NEW stage, Enter(p, stage) PROVE loop'[p].at = stage
          BY <5>1 DEF Enter, Typed, Loops
        <5>2. CASE Insert(p) \/ Refuse(p)
          BY <5>1, <5>2 DEF Insert, Refuse, Acting
        <5>3. CASE Confirm(p)
          BY <5>1, <5>3 DEF Confirm, Acting
        <5>4. CASE Take(p)
          BY <5>1, <5>4 DEF Take, Acting
        <5> QED BY <3>3, <5>2, <5>3, <5>4
      <4> QED BY <4>1 DEF Working, Acting, Ends
    <3> QED BY <1>7, <3>1, <3>2, <3>3
  <2> QED BY <2>1, <2>2 DEF Minded
<1>8. ASSUME NEW p \in Pids, Throws(p) PROVE Minded'
  <2>1. UNCHANGED claim /\ \A q \in Pids : q # p => loop'[q] = loop[q]
    BY <1>8 DEF Throws, Enter, Typed
  <2>2. loop[p].at # "call" /\ (loop[p].at \in Working => loop'[p].at \in Working)
    <3>1. ASSUME NEW stage, Enter(p, stage) PROVE loop'[p].at = stage
      BY <3>1 DEF Enter, Typed, Loops
    <3> QED BY <1>8, <3>1 DEF Throws, Working, Acting, Ends
  <2> QED BY <2>1, <2>2 DEF Minded
<1> QED BY <1>1, <1>2, <1>3, <1>4, <1>5, <1>6, <1>7, <1>8 DEF Next, LoopStep

(* A lock file whose creator runs is in the hands of its creator's loop,    *)
(* with any number of processes and of those that have ended: only an end  *)
(* leaves a file behind (claimDeliveryLock, deliverQueueHead).             *)
THEOREM LockFileInHand == Spec => []FileInHand
<1>1. Init => Attended /\ Minded
  <2> SUFFICES ASSUME Init PROVE Attended /\ Minded
    OBVIOUS
  <2>1. file = Absent /\ claim = [t \in Tasks |-> At("idle")]
    BY DEF Init, LockInit
  <2>2. \A p \in Pids : claim[p].at = "idle"
    BY <2>1, DeliveryAssumption DEF At
  <2> QED BY <2>1, <2>2 DEF Attended, Minded, Inside
<1>2. IInv /\ Attended /\ Minded /\ [Next]_vars => Attended' /\ Minded'
  BY LockSteps, AttendedStep, MindedStep, DeliveryAssumption DEF IInv, LockInv
<1>3. IInv /\ Attended /\ Minded => FileInHand
  BY DeliveryAssumption DEF Attended, Minded, FileInHand, Inside, Working, Acting, Ends
<1> QED BY DeliveryInvariant, <1>1, <1>2, <1>3, PTL DEF Spec

-----------------------------------------------------------------------------
(* What is owed is noted *)

LEMMA OwedDrain ==
  ASSUME NEW p, NEW noted, TryDrain(p, noted), queue # <<>> PROVE debt' = noted
BY DEF TryDrain, Drain, DrainThrows

(* A recovery pass seeds the debt, or leaves a mark where it threw. *)
LEMMA OwedRecovery ==
  ASSUME NEW p, RecoveryPass(p), queue # <<>>, runtime.status # "unbound"
  PROVE  /\ p \in debt' \/ p \in unaware'
         /\ \A q : (q \in debt => q \in debt') /\ (q # p /\ q \in unaware => q \in unaware')
BY DEF RecoveryPass

LEMMA DebtNotedStep ==
  ASSUME DeliveryAssumption, ~Handoff, Wakes \subseteq {"send", "bind", "recover", "close"},
         Typed, DebtNoted, [Next]_vars
  PROVE  DebtNoted'
<1> SUFFICES ASSUME queue' # <<>>, runtime'.status # "unbound", up' # {}
             PROVE  \E p \in up' : p \in debt' \/ wakes'[p] > 0 \/ p \in unaware'
  BY DEF DebtNoted
<1> USE DEF Typed
<1>1. CASE UNCHANGED vars
  BY <1>1 DEF vars, mail, triggers, thrown, DebtNoted
<1>2. CASE Broadcast \/ ReleaseRuntime \/ RevokeSender \/ \E i \in Inboxes : Look(i) \/ TakeOne(i)
  <2>1. ~Broadcast
    BY DEF Broadcast
  <2>2. /\ UNCHANGED triggers /\ UNCHANGED <<up, unaware>>
        /\ queue # <<>> /\ runtime.status # "unbound"
    BY <1>2, <2>1 DEF ReleaseRuntime, RevokeSender, Look, TakeOne, Rest, Aside, mail, thrown
  <2> QED BY <2>2 DEF DebtNoted, triggers
<1>3. ASSUME NEW p \in Pids, Send(p) \/ BindRuntime(p) PROVE p \in up' /\ wakes'[p] > 0
  BY <1>3 DEF Send, BindRuntime, Bind, Serving
<1>4. ASSUME NEW p \in Pids, Wake(p) PROVE p \in up' /\ p \in debt'
  BY <1>4, OwedDrain DEF Wake, Serving, mail
<1>5. ASSUME NEW p \in Pids, Call(p) \/ Sweep(p)
      PROVE  \E q \in up' : q \in debt' \/ wakes'[q] > 0 \/ q \in unaware'
  <2>1. UNCHANGED <<queue, runtime, up, wakes, unaware>>
    BY <1>5 DEF Call, Sweep, mail
  <2>2. debt' = debt
    BY <1>5, <2>1, OwedDrain DEF Call, Sweep
  <2> QED BY <2>1, <2>2 DEF DebtNoted
<1>6. ASSUME NEW p \in Pids, Resume(p) \/ PublishReadyResume(p) PROVE FALSE
  BY <1>6 DEF Resume, PublishReadyResume
<1>7. ASSUME NEW p \in Pids, LoopStep(p) \/ Throws(p)
      PROVE  \E q \in up' : q \in debt' \/ wakes'[q] > 0 \/ q \in unaware'
  <2>1. UNCHANGED <<runtime, up, debt, wakes, unaware>>
    BY <1>7 DEF LoopStep, Throws, ClaimStep, Claimed, Busy, ReadHead, Insert, Refuse, Confirm, Take,
                EndPass, Recheck, Rest, Aside, triggers
  <2>2. queue # <<>>
    BY <1>7 DEF LoopStep, Throws, ClaimStep, Claimed, Busy, ReadHead, Insert, Refuse, Confirm, Take,
                EndPass, Recheck, mail
  <2> QED BY <2>1, <2>2 DEF DebtNoted
<1>8. ASSUME NEW p \in Pids, EndBackend(p) PROVE FALSE
  BY <1>8 DEF EndBackend
<1>9. ASSUME NEW p \in Pids, StartBackend(p) PROVE p \in up' /\ (p \in debt' \/ p \in unaware')
  BY <1>9, OwedRecovery DEF StartBackend, mail
<1>10. ASSUME NEW p \in Pids, RequestDeliveryRecovery(p)
       PROVE  p \in up' /\ (p \in debt' \/ p \in unaware')
  BY <1>10, OwedRecovery DEF RequestDeliveryRecovery, Serving, mail
<1> QED BY <1>1, <1>2, <1>3, <1>4, <1>5, <1>6, <1>7, <1>8, <1>9, <1>10 DEF Next

(* What DebtIsPaid rests on: a message that waits for a recipient with a    *)
(* runtime is in the memory of a backend that runs, restarted ones         *)
(* included, or a recovery pass of such a backend threw and nothing has    *)
(* named the recipient to it since (superviseDelivery clears its flag      *)
(* before the pass it is for).                                             *)
THEOREM OwedIsNoted ==
  ASSUME ~Handoff, Wakes \subseteq {"send", "bind", "recover", "close"} PROVE Spec => []DebtNoted
<1>1. Init => DebtNoted
  BY DEF Init, DebtNoted
<1>2. IInv /\ DebtNoted /\ [Next]_vars => DebtNoted'
  BY DebtNotedStep, DeliveryAssumption DEF IInv
<1> QED BY DeliveryInvariant, <1>1, <1>2, PTL DEF Spec

-----------------------------------------------------------------------------
(* The queue as a mailbox *)

LettersOf(q) == {Letter(m) : m \in ToSet(q)}

LEMMA LetterIds == \A m, n : Letter(m) = Letter(n) => m = n
<1> SUFFICES ASSUME NEW m, NEW n, Letter(m) = Letter(n) PROVE m = n
  OBVIOUS
<1>1. Letter(m).id = m /\ Letter(n).id = n
  BY DEF Letter
<1> QED BY <1>1

(* The oldest message is the head of the queue, and it is there once. *)
LEMMA HeadOldest ==
  ASSUME DeliveryAssumption, Typed, Sorted, queue # <<>>
  PROVE  /\ Head(queue) \in ToSet(queue)
         /\ \A m \in ToSet(queue) : Head(queue) <= m
         /\ ToSet(Tail(queue)) = ToSet(queue) \ {Head(queue)}
<1>1. queue \in Seq(1..MaxSends) /\ Numbers
  BY NumbersTyped DEF Typed
<1>2. /\ 1 \in DOMAIN queue /\ Head(queue) = queue[1]
      /\ \A k \in DOMAIN Tail(queue) : k + 1 \in DOMAIN queue /\ Tail(queue)[k] = queue[k + 1]
  BY <1>1, Tailed
<1>3. /\ \A k \in DOMAIN Tail(queue) : k \in Nat /\ k >= 1
      /\ \A k \in DOMAIN queue : k \in Nat /\ k >= 1 /\ (k = 1 \/ k - 1 \in DOMAIN Tail(queue))
  BY <1>1
<1>4. \A k \in DOMAIN queue : k # 1 => queue[1] < queue[k]
  BY <1>2, <1>3 DEF Sorted
<1>5. \A m \in ToSet(queue) : Head(queue) <= m
  <2> SUFFICES ASSUME NEW k \in DOMAIN queue PROVE queue[1] <= queue[k]
    BY <1>2 DEF ToSet
  <2> QED BY <1>1, <1>2, <1>4 DEF Numbers
<1>6. ToSet(Tail(queue)) \subseteq ToSet(queue) \ {Head(queue)}
  <2> SUFFICES ASSUME NEW k \in DOMAIN Tail(queue)
               PROVE  Tail(queue)[k] \in ToSet(queue) /\ Tail(queue)[k] # queue[1]
    BY <1>2 DEF ToSet
  <2>1. k + 1 \in DOMAIN queue /\ k + 1 # 1 /\ Tail(queue)[k] = queue[k + 1]
    BY <1>2, <1>3
  <2>2. queue[1] < queue[k + 1] /\ queue[1] \in Nat /\ queue[k + 1] \in Nat
    BY <1>1, <1>2, <1>4, <2>1 DEF Numbers
  <2> QED BY <2>1, <2>2 DEF ToSet
<1>7. ToSet(queue) \ {Head(queue)} \subseteq ToSet(Tail(queue))
  <2> SUFFICES ASSUME NEW k \in DOMAIN queue, queue[k] # queue[1]
               PROVE  queue[k] \in ToSet(Tail(queue))
    BY <1>2 DEF ToSet
  <2>1. k - 1 \in DOMAIN Tail(queue) /\ (k - 1) + 1 = k
    BY <1>3
  <2>2. Tail(queue)[k - 1] = queue[k]
    BY <1>2, <2>1
  <2> QED BY <2>1, <2>2 DEF ToSet
<1> QED BY <1>2, <1>5, <1>6, <1>7 DEF ToSet

LEMMA RemovalTakes ==
  ASSUME DeliveryAssumption, Typed, Sorted, Removes, sent' = sent
  PROVE  Inbox!MailboxNext \/ UNCHANGED Inbox!mailboxVars
<1>1. CASE queue' = queue
  BY <1>1 DEF Inbox!mailboxVars
<1>2. CASE queue # <<>> /\ queue' = Tail(queue)
  <2>1. /\ Head(queue) \in ToSet(queue) /\ \A m \in ToSet(queue) : Head(queue) <= m
        /\ ToSet(queue') = ToSet(queue) \ {Head(queue)}
    BY <1>2, HeadOldest
  <2>2. LettersOf(queue') = LettersOf(queue) \ {Letter(Head(queue))}
    BY <2>1, LetterIds DEF LettersOf
  <2>3. /\ Letter(Head(queue)) \in LettersOf(queue)
        /\ \A l \in LettersOf(queue) : Letter(Head(queue)).id <= l.id
    BY <2>1 DEF LettersOf, Letter
  <2>4. Inbox!IsOldest(Box, Letter(Head(queue)))
    BY <2>3 DEF Inbox!IsOldest, LettersOf
  <2>5. Inbox!Take(Box)
    BY <1>2, <2>2, <2>3, <2>4 DEF Inbox!Take, LettersOf
  <2> QED BY <2>5 DEF Inbox!MailboxNext
<1> QED BY <1>1, <1>2 DEF Removes

LEMMA AcceptPosts ==
  ASSUME DeliveryAssumption, Typed, Accepted, Accepts
  PROVE  Inbox!MailboxNext
<1>1. /\ queue \in Seq(1..MaxSends) /\ sent \in Nat /\ sent' = sent + 1
      /\ sent + 1 \in 1..MaxSends /\ queue' = Append(queue, sent + 1)
  BY DeliveryAssumption DEF Accepts, Typed
<1>2. ToSet(queue') = ToSet(queue) \cup {sent + 1}
  <2>1. ASSUME NEW q \in Seq(Nat), NEW n \in Nat
        PROVE  ToSet(Append(q, n)) = ToSet(q) \cup {n}
    <3>1. /\ DOMAIN Append(q, n) = DOMAIN q \cup {Len(q) + 1}
          /\ Append(q, n)[Len(q) + 1] = n /\ \A k \in DOMAIN q : Append(q, n)[k] = q[k]
      BY <2>1
    <3> QED BY <3>1 DEF ToSet
  <2>2. queue \in Seq(Nat) /\ sent + 1 \in Nat
    BY <1>1
  <2> QED BY <1>1, <2>1, <2>2
<1>3. LettersOf(queue') = LettersOf(queue) \cup {Letter(sent + 1)}
  BY <1>2 DEF LettersOf
<1>4. Letter(sent + 1) \in Inbox!Letter
  BY <1>1 DEF Letter, Inbox!Letter
<1>5. Letter(sent + 1).id = sent + 1 /\ Letter(sent + 1).key = "none"
  BY DEF Letter
<1>6. /\ Inbox!Arrivals(Box) \subseteq {Letter(sent + 1)}
      /\ Inbox!KeysOf(Inbox!Arrivals(Box)) = {}
  BY <1>3, <1>5 DEF Inbox!Arrivals, Inbox!KeysOf, LettersOf
<1>7. Inbox!Deliver(Box)
  <2>1. LettersOf(queue) \subseteq LettersOf(queue')
    BY <1>3
  <2>2. \A l \in Inbox!Arrivals(Box) : l \in Inbox!Letter /\ l.id \in sent + 1 .. sent'
    <3>1. sent + 1 \in sent + 1 .. sent'
      BY <1>1
    <3> QED BY <1>4, <1>5, <1>6, <3>1
  <2>3. \A l, m \in Inbox!Arrivals(Box) : l = m
    BY <1>6
  <2> QED BY <1>6, <2>1, <2>2, <2>3 DEF Inbox!Deliver, LettersOf
<1>8. Inbox!Post
  BY <1>1, <1>6, <1>7 DEF Inbox!Post
<1> QED BY <1>8 DEF Inbox!MailboxNext

(* Whoever puts in and takes out, backends that overlap and inbox commands  *)
(* included, the queue is used as the mailbox of the session protocol,     *)
(* which SessionProtocol implements: composed, the two say that hand-over  *)
(* works on what the database really does.                                 *)
THEOREM QueueIsMailbox == Spec => UsesMailbox
<1>1. IInv /\ [Next]_vars => [Inbox!MailboxNext]_(Inbox!mailboxVars)
  <2> SUFFICES ASSUME IInv, [Next]_vars PROVE Inbox!MailboxNext \/ UNCHANGED Inbox!mailboxVars
    OBVIOUS
  <2>1. DeliveryAssumption /\ LockTypeOK /\ Typed /\ Accepted /\ Sorted
    BY DeliveryAssumption DEF IInv, LockInv, Counts
  <2>2. CASE Calm \/ \E p \in Pids : ReadHead(p) \/ Insert(p) \/ Confirm(p)
    <3>1. queue' = queue /\ sent' = sent
      BY <2>2 DEF Calm, ReadHead, Insert, Confirm, mail
    <3> QED BY <3>1 DEF Inbox!mailboxVars
  <2>3. CASE Accepts
    BY <2>1, <2>3, AcceptPosts
  <2>4. CASE \E p \in Pids : Take(p)
    BY <2>1, <2>4, RemovalTakes DEF Take, Removes
  <2>5. CASE \E i \in Inboxes : TakeOne(i)
    BY <2>1, <2>5, RemovalTakes DEF TakeOne, Removes
  <2> QED BY <2>1, <2>2, <2>3, <2>4, <2>5, Shape
<1> QED BY DeliveryInvariant, <1>1, PTL DEF Spec, UsesMailbox
=============================================================================
