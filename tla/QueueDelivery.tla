----------------------------- MODULE QueueDelivery -----------------------------
(***************************************************************************)
(* Handing over one session's queue: drainSession and deliverQueueHead of  *)
(* spec-cli/src/sessions.ts under the lock of DeliveryLock, the triggers   *)
(* that start them, the retry sweep of superviseDelivery, and the inbox    *)
(* verb that takes from the same queue.                                    *)
(*                                                                         *)
(* The processes are backends of one project; a replacement may run beside *)
(* the one it replaces. Each runs at most one delivery loop per recipient  *)
(* (deliveryLoops), so a process is its own lock task. A message is its    *)
(* number in the order of acceptance, and has a sender of its own. Every   *)
(* step below is one synchronous stretch of JavaScript or less, cut where  *)
(* another process can see it: at awaits, SQLite transactions and system   *)
(* calls on the lock file. A read or a transaction of the store may throw  *)
(* (a busy database); a fault is such a throw.                             *)
(***************************************************************************)
EXTENDS DeliveryLock, SequencesExt

CONSTANTS
  First,      \* the backend that runs at the start
  Wakes,      \* the triggers that occur: "send", "broadcast", "bind", "resume",
              \* "recover", and "close" of a sender
  Inboxes,    \* inbox commands that may take from the queue
  Handoff,    \* a backend may end while its replacement runs
  MaxSends,   \* bound: messages accepted in a behaviour
  MaxBinds,   \* bound: runtimes bound in a behaviour
  MaxFaults   \* bound: reads and transactions that throw in a behaviour

ASSUME DeliveryAssumption ==
  /\ Tasks = Pids /\ \A p \in Pids : PidOf[p] = p
  /\ First \in Pids /\ Handoff \in BOOLEAN
  /\ MaxSends \in Nat /\ MaxBinds \in Nat \ {0} /\ MaxFaults \in Nat

VARIABLES
  queue,     \* the pending messages, oldest first
  sent,      \* how many messages have been accepted
  landed,    \* what the adapter took, in order, under which binding
  taken,     \* the messages inbox commands removed and printed
  revoked,   \* the messages whose sender has been closed
  runtime,   \* the spex-governed binding: generation and status
  up,        \* the backends that have started and not ended
  debt,      \* the backends whose deliveryDebtIds holds the recipient
  wakes,     \* wakes[p]: wakes of p that will note the debt and drain
  calls,     \* calls[p]: drainSession calls on their way in p, noting nothing
  loop,      \* loop[p]: the delivery loop of p
  looking,   \* the inbox commands between reading the head and removing it
  faults,    \* how many reads and transactions have thrown
  lapsed,    \* history: the messages whose removal threw
  unaware,   \* history: backends whose recovery pass threw, until they note the recipient
  stuck      \* history: a pass, a call or a backend has ended since a loop last
             \* started or the queue was empty, and left the head where it is

mail == <<queue, sent, landed, taken, looking>>
triggers == <<debt, wakes, calls>>
thrown == <<faults, lapsed, unaware, stuck>>
vars == <<lockVars, mail, revoked, runtime, up, triggers, loop, thrown>>

Off == [at |-> "off", msg |-> 0, gen |-> 0]
Ends == {"advanced", "empty", "held"}   \* deliverQueueHead's results but "busy"

Unlocked == UNCHANGED lockVars

(* Enters the stage, keeping the claimed head and the binding it read. *)
Enter(p, stage) == loop' = [loop EXCEPT ![p].at = stage]

(* p may start something: it runs, and is not inside a synchronous drain. *)
Serving(p) == p \in up /\ loop[p].at # "call"

(* Something throws. *)
Fault == faults < MaxFaults /\ faults' = faults + 1

(* Mutant: a drain that starts the loop counts as paid. *)
DrainForgets(p, noted) ==
  LET owed == queue # <<>>
      starts == runtime.status = "bound" /\ owed /\ loop[p].at = "off"
  IN /\ debt' = IF runtime.status # "pending" /\ (~owed \/ starts) THEN noted \ {p} ELSE noted
     /\ loop' = IF starts THEN [loop EXCEPT ![p].at = "call"] ELSE loop
     /\ stuck' = (stuck /\ ~starts) /\ UNCHANGED faults

(* drainSession up to its first await, with the debt the caller noted.     *)
Drain(p, noted) ==
  LET owed == queue # <<>>
      starts == runtime.status = "bound" /\ owed /\ loop[p].at = "off"
  IN /\ debt' = IF runtime.status # "pending" /\ ~owed THEN noted \ {p} ELSE noted
     /\ loop' = IF starts THEN [loop EXCEPT ![p].at = "call"] ELSE loop
     /\ stuck' = (stuck /\ ~starts) /\ UNCHANGED faults

(* A drain whose reads throw starts nothing; every caller only logs that.  *)
DrainThrows(noted) == Fault /\ debt' = noted /\ stuck' = TRUE /\ UNCHANGED loop

TryDrain(p, noted) == Drain(p, noted) \/ DrainThrows(noted)

-----------------------------------------------------------------------------
(* What starts a drain *)

Accept ==
  /\ sent < MaxSends
  /\ sent' = sent + 1
  /\ queue' = Append(queue, sent + 1)
  /\ UNCHANGED <<landed, taken, looking>>

(* sendText: the message commits, then the record locks are released.      *)
Send(p) ==
  /\ "send" \in Wakes /\ Serving(p)
  /\ Accept
  /\ wakes' = [wakes EXCEPT ![p] = @ + 1]
  /\ Unlocked /\ UNCHANGED <<revoked, runtime, up, debt, calls, loop, thrown>>

(* noteDeliveryRecipients and the drain after it: the end of sendText and  *)
(* wakeCommittedRecipients. The debt is noted before anything can throw.   *)
Wake(p) ==
  /\ Serving(p) /\ wakes[p] > 0
  /\ wakes' = [wakes EXCEPT ![p] = @ - 1]
  /\ TryDrain(p, debt \cup {p})
  /\ unaware' = unaware \ {p}
  /\ Unlocked /\ UNCHANGED <<mail, revoked, runtime, up, calls, lapsed>>

(* session send --children commits in the command's own process, then asks *)
(* the backend to push; no backend, no push.                               *)
Broadcast ==
  /\ "broadcast" \in Wakes
  /\ Accept
  /\ IF up = {} THEN UNCHANGED calls
                ELSE \E p \in up : calls' = [calls EXCEPT ![p] = @ + 1]
  /\ Unlocked /\ UNCHANGED <<revoked, runtime, up, debt, wakes, loop, thrown>>

(* POST /api/sessions/:id/push, and the drain at the end of a resume. *)
Call(p) ==
  /\ Serving(p) /\ calls[p] > 0
  /\ calls' = [calls EXCEPT ![p] = @ - 1]
  /\ TryDrain(p, debt)
  /\ Unlocked /\ UNCHANGED <<mail, revoked, runtime, up, wakes, lapsed, unaware>>

(* One visit of superviseDelivery's tick to the recipient. *)
Sweep(p) ==
  /\ Serving(p) /\ p \in debt
  /\ IF runtime.status = "unbound"
       THEN debt' = debt \ {p} /\ UNCHANGED <<loop, faults, stuck>>
       ELSE TryDrain(p, debt)
  /\ Unlocked /\ UNCHANGED <<mail, revoked, runtime, up, wakes, calls, lapsed, unaware>>

(* bindRuntime wakes the recipient, unless a launch that awaits readiness  *)
(* is the one that binds (readinessWakeSuppressed).                        *)
Bind(p, status) ==
  /\ Serving(p)
  /\ runtime.status = "unbound" /\ runtime.gen < MaxBinds
  /\ runtime' = [gen |-> runtime.gen + 1, status |-> status]

BindRuntime(p) ==
  /\ "bind" \in Wakes /\ Bind(p, "bound")
  /\ wakes' = [wakes EXCEPT ![p] = @ + 1]
  /\ Unlocked /\ UNCHANGED <<mail, revoked, up, debt, calls, loop, thrown>>

Resume(p) ==
  /\ "resume" \in Wakes /\ Bind(p, "pending")
  /\ Unlocked /\ UNCHANGED <<mail, revoked, up, triggers, loop, thrown>>

PublishReadyResume(p) ==
  /\ "resume" \in Wakes /\ Serving(p)
  /\ runtime.status = "pending"
  /\ runtime' = [runtime EXCEPT !.status = "bound"]
  /\ calls' = [calls EXCEPT ![p] = @ + 1]
  /\ Unlocked /\ UNCHANGED <<mail, revoked, up, debt, wakes, loop, thrown>>

(* A stop, or a resume that gave up, releases the binding. *)
ReleaseRuntime ==
  /\ runtime.status # "unbound"
  /\ runtime' = [runtime EXCEPT !.status = "unbound"]
  /\ Unlocked /\ UNCHANGED <<mail, revoked, up, triggers, loop, thrown>>

(* The close of a message's sender publishes its revocation marker. *)
RevokeSender ==
  /\ "close" \in Wakes
  /\ \E m \in 1..sent : m \notin revoked /\ revoked' = revoked \cup {m}
  /\ Unlocked /\ UNCHANGED <<mail, runtime, up, triggers, loop, thrown>>

-----------------------------------------------------------------------------
(* The delivery loop *)

Aside == UNCHANGED <<revoked, runtime, up, triggers, lapsed, unaware>>
Rest == Aside /\ UNCHANGED <<faults, stuck>>

ClaimStep(p) ==
  /\ loop[p].at = "call" /\ Claiming(p)
  /\ Rest /\ UNCHANGED <<mail, loop>>

Claimed(p) ==
  /\ loop[p].at = "call" /\ Name(p)
  /\ Enter(p, "head")
  /\ Rest /\ UNCHANGED mail

Busy(p) ==
  /\ loop[p].at = "call" /\ GiveUp(p)
  /\ loop' = [loop EXCEPT ![p] = Off]
  /\ Rest /\ UNCHANGED mail

(* The head, its sender's marker, and the binding are read. *)
ReadHead(p) ==
  /\ loop[p].at = "head"
  /\ LET next == IF queue = <<>> THEN "empty"
                 ELSE IF Head(queue) \in revoked THEN "drop"
                 ELSE IF runtime.status # "bound" THEN "held"
                 ELSE "insert"
         head == IF queue = <<>> THEN 0 ELSE Head(queue)
     IN loop' = [loop EXCEPT ![p] = [at |-> next, msg |-> head, gen |-> runtime.gen]]
  /\ Unlocked /\ Rest /\ UNCHANGED mail

(* The adapter takes the prompt, or it refuses, is blocked or throws. *)
Insert(p) ==
  /\ loop[p].at = "insert"
  /\ landed' = Append(landed, [msg |-> loop[p].msg, gen |-> loop[p].gen])
  /\ Enter(p, "confirm")
  /\ Unlocked /\ Rest /\ UNCHANGED <<queue, sent, taken, looking>>

RefuseIgnored(p) ==
  /\ loop[p].at = "insert"
  /\ Enter(p, "confirm")
  /\ Unlocked /\ Rest /\ UNCHANGED mail

(* Mutant: a refused prompt goes to the end of the queue. *)
RefuseRotates(p) ==
  /\ loop[p].at = "insert"
  /\ Enter(p, "held")
  /\ queue' = IF queue = <<>> THEN queue ELSE Append(Tail(queue), Head(queue))
  /\ Unlocked /\ Rest /\ UNCHANGED <<sent, landed, taken, looking>>

Refuse(p) ==
  /\ loop[p].at = "insert"
  /\ Enter(p, "held")
  /\ Unlocked /\ Rest /\ UNCHANGED mail

(* dequeueForRuntime and dequeuePendingMessage compare, then dequeue in    *)
(* another transaction whatever is the head by then.                       *)
IsStillHead(p) == queue # <<>> /\ Head(queue) = loop[p].msg
StillBound(p) == runtime.status # "unbound" /\ runtime.gen = loop[p].gen

Confirm(p) ==
  /\ loop[p].at \in {"confirm", "drop"}
  /\ Enter(p, IF IsStillHead(p) /\ (loop[p].at = "confirm" => StillBound(p))
                THEN "take" ELSE "held")
  /\ Unlocked /\ Rest /\ UNCHANGED mail

Take(p) ==
  /\ loop[p].at = "take"
  /\ Enter(p, IF IsStillHead(p) THEN "advanced" ELSE "held")
  /\ queue' = IF queue = <<>> THEN queue ELSE Tail(queue)
  /\ Unlocked /\ Rest /\ UNCHANGED <<sent, landed, taken, looking>>

(* Mutant: a head that was not handed over ends the loop and not the hold. *)
EndPassHolding(p) ==
  /\ loop[p].at \in Ends /\ IF loop[p].at = "held" THEN Unlocked ELSE Release(p)
  /\ loop' = [loop EXCEPT ![p] = CASE @.at = "advanced" -> [Off EXCEPT !.at = "call"]
                                   [] @.at = "empty" -> [Off EXCEPT !.at = "recheck"]
                                   [] OTHER -> Off]
  /\ Rest /\ UNCHANGED mail

(* The pass ends and the loop goes on, looks once more, or stops. *)
EndPass(p) ==
  /\ loop[p].at \in Ends /\ Release(p)
  /\ loop' = [loop EXCEPT ![p] = CASE @.at = "advanced" -> [Off EXCEPT !.at = "call"]
                                   [] @.at = "empty" -> [Off EXCEPT !.at = "recheck"]
                                   [] OTHER -> Off]
  /\ stuck' = CASE loop[p].at = "advanced" -> FALSE
                [] loop[p].at = "held" -> TRUE
                [] OTHER -> stuck
  /\ Aside /\ UNCHANGED <<mail, faults>>

(* Mutant: the holder does not look at the queue again. *)
RecheckNever(p) ==
  /\ loop[p].at = "recheck"
  /\ Enter(p, "off")
  /\ Unlocked /\ Rest /\ UNCHANGED mail
Recheck(p) ==
  /\ loop[p].at = "recheck"
  /\ Enter(p, IF queue # <<>> THEN "call" ELSE "off")
  /\ stuck' = (stuck /\ queue = <<>>)
  /\ Unlocked /\ Aside /\ UNCHANGED <<mail, faults>>

(* What a pass or the look after it throws ends the loop, by way of the    *)
(* release. A removal that throws after the adapter took the prompt leaves *)
(* the message at the head of the queue.                                   *)
Throws(p) ==
  /\ Fault
  /\ \/ loop[p].at \in {"head", "advanced"} /\ Enter(p, "held")
        /\ UNCHANGED <<lapsed, stuck>>
     \/ loop[p].at \in {"confirm", "drop", "take"} /\ Enter(p, "held")
        /\ lapsed' = lapsed \cup {loop[p].msg} /\ UNCHANGED stuck
     \/ loop[p].at = "recheck" /\ Enter(p, "off")
        /\ stuck' = TRUE /\ UNCHANGED lapsed
  /\ Unlocked /\ UNCHANGED <<mail, revoked, runtime, up, triggers, unaware>>

LoopStep(p) ==
  ClaimStep(p) \/ Claimed(p) \/ Busy(p) \/ ReadHead(p) \/ Insert(p) \/ Refuse(p)
    \/ Confirm(p) \/ Take(p) \/ EndPass(p) \/ Recheck(p)

-----------------------------------------------------------------------------
(* takeOne of session-inbox.ts, and the end and start of backends *)

Look(i) ==
  /\ i \notin looking /\ queue # <<>>
  /\ looking' = looking \cup {i}
  /\ Unlocked /\ Rest /\ UNCHANGED <<queue, sent, landed, taken, loop>>

TakeOne(i) ==
  /\ i \in looking
  /\ looking' = looking \ {i}
  /\ queue' = IF queue = <<>> THEN queue ELSE Tail(queue)
  /\ taken' = IF queue = <<>> THEN taken ELSE taken \cup {Head(queue)}
  /\ Unlocked /\ Rest /\ UNCHANGED <<sent, landed, loop>>

EndBackend(p) ==
  /\ End(p) /\ (Handoff \/ up \subseteq {p})
  /\ up' = up \ {p}
  /\ debt' = debt \ {p}
  /\ wakes' = [wakes EXCEPT ![p] = 0]
  /\ calls' = [calls EXCEPT ![p] = 0]
  /\ loop' = [loop EXCEPT ![p] = Off]
  /\ unaware' = unaware \ {p} /\ stuck' = TRUE
  /\ UNCHANGED <<mail, revoked, runtime, faults, lapsed>>

(* Mutant: the flag for a first recovery pass is not set at the start. *)
RecoveryPassNever(p) == UNCHANGED <<debt, faults, unaware>>

(* The recovery pass of superviseDelivery's tick seeds the debt set. Its    *)
(* flag is cleared first, so what it throws is not made up for.            *)
RecoveryPass(p) ==
  \/ /\ debt' = IF runtime.status # "unbound" /\ queue # <<>> THEN debt \cup {p} ELSE debt \ {p}
     /\ unaware' = unaware \ {p} /\ UNCHANGED faults
  \/ /\ Fault
     /\ unaware' = unaware \cup ({p} \ debt) /\ UNCHANGED debt

(* superviseDelivery's first tick. *)
StartBackend(p) ==
  /\ p \notin up /\ alive[p]
  /\ up' = up \cup {p}
  /\ RecoveryPass(p)
  /\ Unlocked /\ UNCHANGED <<mail, revoked, runtime, wakes, calls, loop, lapsed, stuck>>

(* A source watcher of the board that failed asks for another pass. *)
RequestDeliveryRecovery(p) ==
  /\ "recover" \in Wakes /\ Serving(p)
  /\ RecoveryPass(p)
  /\ Unlocked /\ UNCHANGED <<mail, revoked, runtime, up, wakes, calls, loop, lapsed, stuck>>

Init ==
  /\ LockInit
  /\ queue = <<>> /\ sent = 0 /\ landed = <<>> /\ taken = {} /\ looking = {}
  /\ revoked = {}
  /\ runtime = [gen |-> 1, status |-> "bound"]
  /\ up = {First} /\ debt = {}
  /\ wakes = [p \in Pids |-> 0] /\ calls = [p \in Pids |-> 0]
  /\ loop = [p \in Pids |-> Off]
  /\ faults = 0 /\ lapsed = {} /\ unaware = {} /\ stuck = FALSE

Next ==
  \/ \E p \in Pids : \/ Send(p) \/ Wake(p) \/ Call(p) \/ Sweep(p)
                     \/ BindRuntime(p) \/ Resume(p) \/ PublishReadyResume(p)
                     \/ LoopStep(p) \/ Throws(p)
                     \/ EndBackend(p) \/ StartBackend(p) \/ RequestDeliveryRecovery(p)
  \/ \E i \in Inboxes : Look(i) \/ TakeOne(i)
  \/ Broadcast \/ ReleaseRuntime \/ RevokeSender

Spec == Init /\ [][Next]_vars

(* Timers and microtasks run in a backend that stays up, and an adapter    *)
(* that is asked again and again takes the prompt some time. Nothing       *)
(* throws for ever (MaxFaults).                                            *)
Fairness ==
  \A p \in Pids : /\ WF_vars(LoopStep(p)) /\ SF_vars(Insert(p))
                  /\ WF_vars(Wake(p)) /\ WF_vars(Call(p)) /\ WF_vars(Sweep(p))

FairSpec == Spec /\ Fairness

-----------------------------------------------------------------------------
(* Properties *)

DeliveryTypeOK ==
  /\ LockTypeOK
  /\ queue \in Seq(1..MaxSends) /\ sent \in 0..MaxSends
  /\ landed \in Seq([msg : 1..MaxSends, gen : 1..MaxBinds])
  /\ taken \subseteq 1..MaxSends /\ revoked \subseteq 1..MaxSends
  /\ looking \subseteq Inboxes
  /\ runtime \in [gen : 1..MaxBinds, status : {"unbound", "pending", "bound"}]
  /\ up \subseteq Pids /\ debt \subseteq up
  /\ wakes \in [Pids -> Nat] /\ calls \in [Pids -> Nat]
  /\ \A p \in Pids : loop[p].at \in {"off", "call", "head", "insert", "drop",
                                     "confirm", "take", "recheck"} \cup Ends
  /\ faults \in 0..MaxFaults /\ lapsed \subseteq 1..MaxSends
  /\ unaware \subseteq up /\ stuck \in BOOLEAN

(* A file that names no owner, left by a process that ended inside         *)
(* claimDeliveryLock, is never reclaimed.                                  *)
Blank == file # Absent /\ ~file.named /\ ~alive[file.by]

(* The lock is sound while no process has ended, or with two of them.      *)
TwoProcesses == \A p, q, r \in Pids : p = q \/ q = r \/ p = r
LockSound == AllAlive \/ TwoProcesses

LandedIds == {landed[i].msg : i \in DOMAIN landed}

(* A message that left the queue was put in front of the agent, or printed *)
(* by an inbox command, or its sender was closed. What the docs say of the *)
(* queue ("retried until it lands") and of the inbox verb.                 *)
GivenOut ==
  LockSound => \A m \in 1..sent : m \in ToSet(queue) \cup LandedIds \cup taken \cup revoked

(* As long as no inbox command has removed a message, none is dropped by   *)
(* any race of loops, crashes, rebinds, closes and throws: only what the   *)
(* adapter took, or what a closed sender had sent, has left the queue.     *)
NothingDropped == taken = {} => GivenOut

(* Hand-over follows the order of acceptance, and repeats a message only   *)
(* under a later binding, after its removal threw, or by a backend that    *)
(* took over from one that ended between insert and removal.               *)
InOrder ==
  LockSound => \A i, j \in DOMAIN landed : i < j =>
    /\ landed[i].msg <= landed[j].msg
    /\ AllAlive /\ landed[i].gen = landed[j].gen /\ landed[i].msg \notin lapsed =>
         landed[i].msg < landed[j].msg

(* Not kept by the code (README, Divergences): what the comms spec says of  *)
(* the hand-over ("retried until it lands, in order, exactly once"), while *)
(* no process ends and no runtime is bound anew. No message is put in front *)
(* of the agent twice.                                                     *)
LandsOnce ==
  AllAlive => \A i, j \in DOMAIN landed :
    i # j /\ landed[i].gen = landed[j].gen => landed[i].msg # landed[j].msg

(* Once a message waits for a recipient that has a runtime, a backend that  *)
(* runs has noted the debt or is about to: the sweep will come back to it,  *)
(* whatever adapters refuse, whatever drains throw and whichever backend    *)
(* ends (deliveryDebtIds). The one way out is a recovery pass that threw:   *)
(* its backend stays unaware until something else names the recipient.     *)
(* Promised where every message comes by sendText, every binding wakes, and *)
(* no backend ends beside its replacement.                                 *)
DebtNoted ==
  queue # <<>> /\ runtime.status # "unbound" /\ up # {} =>
    \E p \in up : p \in debt \/ wakes[p] > 0 \/ p \in unaware

(* Not kept by the code (README, Divergences): what the delivery-queue spec *)
(* says of the recovery pass ("seeds the set once at startup (or after an  *)
(* unknown source/recovery failure)"). It leaves no backend unaware of     *)
(* what it owes.                                                           *)
DebtAlwaysNoted ==
  queue # <<>> /\ runtime.status # "unbound" /\ up # {} =>
    \E p \in up : p \in debt \/ wakes[p] > 0

(* A wake that found the queue held, or the loop running, and returned at   *)
(* once is not lost: while a message waits for a bound runtime and nothing  *)
(* was refused, thrown or killed since a loop last set out, some loop has   *)
(* yet to look at the queue or some call has yet to be made (drainSession's *)
(* look after the release). Delivery-queue's "no wake is lost".            *)
NoWakeLost ==
  queue # <<>> /\ runtime.status = "bound" /\ up # {} /\ ~stuck /\ ~Blank =>
    \E p \in up : \/ loop[p].at # "off" \/ wakes[p] > 0 \/ calls[p] > 0
                  \/ p \in debt

(* A lock file whose creator runs is in the hands of that creator's loop,   *)
(* which goes on to its release: whatever opens, reclaims and unlinks of    *)
(* several processes cross, and however many have ended, only a process     *)
(* that ends leaves a file behind (claimDeliveryLock, deliverQueueHead).   *)
FileInHand ==
  file # Absent /\ alive[file.by] =>
    /\ claim[file.by].at \in {"opened", "held"}
    /\ loop[file.by].at \notin {"off", "recheck"}

(* The queue is used as the session protocol offers it: what the triggers,  *)
(* the loops and the inbox commands do to it together is what one mailbox   *)
(* allows. Nothing is put in but the newest message, and nothing but the    *)
(* oldest is taken out, refused heads and racing removals included.         *)
Box == "recipient"
Letter(m) == [id |-> m, key |-> "none", content |-> "prompt"]
Inbox == INSTANCE Mailbox
  WITH Sessions <- {Box}, Keys <- {}, NoKey <- "none", Contents <- {"prompt"},
       status <- [b \in {Box} |-> "live"],
       inbox  <- [b \in {Box} |-> {Letter(m) : m \in ToSet(queue)}],
       spent  <- [b \in {Box} |-> {}],
       issued <- sent
UsesMailbox == [][Inbox!MailboxNext]_(Inbox!mailboxVars)

(* A bound recipient of a running backend is paid in the end: what a busy  *)
(* or restarting harness refused, or a lost wake or a dead backend left    *)
(* over, is offered again until the queue is empty (superviseDelivery). Not *)
(* by a backend that its own recovery pass left unaware of the recipient.  *)
Payable == runtime.status = "bound" /\ up # {} /\ up \cap unaware = {} /\ ~Blank
DebtIsPaid == <>[]Payable => []<>(queue = <<>>)
=============================================================================
