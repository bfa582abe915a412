------------------------------ MODULE LaunchQueue ------------------------------
(***************************************************************************)
(* The launch queue of spec-cli/src/sessions.ts: one backend starts the    *)
(* queued sessions, oldest first, while fewer than Cap of them hold a      *)
(* slot.                                                                   *)
(*                                                                         *)
(* One drain flight runs at a time. It awaits a census of the runtimes,    *)
(* reads the records, takes up the boots an earlier backend left, counts   *)
(* the slots and launches one session, and between two awaits the readiness *)
(* observers, the agents, a person's stop or close and the end of the      *)
(* backend may come in. Every change of a record is made under its lock,   *)
(* which the drainer keeps from before the launch to the published row.    *)
(*                                                                         *)
(* Sessions are numbered in the order of their creation. The adapter is    *)
(* one without a launch receipt, and the host one that refuses a second    *)
(* window of the same name.                                                *)
(***************************************************************************)
EXTENDS Naturals, FiniteSets

CONSTANTS
  NumSessions,  \* prepared sessions
  Cap,          \* sessions.maxActive
  Broken,       \* sessions whose payload, branch or launcher is gone
  MaxFaults     \* bound: crashes, failed censuses, launches and writes

Sessions == 1 .. NumSessions

ASSUME LaunchAssumption ==
  NumSessions \in Nat /\ Cap \in Nat \ {0} /\ Broken \subseteq Sessions /\ MaxFaults \in Nat

VARIABLES
  record,     \* the row of each session
  run,        \* its runtime: none, a window, an agent, an agent that is ready
  launching,  \* the slots held across a boot
  observing,  \* the sessions with a readiness observer
  answered,   \* those whose observer has seen the agent ready
  pass,       \* the drain flight
  faults,
  lapsed      \* history: the sessions whose boot came to an end no row tells of

vars == <<record, run, launching, observing, answered, pass, faults, lapsed>>

(* stamp is launchReadinessStartedAt; later says that a declaration        *)
(* followed the launch's own "active", which only a stamped row can tell.  *)
(* "resting" stands for every status that waits for a person.              *)
Rows == [status : {"queued", "active", "resting", "error", "closed"},
         stopped : BOOLEAN, stamp : BOOLEAN, later : BOOLEAN]
Prepared == [status |-> "queued", stopped |-> FALSE, stamp |-> FALSE, later |-> FALSE]
Runtimes == {"none", "booting", "alive", "ready"}

NoNext == 0
Blank == [s \in Sessions |-> "none"]
Unread == [s \in Sessions |-> Prepared]
Resting == [at |-> "census", failed |-> FALSE, seen |-> Blank, rows |-> Unread,
            todo |-> {}, next |-> NoNext]
Flights ==
  [at : {"census", "read", "look", "start", "launch", "publish"}, failed : BOOLEAN,
   seen : [Sessions -> Runtimes], rows : [Sessions -> Rows],
   todo : SUBSET Sessions, next : Sessions \cup {NoNext}]

-----------------------------------------------------------------------------
Unlocked(s) == ~(pass.next = s /\ pass.at \in {"launch", "publish"})
Eligible(row) == row.status = "queued" /\ ~row.stopped   \* canDrainQueued
Cleared(row) == [row EXCEPT !.stamp = FALSE, !.later = FALSE]
Lives(s) == run[s] \in {"alive", "ready"}                \* launchReadinessWitnessAlive

(* liveSnapshot: the runtimes as they are when the census is taken.        *)
Census ==
  /\ pass.at = "census"
  /\ \/ pass' = [pass EXCEPT !.at = "read", !.seen = run] /\ UNCHANGED faults
     \/ /\ faults < MaxFaults /\ faults' = faults + 1
        /\ pass' = [pass EXCEPT !.at = "read", !.failed = TRUE]
  /\ UNCHANGED <<record, run, launching, observing, answered, lapsed>>

(* listSessions and the queue records, after it. The candidates a backend  *)
(* keeps in memory were seeded from the rows when it started, and every    *)
(* session here is older than it: they are the rows that are not closed.   *)
Read ==
  /\ pass.at = "read"
  /\ pass' = [pass EXCEPT !.at = "look", !.rows = record, !.todo = Sessions]
  /\ UNCHANGED <<record, run, launching, observing, answered, faults, lapsed>>

(* The rows with a boot nobody of this backend observes. A worker that is  *)
(* there is settled on the row as it is by then; else the slot is held and *)
(* observed for what is left of the window.                                *)
Unobserved(s) ==
  /\ s \in pass.todo /\ s \notin launching
  /\ pass.rows[s].stamp /\ ~pass.rows[s].stopped /\ pass.rows[s].status # "closed"
LookObserving(s) ==  \* mutant: the boot is observed and its slot is not held
  /\ observing' = observing \cup {s}
  /\ UNCHANGED <<record, launching>>
LookOver(s) ==
  IF Lives(s)
  THEN /\ record' = IF record[s].status = "closed" \/ record[s].stopped THEN record
                    ELSE [record EXCEPT ![s] = Cleared([@ EXCEPT !.status = "active"])]
       /\ UNCHANGED <<launching, observing>>
  ELSE /\ launching' = launching \cup {s}
       /\ observing' = observing \cup {s}
       /\ UNCHANGED record
Look ==
  /\ pass.at = "look"
  /\ \E s \in pass.todo :
       /\ Unobserved(s) /\ \A t \in pass.todo : Unobserved(t) => s <= t
       /\ LookOver(s)
       /\ pass' = [pass EXCEPT !.todo = {t \in @ : t > s}]
  /\ UNCHANGED <<run, answered, faults, lapsed>>

(* Counting the slots and choosing is one turn. The liveness of a row is   *)
(* the census'; an agent that is not ready reads "unknown", which reserves *)
(* a slot, once its boot grace is over.                                    *)
Occupies(s) == /\ pass.rows[s].status = "active" /\ ~pass.rows[s].stopped
               /\ pass.seen[s] = "ready"
Doubtful == {s \in Sessions : pass.seen[s] = "alive" /\ ~pass.rows[s].stopped
                              /\ pass.rows[s].status # "closed"}
Slots(reserved) == reserved \cup launching \cup {s \in Sessions : Occupies(s)}
Candidates(reserved) ==
  {s \in Sessions \ (launching \cup reserved) : Eligible(pass.rows[s])}
Admit ==
  /\ pass.at = "look" /\ ~ \E s \in pass.todo : Unobserved(s)
  /\ \E reserved \in SUBSET Doubtful :
       LET room == ~pass.failed /\ Cardinality(Slots(reserved)) < Cap
       IN \/ /\ room
             /\ \E s \in Candidates(reserved) :
                  /\ \A t \in Candidates(reserved) : s <= t
                  /\ pass' = [Resting EXCEPT !.at = "start", !.next = s]
          \/ /\ ~room \/ Candidates(reserved) = {}
             /\ pass' = Resting
  /\ UNCHANGED <<record, run, launching, observing, answered, faults, lapsed>>

-----------------------------------------------------------------------------
(* startQueued under the locks: the row is read again; what cannot launch  *)
(* ends the pass. The slot and the stamp come before the launch.           *)
StartUnread ==  \* mutant: the row is not read again under the lock
  /\ pass.at = "start"
  /\ launching' = launching \cup {pass.next}
  /\ record' = [record EXCEPT ![pass.next].stamp = TRUE, ![pass.next].later = FALSE]
  /\ lapsed' = lapsed \ {pass.next}
  /\ pass' = [pass EXCEPT !.at = "launch"]
  /\ UNCHANGED <<run, observing, answered, faults>>
Start ==
  /\ pass.at = "start"
  /\ \/ /\ Eligible(record[pass.next]) /\ pass.next \notin Broken
        /\ launching' = launching \cup {pass.next}
        /\ record' = [record EXCEPT ![pass.next].stamp = TRUE, ![pass.next].later = FALSE]
        /\ lapsed' = lapsed \ {pass.next}
        /\ pass' = [pass EXCEPT !.at = "launch"]
     \/ /\ ~Eligible(record[pass.next]) \/ pass.next \in Broken
        /\ pass' = Resting
        /\ UNCHANGED <<record, launching, lapsed>>
  /\ UNCHANGED <<run, observing, answered, faults>>

LaunchFailedHeld ==  \* mutant: a launch that throws keeps its slot
  /\ record' = [record EXCEPT ![pass.next] = Cleared(@)]
  /\ pass' = Resting
  /\ UNCHANGED <<run, launching>>
LaunchFailed ==
  /\ record' = [record EXCEPT ![pass.next] = Cleared(@)]
  /\ launching' = launching \ {pass.next}
  /\ pass' = Resting
  /\ UNCHANGED run
(* launch(): the host opens the window, or throws; a window of that name   *)
(* makes it throw.                                                         *)
Launch ==
  /\ pass.at = "launch"
  /\ \/ /\ run[pass.next] = "none"
        /\ run' = [run EXCEPT ![pass.next] = "booting"]
        /\ pass' = [pass EXCEPT !.at = "publish"]
        /\ UNCHANGED <<record, launching, faults>>
     \/ /\ run[pass.next] # "none"
        /\ LaunchFailed /\ UNCHANGED faults
     \/ /\ faults < MaxFaults /\ faults' = faults + 1
        /\ LaunchFailed
  /\ UNCHANGED <<observing, answered, lapsed>>

(* The row turns active, the observer takes the slot over, and the pass    *)
(* goes round again.                                                       *)
Publish ==
  /\ pass.at = "publish"
  /\ record' = [record EXCEPT ![pass.next].status = "active", ![pass.next].stopped = FALSE]
  /\ observing' = observing \cup {pass.next}
  /\ pass' = Resting
  /\ UNCHANGED <<run, launching, answered, faults, lapsed>>

-----------------------------------------------------------------------------
(* observeQueuedLaunchReadiness: the wait ends with an agent that is ready *)
(* or with the window. The slot is given back whatever came out.           *)
ReleaseReadyOnly(s) ==  \* mutant: a timed-out observer keeps its slot
  /\ observing' = observing \ {s} /\ answered' = answered \ {s}
  /\ launching' = IF run[s] = "ready" THEN launching \ {s} ELSE launching
Release(s) ==
  /\ observing' = observing \ {s} /\ answered' = answered \ {s}
  /\ launching' = launching \ {s}
SeeReady(s) ==
  /\ s \in observing \ answered /\ run[s] = "ready"
  /\ answered' = answered \cup {s}
  /\ UNCHANGED <<record, run, launching, observing, pass, faults, lapsed>>
Ready(s) ==
  /\ s \in answered /\ Unlocked(s) /\ run[s] = "ready"
  /\ record' = [record EXCEPT ![s] =
       IF @.status = "queued"
       THEN Cleared([@ EXCEPT !.status = "active", !.stopped = FALSE])
       ELSE Cleared(@)]
  /\ Release(s)
  /\ UNCHANGED <<run, pass, faults, lapsed>>

(* The agent went away between the two, or publishing it threw: a warning, *)
(* which clears the stamp of a row that is not closed.                     *)
Unready(s) ==
  /\ s \in answered /\ Unlocked(s)
  /\ \/ run[s] # "ready" /\ UNCHANGED faults
     \/ faults < MaxFaults /\ faults' = faults + 1
  /\ record' = [record EXCEPT ![s] = IF @.status = "closed" THEN @ ELSE Cleared(@)]
  /\ Release(s)
  /\ UNCHANGED <<run, pass, lapsed>>

(* The window expires. Without a worker the attempt ends in "error",       *)
(* unless a declaration came after the launch; with one it is a warning    *)
(* that leaves the status, and of a stopped or failed row makes an active. *)
TimeOut(s) ==
  /\ s \in observing \ answered /\ Unlocked(s)
  /\ LET row == record[s]
         moot == row.status = "closed" \/ (row.stamp /\ row.later)
     IN record' = [record EXCEPT ![s] =
          IF moot THEN row
          ELSE IF Lives(s)
          THEN Cleared([row EXCEPT !.stopped = FALSE,
                        !.status = IF @ = "error" \/ row.stopped THEN "active" ELSE @])
          ELSE Cleared([row EXCEPT !.status = "error", !.stopped = TRUE])]
  /\ Release(s)
  /\ UNCHANGED <<run, pass, faults, lapsed>>

(* "queued launch failure could not be recorded": the slot is given back   *)
(* and the row keeps its stamp, until a later pass takes the boot up again. *)
Unrecorded(s) ==
  /\ s \in observing /\ Unlocked(s)
  /\ faults < MaxFaults /\ faults' = faults + 1
  /\ lapsed' = lapsed \cup {s}
  /\ Release(s)
  /\ UNCHANGED <<record, run, pass>>

(* The agent: its process comes up, its adapter calls it ready, it ends.   *)
ComeUp(s) ==
  /\ run[s] \in {"booting", "alive"}
  /\ run' = [run EXCEPT ![s] = IF @ = "booting" THEN "alive" ELSE "ready"]
  /\ UNCHANGED <<record, launching, observing, answered, pass, faults, lapsed>>
End(s) ==
  /\ run[s] # "none"
  /\ run' = [run EXCEPT ![s] = "none"]
  /\ UNCHANGED <<record, launching, observing, answered, pass, faults, lapsed>>

(* markState: an agent declares that it waits for a person from now on, or *)
(* a prompt that reached it makes it active again.                         *)
Declare(s) ==
  /\ Lives(s) /\ Unlocked(s) /\ record[s].status \notin {"resting", "closed"}
  /\ record' = [record EXCEPT ![s].status = "resting",
              ![s].later = @ \/ (record[s].stamp /\ record[s].status = "active")]
  /\ UNCHANGED <<run, launching, observing, answered, pass, faults, lapsed>>
Reenter(s) ==
  /\ Lives(s) /\ Unlocked(s) /\ record[s].status \notin {"active", "closed"}
  /\ record' = [record EXCEPT ![s].status = "active"]
  /\ UNCHANGED <<run, launching, observing, answered, pass, faults, lapsed>>

(* stopSession and closeSession. A queued session is closed only when no   *)
(* launch of it is under way; a booting one is refused.                    *)
Stop(s) ==
  /\ Unlocked(s) /\ record[s].status # "closed" /\ ~record[s].stopped
  /\ run' = [run EXCEPT ![s] = "none"]
  /\ record' = [record EXCEPT ![s].stopped = TRUE]
  /\ UNCHANGED <<launching, observing, answered, pass, faults, lapsed>>
Close(s) ==
  /\ Unlocked(s) /\ record[s].status # "closed"
  /\ IF record[s].status = "queued" THEN s \notin launching /\ run[s] = "none"
     ELSE run[s] \in {"none", "ready"}
  /\ run' = [run EXCEPT ![s] = "none"]
  /\ record' = [record EXCEPT ![s].status = "closed", ![s].stopped = TRUE]
  /\ UNCHANGED <<launching, observing, answered, pass, faults, lapsed>>

(* The backend ends; its successor has nothing in memory. The windows and  *)
(* the rows stay.                                                          *)
Crash ==
  /\ faults < MaxFaults /\ faults' = faults + 1
  /\ launching' = {} /\ observing' = {} /\ answered' = {} /\ pass' = Resting
  /\ UNCHANGED <<record, run, lapsed>>

Init ==
  /\ record = [s \in Sessions |-> Prepared]
  /\ run = Blank
  /\ launching = {} /\ observing = {} /\ answered = {}
  /\ pass = Resting
  /\ faults = 0 /\ lapsed = {}

Drain == Census \/ Read \/ Look \/ Admit \/ Start \/ Launch \/ Publish
Observe(s) == SeeReady(s) \/ Ready(s) \/ Unready(s) \/ TimeOut(s) \/ Unrecorded(s)
Agent(s) == ComeUp(s) \/ End(s)
Mark(s) == Declare(s) \/ Reenter(s)
Person(s) == Stop(s) \/ Close(s)
Next == \/ Drain \/ Crash
        \/ \E s \in Sessions : Observe(s) \/ Agent(s) \/ Mark(s) \/ Person(s)

(* superviseQueue ticks for ever, an observer has a deadline, a boot comes *)
(* to something, and nobody works for ever.                                *)
Booting(s) == run[s] \in {"booting", "alive"} /\ Agent(s)
Finishing(s) == record[s].status = "active" /\ (Declare(s) \/ End(s))
Fairness ==
  /\ WF_vars(Drain)
  /\ \A s \in Sessions : /\ WF_vars(Observe(s)) /\ WF_vars(Booting(s))
                         /\ WF_vars(Finishing(s))
Spec == Init /\ [][Next]_vars
FairSpec == Spec /\ Fairness
-----------------------------------------------------------------------------
(* The shape of the rows and of what the backend remembers.                *)
LaunchTypeOK ==
  /\ record \in [Sessions -> Rows]
  /\ run \in [Sessions -> Runtimes]
  /\ launching \subseteq Sessions /\ observing \subseteq Sessions
  /\ answered \subseteq Sessions /\ lapsed \subseteq Sessions
  /\ pass \in Flights
  /\ faults \in 0 .. MaxFaults

(* However crashes, stops, timeouts and prompts fall between the census and *)
(* the launch, no more than Cap sessions are in a readiness window that no *)
(* declaration has ended; those whose observer could not record what came  *)
(* of theirs are not counted, for the code gives their slots away.         *)
Pending == {s \in Sessions : record[s].stamp /\ ~record[s].later /\ run[s] # "none"}
BootsWithinCap == Cardinality(Pending \ lapsed) <= Cap

(* A slot is given back by whoever has it: every session that holds one is *)
(* either under the drainer's launch or has a readiness observer, and never *)
(* both, so no slot leaks when a launch throws, a boot expires or a session *)
(* is stopped or closed meanwhile, and no session gets a second observer.  *)
Underway == IF pass.at \in {"launch", "publish"} THEN {pass.next} ELSE {}
SlotsKept == observing \subseteq launching /\ launching \ observing = Underway

(* "Stop is a negative admission fence": no drain that was under way, and  *)
(* none after it, gives a stopped session a runtime.                       *)
StaysDown ==
  [][\A s \in Sessions :
       record[s].stopped /\ run[s] = "none" => run'[s] = "none"]_vars

(* A session that could be launched waits for ever only behind one of      *)
(* four: an older one that cannot be launched, one left queued with a      *)
(* runtime, one that died with its readiness stamp after a declaration, or *)
(* one that is prompted again and again.                                   *)
Waiting(s) == Eligible(record[s]) /\ run[s] = "none"
Unlaunchable(s) == s \in Broken /\ Waiting(s)
Limbo(s) == Eligible(record[s]) /\ run[s] # "none"
Residue(s) == record[s].stamp /\ record[s].later /\ ~record[s].stopped /\ run[s] = "none"
Stuck(s) == \E t \in Sessions \ {s} :
  (Unlaunchable(t) /\ t < s) \/ Limbo(t) \/ Residue(t)
QueueServed ==
  \A s \in Sessions \ Broken :
    <>[]Waiting(s) => \/ <>[]Stuck(s)
                      \/ \E t \in Sessions \ {s} : []<><<Reenter(t)>>_vars

(* Not kept by the code (README, Divergences), though the launch spec says *)
(* it: one session that cannot start does not starve the others.           *)
NobodyStarves == \A s \in Sessions \ Broken : ~<>[]Waiting(s)

(* Not kept by the code (README, Divergences): the launch spec's cap, on   *)
(* the sessions that work and not only on those that boot.                 *)
WorkWithinCap ==
  Cardinality({s \in Sessions : record[s].status = "active" /\ Lives(s)}) <= Cap
=============================================================================
