------------------------------ MODULE Supervisor ------------------------------
(***************************************************************************)
(* The reload loop of spec-cli/src/supervise.ts in a source workspace: one *)
(* supervisor owns the port, rebuilds on a source change, boots a child,   *)
(* waits until it is healthy and routes to it; a child that dies is booted *)
(* again.                                                                  *)
(*                                                                         *)
(* A version of the source is its number in the order of edits, and a      *)
(* build or a child is the version it was made from. The build is          *)
(* synchronous: no timer fires and no exit is seen while the loop is at    *)
(* its top, only the source may change. A child reads its artifacts when   *)
(* it is spawned, and no build runs until its boot is over.                *)
(***************************************************************************)
EXTENDS Naturals

CONSTANTS
  Nobody,     \* no child is selected
  MaxEdits,   \* bound: versions of the source
  MaxFaults   \* bound: deaths of the selected child and boots that fail or throw

ASSUME SupervisorAssumption ==
  Nobody \notin Nat /\ MaxEdits \in Nat \ {0} /\ MaxFaults \in Nat

VARIABLES
  source,   \* the newest version of the source
  seen,     \* the newest version the poll has noticed (lastMtime)
  timer,    \* the debounce timer is set
  tried,    \* the newest version a build was run on
  dist,     \* the version of the built artifacts
  current,  \* the selected child, Nobody when it has died
  loop,     \* the stage of reload() and the reason it was called with
  pending,  \* reload() was called while it ran
  retry,    \* restartRetryTimer is set
  faults,   \* deaths and failed boots so far
  aborted   \* history: the last reload ended in a throw

vars == <<source, seen, timer, tried, dist, current, loop, pending, retry, faults, aborted>>

Mixed == 0       \* artifacts of a build that failed between two packages
Versions == 1 .. MaxEdits
Reasons == {"code change", "crash", "restart retry"}
Idle == [at |-> "idle", why |-> "none"]
Running == [at : {"top", "boot"}, why : Reasons]

(* A turn of the event loop that is not taken by a synchronous build. *)
Free == loop.at # "top"

(* reload(): single flight, a call while it runs is left pending. *)
ReloadDropped(why) ==
  /\ loop' = IF loop = Idle THEN [at |-> "top", why |-> why] ELSE loop
  /\ aborted' = (aborted /\ loop # Idle)
  /\ UNCHANGED pending
Reload(why) ==
  IF loop = Idle
    THEN loop' = [at |-> "top", why |-> why] /\ aborted' = FALSE /\ UNCHANGED pending
    ELSE pending' = TRUE /\ UNCHANGED <<loop, aborted>>

(* The loop breaks off; when nothing serves, the retry timer is set. *)
BreakOffQuietly == loop' = Idle /\ UNCHANGED retry
BreakOff == loop' = Idle /\ retry' = (retry \/ current = Nobody)

-----------------------------------------------------------------------------
Edit ==
  /\ source < MaxEdits
  /\ source' = source + 1
  /\ UNCHANGED <<seen, timer, tried, dist, current, loop, pending, retry, faults, aborted>>

(* The poll finds a newer mtime and sets the debounce timer anew. *)
Scan ==
  /\ Free /\ seen < source
  /\ seen' = source /\ timer' = TRUE
  /\ UNCHANGED <<source, tried, dist, current, loop, pending, retry, faults, aborted>>

CodeChange ==
  /\ Free /\ timer
  /\ timer' = FALSE
  /\ Reload("code change")
  /\ UNCHANGED <<source, seen, tried, dist, current, retry, faults>>

RestartRetry ==
  /\ Free /\ retry
  /\ retry' = FALSE
  /\ Reload("restart retry")
  /\ UNCHANGED <<source, seen, timer, tried, dist, current, faults>>

(* The selected child exits by itself. *)
ChildExitUnseen ==
  /\ Free /\ current # Nobody /\ faults < MaxFaults
  /\ current' = Nobody /\ faults' = faults + 1
  /\ UNCHANGED <<source, seen, timer, tried, dist, loop, pending, retry, aborted>>
ChildExit ==
  /\ Free /\ current # Nobody /\ faults < MaxFaults
  /\ current' = Nobody /\ faults' = faults + 1
  /\ Reload("crash")
  /\ UNCHANGED <<source, seen, timer, tried, dist, retry>>

-----------------------------------------------------------------------------
(* The body of the loop *)

NeedsBuild == loop.why = "code change"
Boot == pending' = FALSE /\ loop' = [loop EXCEPT !.at = "boot"]

Build ==
  /\ loop.at = "top" /\ NeedsBuild
  /\ tried' = source /\ dist' = source
  /\ Boot
  /\ UNCHANGED <<source, seen, timer, current, retry, faults, aborted>>

(* Packages are replaced one by one, so some may be new. *)
BuildFails ==
  /\ loop.at = "top" /\ NeedsBuild
  /\ tried' = source /\ dist' \in {dist, Mixed}
  /\ pending' = FALSE
  /\ BreakOff
  /\ UNCHANGED <<source, seen, timer, current, faults, aborted>>

BootUnbuilt ==
  /\ loop.at = "top" /\ ~NeedsBuild
  /\ Boot
  /\ UNCHANGED <<source, seen, timer, tried, dist, current, retry, faults, aborted>>

(* The new child answers /health and is routed to. *)
Healthy ==
  /\ loop.at = "boot"
  /\ current' = dist /\ retry' = FALSE
  /\ loop' = IF pending THEN [loop EXCEPT !.at = "top"] ELSE Idle
  /\ UNCHANGED <<source, seen, timer, tried, dist, pending, faults, aborted>>

Unhealthy ==
  /\ loop.at = "boot" /\ faults < MaxFaults
  /\ faults' = faults + 1
  /\ BreakOff
  /\ UNCHANGED <<source, seen, timer, tried, dist, current, pending, aborted>>

(* No port could be taken or no process spawned: the throw leaves reload()  *)
(* through its finally, is only logged, and sets no timer.                 *)
BootThrows ==
  /\ loop.at = "boot" /\ faults < MaxFaults
  /\ faults' = faults + 1
  /\ loop' = Idle /\ aborted' = TRUE
  /\ UNCHANGED <<source, seen, timer, tried, dist, current, pending, retry>>

(* After the first boot and the poll's baseline. *)
Init ==
  /\ source = 1 /\ seen = 1 /\ tried = 1 /\ dist = 1 /\ current = 1
  /\ timer = FALSE /\ pending = FALSE /\ retry = FALSE
  /\ loop = Idle /\ faults = 0 /\ aborted = FALSE

Body == Build \/ BuildFails \/ BootUnbuilt \/ Healthy \/ Unhealthy \/ BootThrows

Next == Edit \/ Scan \/ CodeChange \/ RestartRetry \/ ChildExit \/ Body

Spec == Init /\ [][Next]_vars

(* Timers fire, a synchronous build ends, and a boot ends within its       *)
(* health budget.                                                          *)
FairSpec ==
  Spec /\ WF_vars(Body) /\ WF_vars(Scan) /\ WF_vars(CodeChange) /\ WF_vars(RestartRetry)

-----------------------------------------------------------------------------
(* Properties *)

SupervisorTypeOK ==
  /\ source \in Versions /\ seen \in 1 .. source /\ tried \in 1 .. source
  /\ dist \in {Mixed} \cup 1 .. tried
  /\ current \in {Nobody, Mixed} \cup 1 .. tried
  /\ loop \in {Idle} \cup Running
  /\ timer \in BOOLEAN /\ pending \in BOOLEAN /\ retry \in BOOLEAN /\ aborted \in BOOLEAN
  /\ faults \in 0 .. MaxFaults

(* While nothing answers behind the port, a replacement is on its way or   *)
(* the retry timer is set, whichever of exits, code changes, failed builds *)
(* and failed boots came together; only a boot that threw leaves neither.  *)
RestartOwed == current = Nobody => loop # Idle \/ retry \/ aborted

(* Once children stop dying, something serves in the end, unless a reload  *)
(* ended in a throw and nothing has called reload() since.                 *)
ServesAgain == []<>(current # Nobody \/ aborted)

(* Not kept by the code (README, Divergences): what the serve spec says of *)
(* a crash without a healthy replacement ("the supervisor keeps owning the *)
(* public port and retries replacement boot until a healthy child is       *)
(* available").                                                            *)
RetriesUntilHealthy == current = Nobody => loop # Idle \/ retry

(* A code change that arrives during a reload is not lost: as long as no   *)
(* child dies and none fails its boot, a change the poll has noticed and   *)
(* no build has seen waits in the debounce timer, in the pending flag or   *)
(* at the top of the loop ...                                              *)
Smooth == faults = 0
NoticedIsOwed == Smooth /\ tried < seen => timer \/ pending \/ loop.at = "top"

(* ... and every change the poll has noticed is built in the end.          *)
NoticedIsBuilt == \A n \in Versions : (seen >= n) ~> (tried >= n \/ ~Smooth)
=============================================================================
