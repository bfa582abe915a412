--------------------------- MODULE Supervisor_proofs ---------------------------
(***************************************************************************)
(* The supervisor leaves a dead port in one case only: for any number of   *)
(* edits and faults, while nothing serves a reload runs, the retry timer   *)
(* is set, or the last reload ended in a throw out of its boot.            *)
(* Together with the types this is inductive: a reload that breaks off     *)
(* sets the timer itself, a timer that fires starts a reload or finds one  *)
(* running, and only a healthy child clears it.                            *)
(*                                                                         *)
(* A change that was noticed stays owed until a build has seen it, as long *)
(* as no child fails.                                                      *)
(***************************************************************************)
EXTENDS Supervisor, TLAPS

IInv == SupervisorTypeOK /\ RestartOwed

LEMMA ReloadTyped ==
  ASSUME SupervisorTypeOK, NEW why \in Reasons, Reload(why)
  PROVE  /\ loop' \in {Idle} \cup Running /\ pending' \in BOOLEAN /\ aborted' \in BOOLEAN
         /\ loop' # Idle
<1>1. CASE loop = Idle
  <2>1. loop' = [at |-> "top", why |-> why] /\ pending' = pending /\ aborted' = FALSE
    BY <1>1 DEF Reload
  <2>2. loop' \in Running
    BY <2>1 DEF Running
  <2>3. loop'.at = "top" /\ Idle.at = "idle"
    BY <2>1 DEF Idle
  <2> QED BY <2>1, <2>2, <2>3 DEF SupervisorTypeOK
<1>2. CASE loop # Idle
  BY <1>2 DEF Reload, SupervisorTypeOK
<1> QED BY <1>1, <1>2

LEMMA StageTyped ==
  ASSUME SupervisorTypeOK, loop.at # "idle", NEW at \in {"top", "boot"}
  PROVE  /\ [loop EXCEPT !.at = at] \in Running
         /\ [loop EXCEPT !.at = at] # Idle
<1>1. loop \in Running
  <2>1. Idle.at = "idle" BY DEF Idle
  <2> QED BY <2>1 DEF SupervisorTypeOK
<1>2. [loop EXCEPT !.at = at] \in Running
  BY <1>1 DEF Running
<1>3. [loop EXCEPT !.at = at].at = at /\ Idle.at = "idle"
  BY <1>1 DEF Running, Idle
<1> QED BY <1>2, <1>3

LEMMA TypeStep == ASSUME SupervisorTypeOK, [Next]_vars PROVE SupervisorTypeOK'
<1> USE SupervisorAssumption DEF SupervisorTypeOK, Versions
<1>1. CASE UNCHANGED vars
  BY <1>1 DEF vars
<1>2. CASE Edit
  BY <1>2 DEF Edit
<1>3. CASE Scan
  BY <1>3 DEF Scan
<1>4. CASE CodeChange
  <2>1. "code change" \in Reasons BY DEF Reasons
  <2> QED BY <1>4, <2>1, ReloadTyped DEF CodeChange
<1>5. CASE RestartRetry
  <2>1. "restart retry" \in Reasons BY DEF Reasons
  <2> QED BY <1>5, <2>1, ReloadTyped DEF RestartRetry
<1>6. CASE ChildExit
  <2>1. "crash" \in Reasons BY DEF Reasons
  <2> QED BY <1>6, <2>1, ReloadTyped DEF ChildExit
<1>0. /\ source \in 1 .. source
      /\ {Nobody, Mixed} \cup 1 .. tried \subseteq {Nobody, Mixed} \cup 1 .. source
      /\ {Mixed} \cup 1 .. tried \subseteq {Mixed} \cup 1 .. source
  OBVIOUS
<1>7. CASE Build
  <2>1. loop' \in Running /\ pending' = FALSE
    BY <1>7, StageTyped DEF Build, Boot
  <2>2. /\ UNCHANGED <<source, seen, timer, current, retry, faults, aborted>>
        /\ tried' = source /\ dist' = source
    BY <1>7 DEF Build
  <2> QED BY <1>0, <2>1, <2>2
<1>8. CASE BuildFails
  <2>1. loop' = Idle /\ pending' = FALSE /\ retry' \in BOOLEAN
    BY <1>8 DEF BuildFails, BreakOff
  <2>2. /\ UNCHANGED <<source, seen, timer, current, faults, aborted>>
        /\ tried' = source /\ dist' \in {dist, Mixed}
    BY <1>8 DEF BuildFails
  <2> QED BY <1>0, <2>1, <2>2
<1>9. CASE BootUnbuilt
  BY <1>9, StageTyped DEF BootUnbuilt, Boot
<1>10. CASE Healthy
  BY <1>10, StageTyped DEF Healthy
<1>11. CASE Unhealthy
  BY <1>11 DEF Unhealthy, BreakOff
<1>12. CASE BootThrows
  BY <1>12 DEF BootThrows
<1> QED BY <1>1, <1>2, <1>3, <1>4, <1>5, <1>6, <1>7, <1>8, <1>9, <1>10, <1>11, <1>12 DEF Next, Body

LEMMA OwedStep == ASSUME IInv, [Next]_vars PROVE RestartOwed'
<1> USE DEF IInv, RestartOwed
<1>1. CASE UNCHANGED vars
  BY <1>1 DEF vars
<1>2. CASE Edit \/ Scan
  BY <1>2 DEF Edit, Scan
<1>3. CASE CodeChange
  <2>1. "code change" \in Reasons BY DEF Reasons
  <2> QED BY <1>3, <2>1, ReloadTyped DEF CodeChange
<1>4. CASE RestartRetry
  <2>1. "restart retry" \in Reasons BY DEF Reasons
  <2> QED BY <1>4, <2>1, ReloadTyped DEF RestartRetry
<1>5. CASE ChildExit
  <2>1. "crash" \in Reasons BY DEF Reasons
  <2> QED BY <1>5, <2>1, ReloadTyped DEF ChildExit
<1>6. CASE Build \/ BootUnbuilt
  BY <1>6, StageTyped DEF Build, BootUnbuilt, Boot
<1>7. CASE BuildFails \/ Unhealthy \/ BootThrows
  BY <1>7 DEF BuildFails, Unhealthy, BreakOff, BootThrows
<1>8. CASE Healthy
  <2>1. dist \in {Mixed} \cup 1 .. tried
    BY DEF SupervisorTypeOK
  <2>2. tried \in Nat
    BY SupervisorAssumption DEF SupervisorTypeOK, Versions
  <2>3. dist \in Nat
    BY <2>1, <2>2 DEF Mixed
  <2>4. current' = dist
    BY <1>8 DEF Healthy
  <2> QED BY <2>3, <2>4, SupervisorAssumption
<1> QED BY <1>1, <1>2, <1>3, <1>4, <1>5, <1>6, <1>7, <1>8 DEF Next, Body

LEMMA Invariant == Spec => []IInv
<1>1. Init => IInv
  <2>1. Init => SupervisorTypeOK
    <3>1. 1 \in Versions /\ 0 \in 0 .. MaxFaults
      BY SupervisorAssumption DEF Versions
    <3>2. Init => /\ loop = Idle /\ timer \in BOOLEAN /\ pending \in BOOLEAN
                  /\ retry \in BOOLEAN /\ aborted \in BOOLEAN
      BY DEF Init
    <3>3. Init => /\ source = 1 /\ seen = 1 /\ tried = 1 /\ dist = 1 /\ current = 1
                  /\ faults = 0
      BY DEF Init
    <3> QED BY <3>1, <3>2, <3>3 DEF SupervisorTypeOK
  <2>2. Init => RestartOwed
    BY SupervisorAssumption DEF Init, RestartOwed
  <2> QED BY <2>1, <2>2 DEF IInv
<1>2. IInv /\ [Next]_vars => IInv'
  BY TypeStep, OwedStep DEF IInv
<1> QED BY <1>1, <1>2, PTL DEF Spec

(* Every reachable state of the supervisor has its type: what it serves    *)
(* was built from a version a build was tried on.                          *)
THEOREM SupervisorTypeCorrect == Spec => []SupervisorTypeOK
<1>1. IInv => SupervisorTypeOK
  BY DEF IInv
<1> QED BY Invariant, <1>1, PTL

(* While nothing answers behind the port, a reload runs or the retry timer *)
(* is set (reload, scheduleRestartRetry, the exit handler of a child), or  *)
(* the last reload was broken off by a boot that threw: of all the ways a  *)
(* reload can end, that is the only one that leaves the port to nobody.    *)
THEOREM NeverAbandoned == Spec => []RestartOwed
<1>1. IInv => RestartOwed
  BY DEF IInv
<1> QED BY Invariant, <1>1, PTL

-----------------------------------------------------------------------------
(* Without faults, nothing interferes with the debounce: the loop runs for *)
(* code changes only, and pending is never left behind by a loop that is   *)
(* over.                                                                   *)
Untroubled == Smooth =>
  /\ current # Nobody /\ ~retry
  /\ loop # Idle => loop.why = "code change"
  /\ pending => loop # Idle

LEMMA NoticedStep ==
  ASSUME SupervisorTypeOK, Untroubled, NoticedIsOwed, [Next]_vars
  PROVE  Untroubled' /\ NoticedIsOwed'
<1> USE SupervisorAssumption DEF SupervisorTypeOK, Versions, Smooth
<1>0. /\ loop = Idle \/ loop \in Running
      /\ Idle.at = "idle" /\ \A l \in Running : l.at \in {"top", "boot"} /\ l # Idle
      /\ faults \in Nat /\ source \in Nat /\ seen <= source /\ seen \in Nat /\ tried \in Nat
  <2>1. /\ faults \in Nat /\ source \in Nat /\ seen <= source /\ seen \in Nat /\ tried \in Nat
    OBVIOUS
  <2>2. Idle.at = "idle"
    BY DEF Idle
  <2>3. \A l \in Running : l.at \in {"top", "boot"}
    BY DEF Running
  <2>4. \A l \in Running : l # Idle
    BY <2>2, <2>3
  <2> QED BY <2>1, <2>2, <2>3, <2>4
<1>1. CASE UNCHANGED vars
  BY <1>1 DEF vars, Untroubled, NoticedIsOwed
<1>2. CASE Edit \/ Scan
  <2>1. CASE Edit
    BY <2>1 DEF Edit, Untroubled, NoticedIsOwed
  <2>2. CASE Scan
    BY <2>2 DEF Scan, Untroubled, NoticedIsOwed
  <2> QED BY <1>2, <2>1, <2>2
<1>3. CASE CodeChange
  <2>1. CASE loop = Idle
    <3>1. /\ loop' = [at |-> "top", why |-> "code change"]
          /\ UNCHANGED <<source, seen, tried, dist, current, retry, faults, pending>>
      BY <1>3, <2>1 DEF CodeChange, Reload
    <3>2. loop'.at = "top" /\ loop'.why = "code change"
      BY <3>1
    <3>3. loop' # Idle
      BY <1>0, <3>2
    <3> QED BY <3>1, <3>2, <3>3 DEF Untroubled, NoticedIsOwed
  <2>2. CASE loop # Idle
    BY <1>3, <2>2 DEF CodeChange, Reload, Untroubled, NoticedIsOwed
  <2> QED BY <2>1, <2>2
<1>4. CASE RestartRetry
  <2>1. ~Smooth'
    BY <1>4 DEF RestartRetry, Untroubled
  <2> QED BY <2>1 DEF Untroubled, NoticedIsOwed
<1>5. CASE ChildExit \/ Unhealthy \/ BootThrows
  <2>1. ~Smooth'
    BY <1>0, <1>5 DEF ChildExit, Unhealthy, BootThrows
  <2> QED BY <2>1 DEF Untroubled, NoticedIsOwed
<1>6. CASE Build
  <2>1. /\ UNCHANGED <<source, seen, timer, current, retry, faults>>
        /\ tried' = source /\ pending' = FALSE /\ loop' = [loop EXCEPT !.at = "boot"]
    BY <1>6 DEF Build, Boot
  <2>2. loop \in Running /\ loop.why = "code change"
    BY <1>0, <1>6 DEF Build, NeedsBuild
  <2>3. loop'.why = "code change"
    BY <2>1, <2>2 DEF Running
  <2>4. NoticedIsOwed'
    <3>1. ~(tried' < seen')
      BY <1>0, <2>1
    <3> QED BY <3>1 DEF NoticedIsOwed
  <2>5. ~pending'
    BY <2>1
  <2> QED BY <2>1, <2>3, <2>4, <2>5 DEF Untroubled
<1>7. CASE BuildFails
  <2>1. /\ UNCHANGED <<source, seen, timer, current, faults>>
        /\ tried' = source /\ pending' = FALSE /\ loop' = Idle
        /\ retry' = (retry \/ current = Nobody)
    BY <1>7 DEF BuildFails, BreakOff
  <2>2. NoticedIsOwed'
    <3>1. ~(tried' < seen')
      BY <1>0, <2>1
    <3> QED BY <3>1 DEF NoticedIsOwed
  <2>3. ~pending'
    BY <2>1
  <2> QED BY <2>1, <2>2, <2>3 DEF Untroubled
<1>8. CASE BootUnbuilt
  <2>1. /\ loop.at = "top" /\ loop.why # "code change" /\ faults' = faults
    BY <1>8 DEF BootUnbuilt, NeedsBuild
  <2>2. ~Smooth'
    BY <1>0, <2>1 DEF Untroubled
  <2> QED BY <2>2 DEF Untroubled, NoticedIsOwed
<1>9. CASE Healthy
  <2>1. /\ loop.at = "boot" /\ loop \in Running /\ current' = dist /\ retry' = FALSE
        /\ UNCHANGED <<source, seen, timer, tried, pending, faults>>
        /\ loop' = IF pending THEN [loop EXCEPT !.at = "top"] ELSE Idle
    BY <1>0, <1>9 DEF Healthy
  <2>2. current' # Nobody
    BY <1>0, <2>1 DEF Mixed
  <2>3. pending => loop'.at = "top" /\ loop'.why = loop.why /\ loop' # Idle
    BY <1>0, <2>1 DEF Running
  <2> QED BY <1>0, <2>1, <2>2, <2>3 DEF Untroubled, NoticedIsOwed
<1> QED BY <1>1, <1>2, <1>3, <1>4, <1>5, <1>6, <1>7, <1>8, <1>9 DEF Next, Body

(* Until a child dies or fails its boot, a change the poll has noticed is  *)
(* waiting or built, for any number of edits, however the debounce timer   *)
(* falls into a reload that runs (reload, pending): what NoticedIsBuilt    *)
(* needs of the steps, beside their fairness.                              *)
THEOREM NoticedStaysOwed == Spec => []NoticedIsOwed
<1>1. Init => Untroubled /\ NoticedIsOwed
  BY SupervisorAssumption DEF Init, Untroubled, NoticedIsOwed
<1>2. SupervisorTypeOK /\ Untroubled /\ NoticedIsOwed /\ [Next]_vars => Untroubled' /\ NoticedIsOwed'
  BY NoticedStep
<1> QED BY SupervisorTypeCorrect, <1>1, <1>2, PTL DEF Spec
=============================================================================
