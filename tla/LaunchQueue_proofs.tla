--------------------------- MODULE LaunchQueue_proofs ---------------------------
(***************************************************************************)
(* The launch queue for any number of sessions, any cap, any set of        *)
(* sessions that cannot be launched and any number of faults: its types,   *)
(* the admission fence of a stop, and the cap on the boots under way.      *)
(*                                                                         *)
(* Every held slot belongs to the launch under way or to one observer: the *)
(* same inductive invariant carries the exact set of slots held.           *)
(***************************************************************************)
EXTENDS LaunchQueue, FiniteSetTheorems, TLAPS

(* What the drain has chosen is a session, and the row it launches was     *)
(* read under the lock it holds since.                                     *)
Chosen == pass.at \in {"start", "launch", "publish"} => pass.next \in Sessions
Fenced ==
  pass.at \in {"launch", "publish"} =>
    LET row == record[pass.next] IN Eligible(row) /\ row.stamp /\ ~row.later

(* A boot under way is neither stopped nor closed.                         *)
Boots == Pending \ lapsed
BootsRun == \A s \in Boots : ~record[s].stopped /\ record[s].status # "closed"

(* Once this backend has looked over the rows, it holds the slot of every  *)
(* boot, and it counts them before it starts the next.                     *)
Found(s) == /\ s \in pass.todo /\ pass.rows[s].stamp
            /\ ~pass.rows[s].stopped /\ pass.rows[s].status # "closed"
BootsHeld ==
  /\ pass.at = "look" => \A s \in Boots : s \in launching \/ Found(s)
  /\ pass.at \in {"start", "launch", "publish"} => Boots \subseteq launching
  /\ pass.at \in {"launch", "publish"} => pass.next \in launching
Counted ==
  /\ pass.at = "start" => Cardinality(launching) < Cap
  /\ pass.at \in {"launch", "publish"} => Cardinality(launching) <= Cap
IInv == LaunchTypeOK /\ Chosen /\ Fenced /\ BootsRun /\ BootsHeld /\ Counted /\ BootsWithinCap

Records == [Sessions -> Rows]
Runs == [Sessions -> Runtimes]

-----------------------------------------------------------------------------
(* What a change of one row leaves: the row and all others. *)
Statuses == {"queued", "active", "resting", "error", "closed"}
Same(s) == \A t \in Sessions \ {s} : record'[t] = record[t]
Row(s, x, a, b, c) ==
  /\ record' \in Records /\ Same(s)
  /\ record'[s].status = x /\ record'[s].stopped = a
  /\ record'[s].stamp = b /\ record'[s].later = c

LEMMA RowTyped ==
  ASSUME NEW r \in Rows
  PROVE  r.status \in Statuses /\ r.stopped \in BOOLEAN /\ r.stamp \in BOOLEAN /\ r.later \in BOOLEAN
BY DEF Rows, Statuses

LEMMA RowWritten ==
  ASSUME record \in Records, NEW s \in Sessions, NEW r \in Rows, record' = [record EXCEPT ![s] = r]
  PROVE  Row(s, r.status, r.stopped, r.stamp, r.later)
BY DEF Row, Same, Records

LEMMA StampRow ==
  ASSUME record \in Records, NEW s \in Sessions,
         record' = [record EXCEPT ![s].stamp = TRUE, ![s].later = FALSE]
  PROVE  Row(s, record[s].status, record[s].stopped, TRUE, FALSE)
<1>1. [[record[s] EXCEPT !.stamp = TRUE] EXCEPT !.later = FALSE] \in Rows
  BY DEF Records, Rows
<1> QED BY <1>1 DEF Row, Same, Records, Rows

LEMMA ClearedRow ==
  ASSUME NEW r \in Rows
  PROVE  /\ Cleared(r) \in Rows /\ Cleared(r).status = r.status /\ Cleared(r).stopped = r.stopped
         /\ Cleared(r).stamp = FALSE /\ Cleared(r).later = FALSE
BY DEF Cleared, Rows

LEMMA ClearRow ==
  ASSUME record \in Records, NEW s \in Sessions, NEW r \in Rows,
         record' = [record EXCEPT ![s] = Cleared(r)]
  PROVE  Row(s, r.status, r.stopped, FALSE, FALSE)
<1>1. Cleared(r) \in Rows
  BY ClearedRow
<1>2. Row(s, Cleared(r).status, Cleared(r).stopped, Cleared(r).stamp, Cleared(r).later)
  BY <1>1, RowWritten
<1> QED BY <1>2, ClearedRow

LEMMA PublishRow ==
  ASSUME record \in Records, NEW s \in Sessions,
         record' = [record EXCEPT ![s].status = "active", ![s].stopped = FALSE]
  PROVE  Row(s, "active", FALSE, record[s].stamp, record[s].later)
BY DEF Row, Same, Records, Rows

LEMMA ReadyRow ==
  ASSUME record \in Records, NEW s \in Sessions, Ready(s)
  PROVE  \/ Row(s, "active", FALSE, FALSE, FALSE)
         \/ Row(s, record[s].status, record[s].stopped, FALSE, FALSE)
<1>1. record[s] \in Rows
  BY DEF Records
<1>2. CASE record[s].status = "queued"
  <2> DEFINE r == [record[s] EXCEPT !.status = "active", !.stopped = FALSE]
  <2>1. record' = [record EXCEPT ![s] = Cleared(r)]
    BY <1>2 DEF Ready
  <2>2. r \in Rows /\ r.status = "active" /\ r.stopped = FALSE
    BY <1>1 DEF Rows
  <2> HIDE DEF r
  <2> QED BY <2>1, <2>2, ClearRow
<1>3. CASE record[s].status # "queued"
  <2>1. record' = [record EXCEPT ![s] = Cleared(record[s])]
    BY <1>3 DEF Ready
  <2> QED BY <1>1, <2>1, ClearRow
<1> QED BY <1>2, <1>3

LEMMA UnreadyRow ==
  ASSUME record \in Records, NEW s \in Sessions, Unready(s)
  PROVE  \/ record[s].status = "closed" /\ record' = record
         \/ Row(s, record[s].status, record[s].stopped, FALSE, FALSE)
<1>1. record[s] \in Rows
  BY DEF Records
<1>2. CASE record[s].status = "closed"
  <2>1. record' = [record EXCEPT ![s] = record[s]]
    BY <1>2 DEF Unready
  <2> QED BY <1>2, <2>1 DEF Records
<1>3. CASE record[s].status # "closed"
  <2>1. record' = [record EXCEPT ![s] = Cleared(record[s])]
    BY <1>3 DEF Unready
  <2> QED BY <1>1, <2>1, ClearRow
<1> QED BY <1>2, <1>3

LEMMA TimeOutRow ==
  ASSUME record \in Records, NEW s \in Sessions, TimeOut(s)
  PROVE  \/ /\ record[s].status = "closed" \/ (record[s].stamp /\ record[s].later)
            /\ record' = record
         \/ Row(s, "error", TRUE, FALSE, FALSE)
         \/ \E x \in {"active", record[s].status} : Row(s, x, FALSE, FALSE, FALSE)
<1>1. record[s] \in Rows
  BY DEF Records
<1>a. DEFINE Moot == record[s].status = "closed" \/ (record[s].stamp /\ record[s].later)
<1>2. CASE Moot
  <2>1. record' = [record EXCEPT ![s] = record[s]]
    BY <1>2 DEF TimeOut
  <2> QED BY <1>2, <2>1 DEF Records
<1>3. CASE ~Moot /\ ~Lives(s)
  <2> DEFINE r == [record[s] EXCEPT !.status = "error", !.stopped = TRUE]
  <2>1. record' = [record EXCEPT ![s] = Cleared(r)]
    BY <1>3 DEF TimeOut
  <2>2. r \in Rows /\ r.status = "error" /\ r.stopped = TRUE
    BY <1>1 DEF Rows
  <2> HIDE DEF r
  <2> QED BY <2>1, <2>2, ClearRow
<1>4. CASE ~Moot /\ Lives(s)
  <2> DEFINE x == IF record[s].status = "error" \/ record[s].stopped THEN "active" ELSE record[s].status
             r == [record[s] EXCEPT !.stopped = FALSE, !.status = x]
  <2>1. record' = [record EXCEPT ![s] = Cleared(r)]
    BY <1>4 DEF TimeOut
  <2>2. x \in Statuses /\ x \in {"active", record[s].status}
    BY <1>1, RowTyped DEF Statuses
  <2> HIDE DEF x
  <2>3. r \in Rows /\ r.status = x /\ r.stopped = FALSE
    BY <1>1, <2>2 DEF Rows, Statuses
  <2> HIDE DEF r
  <2>4. Row(s, x, FALSE, FALSE, FALSE)
    BY <2>1, <2>3, ClearRow
  <2> QED BY <2>2, <2>4
<1> QED BY <1>2, <1>3, <1>4

LEMMA MarkRow ==
  ASSUME record \in Records, NEW s \in Sessions, Mark(s)
  PROVE  /\ \E x \in {"resting", "active"}, c \in BOOLEAN :
              /\ Row(s, x, record[s].stopped, record[s].stamp, c)
              /\ record[s].later => c
         /\ Unlocked(s)
         /\ UNCHANGED <<run, launching, observing, answered, pass, faults, lapsed>>
<1>1. record[s] \in Rows
  BY DEF Records
<1>2. CASE Declare(s)
  <2> DEFINE c == record[s].later \/ (record[s].stamp /\ record[s].status = "active")
  <2>1. c \in BOOLEAN /\ (record[s].later => c)
    BY <1>1 DEF Rows
  <2>2. record' = [record EXCEPT ![s].status = "resting", ![s].later = c]
    BY <1>2 DEF Declare
  <2> HIDE DEF c
  <2>3. Row(s, "resting", record[s].stopped, record[s].stamp, c)
    BY <2>1, <2>2 DEF Row, Same, Records, Rows
  <2> QED BY <1>2, <2>1, <2>3 DEF Declare
<1>3. CASE Reenter(s)
  <2>1. record' = [record EXCEPT ![s].status = "active"]
    BY <1>3 DEF Reenter
  <2>2. Row(s, "active", record[s].stopped, record[s].stamp, record[s].later)
    BY <2>1 DEF Row, Same, Records, Rows
  <2>3. record[s].later \in BOOLEAN
    BY <1>1 DEF Rows
  <2> QED BY <1>3, <2>2, <2>3 DEF Reenter
<1> QED BY <1>2, <1>3 DEF Mark

LEMMA PersonRow ==
  ASSUME record \in Records, run \in Runs, NEW s \in Sessions, Person(s)
  PROVE  /\ \/ Row(s, record[s].status, TRUE, record[s].stamp, record[s].later)
            \/ Row(s, "closed", TRUE, record[s].stamp, record[s].later)
         /\ run' = [run EXCEPT ![s] = "none"] /\ Unlocked(s)
         /\ UNCHANGED <<launching, observing, answered, pass, faults, lapsed>>
<1>1. CASE Stop(s)
  <2>1. record' = [record EXCEPT ![s].stopped = TRUE]
    BY <1>1 DEF Stop
  <2>2. Row(s, record[s].status, TRUE, record[s].stamp, record[s].later)
    BY <2>1 DEF Row, Same, Records, Rows
  <2> QED BY <1>1, <2>2 DEF Stop
<1>2. CASE Close(s)
  <2>1. record' = [record EXCEPT ![s].status = "closed", ![s].stopped = TRUE]
    BY <1>2 DEF Close
  <2>2. Row(s, "closed", TRUE, record[s].stamp, record[s].later)
    BY <2>1 DEF Row, Same, Records, Rows
  <2> QED BY <1>2, <2>2 DEF Close
<1> QED BY <1>1, <1>2 DEF Person

LEMMA LookDoes ==
  ASSUME LaunchTypeOK, Look
  PROVE  \E s \in Sessions :
           /\ s \in pass.todo /\ Unobserved(s) /\ \A t \in pass.todo : Unobserved(t) => s <= t
           /\ pass' = [pass EXCEPT !.todo = {t \in @ : t > s}] /\ pass.at = "look"
           /\ run' = run /\ faults' = faults /\ answered' = answered /\ lapsed' = lapsed
           /\ \/ /\ Lives(s) /\ UNCHANGED <<launching, observing>>
                 /\ \/ /\ record[s].status = "closed" \/ record[s].stopped
                       /\ record' = record
                    \/ Row(s, "active", record[s].stopped, FALSE, FALSE)
              \/ /\ ~Lives(s) /\ launching' = launching \cup {s}
                 /\ observing' = observing \cup {s} /\ record' = record
<1>1. PICK s \in pass.todo :
        /\ Unobserved(s) /\ \A t \in pass.todo : Unobserved(t) => s <= t
        /\ LookOver(s) /\ pass' = [pass EXCEPT !.todo = {t \in @ : t > s}]
  BY DEF Look
<1>2. s \in Sessions /\ record \in Records
  BY DEF LaunchTypeOK, Flights, Records
<1>3. /\ pass.at = "look" /\ run' = run /\ faults' = faults
      /\ answered' = answered /\ lapsed' = lapsed
  BY DEF Look
<1>4. CASE ~Lives(s)
  BY <1>1, <1>2, <1>3, <1>4 DEF LookOver
<1>5. CASE Lives(s) /\ (record[s].status = "closed" \/ record[s].stopped)
  BY <1>1, <1>2, <1>3, <1>5 DEF LookOver
<1>6. CASE Lives(s) /\ ~(record[s].status = "closed" \/ record[s].stopped)
  <2> DEFINE r == [record[s] EXCEPT !.status = "active"]
  <2>1. record' = [record EXCEPT ![s] = Cleared(r)]
    BY <1>1, <1>6 DEF LookOver
  <2>2. r \in Rows /\ r.status = "active" /\ r.stopped = record[s].stopped
    BY <1>2 DEF Records, Rows
  <2> HIDE DEF r
  <2>3. Row(s, "active", record[s].stopped, FALSE, FALSE)
    BY <1>2, <2>1, <2>2, ClearRow
  <2> QED BY <1>1, <1>2, <1>3, <1>6, <2>3 DEF LookOver
<1> QED BY <1>4, <1>5, <1>6

-----------------------------------------------------------------------------
LEMMA RestingTyped == Resting \in Flights /\ Resting.at = "census"
BY DEF Resting, Flights, Blank, Unread, Prepared, Rows, Runtimes

LEMMA DrainTyped ==
  ASSUME LaunchTypeOK, Chosen, Drain
  PROVE  LaunchTypeOK' /\ Chosen'
<1>a. /\ record \in Records /\ run \in Runs /\ pass \in Flights
      /\ launching \subseteq Sessions /\ observing \subseteq Sessions /\ faults \in 0 .. MaxFaults
      /\ answered \subseteq Sessions /\ lapsed \subseteq Sessions
  BY DEF LaunchTypeOK, Records, Runs
<1>b. faults < MaxFaults => faults + 1 \in 0 .. MaxFaults
  BY <1>a, LaunchAssumption
<1>1. CASE Census
  <2>1. pass' \in Flights /\ pass'.at = "read"
    BY <1>a, <1>1 DEF Census, Flights, Runs
  <2> QED BY <1>a, <1>b, <1>1, <2>1 DEF Census, LaunchTypeOK, Chosen, Records, Runs
<1>2. CASE Read
  <2>1. pass' \in Flights /\ pass'.at = "look"
    BY <1>a, <1>2 DEF Read, Flights, Records
  <2> QED BY <1>a, <1>2, <2>1 DEF Read, LaunchTypeOK, Chosen, Records, Runs
<1>3. CASE Look
  <2>1. PICK s \in pass.todo : LookOver(s) /\ pass' = [pass EXCEPT !.todo = {t \in @ : t > s}]
    BY <1>3 DEF Look
  <2>2. s \in Sessions
    BY <1>a DEF Flights
  <2>3. pass' \in Flights /\ pass'.at = pass.at /\ pass'.next = pass.next
    BY <1>a, <2>1 DEF Flights
  <2>4. record' \in Records
    BY <1>3, LookDoes, <1>a DEF Row
  <2>5. launching' \subseteq Sessions
    BY <1>a, <2>1, <2>2 DEF LookOver
  <2>6. run' = run /\ faults' = faults /\ answered' = answered /\ lapsed' = lapsed
    BY <1>3 DEF Look
  <2>7. observing' \subseteq Sessions
    BY <1>a, <2>1, <2>2 DEF LookOver
  <2> QED BY <1>a, <2>3, <2>4, <2>5, <2>6, <2>7 DEF LaunchTypeOK, Chosen, Records, Runs
<1>4. CASE Admit
  <2>1. \/ pass' = Resting
        \/ \E s \in Sessions : pass' = [Resting EXCEPT !.at = "start", !.next = s]
    BY <1>4 DEF Admit, Candidates
  <2>2. pass' \in Flights /\ (pass'.at = "start" => pass'.next \in Sessions) /\ pass'.at \in {"census", "start"}
    BY <2>1, RestingTyped DEF Flights
  <2> QED BY <1>a, <1>4, <2>2 DEF Admit, LaunchTypeOK, Chosen, Records, Runs
<1>5. CASE Start
  <2>1. pass' = Resting \/ pass' = [pass EXCEPT !.at = "launch"]
    BY <1>5 DEF Start
  <2>2. pass' \in Flights
    BY <1>a, <2>1, RestingTyped DEF Flights
  <2>3. pass.next \in Sessions
    BY <1>5 DEF Start, Chosen
  <2>4. Chosen'
    BY <1>a, <2>1, <2>3, RestingTyped DEF Chosen, Flights
  <2>5. record' \in Records /\ launching' \subseteq Sessions /\ lapsed' \subseteq Sessions
    BY <1>a, <1>5, <2>3, StampRow DEF Start, Row
  <2> QED BY <1>a, <1>5, <2>2, <2>4, <2>5 DEF Start, LaunchTypeOK, Records, Runs
<1>6. CASE Launch
  <2>1. pass.next \in Sessions
    BY <1>6 DEF Launch, Chosen
  <2>2. pass' = Resting \/ pass' = [pass EXCEPT !.at = "publish"]
    BY <1>6 DEF Launch, LaunchFailed
  <2>3. pass' \in Flights
    BY <1>a, <2>2, RestingTyped DEF Flights
  <2>4. Chosen'
    BY <1>a, <2>1, <2>2, RestingTyped DEF Chosen, Flights
  <2>5. record' \in Records
    BY <1>a, <1>6, <2>1, ClearRow DEF Launch, LaunchFailed, Row, Records
  <2>6. run' \in Runs
    BY <1>a, <1>6, <2>1 DEF Launch, LaunchFailed, Runs, Runtimes
  <2>7. launching' \subseteq Sessions /\ faults' \in 0 .. MaxFaults /\ observing' = observing
        /\ answered' = answered /\ lapsed' = lapsed
    BY <1>a, <1>b, <1>6 DEF Launch, LaunchFailed
  <2> QED BY <1>a, <2>3, <2>4, <2>5, <2>6, <2>7 DEF LaunchTypeOK, Records, Runs
<1>7. CASE Publish
  <2>1. pass.next \in Sessions
    BY <1>7 DEF Publish, Chosen
  <2>2. record' \in Records /\ observing' \subseteq Sessions
    BY <1>a, <1>7, <2>1, PublishRow DEF Publish, Row
  <2> QED BY <1>a, <1>7, <2>2, RestingTyped DEF Publish, LaunchTypeOK, Chosen, Records, Runs
<1> QED BY <1>1, <1>2, <1>3, <1>4, <1>5, <1>6, <1>7 DEF Drain

LEMMA OthersTyped ==
  ASSUME LaunchTypeOK, Chosen, NEW s \in Sessions,
         Crash \/ Observe(s) \/ Agent(s) \/ Mark(s) \/ Person(s)
  PROVE  LaunchTypeOK' /\ Chosen'
<1>a. /\ record \in Records /\ run \in Runs /\ pass \in Flights
      /\ launching \subseteq Sessions /\ observing \subseteq Sessions /\ faults \in 0 .. MaxFaults
      /\ answered \subseteq Sessions /\ lapsed \subseteq Sessions
  BY DEF LaunchTypeOK, Records, Runs
<1>1. CASE Crash
  <2>1. faults' \in 0 .. MaxFaults
    BY <1>a, <1>1, LaunchAssumption DEF Crash
  <2> QED BY <1>a, <1>1, <2>1, RestingTyped DEF Crash, LaunchTypeOK, Chosen, Records, Runs
<1>2. CASE Ready(s)
  <2>1. record' \in Records
    BY <1>a, <1>2, ReadyRow DEF Row
  <2> QED BY <1>a, <1>2, <2>1 DEF Ready, Release, LaunchTypeOK, Chosen, Records, Runs
<1>3. CASE TimeOut(s)
  <2>1. record' \in Records
    BY <1>a, <1>3, TimeOutRow DEF Row
  <2> QED BY <1>a, <1>3, <2>1 DEF TimeOut, Release, LaunchTypeOK, Chosen, Records, Runs
<1>4. CASE Agent(s)
  <2>1. run' \in Runs
    BY <1>a, <1>4 DEF Agent, ComeUp, End, Runs, Runtimes
  <2> QED BY <1>a, <1>4, <2>1 DEF Agent, ComeUp, End, LaunchTypeOK, Chosen, Records, Runs
<1>5. CASE Mark(s)
  <2>1. record' \in Records
    BY <1>a, <1>5, MarkRow DEF Row
  <2> QED BY <1>a, <1>5, <2>1, MarkRow DEF LaunchTypeOK, Chosen, Records, Runs
<1>7. CASE SeeReady(s)
  BY <1>a, <1>7 DEF SeeReady, LaunchTypeOK, Chosen, Records, Runs
<1>8. CASE Unready(s)
  <2>1. record' \in Records
    BY <1>a, <1>8, UnreadyRow DEF Row
  <2>2. faults' \in 0 .. MaxFaults
    BY <1>a, <1>8, LaunchAssumption DEF Unready
  <2> QED BY <1>a, <1>8, <2>1, <2>2 DEF Unready, Release, LaunchTypeOK, Chosen, Records, Runs
<1>9. CASE Unrecorded(s)
  <2>1. faults' \in 0 .. MaxFaults
    BY <1>a, <1>9, LaunchAssumption DEF Unrecorded
  <2> QED BY <1>a, <1>9, <2>1 DEF Unrecorded, Release, LaunchTypeOK, Chosen, Records, Runs
<1>6. CASE Person(s)
  <2>1. record' \in Records /\ run' \in Runs
    BY <1>a, <1>6, PersonRow DEF Row, Runs, Runtimes
  <2> QED BY <1>a, <1>6, <2>1, PersonRow DEF LaunchTypeOK, Chosen, Records, Runs
<1> QED BY <1>1, <1>2, <1>3, <1>4, <1>5, <1>6, <1>7, <1>8, <1>9 DEF Observe

-----------------------------------------------------------------------------
(* What a step may not take from a row that keeps its boot. *)
Kept(s) == /\ record'[s].stopped = record[s].stopped
           /\ record'[s].status = "closed" => record[s].status = "closed"

(* What the others do to the boots: none begins, one whose slot is given   *)
(* back is none any more, and the rows the drain has locked stay.          *)
LEMMA OthersDo ==
  ASSUME LaunchTypeOK, Chosen, BootsRun, NEW s \in Sessions,
         Crash \/ Observe(s) \/ Agent(s) \/ Mark(s) \/ Person(s)
  PROVE  /\ \A t \in Boots' : t \in Boots /\ Kept(t)
         /\ pass'.at \in {"start", "launch", "publish", "look"} =>
              /\ pass' = pass
              /\ \A t \in Boots' : t \in launching => t \in launching'
              /\ launching' \subseteq launching
         /\ pass'.at \in {"launch", "publish"} =>
              /\ record'[pass.next] = record[pass.next]
              /\ pass.next \in launching => pass.next \in launching'
         /\ \A t \in Sessions : run[t] = "none" => run'[t] = "none"
<1>a. record \in Records /\ run \in Runs /\ pass \in Flights
  BY DEF LaunchTypeOK, Records, Runs
<1>b. pass.at \in {"launch", "publish"} => pass.next \in Sessions
  BY DEF Chosen
<1>c. \A t \in Sessions : record'[t] = record[t] => Kept(t)
  BY DEF Kept
<1>1. CASE Crash
  BY <1>a, <1>c, <1>1, RestingTyped DEF Crash, Boots, Pending
<1>2. CASE Ready(s) \/ Unready(s) \/ TimeOut(s)
  <2>1. /\ pass' = pass /\ run' = run /\ launching' = launching \ {s} /\ Unlocked(s) /\ lapsed' = lapsed
    BY <1>2 DEF Ready, Unready, TimeOut, Release
  <2>2. \/ /\ record[s].status = "closed" \/ (record[s].stamp /\ record[s].later)
           /\ record' = record
        \/ Same(s) /\ record'[s].stamp = FALSE
    BY <1>a, <1>2, ReadyRow, UnreadyRow, TimeOutRow DEF Row
  <2>3. \A t \in Boots' : t # s /\ t \in Boots /\ record'[t] = record[t]
    BY <2>1, <2>2 DEF Boots, Pending, BootsRun, Same
  <2>4. pass.at \in {"launch", "publish"} => record'[pass.next] = record[pass.next]
    BY <1>b, <2>1, <2>2 DEF Same, Unlocked
  <2>5. \A t \in Boots' : t \in Sessions
    BY DEF Boots, Pending
  <2> QED BY <1>b, <1>c, <2>1, <2>3, <2>4, <2>5 DEF Unlocked
<1>3. CASE SeeReady(s)
  BY <1>a, <1>c, <1>3 DEF SeeReady, Boots, Pending
<1>4. CASE Unrecorded(s)
  <2>1. /\ pass' = pass /\ record' = record /\ run' = run
        /\ launching' = launching \ {s} /\ lapsed' = lapsed \cup {s} /\ Unlocked(s)
    BY <1>4 DEF Unrecorded, Release
  <2>2. \A t \in Boots' : t \in Sessions /\ t # s /\ t \in Boots
    BY <2>1 DEF Boots, Pending
  <2> QED BY <1>b, <1>c, <2>1, <2>2 DEF Unlocked
<1>5. CASE Agent(s)
  <2>1. /\ pass' = pass /\ record' = record /\ launching' = launching /\ lapsed' = lapsed
        /\ \A t \in Sessions : run[t] = "none" => run'[t] = "none"
    BY <1>a, <1>5 DEF Agent, ComeUp, End, Runs
  <2> QED BY <1>c, <2>1 DEF Boots, Pending
<1>6. CASE Mark(s)
  <2>1. pass' = pass /\ run' = run /\ launching' = launching /\ Unlocked(s) /\ lapsed' = lapsed
    BY <1>a, <1>6, MarkRow
  <2>2. /\ Same(s) /\ record'[s].status # "closed" /\ record'[s].stopped = record[s].stopped
        /\ record'[s].stamp = record[s].stamp /\ (record[s].later => record'[s].later)
    BY <1>a, <1>6, MarkRow DEF Row
  <2>3. \A t \in Boots' : t \in Boots
    BY <2>1, <2>2 DEF Boots, Pending, Same
  <2>4. \A t \in Sessions : Kept(t)
    BY <2>2 DEF Same, Kept
  <2>5. \A t \in Boots' : t \in Sessions
    BY DEF Boots, Pending
  <2> QED BY <1>b, <2>1, <2>2, <2>3, <2>4, <2>5 DEF Same, Unlocked
<1>7. CASE Person(s)
  <2>1. /\ pass' = pass /\ launching' = launching /\ Unlocked(s) /\ lapsed' = lapsed
        /\ run' = [run EXCEPT ![s] = "none"] /\ Same(s)
    BY <1>a, <1>7, PersonRow DEF Row
  <2>2. run'[s] = "none" /\ \A t \in Sessions \ {s} : run'[t] = run[t]
    BY <1>a, <2>1 DEF Runs
  <2>3. \A t \in Boots' : t \in Sessions /\ t # s /\ t \in Boots /\ record'[t] = record[t]
    BY <2>1, <2>2 DEF Boots, Pending, Same
  <2> QED BY <1>b, <1>c, <2>1, <2>2, <2>3 DEF Same, Unlocked
<1> QED BY <1>1, <1>2, <1>3, <1>4, <1>5, <1>6, <1>7 DEF Observe

(* The steps of a pass that leave rows and runtimes alone. *)
Quiet == /\ UNCHANGED <<record, run, launching, observing, lapsed>> /\ Boots' = Boots

LEMMA QuietSteps ==
  ASSUME Census \/ Read \/ Admit
  PROVE  Quiet
BY DEF Census, Read, Admit, Quiet, Boots, Pending

LEMMA LookShrinks ==
  ASSUME LaunchTypeOK, BootsRun, Look
  PROVE  \E s \in Sessions :
           /\ Unobserved(s) /\ \A t \in pass.todo : Unobserved(t) => s <= t
           /\ pass'.at = "look" /\ pass'.rows = pass.rows /\ pass'.todo = {t \in pass.todo : t > s}
           /\ pass.at = "look" /\ run' = run
           /\ launching \subseteq launching'
           /\ \A t \in Boots' : /\ t \in Boots /\ Kept(t)
                                /\ t = s => t \in launching'
<1>1. PICK s \in Sessions :
        /\ s \in pass.todo /\ Unobserved(s) /\ \A t \in pass.todo : Unobserved(t) => s <= t
        /\ pass' = [pass EXCEPT !.todo = {t \in @ : t > s}] /\ pass.at = "look"
        /\ run' = run /\ faults' = faults /\ answered' = answered /\ lapsed' = lapsed
        /\ \/ /\ Lives(s) /\ UNCHANGED <<launching, observing>>
              /\ \/ /\ record[s].status = "closed" \/ record[s].stopped
                    /\ record' = record
                 \/ Row(s, "active", record[s].stopped, FALSE, FALSE)
           \/ /\ ~Lives(s) /\ launching' = launching \cup {s}
              /\ observing' = observing \cup {s} /\ record' = record
  BY LookDoes
<1>2. launching \subseteq launching'
  BY <1>1
<1>3. \A t \in Boots' : t \in Boots /\ record'[t] = record[t] /\ (t = s => t \in launching')
  <2>1. CASE launching' = launching \cup {s} /\ record' = record
    BY <1>1, <2>1 DEF Boots, Pending
  <2>2. CASE (record[s].status = "closed" \/ record[s].stopped) /\ record' = record
    BY <1>1, <2>2 DEF Boots, Pending, BootsRun
  <2>3. CASE Row(s, "active", record[s].stopped, FALSE, FALSE)
    BY <1>1, <2>3 DEF Boots, Pending, Row, Same
  <2> QED BY <1>1, <2>1, <2>2, <2>3
<1>4. pass'.at = "look" /\ pass'.rows = pass.rows /\ pass'.todo = {t \in pass.todo : t > s}
  BY <1>1 DEF LaunchTypeOK, Flights
<1>5. \A t \in Boots' : Kept(t)
  BY <1>3 DEF Kept
<1> QED BY <1>1, <1>2, <1>3, <1>4, <1>5

(* The three steps that lead to a new boot. *)
Up(row) == ~row.stopped /\ row.status # "closed"

LEMMA LaunchGrows ==
  ASSUME LaunchTypeOK, Chosen, Fenced, BootsHeld, Start \/ Launch \/ Publish
  PROVE  /\ pass.next \in Sessions
         /\ \A t \in Boots' :
              \/ t \in Boots /\ t # pass.next /\ Kept(t)
              \/ t \in Boots /\ record' = record
              \/ t = pass.next /\ Up(record'[t]) /\ t \in launching'
         /\ \/ /\ pass' = Resting /\ launching' \subseteq launching
               /\ Boots' \subseteq Boots
            \/ /\ pass.at = "publish" /\ pass' = Resting /\ launching' = launching
            \/ /\ pass.at = "start" /\ pass'.at = "launch" /\ pass'.next = pass.next
               /\ launching' = launching \cup {pass.next}
               /\ Eligible(record'[pass.next]) /\ record'[pass.next].stamp /\ ~record'[pass.next].later
            \/ /\ pass.at = "launch" /\ pass'.at = "publish" /\ pass'.next = pass.next
               /\ launching' = launching /\ record' = record
         /\ \A t \in Sessions : run[t] = "none" /\ record[t].stopped => run'[t] = "none"
<1>a. record \in Records /\ run \in Runs /\ pass \in Flights
  BY DEF LaunchTypeOK, Records, Runs
<1>b. pass.next \in Sessions
  BY DEF Chosen, Start, Launch, Publish
<1>1. CASE Start
  <2>1. CASE /\ pass' = Resting /\ UNCHANGED <<record, launching, lapsed>>
    BY <1>1, <1>b, <2>1 DEF Start, Boots, Pending
  <2>2. CASE /\ Eligible(record[pass.next]) /\ launching' = launching \cup {pass.next}
             /\ record' = [record EXCEPT ![pass.next].stamp = TRUE, ![pass.next].later = FALSE]
             /\ pass' = [pass EXCEPT !.at = "launch"] /\ lapsed' = lapsed \ {pass.next}
    <3>1. Row(pass.next, record[pass.next].status, record[pass.next].stopped, TRUE, FALSE)
      BY <1>a, <1>b, <2>2, StampRow
    <3>2. pass'.at = "launch" /\ pass'.next = pass.next /\ pass.at = "start" /\ run' = run
      BY <1>a, <1>1, <2>2 DEF Start, Flights
    <3>3. Eligible(record'[pass.next]) /\ record'[pass.next].stamp /\ ~record'[pass.next].later
      BY <2>2, <3>1 DEF Eligible, Row
    <3>4. \A t \in Boots' :
            \/ t \in Boots /\ t # pass.next /\ Kept(t)
            \/ t = pass.next /\ Up(record'[t]) /\ t \in launching'
      BY <2>2, <3>1, <3>2, <3>3 DEF Boots, Pending, Row, Same, Eligible, Kept, Up
    <3> QED BY <1>b, <2>2, <3>2, <3>3, <3>4
  <2> QED BY <1>1, <2>1, <2>2 DEF Start
<1>2. CASE Launch
  <2>1. CASE LaunchFailed
    <3>0. record' = [record EXCEPT ![pass.next] = Cleared(record[pass.next])]
          /\ record[pass.next] \in Rows
      BY <1>a, <1>b, <2>1 DEF LaunchFailed, Records
    <3>1. Row(pass.next, record[pass.next].status, record[pass.next].stopped, FALSE, FALSE)
      BY <1>a, <1>b, <3>0, ClearRow
    <3>4. lapsed' = lapsed /\ pass.at = "launch"
      BY <1>2 DEF Launch
    <3>2. \A t \in Boots' : t \in Boots /\ t # pass.next /\ Kept(t)
      BY <2>1, <3>1, <3>4 DEF LaunchFailed, Boots, Pending, Row, Same, Kept
    <3> QED BY <1>b, <2>1, <3>2 DEF LaunchFailed
  <2>2. CASE /\ run[pass.next] = "none" /\ run' = [run EXCEPT ![pass.next] = "booting"]
             /\ pass' = [pass EXCEPT !.at = "publish"]
             /\ UNCHANGED <<record, launching, faults>>
    <3>1. pass'.at = "publish" /\ pass'.next = pass.next /\ pass.at = "launch" /\ lapsed' = lapsed
      BY <1>a, <1>2, <2>2 DEF Launch, Flights
    <3>2. Eligible(record[pass.next]) /\ ~record[pass.next].later /\ pass.next \in launching
      BY <3>1 DEF Fenced, BootsHeld
    <3>3. \A t \in Sessions \ {pass.next} : run'[t] = run[t]
      BY <1>a, <2>2 DEF Runs
    <3>4. \A t \in Boots' : (t \in Boots /\ record' = record) \/ t = pass.next
      BY <2>2, <3>1, <3>3 DEF Boots, Pending
    <3> QED BY <1>b, <2>2, <3>1, <3>2, <3>3, <3>4 DEF Eligible, Up
  <2> QED BY <1>2, <2>1, <2>2 DEF Launch
<1>3. CASE Publish
  <2>1. pass.at = "publish" /\ pass' = Resting /\ run' = run /\ launching' = launching
        /\ lapsed' = lapsed
    BY <1>3 DEF Publish
  <2>2. Row(pass.next, "active", FALSE, record[pass.next].stamp, record[pass.next].later)
    BY <1>a, <1>b, <1>3, PublishRow DEF Publish
  <2>3. ~record[pass.next].later /\ pass.next \in launching
    BY <2>1 DEF Fenced, BootsHeld
  <2>4. \A t \in Boots' :
          \/ t \in Boots /\ t # pass.next /\ Kept(t)
          \/ t = pass.next /\ Up(record'[t]) /\ t \in launching'
    BY <2>1, <2>2, <2>3 DEF Boots, Pending, Row, Same, Kept, Up
  <2> QED BY <1>b, <2>1, <2>4
<1> QED BY <1>1, <1>2, <1>3

-----------------------------------------------------------------------------
Step == Drain \/ Crash \/ \E s \in Sessions : Observe(s) \/ Agent(s) \/ Mark(s) \/ Person(s)

LEMMA TypeStep ==
  ASSUME LaunchTypeOK, Chosen, Step
  PROVE  LaunchTypeOK' /\ Chosen'
<1>1. CASE Crash
  <2>1. pass' = Resting /\ launching' = {} /\ observing' = {} /\ record' = record /\ run' = run
        /\ answered' = {} /\ lapsed' = lapsed /\ faults' \in 0 .. MaxFaults
    BY <1>1, LaunchAssumption DEF Crash, LaunchTypeOK
  <2> QED BY <2>1, RestingTyped DEF LaunchTypeOK, Chosen
<1> QED BY <1>1, DrainTyped, OthersTyped DEF Step

LEMMA OtherStep ==
  ASSUME LaunchTypeOK, Chosen, Fenced, BootsRun, BootsHeld, Counted, BootsWithinCap,
         LaunchTypeOK', NEW s \in Sessions,
         Crash \/ Observe(s) \/ Agent(s) \/ Mark(s) \/ Person(s)
  PROVE  Fenced' /\ BootsRun' /\ BootsHeld' /\ Counted' /\ Boots' \subseteq Boots
<1>1. /\ \A t \in Boots' : t \in Boots /\ Kept(t)
      /\ pass'.at \in {"start", "launch", "publish", "look"} =>
           /\ pass' = pass
           /\ \A t \in Boots' : t \in launching => t \in launching'
           /\ launching' \subseteq launching
      /\ pass'.at \in {"launch", "publish"} =>
           /\ record'[pass.next] = record[pass.next]
           /\ pass.next \in launching => pass.next \in launching'
  BY OthersDo
<1>2. Fenced'
  BY <1>1 DEF Fenced, Eligible
<1>3. BootsRun'
  BY <1>1 DEF BootsRun, Kept
<1>4. BootsHeld'
  BY <1>1 DEF BootsHeld, Found
<1>5. Counted'
  <2>1. IsFiniteSet(launching)
    <3>1. IsFiniteSet(Sessions) /\ launching \in SUBSET Sessions
      BY FS_Interval, LaunchAssumption DEF LaunchTypeOK, Sessions
    <3> QED BY <3>1, FS_Subset
  <2>2. /\ launching' \subseteq launching => Cardinality(launching') <= Cardinality(launching)
        /\ launching' \subseteq launching => Cardinality(launching') \in Nat
        /\ Cardinality(launching) \in Nat
    BY <2>1, FS_Subset, FS_CardinalityType
  <2> QED BY <1>1, <2>2, LaunchAssumption DEF Counted
<1> QED BY <1>1, <1>2, <1>3, <1>4, <1>5

LEMMA PassStep ==
  ASSUME LaunchTypeOK, Chosen, Fenced, BootsRun, BootsHeld, Counted, Drain
  PROVE  /\ Fenced' /\ BootsRun' /\ BootsHeld' /\ Counted'
         /\ Boots' \subseteq Boots \/ (Boots' \subseteq launching' /\ Cardinality(launching') <= Cap)
<1>a. /\ record \in Records /\ run \in Runs /\ pass \in Flights /\ launching \subseteq Sessions
  BY DEF LaunchTypeOK, Records, Runs
<1>b. /\ \A x \in SUBSET Sessions : IsFiniteSet(x) /\ Cardinality(x) \in Nat
      /\ \A x \in SUBSET Sessions : \A y \in SUBSET x : Cardinality(y) <= Cardinality(x)
  <2>1. IsFiniteSet(Sessions)
    BY FS_Interval, LaunchAssumption DEF Sessions
  <2> QED BY <2>1, FS_Subset, FS_CardinalityType
<1>1. CASE Census \/ Read
  <2>1. Quiet
    BY <1>1, QuietSteps
  <2>2. BootsRun' /\ Boots' \subseteq Boots
    BY <2>1 DEF Quiet, BootsRun
  <2>3. CASE Census
    <3>1. pass'.at = "read"
      BY <1>a, <2>3 DEF Census, Flights
    <3> QED BY <2>2, <3>1 DEF Fenced, BootsHeld, Counted
  <2>4. CASE Read
    <3>1. pass'.at = "look" /\ pass'.rows = record /\ pass'.todo = Sessions
      BY <1>a, <2>4 DEF Read, Flights
    <3>2. \A t \in Boots' : Found(t)'
      BY <2>1, <3>1 DEF Quiet, Found, Boots, Pending, BootsRun
    <3> QED BY <2>2, <3>1, <3>2 DEF Fenced, BootsHeld, Counted
  <2> QED BY <1>1, <2>3, <2>4
<1>2. CASE Look
  <2>1. PICK s \in Sessions :
          /\ Unobserved(s) /\ \A t \in pass.todo : Unobserved(t) => s <= t
          /\ pass'.at = "look" /\ pass'.rows = pass.rows /\ pass'.todo = {t \in pass.todo : t > s}
          /\ pass.at = "look" /\ run' = run
          /\ launching \subseteq launching'
          /\ \A t \in Boots' : /\ t \in Boots /\ Kept(t)
                               /\ t = s => t \in launching'
    BY <1>2, LookShrinks
  <2>2. \A t \in Boots' : t \in Boots /\ Kept(t) /\ (t = s => t \in launching')
    BY <2>1
  <2>3. \A t \in Boots' : t \in launching' \/ Found(t)'
    <3> SUFFICES ASSUME NEW t \in Boots', t \notin launching' PROVE Found(t)'
      OBVIOUS
    <3>1. t \in Boots /\ t # s /\ t \notin launching
      BY <2>1, <2>2
    <3>2. Found(t)
      BY <2>1, <3>1 DEF BootsHeld
    <3>3. Unobserved(t)
      BY <3>1, <3>2 DEF Found, Unobserved
    <3>4. s <= t /\ s \in Nat /\ t \in Nat
      BY <2>1, <3>1, <3>2, <3>3, LaunchAssumption DEF Found, Sessions, Boots, Pending
    <3> QED BY <2>1, <3>1, <3>2, <3>4 DEF Found
  <2>4. BootsRun' /\ Boots' \subseteq Boots
    BY <2>2 DEF BootsRun, Kept
  <2> QED BY <2>1, <2>3, <2>4 DEF Fenced, BootsHeld, Counted
<1>3. CASE Admit
  <2>1. Quiet /\ pass.at = "look" /\ ~ \E s \in pass.todo : Unobserved(s)
    BY <1>3, QuietSteps DEF Admit
  <2>2. \A t \in Boots : t \in launching
    BY <2>1 DEF BootsHeld, Found, Unobserved
  <2>3. \/ pass' = Resting
        \/ /\ pass'.at = "start"
           /\ \E reserved \in SUBSET Doubtful : Cardinality(Slots(reserved)) < Cap
    BY <1>3, RestingTyped DEF Admit, Flights
  <2>4. \A reserved \in SUBSET Doubtful :
          Slots(reserved) \in SUBSET Sessions /\ launching \in SUBSET Slots(reserved)
    BY <1>a DEF Slots, Doubtful
  <2>5. pass'.at = "start" => Cardinality(launching) < Cap
    BY <1>a, <1>b, <2>3, <2>4, RestingTyped, LaunchAssumption
  <2>6. pass'.at \in {"census", "start"}
    BY <2>3, RestingTyped
  <2>7. BootsRun' /\ Boots' \subseteq Boots
    BY <2>1 DEF Quiet, BootsRun
  <2> QED BY <2>1, <2>2, <2>5, <2>6, <2>7 DEF Fenced, BootsHeld, Counted, Quiet
<1>4. CASE Start \/ Launch \/ Publish
  <2>1. /\ pass.next \in Sessions
        /\ \A t \in Boots' :
             \/ t \in Boots /\ t # pass.next /\ Kept(t)
             \/ t \in Boots /\ record' = record
             \/ t = pass.next /\ Up(record'[t]) /\ t \in launching'
    BY <1>4, LaunchGrows
  <2>2. \/ /\ pass' = Resting /\ launching' \subseteq launching
           /\ Boots' \subseteq Boots
        \/ /\ pass.at = "publish" /\ pass' = Resting /\ launching' = launching
        \/ /\ pass.at = "start" /\ pass'.at = "launch" /\ pass'.next = pass.next
           /\ launching' = launching \cup {pass.next}
           /\ Eligible(record'[pass.next]) /\ record'[pass.next].stamp /\ ~record'[pass.next].later
        \/ /\ pass.at = "launch" /\ pass'.at = "publish" /\ pass'.next = pass.next
           /\ launching' = launching /\ record' = record
    BY <1>4, LaunchGrows
  <2>3. BootsRun'
    BY <2>1 DEF BootsRun, Kept, Up
  <2>4. Boots \subseteq launching
    BY <1>4 DEF Start, Launch, Publish, BootsHeld
  <2>5. Fenced'
    BY <2>2, RestingTyped DEF Fenced
  <2>6. CASE /\ pass' = Resting /\ Boots' \subseteq Boots
    BY <2>3, <2>5, <2>6, RestingTyped DEF BootsHeld, Counted
  <2>7. CASE /\ pass.at = "publish" /\ pass' = Resting /\ launching' = launching
    <3>1. Boots' \subseteq launching' /\ Cardinality(launching') <= Cap
      BY <2>1, <2>4, <2>7 DEF Counted
    <3> QED BY <2>3, <2>5, <2>7, <3>1, RestingTyped DEF BootsHeld, Counted
  <2>8. CASE /\ pass.at = "start" /\ pass'.at = "launch" /\ pass'.next = pass.next
             /\ launching' = launching \cup {pass.next}
    <3>1. Boots' \subseteq launching' /\ pass.next \in launching'
      BY <2>1, <2>4, <2>8
    <3>2. Cardinality(launching') <= Cap
      <4>1. Cardinality(launching) < Cap /\ Cardinality(launching) \in Nat /\ IsFiniteSet(launching)
        BY <1>a, <1>b, <2>8 DEF Counted
      <4>2. Cardinality(launching \cup {pass.next}) = IF pass.next \in launching
                THEN Cardinality(launching) ELSE Cardinality(launching) + 1
        BY <4>1, FS_AddElement
      <4>3. Cardinality(launching') \in Nat
        BY <1>a, <1>b, <2>1, <2>8
      <4> QED BY <2>8, <4>1, <4>2, <4>3, LaunchAssumption
    <3> QED BY <2>3, <2>5, <2>8, <3>1, <3>2 DEF BootsHeld, Counted
  <2>9. CASE /\ pass.at = "launch" /\ pass'.at = "publish" /\ pass'.next = pass.next
             /\ launching' = launching /\ record' = record
    <3>1. Boots' \subseteq launching' /\ pass.next \in launching'
      BY <2>1, <2>4, <2>9 DEF BootsHeld
    <3>2. Cardinality(launching') <= Cap
      BY <2>9 DEF Counted
    <3> QED BY <2>3, <2>5, <2>9, <3>1, <3>2 DEF BootsHeld, Counted
  <2> QED BY <2>2, <2>6, <2>7, <2>8, <2>9
<1> QED BY <1>1, <1>2, <1>3, <1>4 DEF Drain

LEMMA CapStep ==
  ASSUME LaunchTypeOK, LaunchTypeOK', BootsWithinCap,
         Boots' \subseteq Boots \/ (Boots' \subseteq launching' /\ Cardinality(launching') <= Cap)
  PROVE  BootsWithinCap'
<1>1. /\ \A x \in SUBSET Sessions : IsFiniteSet(x) /\ Cardinality(x) \in Nat
      /\ \A x \in SUBSET Sessions : \A y \in SUBSET x : Cardinality(y) <= Cardinality(x)
  <2>1. IsFiniteSet(Sessions)
    BY FS_Interval, LaunchAssumption DEF Sessions
  <2> QED BY <2>1, FS_Subset, FS_CardinalityType
<1>2. Boots \in SUBSET Sessions /\ Boots' \in SUBSET Sessions /\ launching' \in SUBSET Sessions
  BY DEF Boots, Pending, LaunchTypeOK
<1>3. Cardinality(Boots) <= Cap
  BY DEF BootsWithinCap, Boots
<1>4. Cardinality(Boots') <= Cap
  BY <1>1, <1>2, <1>3, LaunchAssumption
<1> QED BY <1>4 DEF BootsWithinCap, Boots

LEMMA InitHolds == Init => IInv
<1> SUFFICES ASSUME Init PROVE IInv
  OBVIOUS
<1>1. LaunchTypeOK
  BY RestingTyped, LaunchAssumption DEF Init, LaunchTypeOK, Blank, Prepared, Rows, Runtimes
<1>2. Boots = {} /\ pass.at = "census"
  BY RestingTyped DEF Init, Boots, Pending, Blank
<1>3. Cardinality(Boots) <= Cap
  BY <1>2, FS_EmptySet, LaunchAssumption
<1>4. BootsWithinCap
  BY <1>3 DEF BootsWithinCap, Boots
<1> QED BY <1>1, <1>2, <1>4 DEF IInv, Chosen, Fenced, BootsRun, BootsHeld, Counted

LEMMA Inductive == IInv /\ [Next]_vars => IInv'
<1> SUFFICES ASSUME IInv, [Next]_vars PROVE IInv'
  OBVIOUS
<1>a. /\ LaunchTypeOK /\ Chosen /\ Fenced /\ BootsRun /\ BootsHeld /\ Counted /\ BootsWithinCap
  BY DEF IInv
<1>1. CASE UNCHANGED vars
  <2>1. /\ record' = record /\ run' = run /\ launching' = launching /\ observing' = observing
        /\ pass' = pass /\ faults' = faults /\ answered' = answered /\ lapsed' = lapsed
    BY <1>1 DEF vars
  <2>2. LaunchTypeOK' /\ Chosen' /\ Fenced' /\ Counted'
    BY <1>a, <2>1 DEF LaunchTypeOK, Chosen, Fenced, Counted, Eligible
  <2>3. BootsRun' /\ BootsHeld' /\ BootsWithinCap'
    BY <1>a, <2>1 DEF BootsRun, BootsHeld, Boots, Pending, Found, BootsWithinCap
  <2> QED BY <2>2, <2>3 DEF IInv
<1>2. CASE Step
  <2>1. LaunchTypeOK' /\ Chosen'
    BY <1>a, <1>2, TypeStep
  <2>2. CASE Drain
    BY <1>a, <2>1, <2>2, PassStep, CapStep DEF IInv
  <2>3. CASE \E s \in Sessions : Crash \/ Observe(s) \/ Agent(s) \/ Mark(s) \/ Person(s)
    BY <1>a, <2>1, <2>3, OtherStep, CapStep DEF IInv
  <2>4. CASE Crash
    <3>1. pass'.at = "census" /\ Boots' = Boots /\ record' = record
      BY <2>4, RestingTyped DEF Crash, Boots, Pending
    <3>2. Fenced' /\ BootsRun' /\ BootsHeld' /\ Counted'
      BY <1>a, <3>1 DEF Fenced, BootsRun, BootsHeld, Counted
    <3> QED BY <1>a, <2>1, <3>1, <3>2, CapStep DEF IInv
  <2> QED BY <1>2, <2>2, <2>3, <2>4 DEF Step
<1> QED BY <1>1, <1>2 DEF Next, Step

LEMMA Invariant == Spec => []IInv
BY InitHolds, Inductive, PTL DEF Spec

(* The shape of the rows and of what the backend remembers                 *)
(* (drainQueueUnlocked, startQueuedUnlocked, observeQueuedLaunchReadiness). *)
THEOREM LaunchTypeCorrect == Spec => []LaunchTypeOK
<1>1. IInv => LaunchTypeOK
  BY DEF IInv
<1> QED BY <1>1, Invariant, PTL

(* However crashes, stops, closes, declarations and timeouts fall between  *)
(* the census and the launch, the drainer never has more boots under way   *)
(* than sessions.maxActive.                                                *)
THEOREM CapOnBoots == Spec => []BootsWithinCap
<1>1. IInv => BootsWithinCap
  BY DEF IInv
<1> QED BY <1>1, Invariant, PTL

(* What the drainer has chosen has no slot yet, so the launch takes one and *)
(* the observer that follows is its only one. *)
Free == pass.at = "start" => pass.next \notin launching

LEMMA SlotsStep ==
  ASSUME LaunchTypeOK, Chosen, SlotsKept, Free, Step
  PROVE  SlotsKept' /\ Free'
<1>a. pass \in Flights /\ launching \subseteq Sessions /\ observing \subseteq Sessions
  BY DEF LaunchTypeOK
<1>1. CASE Crash
  <2>1. launching' = {} /\ observing' = {} /\ pass'.at = "census"
    BY <1>1, RestingTyped DEF Crash
  <2> QED BY <2>1 DEF SlotsKept, Free, Underway
<1>2. CASE Census \/ Read
  <2>1. launching' = launching /\ observing' = observing /\ pass'.at \in {"read", "look"}
    BY <1>a, <1>2 DEF Census, Read, Flights
  <2>2. Underway = {}
    BY <1>2 DEF Census, Read, Underway
  <2> QED BY <2>1, <2>2 DEF SlotsKept, Free, Underway
<1>3. CASE Look
  <2>1. PICK s \in Sessions :
          /\ pass'.at = "look" /\ pass.at = "look"
          /\ \/ launching' = launching /\ observing' = observing
             \/ launching' = launching \cup {s} /\ observing' = observing \cup {s}
    <3>1. PICK s \in Sessions :
            /\ pass' = [pass EXCEPT !.todo = {t \in @ : t > s}] /\ pass.at = "look"
            /\ \/ UNCHANGED <<launching, observing>>
               \/ launching' = launching \cup {s} /\ observing' = observing \cup {s}
      BY <1>3, LookDoes
    <3>2. pass'.at = "look"
      BY <1>a, <3>1 DEF Flights
    <3> QED BY <3>1, <3>2
  <2> QED BY <2>1 DEF SlotsKept, Free, Underway
<1>4. CASE Admit
  <2>1. launching' = launching /\ observing' = observing /\ pass.at = "look"
    BY <1>4 DEF Admit
  <2>2. \/ pass' = Resting
        \/ /\ pass'.at = "start"
           /\ \E reserved \in SUBSET Doubtful : pass'.next \in Candidates(reserved)
    BY <1>4 DEF Admit, Resting
  <2>3. pass'.at \in {"census", "start"} /\ (pass'.at = "start" => pass'.next \notin launching)
    BY <2>2, RestingTyped DEF Candidates
  <2> QED BY <2>1, <2>3 DEF SlotsKept, Free, Underway
<1>5. CASE Start
  <2>1. CASE pass' = Resting /\ launching' = launching
    BY <1>5, <2>1, RestingTyped DEF Start, SlotsKept, Free, Underway
  <2>2. CASE launching' = launching \cup {pass.next} /\ pass' = [pass EXCEPT !.at = "launch"]
    <3>1. pass'.at = "launch" /\ pass'.next = pass.next /\ observing' = observing
      BY <1>a, <1>5, <2>2 DEF Start, Flights
    <3> QED BY <1>5, <2>2, <3>1 DEF Start, SlotsKept, Free, Underway
  <2> QED BY <1>5, <2>1, <2>2 DEF Start
<1>6. CASE Launch
  <2>1. observing' = observing /\ pass.at = "launch"
    BY <1>6 DEF Launch
  <2>2. CASE LaunchFailed
    BY <2>1, <2>2, RestingTyped DEF LaunchFailed, SlotsKept, Free, Underway
  <2>3. CASE pass' = [pass EXCEPT !.at = "publish"] /\ launching' = launching
    <3>1. pass'.at = "publish" /\ pass'.next = pass.next
      BY <1>a, <2>3 DEF Flights
    <3> QED BY <2>1, <2>3, <3>1 DEF SlotsKept, Free, Underway
  <2> QED BY <1>6, <2>2, <2>3 DEF Launch
<1>7. CASE Publish
  <2>1. /\ observing' = observing \cup {pass.next} /\ launching' = launching
        /\ pass.at = "publish" /\ pass'.at = "census"
    BY <1>7, RestingTyped DEF Publish
  <2> QED BY <2>1 DEF SlotsKept, Free, Underway
<1>8. ASSUME NEW s \in Sessions, Observe(s) PROVE SlotsKept' /\ Free'
  <2>1. CASE SeeReady(s)
    BY <2>1 DEF SeeReady, SlotsKept, Free, Underway
  <2>2. CASE Ready(s) \/ Unready(s) \/ TimeOut(s) \/ Unrecorded(s)
    <3>1. /\ launching' = launching \ {s} /\ observing' = observing \ {s} /\ pass' = pass
          /\ s \notin Underway
      BY <2>2 DEF Ready, Unready, TimeOut, Unrecorded, Release, Unlocked, Underway
    <3> QED BY <3>1 DEF SlotsKept, Free, Underway
  <2> QED BY <1>8, <2>1, <2>2 DEF Observe
<1>9. ASSUME NEW s \in Sessions, Agent(s) \/ Mark(s) \/ Person(s) PROVE SlotsKept' /\ Free'
  <2>1. launching' = launching /\ observing' = observing /\ pass' = pass
    BY <1>9 DEF Agent, ComeUp, End, Mark, Declare, Reenter, Person, Stop, Close
  <2> QED BY <2>1 DEF SlotsKept, Free, Underway
<1> QED BY <1>1, <1>2, <1>3, <1>4, <1>5, <1>6, <1>7, <1>8, <1>9 DEF Step, Drain

(* A slot that was taken has one holder, the launch or an observer, for any *)
(* number of sessions and of faults (startQueuedUnlocked's finally,        *)
(* observeQueuedLaunchReadiness's finally): none leaks.                    *)
THEOREM NoSlotLeaks == Spec => []SlotsKept
<1>1. Init => SlotsKept /\ Free
  BY RestingTyped DEF Init, SlotsKept, Free, Underway
<1>2. IInv /\ SlotsKept /\ Free /\ [Next]_vars => SlotsKept' /\ Free'
  <2> SUFFICES ASSUME IInv, SlotsKept, Free, [Next]_vars PROVE SlotsKept' /\ Free'
    OBVIOUS
  <2>1. CASE UNCHANGED vars
    BY <2>1 DEF vars, SlotsKept, Free, Underway
  <2> QED BY <2>1, SlotsStep DEF Next, Step, IInv
<1> QED BY <1>1, <1>2, Invariant, PTL DEF Spec

(* A stop is an admission fence: no step of a drain that was under way     *)
(* gives a stopped session a runtime (startQueuedUnlocked).                *)
THEOREM StopHolds == Spec => StaysDown
<1> DEFINE Down == \A s \in Sessions : record[s].stopped /\ run[s] = "none" => run'[s] = "none"
<1>1. IInv /\ [Next]_vars => [Down]_vars
  <2> SUFFICES ASSUME IInv, Step PROVE Down
    BY DEF Next, Step
  <2>1. CASE \E s \in Sessions : Crash \/ Observe(s) \/ Agent(s) \/ Mark(s) \/ Person(s)
    BY <2>1, OthersDo DEF IInv
  <2>2. CASE Crash
    BY <2>2 DEF Crash
  <2>3. CASE Census \/ Read \/ Admit
    BY <2>3, QuietSteps DEF Quiet
  <2>4. CASE Look
    BY <2>4 DEF Look
  <2>5. CASE Start \/ Launch \/ Publish
    BY <2>5, LaunchGrows DEF IInv
  <2> QED BY <2>1, <2>2, <2>3, <2>4, <2>5 DEF Step, Drain
<1>2. Spec => [][Down]_vars
  BY <1>1, Invariant, PTL DEF Spec
<1> QED BY <1>2 DEF StaysDown
=============================================================================
