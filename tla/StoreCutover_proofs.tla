-------------------------- MODULE StoreCutover_proofs --------------------------
(***************************************************************************)
(* For any number of processes, directories and faults: no piece of the    *)
(* legacy tree is lost, a database never stands alone, and an installed    *)
(* one only grows.                                                         *)
(*                                                                         *)
(* The argument keeps two kinds of project apart: one in which nothing     *)
(* legacy was found, where one process may own and take back the store it  *)
(* made, and one in which nobody ever may. In the second what is in the    *)
(* store stays there, so a piece found safe before it is unlinked is safe  *)
(* for ever, whichever importer put it there.                              *)
(*                                                                         *)
(* Resumable names the states no access can go on from; the proof shows    *)
(* that the steps of an import lead to no other.                           *)
(***************************************************************************)
EXTENDS StoreCutover, TLAPS

(* A project in which nothing legacy was found has one process; any other  *)
(* one is never fresh, so nobody owns its store or takes it back.          *)
Fresh ==
  /\ legacy = Nothing /\ tree = Nothing
  /\ \E p \in Procs : \A q \in Procs \ {p} : proc[q].pc = "down"
Shared ==
  /\ marker \/ legacy # Nothing
  /\ marker => store # NoStore
  /\ \A p \in Procs : ~proc[p].creating /\ proc[p].leases = 0 /\ ~proc[p].owned
                      /\ proc[p].pc \notin WipeSteps
Mode ==
  /\ Fresh \/ Shared
  /\ \A p \in Procs : proc[p].pc = "down" => proc[p].leases = 0

(* Only a marked project retires anything, and no reader saw what was not  *)
(* there at first.                                                         *)
TreeSound ==
  /\ ~marker => tree = legacy
  /\ \A d \in Dirs : tree[d] \cap Legacy \subseteq legacy[d]
  /\ \A p \in Procs, d \in Dirs :
       proc[p].snap[d] \subseteq legacy[d] /\ proc[p].left[d] \subseteq legacy[d]

(* Who goes over a marked project, who holds the fence, who takes back.    *)
Marked == \A p \in Procs :
  /\ proc[p].pc \in ResidueSteps \cup {"retire", "seal"} => marker
  /\ proc[p].leases > 0 => marker
Holders == {"stage", "install", "mark"}
Fenced ==
  /\ \A p \in Procs : proc[p].pc \in FirstSteps /\ fence = "none" => ~marker
  /\ \A p \in Procs : proc[p].pc \in Holders =>
       /\ fence = "migrating" /\ ~marker
       /\ proc[p].pc = "mark" <=> store # NoStore
       /\ \A q \in Procs : proc[q].pc \in Holders => q = p
Wiped == \A p \in Procs :
  proc[p].pc \in WipeSteps => store = NoStore /\ proc[p].leases = 0
(* What a store holds belongs to a session of it. *)
RowsFirst ==
  store # NoStore => store.queue \subseteq store.rows /\ \A e \in store.replayed : e[1] \in store.rows

(* A piece that may leave the tree. *)
Safe(d, f) == InStore(d, f) \/ (Unclaimed(d) /\ f \in backup[d])
(* An envelope has its second name only once all its session is imported.  *)
RuntimeImported ==
  \A d \in Dirs : "runtime" \in tree[d] /\ "envelope" \in legacy[d] =>
    \A f \in legacy[d] : InStore(d, f)
(* A reader that found something of a session has its envelope too, or     *)
(* somebody has imported that.                                             *)
ClaimSeen(p) == \A d \in Dirs :
  proc[p].snap[d] # {} /\ "envelope" \in legacy[d] =>
    "envelope" \in proc[p].snap[d] \/ (store # NoStore /\ d \in store.rows)

FirstSound(p) ==
  /\ proc[p].pc = "install" => \A d \in Dirs : proc[p].snap[d] \subseteq backup[d]
  /\ proc[p].pc = "mark" => \A d \in Dirs : \A f \in legacy[d] : Safe(d, f)
QuarantineSound(p) ==
  proc[p].pc = "quarantine" =>
    /\ ClaimSeen(p)
    /\ \A d \in Dirs : \A f \in proc[p].left[d] : InStore(d, f)
    /\ \A d \in Dirs : \A f \in tree[d] \cap Legacy : f \in proc[p].snap[d] \/ InStore(d, f)
AbsorbSound(p) ==
  /\ proc[p].pc = "absorb" =>
       /\ ClaimSeen(p)
       /\ \A d \in Dirs : proc[p].snap[d] \subseteq backup[d]
       /\ \A d \in Dirs : \A f \in proc[p].snap[d] \ proc[p].left[d] : Safe(d, f)
  /\ proc[p].pc = "recheck" => \A d \in Dirs : \A f \in proc[p].snap[d] : Safe(d, f)
RetireSound(p) ==
  proc[p].pc = "retire" =>
    /\ \A d \in Dirs : \A f \in proc[p].left[d] : Safe(d, f)
    /\ \A d \in Dirs : "envelope" \in proc[p].left[d] =>
         tree[d] \cap Legacy \subseteq proc[p].left[d]
ImportSound == \A p \in Procs :
  FirstSound(p) /\ QuarantineSound(p) /\ AbsorbSound(p) /\ RetireSound(p)

Control == Mode /\ TreeSound /\ Marked /\ Fenced /\ Wiped /\ RowsFirst /\ NeverAmbiguous
IInv == CutoverTypeOK /\ Control /\ RuntimeImported /\ ImportSound /\ NothingLost

-----------------------------------------------------------------------------
LEMMA ProcessTyped ==
  ASSUME NEW r \in Processes
  PROVE  /\ r.snap \in LegacyTrees /\ r.left \in LegacyTrees
         /\ r.creating \in BOOLEAN /\ r.settled \in BOOLEAN
         /\ r.owned \in BOOLEAN /\ r.done \in BOOLEAN
         /\ r.leases \in Nat /\ r.rowed \in Nat
BY DEF Processes

Pcs == {"down", "idle", "migrate", "retire", "seal"} \cup FirstSteps \cup ResidueSteps \cup WipeSteps

(* What a process remembers keeps its type in each step of it. *)
LEMMA MemoryTyped ==
  ASSUME NEW r \in Processes
  PROVE
    /\ \A x \in Pcs :
         [r EXCEPT !.pc = x] \in Processes
    /\ \A x \in Pcs, y \in BOOLEAN :
         [r EXCEPT !.pc = x, !.creating = y] \in Processes
    /\ \A x \in Pcs, y \in LegacyTrees :
         [r EXCEPT !.pc = x, !.snap = y] \in Processes
    /\ \A x \in Pcs, y \in LegacyTrees :
         [r EXCEPT !.pc = x, !.left = y] \in Processes
    /\ \A x \in Pcs, y, z \in LegacyTrees :
         [r EXCEPT !.pc = x, !.snap = y, !.left = z] \in Processes
    /\ \A y \in LegacyTrees :
         [r EXCEPT !.left = y] \in Processes
    /\ \A x \in Pcs, y \in BOOLEAN :
         [r EXCEPT !.pc = x, !.owned = y] \in Processes
    /\ \A x \in BOOLEAN :
         [r EXCEPT !.settled = x] \in Processes
    /\ \A n \in Nat :
         [r EXCEPT !.rowed = n] \in Processes
    /\ \A n \in Nat, x \in BOOLEAN :
         [r EXCEPT !.leases = n, !.settled = x] \in Processes
    /\ \A n, m \in Nat, x \in BOOLEAN :
         [r EXCEPT !.leases = n, !.rowed = m, !.done = x] \in Processes
    /\ \A x \in BOOLEAN :
         [r EXCEPT !.done = x] \in Processes
    /\ \A x \in Pcs, y \in BOOLEAN :
         [r EXCEPT !.pc = x, !.settled = y] \in Processes
    /\ \A x \in Pcs, a, b, c, e \in BOOLEAN, n \in Nat :
         [r EXCEPT !.pc = x, !.settled = a, !.creating = b, !.owned = c,
                        !.done = e, !.leases = n] \in Processes
<1>1. \A x \in Pcs :
         [r EXCEPT !.pc = x] \in Processes
  BY DEF Processes, Pcs
<1>2. \A x \in Pcs, y \in BOOLEAN :
         [r EXCEPT !.pc = x, !.creating = y] \in Processes
  BY DEF Processes, Pcs
<1>3. \A x \in Pcs, y \in LegacyTrees :
         [r EXCEPT !.pc = x, !.snap = y] \in Processes
  BY DEF Processes, Pcs
<1>4. \A x \in Pcs, y \in LegacyTrees :
         [r EXCEPT !.pc = x, !.left = y] \in Processes
  BY DEF Processes, Pcs
<1>5. \A x \in Pcs, y, z \in LegacyTrees :
         [r EXCEPT !.pc = x, !.snap = y, !.left = z] \in Processes
  BY DEF Processes, Pcs
<1>6. \A y \in LegacyTrees :
         [r EXCEPT !.left = y] \in Processes
  BY DEF Processes, Pcs
<1>7. \A x \in Pcs, y \in BOOLEAN :
         [r EXCEPT !.pc = x, !.owned = y] \in Processes
  BY DEF Processes, Pcs
<1>8. \A x \in BOOLEAN :
         [r EXCEPT !.settled = x] \in Processes
  BY DEF Processes, Pcs
<1>9. \A n \in Nat :
         [r EXCEPT !.rowed = n] \in Processes
  BY DEF Processes, Pcs
<1>10. \A n \in Nat, x \in BOOLEAN :
         [r EXCEPT !.leases = n, !.settled = x] \in Processes
  BY DEF Processes, Pcs
<1>11. \A n, m \in Nat, x \in BOOLEAN :
         [r EXCEPT !.leases = n, !.rowed = m, !.done = x] \in Processes
  BY DEF Processes, Pcs
<1>12. \A x \in BOOLEAN :
         [r EXCEPT !.done = x] \in Processes
  BY DEF Processes, Pcs
<1>13. \A x \in Pcs, y \in BOOLEAN :
         [r EXCEPT !.pc = x, !.settled = y] \in Processes
  BY DEF Processes, Pcs
<1>14. \A x \in Pcs, a, b, c, e \in BOOLEAN, n \in Nat :
         [r EXCEPT !.pc = x, !.settled = a, !.creating = b, !.owned = c,
                        !.done = e, !.leases = n] \in Processes
  <2> TAKE x \in Pcs, a, b, c, e \in BOOLEAN, n \in Nat
  <2> DEFINE q == [r EXCEPT !.pc = x, !.settled = a, !.creating = b]
  <2>1. q \in Processes
    BY DEF Processes, Pcs
  <2>2. [r EXCEPT !.pc = x, !.settled = a, !.creating = b, !.owned = c, !.done = e, !.leases = n]
          = [q EXCEPT !.owned = c, !.done = e, !.leases = n]
    OBVIOUS
  <2> HIDE DEF q
  <2>3. [q EXCEPT !.owned = c, !.done = e, !.leases = n] \in Processes
    BY <2>1 DEF Processes
  <2> QED BY <2>2, <2>3
<1> QED BY <1>1, <1>2, <1>3, <1>4, <1>5, <1>6, <1>7, <1>8, <1>9, <1>10, <1>11, <1>12, <1>13, <1>14

LEMMA StartedTyped ==
  /\ Nothing \in LegacyTrees
  /\ Started \in Processes /\ [Started EXCEPT !.pc = "down"] \in Processes
<1>1. Nothing \in LegacyTrees
  BY DEF Nothing, LegacyTrees
<1> QED BY <1>1 DEF Started, Processes

LEMMA TreesTyped ==
  ASSUME CutoverTypeOK
  PROVE  /\ LegacyOf(tree) \in LegacyTrees /\ Readable \in LegacyTrees
         /\ Quarantined \in LegacyTrees
         /\ \A t \in LegacyTrees : Copied(t) \in LegacyTrees
         /\ \A t \in LegacyTrees, d \in Dirs, f \in Legacy :
              /\ [t EXCEPT ![d] = @ \ {f}] \in LegacyTrees
              /\ [t EXCEPT ![d] = @ \cup {f}] \in LegacyTrees
BY DEF CutoverTypeOK, LegacyOf, Readable, Quarantined, Copied, LegacyTrees

LEMMA StoresTyped ==
  /\ EmptyStore \in Stores
  /\ \A st \in Stores : st.born \in Nat /\ [st EXCEPT !.born = st.born + 1] \in Stores
  /\ \A t \in LegacyTrees : Imported(t) \in Stores
  /\ \A st \in Stores, t \in LegacyTrees, d \in Dirs, f \in Legacy :
       Absorbed(st, d, f, [mode |-> "residue", of |-> t]) \in Stores
<1>1. EmptyStore \in Stores
  BY DEF EmptyStore, Stores
<1>2. \A st \in Stores : st.born \in Nat /\ [st EXCEPT !.born = st.born + 1] \in Stores
  BY DEF Stores
<1>3. ASSUME NEW t \in LegacyTrees PROVE Imported(t) \in Stores
  <2>1. [mode |-> "first", of |-> t] \in Seeds
    BY DEF Seeds
  <2> QED BY <2>1 DEF Imported, Stores
<1>4. ASSUME NEW st \in Stores, NEW t \in LegacyTrees, NEW d \in Dirs, NEW f \in Legacy
      PROVE  Absorbed(st, d, f, [mode |-> "residue", of |-> t]) \in Stores
  <2>1. [mode |-> "residue", of |-> t] \in Seeds
    BY DEF Seeds
  <2> DEFINE seed == [mode |-> "residue", of |-> t]
  <2> HIDE DEF seed
  <2> SUFFICES seed \in Seeds => Absorbed(st, d, f, seed) \in Stores
    BY <2>1 DEF seed
  <2>2. [st EXCEPT !.rows = st.rows \cup {d}] \in Stores
    BY DEF Stores
  <2>3. seed \in Seeds => [st EXCEPT !.replayed = st.replayed \cup {<<d, seed>>}] \in Stores
    BY DEF Stores
  <2>4. [st EXCEPT !.queue = st.queue \cup {d}] \in Stores
    BY DEF Stores
  <2> QED BY <2>2, <2>3, <2>4 DEF Absorbed
<1> QED BY <1>1, <1>2, <1>3, <1>4

-----------------------------------------------------------------------------
(* What a step does to the memory of the process that takes it.            *)
Memories == [Procs -> Processes]
Others(p) == \A q \in Procs : q # p => proc'[q] = proc[q]
SameLease(p) == /\ proc'[p].creating = proc[p].creating
                /\ proc'[p].leases = proc[p].leases /\ proc'[p].owned = proc[p].owned
SameRead(p) == proc'[p].snap = proc[p].snap /\ proc'[p].left = proc[p].left

LEMMA OneProcess ==
  ASSUME proc \in Memories, NEW p \in Procs, NEW r \in Processes, proc' = [proc EXCEPT ![p] = r]
  PROVE  proc' \in Memories /\ proc'[p] = r /\ Others(p)
BY DEF Memories, Others

LEMMA GotoDoes ==
  ASSUME proc \in Memories, NEW p \in Procs, NEW x \in Pcs, Goto(p, x)
  PROVE  proc' \in Memories /\ Others(p) /\ proc'[p].pc = x /\ SameLease(p) /\ SameRead(p)
<1> DEFINE r == [proc[p] EXCEPT !.pc = x]
<1>1. proc[p] \in Processes
  BY DEF Memories
<1>2. r \in Processes
  BY <1>1, MemoryTyped
<1>3. r.pc = x /\ r.snap = proc[p].snap /\ r.left = proc[p].left /\ r.creating = proc[p].creating
      /\ r.leases = proc[p].leases /\ r.owned = proc[p].owned
  BY <1>1 DEF Processes
<1>4. proc' = [proc EXCEPT ![p] = r]
  BY DEF Goto
<1> HIDE DEF r
<1> QED BY <1>2, <1>3, <1>4, OneProcess DEF SameLease, SameRead

LEMMA WorkDoes ==
  ASSUME proc \in Memories, NEW p \in Procs, NEW x \in Pcs, NEW y \in LegacyTrees, Work(p, x, y)
  PROVE  /\ proc' \in Memories /\ Others(p) /\ proc'[p].pc = x /\ SameLease(p)
         /\ proc'[p].snap = proc[p].snap /\ proc'[p].left = y
<1> DEFINE r == [proc[p] EXCEPT !.pc = x, !.left = y]
<1>1. proc[p] \in Processes
  BY DEF Memories
<1>2. r \in Processes
  BY <1>1, MemoryTyped
<1>3. r.pc = x /\ r.snap = proc[p].snap /\ r.left = y /\ r.creating = proc[p].creating
      /\ r.leases = proc[p].leases /\ r.owned = proc[p].owned
  BY <1>1 DEF Processes
<1>4. proc' = [proc EXCEPT ![p] = r]
  BY DEF Work
<1> HIDE DEF r
<1> QED BY <1>2, <1>3, <1>4, OneProcess DEF SameLease

LEMMA ProgressDoes ==
  ASSUME proc \in Memories, NEW p \in Procs, NEW d \in Dirs, NEW f \in Legacy, Progress(p, d, f)
  PROVE  /\ proc' \in Memories /\ Others(p) /\ proc'[p].pc = proc[p].pc /\ SameLease(p)
         /\ proc'[p].snap = proc[p].snap
         /\ proc'[p].left = [proc[p].left EXCEPT ![d] = @ \ {f}]
<1> DEFINE y == [proc[p].left EXCEPT ![d] = @ \ {f}]
           r == [proc[p] EXCEPT !.left = y]
<1>1. proc[p] \in Processes
  BY DEF Memories
<1>2. y \in LegacyTrees
  <2>1. proc[p].left \in LegacyTrees
    BY <1>1, ProcessTyped
  <2> QED BY <2>1 DEF LegacyTrees
<1>3. r.pc = proc[p].pc /\ r.snap = proc[p].snap /\ r.left = y /\ r.creating = proc[p].creating
      /\ r.leases = proc[p].leases /\ r.owned = proc[p].owned
  BY <1>1 DEF Processes
<1>4. proc' = [proc EXCEPT ![p] = r]
  BY DEF Progress
<1>5. r \in Processes
  <2> HIDE DEF y
  <2> QED BY <1>1, <1>2, MemoryTyped
<1>6. proc'[p] = r /\ proc' \in Memories /\ Others(p)
  <2> HIDE DEF r
  <2> QED BY <1>4, <1>5, OneProcess
<1> HIDE DEF r
<1> QED BY <1>3, <1>6 DEF SameLease

(* A step of the cutover that reads the tree. *)
Reads(p, x, y) == proc' = [proc EXCEPT ![p].pc = x, ![p].snap = y]
ReadsBoth(p, x, y, z) == proc' = [proc EXCEPT ![p].pc = x, ![p].snap = y, ![p].left = z]
ReadsSo(p, x, y, z) == (Reads(p, x, y) /\ z = proc[p].left) \/ ReadsBoth(p, x, y, z)
LEMMA SnapDoes ==
  ASSUME proc \in Memories, NEW p \in Procs, NEW x \in Pcs, NEW y \in LegacyTrees,
         NEW z \in LegacyTrees, ReadsSo(p, x, y, z)
  PROVE  /\ proc' \in Memories /\ Others(p) /\ proc'[p].pc = x /\ SameLease(p)
         /\ proc'[p].snap = y /\ proc'[p].left = z
<1> DEFINE r == [proc[p] EXCEPT !.pc = x, !.snap = y, !.left = z]
           b == [proc[p] EXCEPT !.pc = x, !.snap = y]
<1>1. proc[p] \in Processes
  BY DEF Memories
<1>2. r \in Processes /\ b \in Processes
  BY <1>1, MemoryTyped
<1>3. /\ r.pc = x /\ r.snap = y /\ r.left = z /\ r.creating = proc[p].creating
      /\ r.leases = proc[p].leases /\ r.owned = proc[p].owned
  BY <1>1 DEF Processes
<1>4. /\ b.pc = x /\ b.snap = y /\ b.left = proc[p].left /\ b.creating = proc[p].creating
      /\ b.leases = proc[p].leases /\ b.owned = proc[p].owned
  BY <1>1 DEF Processes
<1>5. proc' = [proc EXCEPT ![p] = r] \/ (proc' = [proc EXCEPT ![p] = b] /\ z = proc[p].left)
  BY DEF Reads, ReadsBoth, ReadsSo
<1>6. proc' \in Memories /\ Others(p) /\ (proc'[p] = r \/ (proc'[p] = b /\ z = proc[p].left))
  <2> HIDE DEF r, b
  <2> QED BY <1>2, <1>5, OneProcess
<1> HIDE DEF r, b
<1> QED BY <1>3, <1>4, <1>6 DEF SameLease

(* A step that changes flags and counters of a process. *)
LEMMA AccessDoes ==
  ASSUME proc \in Memories, NEW p \in Procs, Access(p)
  PROVE  /\ proc' \in Memories /\ Others(p) /\ SameRead(p)
         /\ proc'[p].leases = proc[p].leases /\ proc'[p].owned = proc[p].owned
         /\ proc[p].pc = "idle"
         /\ \/ proc'[p].pc = "idle" /\ proc'[p].creating = proc[p].creating
            \/ proc'[p].pc = "migrate" /\ ~proc'[p].creating
         /\ \/ UNCHANGED store
            \/ marker /\ store = NoStore /\ store' = EmptyStore
         /\ UNCHANGED <<legacy, tree, backup, marker, fence, creates, faults>>
<1> DEFINE a == [proc[p] EXCEPT !.settled = TRUE]
           b == [proc[p] EXCEPT !.pc = "migrate", !.creating = FALSE]
<1>1. proc[p] \in Processes /\ "migrate" \in Pcs /\ "idle" \in Pcs
  BY DEF Memories, Pcs
<1>2. a \in Processes /\ b \in Processes
  BY <1>1, MemoryTyped
<1>3. /\ a.pc = proc[p].pc /\ a.snap = proc[p].snap /\ a.left = proc[p].left
      /\ a.creating = proc[p].creating /\ a.leases = proc[p].leases /\ a.owned = proc[p].owned
  BY <1>1 DEF Processes
<1>4. /\ b.pc = "migrate" /\ b.snap = proc[p].snap /\ b.left = proc[p].left
      /\ b.creating = FALSE /\ b.leases = proc[p].leases /\ b.owned = proc[p].owned
  BY <1>1 DEF Processes
<1>5. CutoverState(p) = "ready" \/ CutoverState(p) = "residue" => marker
  BY DEF CutoverState
<1>6. /\ \/ proc' = [proc EXCEPT ![p] = a]
         \/ proc' = [proc EXCEPT ![p] = b]
         \/ proc' = proc
      /\ UNCHANGED store \/ (marker /\ store = NoStore /\ store' = EmptyStore)
  BY <1>5 DEF Access, Opened
<1>7. /\ proc' \in Memories /\ Others(p)
      /\ proc'[p] = a \/ proc'[p] = b \/ proc'[p] = proc[p]
  <2> HIDE DEF a, b
  <2>1. CASE proc' = proc
    BY <2>1 DEF Others
  <2> QED BY <1>2, <1>6, <2>1, OneProcess
<1> HIDE DEF a, b
<1> QED BY <1>3, <1>4, <1>6, <1>7 DEF SameRead, Access

LEMMA AcquireDoes ==
  ASSUME proc \in Memories, NEW p \in Procs, Acquire(p)
  PROVE  /\ proc' \in Memories /\ Others(p) /\ SameRead(p)
         /\ proc'[p].owned = proc[p].owned /\ proc[p].pc = "idle"
         /\ \/ /\ proc'[p].pc = "migrate" /\ proc'[p].leases = proc[p].leases
               /\ ~marker /\ fence = "none" /\ tree = Nothing
            \/ /\ proc'[p].pc = "idle" /\ proc'[p].creating = proc[p].creating
               /\ proc[p].owned /\ marker
         /\ UNCHANGED <<legacy, tree, backup, store, marker, fence, faults>>
<1> DEFINE n == proc[p].leases + 1
           a == [proc[p] EXCEPT !.leases = n, !.settled = TRUE]
           b == [proc[p] EXCEPT !.pc = "migrate", !.creating = TRUE]
<1>1. proc[p] \in Processes /\ "migrate" \in Pcs
  BY DEF Memories, Pcs
<1>2. n \in Nat
  BY <1>1, ProcessTyped
<1>3. a \in Processes /\ b \in Processes
  BY <1>1, <1>2, MemoryTyped
<1>4. /\ a.pc = proc[p].pc /\ a.snap = proc[p].snap /\ a.left = proc[p].left
      /\ a.creating = proc[p].creating /\ a.owned = proc[p].owned
  BY <1>1 DEF Processes
<1>5. /\ b.pc = "migrate" /\ b.snap = proc[p].snap /\ b.left = proc[p].left
      /\ b.leases = proc[p].leases /\ b.owned = proc[p].owned
  BY <1>1 DEF Processes
<1>6. /\ CutoverState(p) = "ready" => marker
      /\ CutoverState(p) = "fresh" => ~marker /\ fence = "none" /\ tree = Nothing
  BY DEF CutoverState
<1>7. \/ proc' = [proc EXCEPT ![p] = a] /\ CutoverState(p) = "ready" /\ proc[p].owned
      \/ proc' = [proc EXCEPT ![p] = b] /\ CutoverState(p) = "fresh"
  BY DEF Acquire
<1>8. /\ proc' \in Memories /\ Others(p)
      /\ \/ proc'[p] = a /\ CutoverState(p) = "ready" /\ proc[p].owned
         \/ proc'[p] = b /\ CutoverState(p) = "fresh"
  <2> HIDE DEF a, b
  <2> QED BY <1>3, <1>7, OneProcess
<1> HIDE DEF a, b
<1> QED BY <1>4, <1>5, <1>6, <1>8 DEF SameRead, Acquire, disk

LEMMA CreateDoes ==
  ASSUME proc \in Memories, store \in Stores \cup {NoStore}, NEW p \in Procs,
         PlainCreate(p) \/ WriteRow(p)
  PROVE  /\ proc' \in Memories /\ Others(p) /\ SameRead(p) /\ SameLease(p)
         /\ proc[p].pc = "idle" /\ proc'[p].pc = "idle"
         /\ store # NoStore /\ (marker \/ proc[p].leases > 0)
         /\ store \in Stores /\ store' = [store EXCEPT !.born = @ + 1]
         /\ UNCHANGED <<legacy, tree, backup, marker, fence, faults>>
<1> DEFINE n == proc[p].rowed + 1
           a == [proc[p] EXCEPT !.settled = TRUE]
           b == [proc[p] EXCEPT !.rowed = n]
<1>1. proc[p] \in Processes
  BY DEF Memories
<1>2. n \in Nat /\ proc[p].rowed \in Nat /\ proc[p].leases \in Nat
  BY <1>1, ProcessTyped
<1>3. a \in Processes /\ b \in Processes
  BY <1>1, <1>2, MemoryTyped
<1>4. /\ a.pc = proc[p].pc /\ a.snap = proc[p].snap /\ a.left = proc[p].left
      /\ a.creating = proc[p].creating /\ a.owned = proc[p].owned /\ a.leases = proc[p].leases
  BY <1>1 DEF Processes
<1>5. /\ b.pc = proc[p].pc /\ b.snap = proc[p].snap /\ b.left = proc[p].left
      /\ b.creating = proc[p].creating /\ b.owned = proc[p].owned /\ b.leases = proc[p].leases
  BY <1>1 DEF Processes
<1>6. proc' = [proc EXCEPT ![p] = a] \/ proc' = [proc EXCEPT ![p] = b]
  BY DEF PlainCreate, WriteRow
<1>7. proc' \in Memories /\ Others(p) /\ (proc'[p] = a \/ proc'[p] = b)
  <2> HIDE DEF a, b
  <2> QED BY <1>3, <1>6, OneProcess
<1>8. /\ proc[p].pc = "idle" /\ store # NoStore /\ store' = [store EXCEPT !.born = @ + 1]
      /\ UNCHANGED <<legacy, tree, backup, marker, fence, faults>>
  BY DEF PlainCreate, WriteRow
<1>9. marker \/ proc[p].leases > 0
  BY <1>2 DEF PlainCreate, WriteRow, CutoverState
<1> HIDE DEF a, b
<1> QED BY <1>4, <1>5, <1>7, <1>8, <1>9 DEF SameRead, SameLease

LEMMA ReleaseDoes ==
  ASSUME proc \in Memories, NEW p \in Procs, NEW hadRow \in BOOLEAN, NEW committed \in BOOLEAN,
         Release(p, hadRow, committed)
  PROVE  /\ proc' \in Memories /\ Others(p) /\ SameRead(p)
         /\ proc[p].pc = "idle" /\ proc[p].leases > 0
         /\ proc'[p].creating = proc[p].creating /\ proc'[p].owned = proc[p].owned
         /\ \/ proc'[p].pc = "idle" /\ UNCHANGED <<store, fence>>
            \/ proc'[p].pc = "idle" /\ UNCHANGED store /\ fence' = "none" /\ proc'[p].leases = 0
            \/ /\ proc'[p].pc = "wipe marker" /\ proc'[p].leases = 0
               /\ ~HoldsSessions /\ store' = NoStore /\ UNCHANGED fence
         /\ UNCHANGED <<legacy, tree, backup, marker, creates, faults>>
<1> DEFINE n == proc[p].leases - 1
           m == IF hadRow THEN proc[p].rowed - 1 ELSE proc[p].rowed
           c == proc[p].done \/ committed
           mine == [proc[p] EXCEPT !.leases = n, !.rowed = m, !.done = c]
           kept == [mine EXCEPT !.done = TRUE]
           back == [mine EXCEPT !.pc = "wipe marker"]
<1>1. proc[p] \in Processes /\ "wipe marker" \in Pcs
  BY DEF Memories, Pcs, WipeSteps
<1>2. proc[p].leases > 0 /\ (hadRow => proc[p].rowed > 0)
  BY DEF Release
<1>3. n \in Nat /\ m \in Nat
  <2>1. proc[p].leases \in Nat /\ proc[p].rowed \in Nat
    BY <1>1, ProcessTyped
  <2> QED BY <1>2, <2>1
<1>4. c \in BOOLEAN
  BY <1>1, ProcessTyped
<1>5. mine \in Processes
  <2> HIDE DEF n, m, c
  <2> QED BY <1>1, <1>3, <1>4, MemoryTyped
<1>6. kept \in Processes /\ back \in Processes
  <2> HIDE DEF mine
  <2> QED BY <1>1, <1>5, MemoryTyped
<1>7. /\ mine.pc = proc[p].pc /\ mine.snap = proc[p].snap /\ mine.left = proc[p].left
      /\ mine.creating = proc[p].creating /\ mine.owned = proc[p].owned /\ mine.leases = n
  <2> HIDE DEF n, m, c
  <2> QED BY <1>1 DEF Processes
<1>8. /\ kept.pc = proc[p].pc /\ kept.snap = proc[p].snap /\ kept.left = proc[p].left
      /\ kept.creating = proc[p].creating /\ kept.owned = proc[p].owned /\ kept.leases = n
      /\ back.pc = "wipe marker" /\ back.snap = proc[p].snap /\ back.left = proc[p].left
      /\ back.creating = proc[p].creating /\ back.owned = proc[p].owned /\ back.leases = n
  <2> HIDE DEF mine
  <2> QED BY <1>5, <1>7 DEF Processes
<1>9. \/ proc' = [proc EXCEPT ![p] = mine] /\ UNCHANGED <<store, fence>>
      \/ proc' = [proc EXCEPT ![p] = kept] /\ UNCHANGED store /\ fence' = "none" /\ mine.leases = 0
      \/ /\ proc' = [proc EXCEPT ![p] = back] /\ ~HoldsSessions /\ mine.leases = 0
         /\ store' = NoStore /\ UNCHANGED fence
  <2> HIDE DEF n, m, c
  <2>1. mine = [proc[p] EXCEPT !.leases = @ - 1, !.rowed = IF hadRow THEN @ - 1 ELSE @,
                               !.done = @ \/ committed]
    BY DEF n, m, c
  <2> HIDE DEF mine
  <2> QED BY <2>1 DEF Release
<1>10. /\ proc' \in Memories /\ Others(p)
       /\ \/ proc'[p] = mine /\ UNCHANGED <<store, fence>>
          \/ proc'[p] = kept /\ UNCHANGED store /\ fence' = "none" /\ n = 0
          \/ /\ proc'[p] = back /\ ~HoldsSessions /\ n = 0
             /\ store' = NoStore /\ UNCHANGED fence
  <2> HIDE DEF mine, kept, back, n
  <2> QED BY <1>5, <1>6, <1>7, <1>9, OneProcess
<1>11. proc[p].pc = "idle" /\ UNCHANGED <<legacy, tree, backup, marker, creates, faults>>
  BY DEF Release
<1> HIDE DEF mine, kept, back, n
<1> QED BY <1>2, <1>7, <1>8, <1>10, <1>11 DEF SameRead

LEMMA WipeDoes ==
  ASSUME proc \in Memories, NEW p \in Procs, Wipe(p)
  PROVE  /\ proc' \in Memories /\ Others(p) /\ SameRead(p)
         /\ proc[p].pc \in WipeSteps /\ proc'[p].pc \in WipeSteps \cup {"idle"}
         /\ proc'[p].creating = proc[p].creating /\ proc'[p].leases = proc[p].leases
         /\ marker' \in {marker, FALSE} /\ fence' \in {fence, "none"}
         /\ backup' \in {backup, Nothing}
         /\ UNCHANGED <<legacy, tree, store, creates, faults>>
<1> DEFINE a == [proc[p] EXCEPT !.pc = "idle", !.owned = FALSE]
<1>1. proc[p] \in Processes /\ "idle" \in Pcs /\ WipeSteps \subseteq Pcs
  BY DEF Memories, Pcs
<1>2. a \in Processes
  BY <1>1, MemoryTyped
<1>3. /\ a.pc = "idle" /\ a.snap = proc[p].snap /\ a.left = proc[p].left
      /\ a.creating = proc[p].creating /\ a.leases = proc[p].leases
  BY <1>1 DEF Processes
<1>4. CASE WipeMarker(p) \/ WipeFence(p)
  <2>1. Goto(p, "wipe fence") \/ Goto(p, "wipe backup")
    BY <1>4 DEF WipeMarker, WipeFence
  <2>2. \E x \in WipeSteps : Goto(p, x)
    BY <2>1 DEF WipeSteps
  <2> QED BY <1>1, <1>4, <2>2, GotoDoes DEF WipeMarker, WipeFence, WipeSteps, SameLease
<1>5. CASE WipeBackup(p)
  <2>1. proc' = [proc EXCEPT ![p] = a]
    BY <1>5 DEF WipeBackup
  <2> HIDE DEF a
  <2> QED BY <1>2, <1>3, <1>5, <2>1, OneProcess DEF WipeBackup, WipeSteps, SameRead
<1> QED BY <1>4, <1>5 DEF Wipe

LEMMA SealDoes ==
  ASSUME proc \in Memories, NEW p \in Procs, Seal(p)
  PROVE  /\ proc' \in Memories /\ Others(p) /\ SameRead(p)
         /\ proc[p].pc = "seal" /\ proc'[p].pc = "idle" /\ ~proc'[p].creating
         /\ ~proc[p].creating => proc'[p].leases = proc[p].leases /\ proc'[p].owned = proc[p].owned
         /\ fence' = "retired"
         /\ UNCHANGED <<legacy, tree, backup, store, marker, creates, faults>>
<1> DEFINE n == proc[p].leases + 1
           a == [proc[p] EXCEPT !.pc = "idle", !.settled = TRUE, !.creating = FALSE,
                                !.owned = TRUE, !.done = FALSE, !.leases = n]
           b == [proc[p] EXCEPT !.pc = "idle", !.settled = TRUE]
<1>1. proc[p] \in Processes /\ "idle" \in Pcs
  BY DEF Memories, Pcs
<1>2. n \in Nat /\ proc[p].creating \in BOOLEAN
  BY <1>1, ProcessTyped
<1>3. a \in Processes /\ b \in Processes
  BY <1>1, <1>2, MemoryTyped
<1>4. /\ a.pc = "idle" /\ a.snap = proc[p].snap /\ a.left = proc[p].left /\ a.creating = FALSE
  BY <1>1 DEF Processes
<1>5. /\ b.pc = "idle" /\ b.snap = proc[p].snap /\ b.left = proc[p].left
      /\ b.creating = proc[p].creating /\ b.owned = proc[p].owned /\ b.leases = proc[p].leases
  BY <1>1 DEF Processes
<1>6. \/ proc' = [proc EXCEPT ![p] = a] /\ proc[p].creating
      \/ proc' = [proc EXCEPT ![p] = b] /\ ~proc[p].creating
  BY DEF Seal
<1>7. /\ proc' \in Memories /\ Others(p)
      /\ (proc'[p] = a /\ proc[p].creating) \/ (proc'[p] = b /\ ~proc[p].creating)
  <2> HIDE DEF a, b
  <2> QED BY <1>3, <1>6, OneProcess
<1> HIDE DEF a, b
<1> QED BY <1>2, <1>4, <1>5, <1>7 DEF SameRead, Seal

LEMMA CrashDoes ==
  ASSUME proc \in Memories, NEW p \in Procs, Crash(p)
  PROVE  /\ proc' \in Memories /\ Others(p) /\ proc'[p] = Started /\ proc[p].pc # "down"
         /\ UNCHANGED <<legacy, tree, backup, store, marker, fence, creates>>
<1>1. proc' = [proc EXCEPT ![p] = Started]
  BY DEF Crash
<1>2. proc' \in Memories /\ Others(p) /\ proc'[p] = Started
  BY <1>1, StartedTyped, OneProcess
<1> QED BY <1>2 DEF Crash, disk

LEMMA PcsHave ==
  /\ \A x \in {"idle", "migrate", "retire", "seal", "check", "fence", "stage", "install", "mark",
               "quarantine", "absorb", "recheck"} : x \in Pcs
BY DEF Pcs, FirstSteps, ResidueSteps

LEMMA MigrateDoes ==
  ASSUME CutoverTypeOK, proc \in Memories, NEW p \in Procs, Migrate(p)
  PROVE  /\ proc' \in Memories /\ Others(p) /\ SameLease(p)
         /\ \/ proc'[p].pc = "idle" /\ SameRead(p)
            \/ /\ proc'[p].pc = "quarantine" /\ marker /\ store # NoStore
               /\ proc'[p].snap = Readable /\ proc'[p].left = Quarantined
            \/ /\ proc'[p].pc = "check" /\ ~marker
               /\ proc'[p].snap = LegacyOf(tree) /\ proc'[p].left = proc[p].left
         /\ proc[p].pc = "migrate"
         /\ UNCHANGED <<legacy, tree, backup, store, marker, fence, creates, faults>>
<1>1. /\ Readable \in LegacyTrees /\ Quarantined \in LegacyTrees /\ LegacyOf(tree) \in LegacyTrees
      /\ proc[p].left \in LegacyTrees
  BY TreesTyped, ProcessTyped DEF Memories
<1>2. "idle" \in Pcs /\ "quarantine" \in Pcs /\ "check" \in Pcs
  BY PcsHave
<1>3. CASE Goto(p, "idle")
  BY <1>2, <1>3, GotoDoes DEF Migrate, disk
<1>4. CASE /\ proc' = [proc EXCEPT ![p].pc = "quarantine", ![p].snap = Readable, ![p].left = Quarantined]
           /\ marker /\ store # NoStore
  <2>1. ReadsSo(p, "quarantine", Readable, Quarantined)
    BY <1>4 DEF ReadsBoth, ReadsSo
  <2> QED BY <1>1, <1>2, <1>4, <2>1, SnapDoes DEF Migrate, disk
<1>5. CASE proc' = [proc EXCEPT ![p].pc = "check", ![p].snap = LegacyOf(tree)] /\ ~marker
  <2>1. ReadsSo(p, "check", LegacyOf(tree), proc[p].left)
    BY <1>5 DEF Reads, ReadsSo
  <2>2. /\ proc' \in Memories /\ Others(p) /\ proc'[p].pc = "check" /\ SameLease(p)
        /\ proc'[p].snap = LegacyOf(tree) /\ proc'[p].left = proc[p].left
    BY <1>1, <1>2, <2>1, SnapDoes
  <2>3. proc[p].pc = "migrate" /\ UNCHANGED <<legacy, disk, creates, faults>>
    BY DEF Migrate
  <2> QED BY <1>5, <2>2, <2>3 DEF disk
<1> QED BY <1>3, <1>4, <1>5 DEF Migrate

LEMMA FenceDoes ==
  ASSUME proc \in Memories, NEW p \in Procs, Check(p) \/ TakeFence(p)
  PROVE  /\ proc' \in Memories /\ Others(p) /\ SameLease(p) /\ SameRead(p)
         /\ proc[p].pc \in {"check", "fence"}
         /\ \/ proc'[p].pc = "idle" /\ UNCHANGED fence
            \/ proc'[p].pc = "fence" /\ UNCHANGED fence
            \/ proc[p].pc = "fence" /\ fence = "none" /\ fence' = "migrating" /\ proc'[p].pc = "stage"
         /\ UNCHANGED <<legacy, tree, backup, store, marker, creates, faults>>
<1>1. /\ \/ Goto(p, "idle") /\ UNCHANGED fence
         \/ Goto(p, "fence") /\ UNCHANGED fence
         \/ proc[p].pc = "fence" /\ fence = "none" /\ fence' = "migrating" /\ Goto(p, "stage")
      /\ proc[p].pc \in {"check", "fence"}
      /\ UNCHANGED <<legacy, tree, backup, store, marker, creates, faults>>
  BY DEF Check, TakeFence, disk
<1> QED BY <1>1, GotoDoes, PcsHave

LEMMA ImportDoes ==
  ASSUME CutoverTypeOK, proc \in Memories, NEW p \in Procs, Stage(p) \/ Install(p) \/ Mark(p)
  PROVE  /\ proc' \in Memories /\ Others(p) /\ SameLease(p) /\ proc'[p].snap = proc[p].snap
         /\ \/ /\ proc[p].pc = "stage" /\ proc'[p].pc = "install" /\ SameRead(p)
               /\ backup' = Copied(proc[p].snap) /\ UNCHANGED <<store, marker, fence>>
            \/ /\ proc[p].pc = "install" /\ proc'[p].pc = "mark" /\ SameRead(p)
               /\ LegacyOf(tree) = proc[p].snap /\ store' = Imported(proc[p].snap)
               /\ UNCHANGED <<backup, marker, fence>>
            \/ /\ proc[p].pc = "install" /\ proc'[p].pc = "idle" /\ SameRead(p)
               /\ fence' = "none" /\ UNCHANGED <<backup, store, marker>>
            \/ /\ proc[p].pc = "mark" /\ proc'[p].pc = "retire"
               /\ proc'[p].left = LegacyOf(tree)
               /\ ~marker /\ marker' = TRUE /\ UNCHANGED <<backup, store, fence>>
            \/ /\ proc[p].pc = "mark" /\ proc'[p].pc = "idle" /\ SameRead(p)
               /\ UNCHANGED <<backup, store, marker, fence>>
         /\ UNCHANGED <<legacy, tree, creates, faults>>
<1>1. LegacyOf(tree) \in LegacyTrees
  BY TreesTyped
<1>2. CASE Stage(p)
  BY <1>2, GotoDoes, PcsHave DEF Stage, SameRead
<1>3. CASE Install(p)
  BY <1>3, GotoDoes, PcsHave DEF Install, SameRead
<1>4. CASE Mark(p)
  BY <1>1, <1>4, GotoDoes, WorkDoes, PcsHave DEF Mark, SameRead
<1> QED BY <1>2, <1>3, <1>4

(* The four ways of one step of the quarantine. *)
LEMMA QuarantineDoes ==
  ASSUME CutoverTypeOK, proc \in Memories, NEW p \in Procs, Quarantine(p)
  PROVE  /\ proc' \in Memories /\ Others(p) /\ SameLease(p) /\ proc'[p].snap = proc[p].snap
         /\ proc[p].pc = "quarantine"
         /\ \/ /\ proc'[p].pc = "quarantine"
               /\ \E d \in Dirs, f \in Legacy :
                    /\ Turn(p, RemovalOrder, d, f)
                    /\ backup' = [backup EXCEPT ![d] = @ \cup {f}]
                    /\ tree' = [tree EXCEPT ![d] = @ \ {f}]
                    /\ proc'[p].left = [proc[p].left EXCEPT ![d] = @ \ {f}]
            \/ /\ proc'[p].pc = "retire" /\ proc[p].snap = Nothing
               /\ proc'[p].left = LegacyOf(tree) /\ UNCHANGED <<tree, backup>>
            \/ /\ proc'[p].pc = "absorb" /\ proc'[p].left = proc[p].snap
               /\ backup' = Copied(proc[p].snap) /\ UNCHANGED tree
            \/ proc'[p].pc = "idle" /\ SameRead(p) /\ UNCHANGED <<tree, backup>>
         /\ UNCHANGED <<legacy, store, marker, fence, creates, faults>>
<1>1. LegacyOf(tree) \in LegacyTrees /\ proc[p].snap \in LegacyTrees
  BY TreesTyped, ProcessTyped DEF Memories
<1>2. /\ proc[p].pc = "quarantine"
      /\ UNCHANGED <<legacy, store, marker, fence, creates, faults>>
  BY DEF Quarantine
<1>3. ASSUME NEW d \in Dirs, NEW f \in Legacy, Turn(p, RemovalOrder, d, f),
             backup' = [backup EXCEPT ![d] = @ \cup {f}], tree' = [tree EXCEPT ![d] = @ \ {f}],
             Progress(p, d, f)
      PROVE  /\ proc' \in Memories /\ Others(p) /\ SameLease(p) /\ proc'[p].snap = proc[p].snap
             /\ proc'[p].pc = "quarantine"
             /\ proc'[p].left = [proc[p].left EXCEPT ![d] = @ \ {f}]
  BY <1>2, <1>3, ProgressDoes
<1>4. CASE proc[p].snap = Nothing /\ Work(p, "retire", LegacyOf(tree)) /\ UNCHANGED <<tree, backup>>
  BY <1>1, <1>2, <1>4, WorkDoes, PcsHave
<1>5. CASE backup' = Copied(proc[p].snap) /\ Work(p, "absorb", proc[p].snap) /\ UNCHANGED tree
  BY <1>1, <1>2, <1>5, WorkDoes, PcsHave
<1>6. CASE Goto(p, "idle") /\ UNCHANGED <<tree, backup>>
  BY <1>2, <1>6, GotoDoes, PcsHave DEF SameRead
<1>7. CASE \E d \in Dirs, f \in Legacy :
             /\ Turn(p, RemovalOrder, d, f)
             /\ backup' = [backup EXCEPT ![d] = @ \cup {f}]
             /\ tree' = [tree EXCEPT ![d] = @ \ {f}]
             /\ Progress(p, d, f)
  BY <1>2, <1>3, <1>7
<1> QED BY <1>4, <1>5, <1>6, <1>7 DEF Quarantine

LEMMA AbsorbDoes ==
  ASSUME proc \in Memories, NEW p \in Procs, Absorb(p)
  PROVE  /\ proc' \in Memories /\ Others(p) /\ SameLease(p) /\ proc'[p].snap = proc[p].snap
         /\ proc[p].pc = "absorb"
         /\ \/ /\ proc'[p].pc = "absorb" /\ store # NoStore
               /\ \E d \in Dirs, f \in Legacy :
                    /\ Turn(p, ImportOrder, d, f)
                    /\ store' = Absorbed(store, d, f, SeedOf(p))
                    /\ proc'[p].left = [proc[p].left EXCEPT ![d] = @ \ {f}]
            \/ proc'[p].pc = "recheck" /\ Over(p) /\ SameRead(p) /\ UNCHANGED store
         /\ UNCHANGED <<legacy, tree, backup, marker, fence, creates, faults>>
<1>1. /\ proc[p].pc = "absorb"
      /\ UNCHANGED <<legacy, tree, backup, marker, fence, creates, faults>>
  BY DEF Absorb
<1>2. ASSUME NEW d \in Dirs, NEW f \in Legacy, Progress(p, d, f)
      PROVE  /\ proc' \in Memories /\ Others(p) /\ SameLease(p) /\ proc'[p].snap = proc[p].snap
             /\ proc'[p].pc = "absorb"
             /\ proc'[p].left = [proc[p].left EXCEPT ![d] = @ \ {f}]
  BY <1>1, <1>2, ProgressDoes
<1>3. CASE \E d \in Dirs, f \in Legacy :
             /\ Turn(p, ImportOrder, d, f) /\ store # NoStore
             /\ store' = Absorbed(store, d, f, SeedOf(p))
             /\ Progress(p, d, f)
  BY <1>1, <1>2, <1>3
<1>4. CASE Over(p) /\ Goto(p, "recheck") /\ UNCHANGED store
  BY <1>1, <1>4, GotoDoes, PcsHave DEF SameRead
<1> QED BY <1>3, <1>4 DEF Absorb

LEMMA RecheckDoes ==
  ASSUME CutoverTypeOK, proc \in Memories, NEW p \in Procs, Recheck(p)
  PROVE  /\ proc' \in Memories /\ Others(p) /\ SameLease(p) /\ proc'[p].snap = proc[p].snap
         /\ proc[p].pc = "recheck"
         /\ \/ /\ proc'[p].pc = "retire" /\ proc'[p].left = LegacyOf(tree)
               /\ LegacyOf(tree) = proc[p].snap
            \/ proc'[p].pc = "idle" /\ SameRead(p)
         /\ UNCHANGED <<legacy, tree, backup, store, marker, fence, creates, faults>>
<1>1. LegacyOf(tree) \in LegacyTrees
  BY TreesTyped
<1> QED BY <1>1, GotoDoes, WorkDoes, PcsHave DEF Recheck, disk, SameRead

(* The residue's quarantine adds no file to the tree. *)
LEMMA QuarantineRemoves ==
  ASSUME CutoverTypeOK, proc \in Memories, NEW p \in Procs, Quarantine(p)
  PROVE  \A e \in Dirs : tree'[e] \subseteq tree[e]
<1>1. tree' = tree \/ \E d \in Dirs, f \in Legacy : tree' = [tree EXCEPT ![d] = @ \ {f}]
  BY QuarantineDoes
<1>2. DOMAIN tree = Dirs /\ tree = [d \in Dirs |-> tree[d]]
  BY DEF CutoverTypeOK
<1> QED BY <1>1, <1>2

LEMMA RetireDoes ==
  ASSUME CutoverTypeOK, proc \in Memories, NEW p \in Procs, Retire(p)
  PROVE  /\ proc' \in Memories /\ Others(p) /\ SameLease(p) /\ proc'[p].snap = proc[p].snap
         /\ proc[p].pc = "retire"
         /\ \/ /\ proc'[p].pc = "retire" /\ proc'[p].left = proc[p].left
               /\ \E d \in Dirs :
                    /\ "envelope" \in proc[p].left[d] /\ "envelope" \in tree[d]
                    /\ tree' = [tree EXCEPT ![d] = @ \cup {"runtime"}]
            \/ /\ proc'[p].pc = "retire"
               /\ \E d \in Dirs, f \in Legacy :
                    /\ f \in proc[p].left[d]
                    /\ tree' = [tree EXCEPT ![d] = @ \ {f}]
                    /\ proc'[p].left = [proc[p].left EXCEPT ![d] = @ \ {f}]
            \/ proc'[p].pc = "seal" /\ SameRead(p) /\ UNCHANGED tree
         /\ UNCHANGED <<legacy, backup, store, marker, fence, creates, faults>>
<1>1. /\ proc[p].pc = "retire"
      /\ UNCHANGED <<legacy, backup, store, marker, fence, creates, faults>>
  BY DEF Retire
<1>2. ASSUME NEW d \in Dirs, NEW f \in Legacy, Progress(p, d, f)
      PROVE  /\ proc' \in Memories /\ Others(p) /\ SameLease(p) /\ proc'[p].snap = proc[p].snap
             /\ proc'[p].pc = "retire"
             /\ proc'[p].left = [proc[p].left EXCEPT ![d] = @ \ {f}]
  BY <1>1, <1>2, ProgressDoes
<1>3. CASE \E d \in Dirs, f \in Legacy :
             /\ Turn(p, RemovalOrder, d, f)
             /\ f = "envelope" /\ f \in tree[d]
             /\ tree' = [tree EXCEPT ![d] = @ \cup {"runtime"}] /\ UNCHANGED proc
  BY <1>1, <1>3 DEF Turn, Others, SameLease, SameRead
<1>4. CASE \E d \in Dirs, f \in Legacy :
             /\ Turn(p, RemovalOrder, d, f)
             /\ tree' = [tree EXCEPT ![d] = @ \ {f}] /\ Progress(p, d, f)
  BY <1>1, <1>2, <1>4 DEF Turn
<1>5. CASE Over(p) /\ Goto(p, "seal") /\ UNCHANGED tree
  BY <1>1, <1>5, GotoDoes, PcsHave DEF SameRead
<1> QED BY <1>3, <1>4, <1>5 DEF Retire

LEMMA FailDoes ==
  ASSUME proc \in Memories, NEW p \in Procs, Fail(p)
  PROVE  /\ proc' \in Memories /\ Others(p) /\ SameLease(p) /\ SameRead(p)
         /\ proc[p].pc \in {"migrate", "retire", "seal"} \cup FirstSteps \cup ResidueSteps
         /\ proc'[p].pc = "idle"
         /\ fence' = IF proc[p].pc \in {"stage", "install"} THEN "none" ELSE fence
         /\ UNCHANGED <<legacy, tree, backup, store, marker, creates>>
BY GotoDoes, PcsHave DEF Fail

-----------------------------------------------------------------------------
LEMMA TypeStep ==
  ASSUME CutoverTypeOK, [Next]_vars
  PROVE  CutoverTypeOK'
<1>a. proc \in Memories
  BY DEF CutoverTypeOK, Memories
<1>0. CASE UNCHANGED vars
  BY <1>0 DEF vars, CutoverTypeOK
<1> SUFFICES ASSUME NEW p \in Procs,
                    Access(p) \/ Cutover(p) \/ Creates(p) \/ Wipe(p) \/ Fail(p) \/ Crash(p)
             PROVE  CutoverTypeOK'
  BY <1>0 DEF Next
<1>b. proc' \in Memories => proc' \in [Procs -> Processes]
  BY DEF Memories
<1>c. proc[p].snap \in LegacyTrees
  BY <1>a, ProcessTyped DEF Memories
<1>1. CASE Access(p)
  <2>1. store' \in {store, EmptyStore}
    BY <1>1, <1>a, AccessDoes
  <2> QED BY <1>1, <1>a, <1>b, <2>1, AccessDoes, StoresTyped DEF CutoverTypeOK
<1>2. CASE Acquire(p)
  <2>1. creates' \in 0 .. MaxCreates
    BY <1>2, CutoverAssumption DEF Acquire, CutoverTypeOK
  <2> QED BY <1>2, <1>a, <1>b, <2>1, AcquireDoes DEF CutoverTypeOK
<1>3. CASE PlainCreate(p) \/ WriteRow(p)
  <2>1. creates' \in 0 .. MaxCreates
    BY <1>3, CutoverAssumption DEF PlainCreate, WriteRow, CutoverTypeOK
  <2>2. store' \in Stores
    BY <1>3, <1>a, CreateDoes, StoresTyped DEF CutoverTypeOK
  <2> QED BY <1>3, <1>a, <1>b, <2>1, <2>2, CreateDoes DEF CutoverTypeOK
<1>4. ASSUME NEW hadRow \in BOOLEAN, NEW committed \in BOOLEAN, Release(p, hadRow, committed)
      PROVE  CutoverTypeOK'
  BY <1>4, <1>a, <1>b, ReleaseDoes DEF CutoverTypeOK
<1>5. CASE Wipe(p)
  <2>1. Nothing \in LegacyTrees
    BY StartedTyped
  <2> QED BY <1>5, <1>a, <1>b, <2>1, WipeDoes DEF CutoverTypeOK
<1>6. CASE Migrate(p)
  BY <1>6, <1>a, <1>b, MigrateDoes DEF CutoverTypeOK
<1>7. CASE Check(p) \/ TakeFence(p)
  BY <1>7, <1>a, <1>b, FenceDoes DEF CutoverTypeOK
<1>8. CASE Stage(p) \/ Install(p) \/ Mark(p)
  <2>1. Copied(proc[p].snap) \in LegacyTrees /\ Imported(proc[p].snap) \in Stores
    BY <1>c, TreesTyped, StoresTyped
  <2> QED BY <1>8, <1>a, <1>b, <2>1, ImportDoes DEF CutoverTypeOK
<1>9. CASE Quarantine(p)
  <2>1. /\ proc' \in Memories /\ UNCHANGED <<legacy, store, marker, fence, creates, faults>>
        /\ \/ \E d \in Dirs, f \in Legacy : /\ backup' = [backup EXCEPT ![d] = @ \cup {f}]
                                         /\ tree' = [tree EXCEPT ![d] = @ \ {f}]
           \/ UNCHANGED tree /\ backup' \in {backup, Copied(proc[p].snap)}
    BY <1>9, <1>a, QuarantineDoes
  <2>2. tree' \in [Dirs -> SUBSET (Legacy \cup {"runtime"})]
    BY <2>1 DEF CutoverTypeOK
  <2>3. backup' \in LegacyTrees
    <3>1. Copied(proc[p].snap) \in LegacyTrees
      BY <1>c, TreesTyped
    <3>2. backup \in LegacyTrees
      BY DEF CutoverTypeOK
    <3>3. \A d \in Dirs, f \in Legacy : [backup EXCEPT ![d] = @ \cup {f}] \in LegacyTrees
      BY <3>2, TreesTyped
    <3> QED BY <2>1, <3>1, <3>2, <3>3
  <2> QED BY <1>b, <2>1, <2>2, <2>3 DEF CutoverTypeOK
<1>10. CASE Absorb(p)
  <2>1. store' \in Stores \cup {NoStore}
    <3>1. \A d \in Dirs, f \in Legacy : store # NoStore => Absorbed(store, d, f, SeedOf(p)) \in Stores
      BY <1>c, StoresTyped DEF SeedOf, CutoverTypeOK
    <3>2. \/ store # NoStore /\ \E d \in Dirs, f \in Legacy : store' = Absorbed(store, d, f, SeedOf(p))
          \/ store' = store
      BY <1>10, <1>a, AbsorbDoes
    <3> QED BY <3>1, <3>2 DEF CutoverTypeOK
  <2> QED BY <1>10, <1>a, <1>b, <2>1, AbsorbDoes DEF CutoverTypeOK
<1>11. CASE Recheck(p)
  BY <1>11, <1>a, <1>b, RecheckDoes DEF CutoverTypeOK
<1>12. CASE Retire(p)
  <2>1. tree' \in [Dirs -> SUBSET (Legacy \cup {"runtime"})]
    <3>1. \/ \E d \in Dirs : tree' = [tree EXCEPT ![d] = @ \cup {"runtime"}]
          \/ \E d \in Dirs, f \in Legacy : tree' = [tree EXCEPT ![d] = @ \ {f}]
          \/ tree' = tree
      BY <1>12, <1>a, RetireDoes
    <3> QED BY <3>1 DEF CutoverTypeOK
  <2> QED BY <1>12, <1>a, <1>b, <2>1, RetireDoes DEF CutoverTypeOK
<1>13. CASE Seal(p)
  BY <1>13, <1>a, <1>b, SealDoes DEF CutoverTypeOK
<1>14. CASE Fail(p)
  <2>1. faults' \in 0 .. MaxFaults
    BY <1>14, CutoverAssumption DEF Fail, CutoverTypeOK
  <2> QED BY <1>14, <1>a, <1>b, <2>1, FailDoes DEF CutoverTypeOK
<1>15. CASE Crash(p)
  <2>1. faults' \in 0 .. MaxFaults
    BY <1>15, CutoverAssumption DEF Crash, CutoverTypeOK
  <2> QED BY <1>15, <1>a, <1>b, <2>1, CrashDoes DEF CutoverTypeOK
<1> QED BY <1>1, <1>2, <1>3, <1>4, <1>5, <1>6, <1>7, <1>8, <1>9, <1>10, <1>11, <1>12, <1>13,
           <1>14, <1>15 DEF Cutover, FirstImport, ResidueImport, Creates, Releases

-----------------------------------------------------------------------------
(* A process that acts is up, stays up, and is the only one that changes.  *)
LEMMA Acts ==
  ASSUME CutoverTypeOK, NEW p \in Procs,
         Access(p) \/ Cutover(p) \/ Creates(p) \/ Wipe(p) \/ Fail(p) \/ Crash(p)
  PROVE  /\ legacy' = legacy /\ proc' \in Memories /\ Others(p)
         /\ proc[p].pc # "down" /\ proc'[p].pc # "down"
         /\ tree' = tree \/ \E d \in Dirs : proc[p].left[d] # {}
<1>a. proc \in Memories
  BY DEF CutoverTypeOK, Memories
<1>1. CASE Access(p)
  BY <1>1, <1>a, AccessDoes
<1>2. CASE Acquire(p)
  BY <1>2, <1>a, AcquireDoes
<1>3. CASE PlainCreate(p) \/ WriteRow(p)
  <2>1. store \in Stores \cup {NoStore}
    BY DEF CutoverTypeOK
  <2> QED BY <1>3, <1>a, <2>1, CreateDoes
<1>4. ASSUME NEW hadRow \in BOOLEAN, NEW committed \in BOOLEAN, Release(p, hadRow, committed)
      PROVE  /\ legacy' = legacy /\ proc' \in Memories /\ Others(p)
             /\ proc[p].pc # "down" /\ proc'[p].pc # "down" /\ tree' = tree
  BY <1>4, <1>a, ReleaseDoes
<1>5. CASE Wipe(p)
  BY <1>5, <1>a, WipeDoes DEF WipeSteps
<1>6. CASE Migrate(p)
  BY <1>6, <1>a, MigrateDoes
<1>7. CASE Check(p) \/ TakeFence(p)
  BY <1>7, <1>a, FenceDoes
<1>8. CASE Stage(p) \/ Install(p) \/ Mark(p)
  BY <1>8, <1>a, ImportDoes
<1>9. CASE Quarantine(p)
  BY <1>9, <1>a, QuarantineDoes DEF Turn
<1>10. CASE Absorb(p)
  BY <1>10, <1>a, AbsorbDoes
<1>11. CASE Recheck(p)
  BY <1>11, <1>a, RecheckDoes
<1>12. CASE Retire(p)
  BY <1>12, <1>a, RetireDoes
<1>13. CASE Seal(p)
  BY <1>13, <1>a, SealDoes
<1>14. CASE Fail(p)
  BY <1>14, <1>a, FailDoes DEF FirstSteps, ResidueSteps
<1>15. CASE Crash(p)
  BY <1>15, <1>a, CrashDoes DEF Started
<1> QED BY <1>1, <1>2, <1>3, <1>4, <1>5, <1>6, <1>7, <1>8, <1>9, <1>10, <1>11, <1>12, <1>13,
           <1>14, <1>15 DEF Cutover, FirstImport, ResidueImport, Creates, Releases

LEMMA ModeStep ==
  ASSUME CutoverTypeOK, Control, NEW p \in Procs,
         Access(p) \/ Cutover(p) \/ Creates(p) \/ Wipe(p) \/ Fail(p) \/ Crash(p)
  PROVE  Mode'
<1>a. proc \in Memories
  BY DEF CutoverTypeOK, Memories
<1>b. /\ legacy' = legacy /\ Others(p) /\ proc[p].pc # "down" /\ proc'[p].pc # "down"
      /\ tree' = tree \/ \E d \in Dirs : proc[p].left[d] # {}
  BY Acts
<1>1. \A q \in Procs : proc'[q].pc = "down" => proc'[q].leases = 0
  BY <1>b DEF Control, Mode, Others
<1>2. CASE Fresh
  <2>1. tree' = tree
    BY <1>2, <1>b DEF Fresh, Control, TreeSound, Nothing
  <2>2. \A q \in Procs \ {p} : proc'[q].pc = "down"
    BY <1>2, <1>b DEF Fresh, Others
  <2> QED BY <1>1, <1>2, <1>b, <2>1, <2>2 DEF Mode, Fresh
<1>3. CASE Shared
  <2> SUFFICES Shared'
    BY <1>1 DEF Mode
  <2>0. /\ marker \/ legacy # Nothing
        /\ marker => store # NoStore
        /\ \A q \in Procs : ~proc[q].creating /\ proc[q].leases = 0 /\ ~proc[q].owned
                            /\ proc[q].pc \notin WipeSteps
    BY <1>3 DEF Shared
  <2>a. \A q \in Procs \ {p} : proc'[q] = proc[q]
    BY <1>b DEF Others
  <2>1. CASE Access(p)
    BY <1>a, <1>b, <2>0, <2>a, <2>1, AccessDoes, StoresTyped, StoreAssumption DEF Shared, SameLease, WipeSteps
  <2>2. CASE Acquire(p)
    <3>1. proc[p].owned \/ (~marker /\ tree = Nothing)
      BY <1>a, <2>2, AcquireDoes
    <3> QED BY <2>0, <3>1 DEF Control, TreeSound
  <2>3. CASE PlainCreate(p) \/ WriteRow(p)
    <3>1. store \in Stores \cup {NoStore}
      BY DEF CutoverTypeOK
    <3>2. /\ store \in Stores /\ store' = [store EXCEPT !.born = @ + 1] /\ proc'[p].pc = "idle"
          /\ marker' = marker /\ SameLease(p)
      BY <1>a, <2>3, <3>1, CreateDoes
    <3>3. store' # NoStore
      BY <3>2, StoresTyped, StoreAssumption
    <3> QED BY <1>b, <2>0, <2>a, <3>2, <3>3 DEF Shared, SameLease, WipeSteps
  <2>4. ASSUME NEW hadRow \in BOOLEAN, NEW committed \in BOOLEAN, Release(p, hadRow, committed)
        PROVE  Shared'
    <3>1. proc[p].leases > 0
      BY <1>a, <2>4, ReleaseDoes
    <3> QED BY <2>0, <3>1
  <2>5. CASE Wipe(p)
    BY <1>a, <1>b, <2>0, <2>a, <2>5, WipeDoes DEF Shared, SameLease, WipeSteps
  <2>6. CASE Migrate(p)
    BY <1>a, <1>b, <2>0, <2>a, <2>6, MigrateDoes DEF Shared, SameLease, WipeSteps
  <2>7. CASE Check(p) \/ TakeFence(p)
    BY <1>a, <1>b, <2>0, <2>a, <2>7, FenceDoes DEF Shared, SameLease, WipeSteps
  <2>8. CASE Stage(p) \/ Install(p) \/ Mark(p)
    <3>1. proc[p].pc = "mark" => store # NoStore
      BY DEF Control, Fenced, Holders
    <3>2. Imported(proc[p].snap) # NoStore
      BY <1>a, ProcessTyped, StoresTyped, StoreAssumption DEF Memories
    <3>3. /\ SameLease(p) /\ proc'[p].pc \in {"install", "mark", "idle", "retire"}
          /\ \/ store' = store /\ marker' = marker
             \/ store' = Imported(proc[p].snap) /\ marker' = marker
             \/ proc[p].pc = "mark" /\ store' = store
      BY <1>a, <2>8, ImportDoes
    <3>4. marker' \/ legacy # Nothing
      BY <1>a, <2>0, <2>8, ImportDoes
    <3>5. marker' => store' # NoStore
      BY <2>0, <3>1, <3>2, <3>3
    <3>6. proc'[p].pc \notin WipeSteps
      BY <3>3 DEF WipeSteps
    <3>7. /\ proc'[p].creating = proc[p].creating /\ proc'[p].leases = proc[p].leases
          /\ proc'[p].owned = proc[p].owned
      BY <3>3 DEF SameLease
    <3>8. ~proc'[p].creating /\ proc'[p].leases = 0 /\ ~proc'[p].owned
      BY <2>0, <3>7
    <3> QED BY <1>b, <2>0, <2>a, <3>4, <3>5, <3>6, <3>8 DEF Shared
  <2>9. CASE Quarantine(p)
    BY <1>a, <1>b, <2>0, <2>a, <2>9, QuarantineDoes DEF Shared, SameLease, WipeSteps
  <2>10. CASE Absorb(p)
    <3>1. /\ SameLease(p) /\ proc'[p].pc \in {"absorb", "recheck"} /\ marker' = marker
          /\ \/ store' = store
             \/ /\ store # NoStore
                /\ \E d \in Dirs, f \in Legacy : store' = Absorbed(store, d, f, SeedOf(p))
      BY <1>a, <2>10, AbsorbDoes
    <3>2. store # NoStore => store' # NoStore
      <4>1. proc[p].snap \in LegacyTrees /\ (store # NoStore => store \in Stores)
        BY <1>a, ProcessTyped DEF Memories, CutoverTypeOK
      <4>2. store # NoStore => \A d \in Dirs, f \in Legacy : Absorbed(store, d, f, SeedOf(p)) # NoStore
        BY <4>1, StoresTyped, StoreAssumption DEF SeedOf
      <4> QED BY <3>1, <4>2
    <3> QED BY <1>b, <2>0, <2>a, <3>1, <3>2 DEF Shared, SameLease, WipeSteps
  <2>11. CASE Recheck(p)
    BY <1>a, <1>b, <2>0, <2>a, <2>11, RecheckDoes DEF Shared, SameLease, WipeSteps
  <2>12. CASE Retire(p)
    BY <1>a, <1>b, <2>0, <2>a, <2>12, RetireDoes DEF Shared, SameLease, WipeSteps
  <2>13. CASE Seal(p)
    BY <1>a, <1>b, <2>0, <2>a, <2>13, SealDoes DEF Shared, SameLease, WipeSteps
  <2>14. CASE Fail(p)
    <3>1. SameLease(p) /\ proc'[p].pc = "idle" /\ UNCHANGED <<store, marker>>
      BY <1>a, <2>14, FailDoes
    <3> QED BY <1>b, <2>0, <2>a, <3>1 DEF Shared, SameLease, WipeSteps
  <2>15. CASE Crash(p)
    <3>1. proc'[p] = Started /\ UNCHANGED <<store, marker>>
      BY <1>a, <2>15, CrashDoes
    <3>2. ~Started.creating /\ Started.leases = 0 /\ ~Started.owned /\ Started.pc \notin WipeSteps
      BY DEF Started, WipeSteps
    <3> QED BY <1>b, <2>0, <2>a, <3>1, <3>2 DEF Shared
  <2> QED BY <2>1, <2>2, <2>3, <2>4, <2>5, <2>6, <2>7, <2>8, <2>9, <2>10, <2>11, <2>12, <2>13, <2>14, <2>15
      DEF Cutover, FirstImport, ResidueImport, Creates, Releases
<1> QED BY <1>1, <1>2, <1>3 DEF Control, Mode

(* What a step takes from the tree, and what its process has then seen.    *)
TreeMoves(p) ==
  \/ tree' = tree
  \/ /\ proc[p].pc \in {"quarantine", "retire"} /\ marker' = marker
     /\ \A d \in Dirs : tree'[d] \cap Legacy \subseteq tree[d]
MemoryMoves(p) == \A d \in Dirs :
  /\ proc'[p].snap[d] \subseteq proc[p].snap[d] \cup (tree[d] \cap Legacy)
  /\ proc'[p].left[d] \subseteq proc[p].left[d] \cup proc[p].snap[d] \cup (tree[d] \cap Legacy)

LEMMA Reading ==
  ASSUME CutoverTypeOK, NEW p \in Procs,
         Access(p) \/ Cutover(p) \/ Creates(p) \/ Wipe(p) \/ Fail(p) \/ Crash(p)
  PROVE  TreeMoves(p) /\ MemoryMoves(p)
<1>a. proc \in Memories
  BY DEF CutoverTypeOK, Memories
<1>b. tree \in [Dirs -> SUBSET (Legacy \cup {"runtime"})]
  BY DEF CutoverTypeOK
<1>c. proc[p].left \in [Dirs -> SUBSET Legacy]
  BY <1>a, ProcessTyped DEF Memories, LegacyTrees
<1>d. SameRead(p) => MemoryMoves(p)
  BY DEF SameRead, MemoryMoves
<1> USE DEF TreeMoves
<1>1. CASE Access(p)
  BY <1>a, <1>d, <1>1, AccessDoes
<1>2. CASE Acquire(p)
  BY <1>a, <1>d, <1>2, AcquireDoes
<1>3. CASE PlainCreate(p) \/ WriteRow(p)
  <2>1. store \in Stores \cup {NoStore}
    BY DEF CutoverTypeOK
  <2> QED BY <1>3, <1>a, <1>d, <2>1, CreateDoes
<1>4. ASSUME NEW hadRow \in BOOLEAN, NEW committed \in BOOLEAN, Release(p, hadRow, committed)
      PROVE  TreeMoves(p) /\ MemoryMoves(p)
  BY <1>a, <1>d, <1>4, ReleaseDoes
<1>5. CASE Wipe(p)
  BY <1>a, <1>d, <1>5, WipeDoes
<1>6. CASE Migrate(p)
  BY <1>a, <1>d, <1>6, MigrateDoes DEF MemoryMoves, Readable, Quarantined, LegacyOf
<1>7. CASE Check(p) \/ TakeFence(p)
  BY <1>a, <1>d, <1>7, FenceDoes
<1>8. CASE Stage(p) \/ Install(p) \/ Mark(p)
  <2>1. UNCHANGED tree
    BY <1>a, <1>8, ImportDoes
  <2>2. SameRead(p) \/ (proc[p].pc = "mark" /\ proc'[p].pc = "retire" /\ proc'[p].left = LegacyOf(tree))
    BY <1>a, <1>8, ImportDoes
  <2>3. proc'[p].snap = proc[p].snap
    BY <1>a, <1>8, ImportDoes
  <2> QED BY <1>a, <1>d, <2>1, <2>2, <2>3 DEF MemoryMoves, LegacyOf
<1>9. CASE Quarantine(p)
  <2>1. TreeMoves(p)
    <3>1. proc[p].pc = "quarantine" /\ marker' = marker
      BY <1>9, <1>a, <1>b, QuarantineDoes
    <3>2. \A d \in Dirs : tree'[d] \subseteq tree[d]
      BY <1>9, <1>a, QuarantineRemoves
    <3> QED BY <3>1, <3>2
  <2>2. MemoryMoves(p)
    BY <1>9, <1>a, <1>c, <1>d, QuarantineDoes DEF MemoryMoves, LegacyOf
  <2> QED BY <2>1, <2>2
<1>10. CASE Absorb(p)
  BY <1>a, <1>d, <1>10, AbsorbDoes, <1>c DEF MemoryMoves
<1>11. CASE Recheck(p)
  BY <1>a, <1>d, <1>11, RecheckDoes DEF MemoryMoves, LegacyOf
<1>12. CASE Retire(p)
  <2>1. TreeMoves(p)
    <3>1. "runtime" \notin Legacy
      BY DEF Legacy
    <3>2. /\ proc[p].pc = "retire" /\ marker' = marker
          /\ \/ \E d \in Dirs : tree' = [tree EXCEPT ![d] = @ \cup {"runtime"}]
             \/ \E d \in Dirs, f \in Legacy : tree' = [tree EXCEPT ![d] = @ \ {f}]
             \/ tree' = tree
      BY <1>12, <1>a, RetireDoes
    <3> QED BY <1>b, <3>1, <3>2
  <2>2. MemoryMoves(p)
    BY <1>12, <1>a, <1>c, <1>d, RetireDoes DEF MemoryMoves
  <2> QED BY <2>1, <2>2
<1>13. CASE Seal(p)
  BY <1>a, <1>d, <1>13, SealDoes
<1>14. CASE Fail(p)
  BY <1>a, <1>d, <1>14, FailDoes
<1>15. CASE Crash(p)
  <2>1. proc'[p].snap = Nothing /\ proc'[p].left = Nothing /\ tree' = tree
    BY <1>15, <1>a, CrashDoes DEF Started
  <2> QED BY <2>1 DEF MemoryMoves, Nothing
<1> QED BY <1>1, <1>2, <1>3, <1>4, <1>5, <1>6, <1>7, <1>8, <1>9, <1>10, <1>11, <1>12, <1>13, <1>14, <1>15
    DEF Cutover, FirstImport, ResidueImport, Creates, Releases

(* A process that acts has no other beside it that takes a store back, and *)
(* none at all if it owns its store.                                       *)
LEMMA Alone ==
  ASSUME Control, NEW p \in Procs, proc[p].pc # "down"
  PROVE  /\ \A q \in Procs : q # p => proc[q].pc \notin WipeSteps
         /\ proc[p].pc \in WipeSteps \/ proc[p].leases > 0 =>
              /\ legacy = Nothing /\ tree = Nothing
              /\ \A q \in Procs : q # p => proc[q].pc = "down" /\ proc[q].leases = 0
<1>1. CASE Fresh
  <2>1. PICK o \in Procs : \A q \in Procs \ {o} : proc[q].pc = "down"
    BY <1>1 DEF Fresh
  <2>2. o = p
    BY <2>1
  <2>3. \A q \in Procs : q # p => proc[q].pc = "down" /\ proc[q].leases = 0
    BY <2>1, <2>2 DEF Control, Mode
  <2> QED BY <1>1, <2>3 DEF Fresh, WipeSteps
<1>2. CASE Shared
  BY <1>2 DEF Shared
<1> QED BY <1>1, <1>2 DEF Control, Mode

LEMMA TreeStep ==
  ASSUME CutoverTypeOK, Control, NEW p \in Procs,
         Access(p) \/ Cutover(p) \/ Creates(p) \/ Wipe(p) \/ Fail(p) \/ Crash(p)
  PROVE  TreeSound'
<1>1. TreeMoves(p) /\ MemoryMoves(p) /\ Others(p) /\ legacy' = legacy /\ proc[p].pc # "down"
  BY Acts, Reading
<1>2. /\ ~marker => tree = legacy
      /\ \A d \in Dirs : tree[d] \cap Legacy \subseteq legacy[d]
      /\ \A q \in Procs, d \in Dirs : proc[q].snap[d] \subseteq legacy[d] /\ proc[q].left[d] \subseteq legacy[d]
  BY DEF Control, TreeSound
<1>3. \A d \in Dirs : tree'[d] \cap Legacy \subseteq legacy'[d]
  BY <1>1, <1>2 DEF TreeMoves
<1>4. ASSUME NEW q \in Procs, NEW d \in Dirs
      PROVE  proc'[q].snap[d] \subseteq legacy'[d] /\ proc'[q].left[d] \subseteq legacy'[d]
  <2>1. CASE q = p
    BY <1>1, <1>2, <2>1 DEF MemoryMoves
  <2>2. CASE q # p
    BY <1>1, <1>2, <2>2 DEF Others
  <2> QED BY <2>1, <2>2
<1>5. ASSUME ~marker' PROVE tree' = legacy'
  <2>1. CASE marker /\ marker' # marker
    <3>1. Wipe(p)
      BY <1>5, <2>1 DEF Access, Cutover, FirstImport, ResidueImport, Creates, Releases, Fail, Crash,
         Migrate, Check, TakeFence, Stage, Install, Mark, Quarantine, Absorb, Recheck, Retire, Seal,
         Acquire, PlainCreate, WriteRow, Release, disk
    <3>2. proc[p].pc \in WipeSteps /\ tree' = tree
      BY <3>1 DEF Wipe, WipeMarker, WipeFence, WipeBackup, WipeSteps
    <3> QED BY <1>1, <3>2, Alone
  <2>2. CASE ~marker
    <3>1. proc[p].pc \notin {"quarantine", "retire"}
      BY <2>2 DEF Control, Marked, ResidueSteps
    <3> QED BY <1>1, <1>2, <2>2, <3>1 DEF TreeMoves
  <2>3. marker \in BOOLEAN
    BY DEF CutoverTypeOK
  <2> QED BY <1>5, <2>1, <2>2, <2>3
<1> QED BY <1>3, <1>4, <1>5 DEF TreeSound

-----------------------------------------------------------------------------
(* Who holds the fence, and what it says of the disk.                      *)
FenceSound == Marked /\ Fenced /\ Wiped /\ NeverAmbiguous
Up(x) == x \notin Holders \cup WipeSteps

(* A step that leaves marker and fence alone, and takes no fence.          *)
LEMMA Quiet ==
  ASSUME Control, NEW p \in Procs, proc[p].pc # "down", Others(p),
         UNCHANGED <<marker, fence>>,
         marker \/ store' = store,
         store' = store \/ proc[p].pc \notin WipeSteps,
         Up(proc'[p].pc),
         proc'[p].leases > 0 => marker,
         proc'[p].pc \in ResidueSteps \cup {"retire", "seal"} => marker,
         proc'[p].pc \in FirstSteps /\ fence = "none" => ~marker
  PROVE  FenceSound'
<1>1. \A q \in Procs : q # p => proc'[q] = proc[q] /\ proc[q].pc \notin WipeSteps
  BY Alone DEF Others
<1>2. Marked'
  BY <1>1 DEF Control, Marked
<1>3. Fenced'
  <2>1. \A q \in Procs : proc'[q].pc \in FirstSteps /\ fence' = "none" => ~marker'
    BY <1>1 DEF Control, Fenced
  <2>2. ASSUME NEW q \in Procs, proc'[q].pc \in Holders
        PROVE  /\ fence' = "migrating" /\ ~marker'
               /\ proc'[q].pc = "mark" <=> store' # NoStore
               /\ \A r \in Procs : proc'[r].pc \in Holders => r = q
    <3>1. q # p /\ proc'[q] = proc[q]
      BY <1>1, <2>2 DEF Up
    <3>2. /\ fence = "migrating" /\ ~marker
          /\ proc[q].pc = "mark" <=> store # NoStore
          /\ \A r \in Procs : proc[r].pc \in Holders => r = q
      BY <2>2, <3>1 DEF Control, Fenced
    <3>3. store' = store
      BY <3>2
    <3>4. \A r \in Procs : proc'[r].pc \in Holders => r = q
      BY <1>1, <3>2 DEF Up
    <3> QED BY <3>1, <3>2, <3>3, <3>4
  <2> QED BY <2>1, <2>2 DEF Fenced
<1>4. Wiped'
  BY <1>1 DEF Wiped, Up
<1>5. NeverAmbiguous'
  BY DEF Control, NeverAmbiguous
<1> QED BY <1>2, <1>3, <1>4, <1>5 DEF FenceSound

(* A step of the owner of a fresh store, beside which all others are down. *)
LEMMA Lonely ==
  ASSUME NEW p \in Procs, Others(p),
         \A q \in Procs : q # p => proc[q].pc = "down" /\ proc[q].leases = 0,
         proc'[p].pc \in WipeSteps \cup {"idle"},
         proc'[p].leases > 0 => marker',
         proc'[p].pc \in WipeSteps => store' = NoStore /\ proc'[p].leases = 0,
         store' # NoStore => marker' \/ fence' # "none"
  PROVE  FenceSound'
<1>1. \A q \in Procs : q # p => proc'[q].pc = "down" /\ proc'[q].leases = 0
  BY DEF Others
<1>2. \A q \in Procs : proc'[q].pc \in WipeSteps \cup {"idle", "down"}
  BY <1>1
<1>3. \A q \in Procs : proc'[q].pc \notin ResidueSteps \cup {"retire", "seal"} \cup FirstSteps \cup Holders
  BY <1>2 DEF WipeSteps, ResidueSteps, FirstSteps, Holders
<1>4. Marked'
  BY <1>1, <1>3 DEF Marked
<1>5. Fenced'
  BY <1>3 DEF Fenced
<1>6. Wiped'
  BY <1>1 DEF Wiped, WipeSteps
<1> QED BY <1>4, <1>5, <1>6 DEF FenceSound, NeverAmbiguous

(* What is known of the process that takes a step. *)
LEMMA Knows ==
  ASSUME Control, NEW p \in Procs
  PROVE  /\ proc[p].pc \in ResidueSteps \cup {"retire", "seal"} => marker
         /\ proc[p].leases > 0 => marker
         /\ proc[p].pc \in FirstSteps /\ fence = "none" => ~marker
         /\ proc[p].pc \in Holders =>
              /\ fence = "migrating" /\ ~marker
              /\ proc[p].pc = "mark" <=> store # NoStore
              /\ \A q \in Procs : proc[q].pc \in Holders => q = p
         /\ proc[p].pc \in WipeSteps => store = NoStore /\ proc[p].leases = 0
BY DEF Control, Marked, Fenced, Wiped

LEMMA FenceStep ==
  ASSUME CutoverTypeOK, Control, NEW p \in Procs,
         Access(p) \/ Cutover(p) \/ Creates(p) \/ Wipe(p) \/ Fail(p) \/ Crash(p)
  PROVE  FenceSound'
<1>a. proc \in Memories
  BY DEF CutoverTypeOK, Memories
<1>b. Others(p) /\ proc[p].pc # "down" /\ proc'[p].pc # "down"
  BY Acts
<1>c. /\ proc[p].pc \in ResidueSteps \cup {"retire", "seal"} => marker
      /\ proc[p].leases > 0 => marker
      /\ proc[p].pc \in FirstSteps /\ fence = "none" => ~marker
  BY Knows
<1>d. \A x \in {"idle", "migrate", "retire", "seal", "check", "fence", "quarantine", "absorb", "recheck"} : Up(x)
  BY DEF Up, Holders, WipeSteps
<1>e. \A x \in {"idle", "migrate", "check", "fence", "seal"} : x \notin ResidueSteps \cup {"retire"}
  BY DEF ResidueSteps
<1>f. \A x \in {"idle", "migrate", "retire", "seal", "quarantine", "absorb", "recheck"} : x \notin FirstSteps
  BY DEF FirstSteps
<1>g. "idle" \notin WipeSteps
  BY DEF WipeSteps
<1>1. CASE Access(p)
  <2>1. /\ UNCHANGED <<marker, fence>> /\ proc'[p].leases = proc[p].leases
        /\ proc'[p].pc \in {"idle", "migrate"} /\ proc[p].pc = "idle"
        /\ store' = store \/ marker
    BY <1>a, <1>1, AccessDoes
  <2> QED BY <1>b, <1>c, <1>d, <1>e, <1>f, <1>g, <2>1, Quiet DEF SameLease
<1>2. CASE Acquire(p)
  <2>1. /\ UNCHANGED <<store, marker, fence>>
        /\ proc'[p].leases = proc[p].leases \/ marker
        /\ proc'[p].pc \in {"idle", "migrate"} /\ proc[p].pc = "idle"
    BY <1>a, <1>2, AcquireDoes
  <2> QED BY <1>b, <1>c, <1>d, <1>e, <1>f, <1>g, <2>1, Quiet DEF SameLease
<1>3. CASE PlainCreate(p) \/ WriteRow(p)
  <2>1. store \in Stores \cup {NoStore}
    BY DEF CutoverTypeOK
  <2>2. /\ UNCHANGED <<marker, fence>> /\ SameLease(p) /\ proc'[p].pc = "idle" /\ proc[p].pc = "idle"
        /\ marker \/ proc[p].leases > 0
    BY <1>a, <1>3, <2>1, CreateDoes
  <2> QED BY <1>b, <1>c, <1>d, <1>e, <1>f, <1>g, <2>2, Quiet DEF SameLease
<1>4. ASSUME NEW hadRow \in BOOLEAN, NEW committed \in BOOLEAN, Release(p, hadRow, committed)
      PROVE  FenceSound'
  <2>1. /\ proc[p].leases > 0 /\ marker' = marker
        /\ proc'[p].pc \in {"idle", "wipe marker"}
        /\ proc'[p].pc = "wipe marker" => store' = NoStore /\ proc'[p].leases = 0
    BY <1>a, <1>4, ReleaseDoes
  <2>2. \A q \in Procs : q # p => proc[q].pc = "down" /\ proc[q].leases = 0
    BY <1>b, <2>1, Alone
  <2>3. proc'[p].pc \in WipeSteps \cup {"idle"} /\ (proc'[p].pc \in WipeSteps => proc'[p].pc = "wipe marker")
    BY <2>1 DEF WipeSteps
  <2> QED BY <1>b, <1>c, <2>1, <2>2, <2>3, Lonely
<1>5. CASE Wipe(p)
  <2>1. /\ proc[p].pc \in WipeSteps /\ proc'[p].pc \in WipeSteps \cup {"idle"}
        /\ proc'[p].leases = proc[p].leases /\ store' = store
    BY <1>a, <1>5, WipeDoes
  <2>2. store = NoStore /\ proc[p].leases = 0
    BY <2>1, Knows
  <2>3. \A q \in Procs : q # p => proc[q].pc = "down" /\ proc[q].leases = 0
    BY <1>b, <2>1, Alone
  <2> QED BY <1>b, <2>1, <2>2, <2>3, Lonely
<1>6. CASE Migrate(p)
  <2>1. /\ UNCHANGED <<store, marker, fence>> /\ SameLease(p) /\ proc[p].pc = "migrate"
        /\ \/ proc'[p].pc = "idle"
           \/ proc'[p].pc = "quarantine" /\ marker
           \/ proc'[p].pc = "check" /\ ~marker
    BY <1>a, <1>6, MigrateDoes
  <2> QED BY <1>b, <1>c, <1>d, <1>e, <1>f, <1>g, <2>1, Quiet DEF SameLease
<1>7. CASE Check(p) \/ TakeFence(p)
  <2>1. CASE UNCHANGED fence
    <3>1. /\ UNCHANGED <<store, marker, fence>> /\ SameLease(p) /\ proc[p].pc \in {"check", "fence"}
          /\ proc'[p].pc \in {"idle", "fence"}
      BY <1>a, <1>7, <2>1, FenceDoes
    <3>2. proc[p].pc \in FirstSteps
      BY <3>1 DEF FirstSteps
    <3> QED BY <1>b, <1>c, <1>d, <1>e, <1>f, <1>g, <3>1, <3>2, Quiet DEF SameLease
  <2>2. CASE fence' # fence
    <3>1. /\ proc[p].pc = "fence" /\ fence = "none" /\ fence' = "migrating" /\ proc'[p].pc = "stage"
          /\ UNCHANGED <<store, marker>> /\ SameLease(p)
      BY <1>a, <1>7, <2>2, FenceDoes
    <3>2. ~marker /\ store = NoStore
      BY <1>c, <3>1 DEF FirstSteps, Control, NeverAmbiguous
    <3>3. \A q \in Procs : proc[q].pc \notin Holders
      BY <3>1, Knows
    <3>4. \A q \in Procs : q # p => proc'[q] = proc[q] /\ proc[q].pc \notin WipeSteps
      BY <1>b, Alone DEF Others
    <3>5. Marked'
      BY <1>c, <3>1, <3>4 DEF Control, Marked, SameLease, ResidueSteps
    <3>6. Fenced'
      BY <3>1, <3>2, <3>3, <3>4 DEF Fenced, FirstSteps
    <3>7. Wiped' /\ NeverAmbiguous'
      BY <3>1, <3>2, <3>4 DEF Wiped, WipeSteps, NeverAmbiguous
    <3> QED BY <3>5, <3>6, <3>7 DEF FenceSound
  <2> QED BY <2>1, <2>2
<1>8. CASE Stage(p) \/ Install(p) \/ Mark(p)
  <2>1. \A q \in Procs : q # p => proc'[q] = proc[q] /\ proc[q].pc \notin WipeSteps
    BY <1>b, Alone DEF Others
  <2>2. SameLease(p) /\ proc[p].pc \in Holders
    BY <1>a, <1>8, ImportDoes DEF Holders
  <2>3. /\ fence = "migrating" /\ ~marker
        /\ proc[p].pc = "mark" <=> store # NoStore
        /\ \A q \in Procs : q # p => proc[q].pc \notin Holders
    BY <2>2, Knows
  <2>4. \A q \in Procs : proc[q].leases > 0 => marker
    BY Knows
  <2>5. \A q \in Procs : proc'[q].leases > 0 => FALSE
    BY <2>1, <2>2, <2>3, <2>4 DEF SameLease
  <2>6. \A q \in Procs : q # p => proc'[q].pc \notin ResidueSteps \cup {"retire", "seal"}
    BY <2>1, <2>3, Knows
  <2>7. CASE proc'[p].pc \in Holders
    <3>1. /\ UNCHANGED <<marker, fence>>
          /\ proc'[p].pc = "mark" <=> store' # NoStore
      <4>1. Imported(proc[p].snap) # NoStore
        BY <1>a, ProcessTyped, StoresTyped, StoreAssumption DEF Memories
      <4> QED BY <1>a, <1>8, <2>3, <2>7, <4>1, ImportDoes DEF Holders
    <3>2. proc'[p].pc \notin ResidueSteps \cup {"retire", "seal"} \cup WipeSteps
      BY <2>7 DEF Holders, ResidueSteps, WipeSteps
    <3>3. Marked'
      BY <2>5, <2>6, <3>2 DEF Marked
    <3>4. Fenced'
      BY <2>1, <2>3, <3>1 DEF Fenced
    <3>5. Wiped' /\ NeverAmbiguous'
      BY <2>1, <2>3, <3>1, <3>2 DEF Wiped, NeverAmbiguous
    <3> QED BY <3>3, <3>4, <3>5 DEF FenceSound
  <2>8. CASE proc'[p].pc \notin Holders
    <3>1. \/ proc'[p].pc = "idle" /\ fence' = "none" /\ marker' = marker /\ store' = store /\ proc[p].pc = "install"
          \/ proc'[p].pc = "idle" /\ fence' = fence /\ marker' = marker /\ store' = store
          \/ proc'[p].pc = "retire" /\ marker' = TRUE /\ fence' = fence /\ store' = store
      BY <1>a, <1>8, <2>8, ImportDoes DEF Holders
    <3>2. \A q \in Procs : proc'[q].pc \notin Holders
      BY <2>1, <2>3, <2>8
    <3>3. Marked'
      <4>1. proc'[p].pc \in ResidueSteps \cup {"retire", "seal"} => marker'
        BY <3>1 DEF ResidueSteps
      <4> QED BY <2>5, <2>6, <4>1 DEF Marked
    <3>4. Fenced'
      BY <2>1, <2>3, <3>1, <3>2 DEF Fenced, FirstSteps
    <3>5. Wiped'
      BY <2>1, <3>1 DEF Wiped, WipeSteps
    <3>6. NeverAmbiguous'
      BY <2>3, <3>1 DEF NeverAmbiguous
    <3> QED BY <3>3, <3>4, <3>5, <3>6 DEF FenceSound
  <2> QED BY <2>7, <2>8
<1>9. CASE Quarantine(p)
  <2>1. /\ UNCHANGED <<store, marker, fence>> /\ SameLease(p) /\ proc[p].pc = "quarantine"
        /\ proc'[p].pc \in {"quarantine", "retire", "absorb", "idle"}
    BY <1>a, <1>9, QuarantineDoes
  <2> QED BY <1>b, <1>c, <1>d, <1>e, <1>f, <1>g, <2>1, Quiet DEF SameLease, ResidueSteps
<1>10. CASE Absorb(p)
  <2>1. /\ UNCHANGED <<marker, fence>> /\ SameLease(p) /\ proc[p].pc = "absorb"
        /\ proc'[p].pc \in {"absorb", "recheck"}
    BY <1>a, <1>10, AbsorbDoes
  <2>2. proc[p].pc \in ResidueSteps /\ proc[p].pc \notin WipeSteps
    BY <2>1 DEF ResidueSteps, WipeSteps
  <2> QED BY <1>b, <1>c, <1>d, <1>e, <1>f, <1>g, <2>1, <2>2, Quiet DEF SameLease
<1>11. CASE Recheck(p)
  <2>1. /\ UNCHANGED <<store, marker, fence>> /\ SameLease(p) /\ proc[p].pc = "recheck"
        /\ proc'[p].pc \in {"retire", "idle"}
    BY <1>a, <1>11, RecheckDoes
  <2> QED BY <1>b, <1>c, <1>d, <1>e, <1>f, <1>g, <2>1, Quiet DEF SameLease, ResidueSteps
<1>12. CASE Retire(p)
  <2>1. /\ UNCHANGED <<store, marker, fence>> /\ SameLease(p) /\ proc[p].pc = "retire"
        /\ proc'[p].pc \in {"retire", "seal"}
    BY <1>a, <1>12, RetireDoes
  <2> QED BY <1>b, <1>c, <1>d, <1>e, <1>f, <1>g, <2>1, Quiet DEF SameLease
<1>13. CASE Seal(p)
  <2>1. /\ UNCHANGED <<store, marker>> /\ fence' = "retired"
        /\ proc[p].pc = "seal" /\ proc'[p].pc = "idle"
    BY <1>a, <1>13, SealDoes
  <2>2. marker
    BY <1>c, <2>1
  <2>3. \A q \in Procs : q # p => proc'[q] = proc[q] /\ proc[q].pc \notin WipeSteps
    BY <1>b, Alone DEF Others
  <2>4. \A q \in Procs : proc[q].pc \notin Holders
    BY <2>2, Knows
  <2>5. Marked'
    BY <2>1, <2>2 DEF Marked
  <2>6. Fenced'
    BY <2>1, <2>3, <2>4 DEF Fenced, Holders
  <2>7. Wiped' /\ NeverAmbiguous'
    BY <2>1, <2>2, <2>3 DEF Wiped, WipeSteps, NeverAmbiguous
  <2> QED BY <2>5, <2>6, <2>7 DEF FenceSound
<1>14. CASE Fail(p)
  <2>1. /\ UNCHANGED <<store, marker>> /\ SameLease(p) /\ proc'[p].pc = "idle"
        /\ fence' = IF proc[p].pc \in {"stage", "install"} THEN "none" ELSE fence
    BY <1>a, <1>14, FailDoes
  <2>2. CASE fence' = fence
    BY <1>b, <1>c, <1>d, <1>e, <1>f, <1>g, <2>1, <2>2, Quiet DEF SameLease
  <2>3. CASE fence' # fence
    <3>1. proc[p].pc \in Holders /\ proc[p].pc # "mark" /\ fence' = "none"
      BY <2>1, <2>3 DEF Holders
    <3>2. /\ ~marker /\ store = NoStore
          /\ \A q \in Procs : q # p => proc[q].pc \notin Holders
      BY <3>1, Knows
    <3>3. \A q \in Procs : q # p => proc'[q] = proc[q] /\ proc[q].pc \notin WipeSteps
      BY <1>b, Alone DEF Others
    <3>4. Marked'
      BY <1>c, <2>1, <3>3 DEF Control, Marked, SameLease, ResidueSteps
    <3>5. Fenced'
      BY <2>1, <3>2, <3>3 DEF Fenced, Holders
    <3>6. Wiped' /\ NeverAmbiguous'
      BY <2>1, <3>2, <3>3 DEF Wiped, WipeSteps, NeverAmbiguous
    <3> QED BY <3>4, <3>5, <3>6 DEF FenceSound
  <2> QED BY <2>2, <2>3
<1>15. CASE Crash(p)
  <2>1. proc'[p] = Started /\ UNCHANGED <<store, marker, fence>>
    BY <1>a, <1>15, CrashDoes
  <2>2. Started.pc = "idle" /\ Started.leases = 0
    BY DEF Started
  <2> QED BY <1>b, <1>c, <1>d, <1>e, <1>f, <1>g, <2>1, <2>2, Quiet
<1> QED BY <1>1, <1>2, <1>3, <1>4, <1>5, <1>6, <1>7, <1>8, <1>9, <1>10, <1>11, <1>12, <1>13, <1>14, <1>15
    DEF Cutover, FirstImport, ResidueImport, Creates, Releases

-----------------------------------------------------------------------------
(* What a step does to the database and to the backup.                     *)
StoreMoves(p) ==
  \/ store' = store
  \/ store = NoStore /\ store' = EmptyStore
  \/ store \in Stores /\ store' = [store EXCEPT !.born = @ + 1]
  \/ /\ store = NoStore /\ ~marker /\ proc[p].pc = "install"
     /\ LegacyOf(tree) = proc[p].snap /\ store' = Imported(proc[p].snap)
  \/ /\ store # NoStore /\ proc[p].pc = "absorb"
     /\ \E d \in Dirs, f \in Legacy : f \in proc[p].left[d] /\ store' = Absorbed(store, d, f, SeedOf(p))
  \/ ~HoldsSessions /\ store' = NoStore /\ proc[p].leases > 0
BackupMoves(p) ==
  \/ \A d \in Dirs : backup[d] \subseteq backup'[d]
  \/ proc[p].pc \in WipeSteps

LEMMA StoreStep ==
  ASSUME CutoverTypeOK, Control, NEW p \in Procs,
         Access(p) \/ Cutover(p) \/ Creates(p) \/ Wipe(p) \/ Fail(p) \/ Crash(p)
  PROVE  StoreMoves(p) /\ BackupMoves(p)
<1>a. proc \in Memories
  BY DEF CutoverTypeOK, Memories
<1>b. backup' = backup => BackupMoves(p)
  BY DEF BackupMoves
<1>c. backup' = Copied(proc[p].snap) => BackupMoves(p)
  BY DEF BackupMoves, Copied
<1> USE DEF StoreMoves
<1>1. CASE Access(p)
  BY <1>a, <1>b, <1>1, AccessDoes
<1>2. CASE Acquire(p)
  BY <1>a, <1>b, <1>2, AcquireDoes
<1>3. CASE PlainCreate(p) \/ WriteRow(p)
  <2>1. store \in Stores \cup {NoStore}
    BY DEF CutoverTypeOK
  <2> QED BY <1>3, <1>a, <1>b, <2>1, CreateDoes
<1>4. ASSUME NEW hadRow \in BOOLEAN, NEW committed \in BOOLEAN, Release(p, hadRow, committed)
      PROVE  StoreMoves(p) /\ BackupMoves(p)
  BY <1>a, <1>b, <1>4, ReleaseDoes
<1>5. CASE Wipe(p)
  BY <1>a, <1>b, <1>5, WipeDoes DEF BackupMoves
<1>6. CASE Migrate(p)
  BY <1>a, <1>b, <1>6, MigrateDoes
<1>7. CASE Check(p) \/ TakeFence(p)
  BY <1>a, <1>b, <1>7, FenceDoes
<1>8. CASE Stage(p) \/ Install(p) \/ Mark(p)
  <2>1. proc[p].pc = "install" => store = NoStore /\ ~marker
    BY Knows DEF Holders
  <2> QED BY <1>8, <1>a, <1>b, <1>c, <2>1, ImportDoes
<1>9. CASE Quarantine(p)
  <2>1. backup \in LegacyTrees
    BY DEF CutoverTypeOK
  <2>2. \/ \E d \in Dirs, f \in Legacy : backup' = [backup EXCEPT ![d] = @ \cup {f}]
        \/ backup' = backup \/ backup' = Copied(proc[p].snap)
    BY <1>9, <1>a, QuarantineDoes
  <2>3. BackupMoves(p)
    BY <1>b, <1>c, <2>1, <2>2 DEF BackupMoves, LegacyTrees
  <2> QED BY <1>9, <1>a, <2>3, QuarantineDoes
<1>10. CASE Absorb(p)
  BY <1>a, <1>b, <1>10, AbsorbDoes DEF Turn
<1>11. CASE Recheck(p)
  BY <1>a, <1>b, <1>11, RecheckDoes
<1>12. CASE Retire(p)
  BY <1>a, <1>b, <1>12, RetireDoes
<1>13. CASE Seal(p)
  BY <1>a, <1>b, <1>13, SealDoes
<1>14. CASE Fail(p)
  BY <1>a, <1>b, <1>14, FailDoes
<1>15. CASE Crash(p)
  BY <1>a, <1>b, <1>15, CrashDoes
<1> QED BY <1>1, <1>2, <1>3, <1>4, <1>5, <1>6, <1>7, <1>8, <1>9, <1>10, <1>11, <1>12, <1>13, <1>14, <1>15
    DEF Cutover, FirstImport, ResidueImport, Creates, Releases

(* An installed database only grows, or is taken back while it is empty. *)
Grows ==
  store # NoStore =>
    \/ /\ store' # NoStore
       /\ store.rows \subseteq store'.rows /\ store.replayed \subseteq store'.replayed
       /\ store.queue \subseteq store'.queue /\ store.born <= store'.born
    \/ store' = NoStore /\ store = EmptyStore

AbsorbsSo(st, next, d, f, seed) ==
  /\ st.rows \subseteq next.rows /\ next.rows \subseteq st.rows \cup {d}
  /\ next.rows = st.rows \/ f = "envelope"
  /\ st.replayed \subseteq next.replayed /\ next.replayed \subseteq st.replayed \cup {<<d, seed>>}
  /\ st.queue \subseteq next.queue /\ next.queue \subseteq st.queue \cup {d}
  /\ next.replayed # st.replayed \/ next.queue # st.queue => d \in st.rows
  /\ next.born = st.born
  /\ f = "envelope" => d \in next.rows
  /\ f = "timeline" /\ d \in st.rows => <<d, seed>> \in next.replayed
  /\ f = "pending" /\ d \in st.rows => d \in next.queue
LEMMA Absorbs ==
  ASSUME NEW st \in Stores, NEW d \in Dirs, NEW f \in Legacy, NEW seed \in Seeds
  PROVE  AbsorbsSo(st, Absorbed(st, d, f, seed), d, f, seed)
<1> USE DEF AbsorbsSo
<1>1. CASE f = "envelope"
  BY <1>1 DEF Absorbed, Stores
<1>2. CASE f = "timeline"
  BY <1>2 DEF Absorbed, Stores
<1>3. CASE f = "pending"
  BY <1>3 DEF Absorbed, Stores
<1> QED BY <1>1, <1>2, <1>3 DEF Legacy

LEMMA GrowStep ==
  ASSUME CutoverTypeOK, Control, NEW p \in Procs, StoreMoves(p)
  PROVE  Grows /\ RowsFirst'
<1>a. store \in Stores \cup {NoStore} /\ proc[p].snap \in LegacyTrees
  BY ProcessTyped DEF CutoverTypeOK
<1>b. RowsFirst
  BY DEF Control
<1>1. CASE store' = store
  <2>1. store # NoStore => store.born <= store.born
    BY <1>a DEF Stores
  <2> QED BY <1>1, <1>b, <2>1 DEF Grows, RowsFirst
<1>2. CASE store = NoStore /\ store' = EmptyStore
  BY <1>2 DEF Grows, RowsFirst, EmptyStore
<1>3. CASE store \in Stores /\ store' = [store EXCEPT !.born = @ + 1]
  <2>1. /\ store'.rows = store.rows /\ store'.replayed = store.replayed /\ store'.queue = store.queue
        /\ store'.born = store.born + 1 /\ store.born \in Nat
    BY <1>3 DEF Stores
  <2>2. store' # NoStore /\ store # NoStore
    BY <1>3, StoresTyped, StoreAssumption
  <2> QED BY <1>b, <2>1, <2>2 DEF Grows, RowsFirst
<1>4. CASE store = NoStore /\ store' = Imported(proc[p].snap)
  BY <1>4 DEF Grows, RowsFirst, Imported
<1>5. CASE /\ store # NoStore
           /\ \E d \in Dirs, f \in Legacy : f \in proc[p].left[d] /\ store' = Absorbed(store, d, f, SeedOf(p))
  <2>1. PICK d \in Dirs, f \in Legacy : store' = Absorbed(store, d, f, SeedOf(p))
    BY <1>5
  <2>2. SeedOf(p) \in Seeds /\ store \in Stores
    BY <1>a, <1>5 DEF SeedOf, Seeds
  <2>3. store' \in Stores
    BY <1>a, <2>1, <2>2, StoresTyped DEF SeedOf
  <2>4. store' # NoStore
    BY <2>3, StoreAssumption
  <2>5. /\ store.rows \subseteq store'.rows
        /\ store.replayed \subseteq store'.replayed /\ store'.replayed \subseteq store.replayed \cup {<<d, SeedOf(p)>>}
        /\ store.queue \subseteq store'.queue /\ store'.queue \subseteq store.queue \cup {d}
        /\ store'.replayed # store.replayed \/ store'.queue # store.queue => d \in store.rows
        /\ store'.born = store.born
    <3>1. AbsorbsSo(store, store', d, f, SeedOf(p))
      BY <2>1, <2>2, Absorbs
    <3> QED BY <3>1 DEF AbsorbsSo
  <2>6. Grows
    BY <1>5, <2>2, <2>4, <2>5 DEF Grows, Stores
  <2>7. store'.queue \subseteq store'.rows
    BY <1>b, <1>5, <2>5 DEF RowsFirst
  <2>8. ASSUME NEW e \in store'.replayed PROVE e[1] \in store'.rows
    <3>1. CASE e \in store.replayed
      BY <1>b, <1>5, <2>5, <3>1 DEF RowsFirst
    <3>2. CASE e \notin store.replayed
      <4>1. e = <<d, SeedOf(p)>> /\ store'.replayed # store.replayed
        BY <2>5, <3>2
      <4>2. d \in store'.rows
        BY <2>5, <4>1
      <4> QED BY <4>1, <4>2
    <3> QED BY <3>1, <3>2
  <2> QED BY <2>6, <2>7, <2>8 DEF RowsFirst
<1>6. CASE ~HoldsSessions /\ store' = NoStore
  <2>1. store # NoStore => store.rows = {} /\ store.born = 0
    BY <1>6, <1>a DEF HoldsSessions, Stores
  <2>2. store # NoStore => store.queue = {} /\ store.replayed = {}
    BY <1>b, <2>1 DEF RowsFirst
  <2>3. store # NoStore => store = EmptyStore
    BY <1>a, <2>1, <2>2 DEF EmptyStore, Stores
  <2> QED BY <1>6, <2>3 DEF Grows, RowsFirst
<1> QED BY <1>1, <1>2, <1>3, <1>4, <1>5, <1>6 DEF StoreMoves

-----------------------------------------------------------------------------
(* A piece that is safe stays safe. *)
Kept(d, f) ==
  /\ InStore(d, f) => InStore(d, f)'
  /\ Safe(d, f) => Safe(d, f)'

LEMMA Stable ==
  ASSUME CutoverTypeOK, Control, NEW p \in Procs,
         Access(p) \/ Cutover(p) \/ Creates(p) \/ Wipe(p) \/ Fail(p) \/ Crash(p),
         NEW d \in Dirs, NEW f \in legacy[d]
  PROVE  Kept(d, f)
<1>a. /\ legacy' = legacy /\ f \in Legacy /\ proc[p].pc # "down"
      /\ store \in Stores \cup {NoStore} /\ proc[p].snap \in LegacyTrees
  BY Acts, ProcessTyped, CutoverAssumption DEF CutoverTypeOK, LegacyTrees
<1>b. StoreMoves(p) /\ BackupMoves(p) /\ Grows
  BY StoreStep, GrowStep
<1>1. InStore(d, f) => InStore(d, f)'
  <2> SUFFICES ASSUME InStore(d, f) PROVE InStore(d, f)'
    OBVIOUS
  <2>1. store # NoStore /\ store # EmptyStore
    <3>1. store # NoStore
      BY DEF InStore
    <3>2. store.rows = {} /\ store.replayed = {} /\ store.queue = {} => FALSE
      BY <1>a DEF InStore, Legacy
    <3> QED BY <3>1, <3>2 DEF EmptyStore
  <2>2. /\ store' # NoStore
        /\ store.rows \subseteq store'.rows /\ store.replayed \subseteq store'.replayed
        /\ store.queue \subseteq store'.queue
    BY <1>b, <2>1 DEF Grows
  <2>3. CASE f = "envelope"
    BY <2>2, <2>3 DEF InStore
  <2>4. CASE f = "timeline"
    BY <2>2, <2>4 DEF InStore
  <2>5. CASE f = "pending"
    BY <2>2, <2>5 DEF InStore
  <2> QED BY <1>a, <2>3, <2>4, <2>5 DEF Legacy
<1>2. ASSUME Unclaimed(d) PROVE Unclaimed(d)'
  <2>0. /\ "envelope" \notin legacy[d]
        /\ store = NoStore \/ d \notin store.rows
        /\ "envelope" \notin proc[p].snap[d] /\ "envelope" \notin proc[p].left[d]
    BY <1>2 DEF Unclaimed, Control, TreeSound
  <2> SUFFICES store' = NoStore \/ d \notin store'.rows
    BY <1>a, <2>0 DEF Unclaimed
  <2>1. CASE store' = store \/ store' = NoStore
    BY <2>0, <2>1
  <2>2. CASE store' = EmptyStore
    BY <2>2 DEF EmptyStore
  <2>3. CASE store \in Stores /\ store' = [store EXCEPT !.born = @ + 1]
    <3>1. store # NoStore /\ store'.rows = store.rows
      BY <2>3, StoreAssumption DEF Stores
    <3> QED BY <2>0, <3>1
  <2>4. CASE store' = Imported(proc[p].snap)
    BY <2>0, <2>4 DEF Imported
  <2>5. CASE /\ store # NoStore
             /\ \E e \in Dirs, g \in Legacy : g \in proc[p].left[e] /\ store' = Absorbed(store, e, g, SeedOf(p))
    <3>1. PICK e \in Dirs, g \in Legacy : g \in proc[p].left[e] /\ store' = Absorbed(store, e, g, SeedOf(p))
      BY <2>5
    <3>2. SeedOf(p) \in Seeds /\ store \in Stores
      BY <1>a, <2>5 DEF SeedOf, Seeds
    <3>3. AbsorbsSo(store, store', e, g, SeedOf(p))
      BY <3>1, <3>2, Absorbs
    <3>4. store'.rows \subseteq store.rows \cup {e} /\ (store'.rows = store.rows \/ g = "envelope")
      BY <3>3 DEF AbsorbsSo
    <3> QED BY <2>0, <2>5, <3>1, <3>4
  <2> QED BY <1>b, <2>1, <2>2, <2>3, <2>4, <2>5 DEF StoreMoves
<1>3. f \in backup[d] => f \in backup'[d]
  <2>1. proc[p].pc \in WipeSteps => legacy = Nothing
    BY <1>a, Alone
  <2>2. legacy # Nothing
    BY DEF Nothing
  <2> QED BY <1>b, <2>1, <2>2 DEF BackupMoves
<1> QED BY <1>1, <1>2, <1>3 DEF Kept, Safe

(* What a process relies on stays so while another one acts. *)
Sound(q) == FirstSound(q) /\ QuarantineSound(q) /\ AbsorbSound(q) /\ RetireSound(q)

LEMMA LegacyTyped ==
  ASSUME CutoverTypeOK
  PROVE  \A d \in Dirs : legacy[d] \subseteq Legacy
BY CutoverAssumption DEF CutoverTypeOK, LegacyTrees

LEMMA BackupStays ==
  ASSUME CutoverTypeOK, Control, NEW p \in Procs,
         Access(p) \/ Cutover(p) \/ Creates(p) \/ Wipe(p) \/ Fail(p) \/ Crash(p),
         NEW d \in Dirs, NEW f \in legacy[d], f \in backup[d]
  PROVE  f \in backup'[d]
<1>1. BackupMoves(p) /\ proc[p].pc # "down"
  BY StoreStep, Acts
<1>2. proc[p].pc \notin WipeSteps
  BY <1>1, Alone DEF Nothing
<1> QED BY <1>1, <1>2 DEF BackupMoves

LEMMA ClaimStays ==
  ASSUME CutoverTypeOK, Control, NEW p \in Procs,
         Access(p) \/ Cutover(p) \/ Creates(p) \/ Wipe(p) \/ Fail(p) \/ Crash(p),
         NEW q \in Procs, ClaimSeen(q), proc'[q].snap = proc[q].snap
  PROVE  ClaimSeen(q)'
<1> SUFFICES ASSUME NEW d \in Dirs, proc[q].snap[d] # {}, "envelope" \in legacy[d],
                    "envelope" \notin proc[q].snap[d]
             PROVE  store' # NoStore /\ d \in store'.rows
  <2>1. legacy' = legacy
    BY Acts
  <2> QED BY <2>1 DEF ClaimSeen
<1>1. InStore(d, "envelope")
  BY DEF ClaimSeen, InStore
<1>2. Kept(d, "envelope")
  BY Stable
<1> QED BY <1>1, <1>2 DEF Kept, InStore

LEMMA OthersSound ==
  ASSUME CutoverTypeOK, Control, NEW p \in Procs,
         Access(p) \/ Cutover(p) \/ Creates(p) \/ Wipe(p) \/ Fail(p) \/ Crash(p),
         NEW q \in Procs, q # p, Sound(q)
  PROVE  Sound(q)'
<1>a. /\ proc'[q] = proc[q] /\ legacy' = legacy /\ TreeMoves(p)
      /\ \A d \in Dirs : legacy[d] \subseteq Legacy
  BY Acts, Reading, LegacyTyped DEF Others
<1>b. \A d \in Dirs : proc[q].snap[d] \subseteq legacy[d] /\ proc[q].left[d] \subseteq legacy[d]
                      /\ tree[d] \cap Legacy \subseteq legacy[d]
  BY DEF Control, TreeSound
<1>c. \A d \in Dirs : tree'[d] \cap Legacy \subseteq tree[d]
  BY <1>a DEF TreeMoves
<1>d. \A d \in Dirs : \A f \in legacy[d] :
        /\ InStore(d, f) => InStore(d, f)'
        /\ Safe(d, f) => Safe(d, f)'
        /\ f \in backup[d] => f \in backup'[d]
  BY Stable, BackupStays DEF Kept
<1>e. ClaimSeen(q) => ClaimSeen(q)'
  BY <1>a, ClaimStays
<1>1. FirstSound(q)'
  BY <1>a, <1>b, <1>d DEF Sound, FirstSound
<1>2. QuarantineSound(q)'
  BY <1>a, <1>b, <1>c, <1>d, <1>e DEF Sound, QuarantineSound
<1>3. AbsorbSound(q)'
  BY <1>a, <1>b, <1>d, <1>e DEF Sound, AbsorbSound
<1>4. RetireSound(q)'
  BY <1>a, <1>b, <1>c, <1>d DEF Sound, RetireSound
<1> QED BY <1>1, <1>2, <1>3, <1>4 DEF Sound

-----------------------------------------------------------------------------
(* What the process that acts relies on afterwards.                        *)
Concerned == {"install", "mark", "quarantine", "absorb", "recheck", "retire"}
LEMMA Unconcerned ==
  ASSUME NEW p \in Procs, proc'[p].pc \notin Concerned
  PROVE  Sound(p)'
BY DEF Concerned, Sound, FirstSound, QuarantineSound, AbsorbSound, RetireSound

(* The facts about the legacy pieces that each step starts from. *)
LEMMA Pieces ==
  ASSUME CutoverTypeOK, Control, NEW p \in Procs,
         Access(p) \/ Cutover(p) \/ Creates(p) \/ Wipe(p) \/ Fail(p) \/ Crash(p)
  PROVE  /\ legacy' = legacy
         /\ \A d \in Dirs :
              /\ proc[p].snap[d] \subseteq legacy[d] /\ proc[p].left[d] \subseteq legacy[d]
              /\ tree[d] \cap Legacy \subseteq legacy[d] /\ legacy[d] \subseteq Legacy
         /\ \A d \in Dirs : \A f \in legacy[d] :
              /\ InStore(d, f) => InStore(d, f)'
              /\ Safe(d, f) => Safe(d, f)'
              /\ f \in backup[d] => f \in backup'[d]
         /\ proc'[p].snap = proc[p].snap => (ClaimSeen(p) => ClaimSeen(p)')
<1>1. legacy' = legacy
  BY Acts
<1>2. \A d \in Dirs :
        /\ proc[p].snap[d] \subseteq legacy[d] /\ proc[p].left[d] \subseteq legacy[d]
        /\ tree[d] \cap Legacy \subseteq legacy[d] /\ legacy[d] \subseteq Legacy
  BY LegacyTyped DEF Control, TreeSound
<1>3. \A d \in Dirs : \A f \in legacy[d] :
        /\ InStore(d, f) => InStore(d, f)'
        /\ Safe(d, f) => Safe(d, f)'
        /\ f \in backup[d] => f \in backup'[d]
  BY Stable, BackupStays DEF Kept
<1>4. proc'[p].snap = proc[p].snap => (ClaimSeen(p) => ClaimSeen(p)')
  BY ClaimStays
<1> QED BY <1>1, <1>2, <1>3, <1>4

LEMMA MigrateSound ==
  ASSUME CutoverTypeOK, Control, RuntimeImported, NothingLost, NEW p \in Procs, Migrate(p)
  PROVE  Sound(p)'
<1>a. proc \in Memories
  BY DEF CutoverTypeOK, Memories
<1>b. /\ legacy' = legacy
      /\ \A d \in Dirs : /\ tree[d] \cap Legacy \subseteq legacy[d] /\ legacy[d] \subseteq Legacy
      /\ \A d \in Dirs : \A f \in legacy[d] : InStore(d, f) => InStore(d, f)'
  BY Pieces DEF Cutover
<1>1. CASE proc'[p].pc # "quarantine"
  BY <1>1, <1>a, MigrateDoes, Unconcerned DEF Concerned
<1>2. CASE proc'[p].pc = "quarantine"
  <2>1. /\ proc'[p].snap = Readable /\ proc'[p].left = Quarantined
        /\ UNCHANGED <<tree, store>>
    BY <1>2, <1>a, MigrateDoes
  <2>2. \A d \in Dirs : Unreadable(d) => \A f \in legacy[d] : InStore(d, f)
    BY <1>b DEF Unreadable, RuntimeImported, Legacy
  <2>3. \A d \in Dirs : \A f \in proc'[p].left[d] : InStore(d, f)'
    BY <1>b, <2>1, <2>2 DEF Quarantined
  <2>4. \A d \in Dirs : \A f \in tree'[d] \cap Legacy : f \in proc'[p].snap[d] \/ InStore(d, f)'
    BY <1>b, <2>1, <2>2 DEF Readable
  <2>5. ASSUME NEW d \in Dirs, proc'[p].snap[d] # {}, "envelope" \in legacy'[d],
               "envelope" \notin proc'[p].snap[d]
        PROVE  store' # NoStore /\ d \in store'.rows
    <3>1. ~Unreadable(d)
      BY <2>1, <2>5 DEF Readable
    <3>2. "envelope" \notin tree[d]
      BY <2>1, <2>5, <3>1 DEF Readable, Legacy
    <3>3. InStore(d, "envelope")
      BY <1>b, <2>5, <3>2 DEF NothingLost, Unclaimed
    <3> QED BY <2>1, <3>3 DEF InStore
  <2>6. ClaimSeen(p)'
    BY <2>5 DEF ClaimSeen
  <2>7. QuarantineSound(p)'
    BY <2>3, <2>4, <2>6 DEF QuarantineSound
  <2> QED BY <1>2, <2>7 DEF Sound, FirstSound, AbsorbSound, RetireSound
<1> QED BY <1>1, <1>2

LEMMA ImportSounds ==
  ASSUME CutoverTypeOK, Control, NEW p \in Procs, Sound(p), Stage(p) \/ Install(p) \/ Mark(p)
  PROVE  Sound(p)'
<1>a. proc \in Memories
  BY DEF CutoverTypeOK, Memories
<1>b. /\ legacy' = legacy
      /\ \A d \in Dirs :
           /\ proc[p].snap[d] \subseteq legacy[d]
           /\ tree[d] \cap Legacy \subseteq legacy[d] /\ legacy[d] \subseteq Legacy
      /\ \A d \in Dirs : \A f \in legacy[d] :
           /\ Safe(d, f) => Safe(d, f)'
           /\ f \in backup[d] => f \in backup'[d]
  BY Pieces DEF Cutover, FirstImport
<1>1. CASE proc'[p].pc = "idle"
  BY <1>1, Unconcerned DEF Concerned
<1>2. CASE proc'[p].pc = "install"
  <2>1. backup' = Copied(proc[p].snap) /\ proc'[p].snap = proc[p].snap
    BY <1>2, <1>a, ImportDoes
  <2>2. FirstSound(p)'
    BY <1>2, <2>1 DEF FirstSound, Copied
  <2> QED BY <1>2, <2>2 DEF Sound, QuarantineSound, AbsorbSound, RetireSound
<1>3. CASE proc'[p].pc = "mark"
  <2>1. /\ proc[p].pc = "install" /\ LegacyOf(tree) = proc[p].snap
        /\ store' = Imported(proc[p].snap)
    BY <1>3, <1>a, ImportDoes
  <2>2. ~marker /\ tree = legacy
    BY <2>1, Knows DEF Holders, Control, TreeSound
  <2>3. \A d \in Dirs : proc[p].snap[d] = legacy[d] /\ legacy[d] \subseteq backup[d]
    <3>1. \A d \in Dirs : proc[p].snap[d] = tree[d] \cap Legacy
      BY <2>1 DEF LegacyOf
    <3>2. \A d \in Dirs : proc[p].snap[d] \subseteq backup[d]
      BY <2>1 DEF Sound, FirstSound
    <3> QED BY <1>b, <2>2, <3>1, <3>2
  <2>4. store' # NoStore
    BY <1>a, <2>1, ProcessTyped, StoresTyped, StoreAssumption DEF Memories
  <2>5. ASSUME NEW d \in Dirs, NEW f \in legacy'[d] PROVE Safe(d, f)'
    <3>1. CASE "envelope" \in legacy[d]
      <4>1. CASE f = "envelope"
        BY <2>1, <2>3, <2>4, <3>1, <4>1 DEF Safe, InStore, Imported
      <4>2. CASE f = "timeline"
        <5>1. <<d, [mode |-> "first", of |-> proc[p].snap]>> \in store'.replayed
          BY <1>b, <2>1, <2>3, <2>5, <3>1, <4>2 DEF Imported
        <5> QED BY <2>4, <4>2, <5>1 DEF Safe, InStore
      <4>3. CASE f = "pending"
        BY <1>b, <2>1, <2>3, <2>4, <2>5, <3>1, <4>3 DEF Safe, InStore, Imported
      <4> QED BY <1>b, <2>5, <4>1, <4>2, <4>3 DEF Legacy
    <3>2. CASE "envelope" \notin legacy[d]
      <4>1. Unclaimed(d)'
        BY <1>b, <2>1, <2>3, <3>2 DEF Unclaimed, Imported
      <4> QED BY <1>b, <2>3, <2>5, <4>1 DEF Safe
    <3> QED BY <3>1, <3>2
  <2>6. FirstSound(p)'
    BY <1>3, <2>5 DEF FirstSound
  <2> QED BY <1>3, <2>6 DEF Sound, QuarantineSound, AbsorbSound, RetireSound
<1>4. CASE proc'[p].pc = "retire"
  <2>1. proc[p].pc = "mark" /\ proc'[p].left = LegacyOf(tree) /\ tree' = tree
    BY <1>4, <1>a, ImportDoes
  <2>2. \A d \in Dirs : proc'[p].left[d] = tree[d] \cap Legacy
    BY <2>1 DEF LegacyOf
  <2>3. \A d \in Dirs : \A f \in legacy[d] : Safe(d, f)'
    BY <1>b, <2>1 DEF Sound, FirstSound
  <2>4. RetireSound(p)'
    BY <1>b, <2>1, <2>2, <2>3 DEF RetireSound
  <2> QED BY <1>4, <2>4 DEF Sound, FirstSound, QuarantineSound, AbsorbSound
<1> QED BY <1>a, <1>1, <1>2, <1>3, <1>4, ImportDoes

LEMMA QuarantineSounds ==
  ASSUME CutoverTypeOK, Control, NEW p \in Procs, Sound(p), Quarantine(p)
  PROVE  Sound(p)'
<1>a. proc \in Memories /\ proc[p].left \in LegacyTrees /\ tree \in [Dirs -> SUBSET (Legacy \cup {"runtime"})]
  BY ProcessTyped DEF CutoverTypeOK, Memories
<1>b. /\ legacy' = legacy
      /\ \A d \in Dirs :
           /\ proc[p].snap[d] \subseteq legacy[d] /\ proc[p].left[d] \subseteq legacy[d]
           /\ tree[d] \cap Legacy \subseteq legacy[d] /\ legacy[d] \subseteq Legacy
      /\ \A d \in Dirs : \A f \in legacy[d] :
           /\ InStore(d, f) => InStore(d, f)'
           /\ Safe(d, f) => Safe(d, f)'
      /\ proc'[p].snap = proc[p].snap => (ClaimSeen(p) => ClaimSeen(p)')
  BY Pieces DEF Cutover, ResidueImport
<1>c. /\ proc'[p].snap = proc[p].snap /\ proc[p].pc = "quarantine"
      /\ proc'[p].pc \in {"quarantine", "retire", "absorb", "idle"}
  BY <1>a, QuarantineDoes
<1>d. /\ ClaimSeen(p)'
      /\ \A d \in Dirs : \A f \in proc[p].left[d] : InStore(d, f)
      /\ \A d \in Dirs : \A f \in tree[d] \cap Legacy : f \in proc[p].snap[d] \/ InStore(d, f)
  BY <1>b, <1>c DEF Sound, QuarantineSound
<1>1. CASE proc'[p].pc = "idle"
  BY <1>1, Unconcerned DEF Concerned
<1>2. CASE proc'[p].pc = "quarantine"
  <2>1. \A d \in Dirs : proc'[p].left[d] \subseteq proc[p].left[d] /\ tree'[d] \subseteq tree[d]
    <3>1. PICK d \in Dirs, f \in Legacy :
            /\ tree' = [tree EXCEPT ![d] = @ \ {f}]
            /\ proc'[p].left = [proc[p].left EXCEPT ![d] = @ \ {f}]
      BY <1>2, <1>a, QuarantineDoes
    <3> QED BY <1>a, <3>1 DEF LegacyTrees
  <2>2. \A d \in Dirs : \A f \in proc'[p].left[d] : InStore(d, f)'
    BY <1>b, <1>d, <2>1
  <2>3. \A d \in Dirs : \A f \in tree'[d] \cap Legacy : f \in proc'[p].snap[d] \/ InStore(d, f)'
    BY <1>b, <1>c, <1>d, <2>1
  <2>4. QuarantineSound(p)'
    BY <1>d, <2>2, <2>3 DEF QuarantineSound
  <2> QED BY <1>2, <2>4 DEF Sound, FirstSound, AbsorbSound, RetireSound
<1>3. CASE proc'[p].pc = "retire"
  <2>1. proc[p].snap = Nothing /\ proc'[p].left = LegacyOf(tree) /\ tree' = tree
    BY <1>3, <1>a, QuarantineDoes
  <2>2. \A d \in Dirs : proc'[p].left[d] = tree[d] \cap Legacy /\ proc[p].snap[d] = {}
    BY <2>1 DEF LegacyOf, Nothing
  <2>3. \A d \in Dirs : \A f \in proc'[p].left[d] : InStore(d, f)'
    BY <1>b, <1>d, <2>2
  <2>4. \A d \in Dirs : \A f \in proc'[p].left[d] : Safe(d, f)'
    BY <2>3 DEF Safe
  <2>5. RetireSound(p)'
    BY <2>1, <2>2, <2>4 DEF RetireSound
  <2> QED BY <1>3, <2>5 DEF Sound, FirstSound, QuarantineSound, AbsorbSound
<1>4. CASE proc'[p].pc = "absorb"
  <2>1. backup' = Copied(proc[p].snap) /\ proc'[p].left = proc[p].snap
    BY <1>4, <1>a, QuarantineDoes
  <2>2. \A d \in Dirs : proc'[p].snap[d] \subseteq backup'[d]
    BY <1>c, <2>1 DEF Copied
  <2>3. AbsorbSound(p)'
    BY <1>4, <1>c, <1>d, <2>1, <2>2 DEF AbsorbSound
  <2> QED BY <1>4, <2>3 DEF Sound, FirstSound, QuarantineSound, RetireSound
<1> QED BY <1>c, <1>1, <1>2, <1>3, <1>4

LEMMA AbsorbSounds ==
  ASSUME CutoverTypeOK, Control, NEW p \in Procs, Sound(p), Absorb(p)
  PROVE  Sound(p)'
<1>a. proc \in Memories /\ proc[p].left \in LegacyTrees /\ proc[p].snap \in LegacyTrees
  BY ProcessTyped DEF CutoverTypeOK, Memories
<1>b. /\ legacy' = legacy
      /\ \A d \in Dirs :
           /\ proc[p].snap[d] \subseteq legacy[d] /\ legacy[d] \subseteq Legacy
      /\ \A d \in Dirs : \A f \in legacy[d] :
           /\ Safe(d, f) => Safe(d, f)'
           /\ f \in backup[d] => f \in backup'[d]
      /\ proc'[p].snap = proc[p].snap => (ClaimSeen(p) => ClaimSeen(p)')
  BY Pieces DEF Cutover, ResidueImport
<1>c. /\ proc'[p].snap = proc[p].snap /\ proc[p].pc = "absorb" /\ backup' = backup
      /\ proc'[p].pc \in {"absorb", "recheck"}
  BY <1>a, AbsorbDoes
<1>d. /\ ClaimSeen(p) /\ ClaimSeen(p)'
      /\ \A d \in Dirs : proc[p].snap[d] \subseteq backup[d]
      /\ \A d \in Dirs : \A f \in proc[p].snap[d] \ proc[p].left[d] : Safe(d, f)
  BY <1>b, <1>c DEF Sound, AbsorbSound
<1>1. CASE proc'[p].pc = "absorb"
  <2>1. PICK d \in Dirs, f \in Legacy :
          /\ Turn(p, ImportOrder, d, f) /\ store # NoStore
          /\ store' = Absorbed(store, d, f, SeedOf(p))
          /\ proc'[p].left = [proc[p].left EXCEPT ![d] = @ \ {f}]
    BY <1>1, <1>a, AbsorbDoes
  <2>2. SeedOf(p) \in Seeds /\ store \in Stores
    BY <1>a, <2>1 DEF SeedOf, Seeds, CutoverTypeOK
  <2>3. AbsorbsSo(store, store', d, f, SeedOf(p)) /\ store' # NoStore
    <3>1. store' \in Stores
      BY <1>a, <2>1, <2>2, StoresTyped DEF SeedOf
    <3> QED BY <2>1, <2>2, <3>1, Absorbs, StoreAssumption
  <2>4. f \in proc[p].left[d]
    BY <2>1 DEF Turn
  <2>5. ASSUME f \in proc[p].snap[d] PROVE Safe(d, f)'
    <3>1. CASE f = "envelope"
      BY <2>3, <3>1 DEF AbsorbsSo, Safe, InStore
    <3>2. CASE f # "envelope" /\ d \in store.rows
      <4>1. CASE f = "timeline"
        <5>1. <<d, SeedOf(p)>> \in store'.replayed
          BY <2>3, <3>2, <4>1 DEF AbsorbsSo
        <5> QED BY <2>3, <4>1, <5>1 DEF Safe, InStore
      <4>2. CASE f = "pending"
        BY <2>3, <3>2, <4>2 DEF AbsorbsSo, Safe, InStore
      <4> QED BY <3>2, <4>1, <4>2 DEF Legacy
    <3>3. CASE f # "envelope" /\ d \notin store.rows
      <4>1. "envelope" \notin proc[p].left[d]
        BY <2>1, <3>3 DEF Turn, ImportOrder, Legacy
      <4>2. "envelope" \notin legacy[d]
        <5> SUFFICES ASSUME "envelope" \in legacy[d] PROVE FALSE
          OBVIOUS
        <5>1. "envelope" \in proc[p].snap[d]
          BY <1>d, <2>5, <3>3 DEF ClaimSeen
        <5>2. Safe(d, "envelope")
          BY <1>d, <4>1, <5>1
        <5> QED BY <3>3, <5>2 DEF Safe, InStore, Unclaimed
      <4>3. d \notin store'.rows
        BY <2>3, <3>3 DEF AbsorbsSo
      <4>4. Unclaimed(d)'
        BY <1>b, <4>2, <4>3 DEF Unclaimed
      <4> QED BY <1>c, <1>d, <2>5, <4>4 DEF Safe
    <3> QED BY <3>1, <3>2, <3>3
  <2>6. ASSUME NEW e \in Dirs, NEW g \in proc'[p].snap[e] \ proc'[p].left[e] PROVE Safe(e, g)'
    <3>1. CASE e = d /\ g = f
      BY <1>c, <2>5, <2>6, <3>1
    <3>2. CASE ~(e = d /\ g = f)
      <4>1. g \in proc[p].snap[e] \ proc[p].left[e]
        BY <1>a, <1>c, <2>1, <2>6, <3>2 DEF LegacyTrees
      <4> QED BY <1>b, <1>d, <4>1
    <3> QED BY <3>1, <3>2
  <2>7. AbsorbSound(p)'
    BY <1>1, <1>c, <1>d, <2>6 DEF AbsorbSound
  <2> QED BY <1>1, <2>7 DEF Sound, FirstSound, QuarantineSound, RetireSound
<1>2. CASE proc'[p].pc = "recheck"
  <2>1. proc[p].left = Nothing
    BY <1>2, <1>a, AbsorbDoes DEF Over
  <2>2. \A d \in Dirs : proc[p].left[d] = {}
    BY <2>1 DEF Nothing
  <2>3. \A d \in Dirs : \A f \in proc'[p].snap[d] : Safe(d, f)'
    BY <1>b, <1>c, <1>d, <2>2
  <2>4. AbsorbSound(p)'
    BY <1>2, <2>3 DEF AbsorbSound
  <2> QED BY <1>2, <2>4 DEF Sound, FirstSound, QuarantineSound, RetireSound
<1> QED BY <1>c, <1>1, <1>2

LEMMA RetireSounds ==
  ASSUME CutoverTypeOK, Control, NEW p \in Procs, Sound(p), Recheck(p) \/ Retire(p)
  PROVE  Sound(p)'
<1>a. proc \in Memories /\ proc[p].left \in LegacyTrees /\ tree \in [Dirs -> SUBSET (Legacy \cup {"runtime"})]
  BY ProcessTyped DEF CutoverTypeOK, Memories
<1>b. /\ legacy' = legacy
      /\ \A d \in Dirs :
           /\ proc[p].snap[d] \subseteq legacy[d] /\ proc[p].left[d] \subseteq legacy[d]
      /\ \A d \in Dirs : \A f \in legacy[d] : Safe(d, f) => Safe(d, f)'
  BY Pieces DEF Cutover, ResidueImport
<1>1. CASE proc'[p].pc \notin Concerned
  BY <1>1, Unconcerned
<1>2. CASE proc'[p].pc = "retire"
  <2> SUFFICES /\ \A d \in Dirs : \A f \in proc'[p].left[d] : Safe(d, f)'
               /\ \A d \in Dirs : "envelope" \in proc'[p].left[d] =>
                    tree'[d] \cap Legacy \subseteq proc'[p].left[d]
    BY <1>2 DEF Sound, FirstSound, QuarantineSound, AbsorbSound, RetireSound
  <2>1. CASE Recheck(p)
    <3>1. /\ proc[p].pc = "recheck" /\ proc'[p].left = LegacyOf(tree)
          /\ LegacyOf(tree) = proc[p].snap /\ tree' = tree
      BY <1>2, <1>a, <2>1, RecheckDoes
    <3>2. \A d \in Dirs : \A f \in proc[p].snap[d] : Safe(d, f)
      BY <3>1 DEF Sound, AbsorbSound
    <3> QED BY <1>b, <3>1, <3>2 DEF LegacyOf
  <2>2. CASE Retire(p)
    <3>1. /\ \A d \in Dirs : \A f \in proc[p].left[d] : Safe(d, f)
          /\ \A d \in Dirs : "envelope" \in proc[p].left[d] =>
               tree[d] \cap Legacy \subseteq proc[p].left[d]
      BY <1>a, <2>2, RetireDoes DEF Sound, RetireSound
    <3>2. CASE /\ proc'[p].left = proc[p].left
               /\ \E d \in Dirs : tree' = [tree EXCEPT ![d] = @ \cup {"runtime"}]
      <4>1. \A d \in Dirs : tree'[d] \cap Legacy \subseteq tree[d]
        BY <1>a, <3>2 DEF Legacy
      <4> QED BY <1>b, <3>1, <3>2, <4>1
    <3>3. CASE \E d \in Dirs, f \in Legacy :
                 /\ tree' = [tree EXCEPT ![d] = @ \ {f}]
                 /\ proc'[p].left = [proc[p].left EXCEPT ![d] = @ \ {f}]
      <4>1. PICK d \in Dirs, f \in Legacy :
              /\ tree' = [tree EXCEPT ![d] = @ \ {f}]
              /\ proc'[p].left = [proc[p].left EXCEPT ![d] = @ \ {f}]
        BY <3>3
      <4>2. \A e \in Dirs : /\ proc'[p].left[e] = IF e = d THEN proc[p].left[e] \ {f} ELSE proc[p].left[e]
                            /\ tree'[e] = IF e = d THEN tree[e] \ {f} ELSE tree[e]
        BY <1>a, <4>1 DEF LegacyTrees
      <4>3. ASSUME NEW e \in Dirs
            PROVE  /\ \A g \in proc'[p].left[e] : g \in legacy[e] /\ Safe(e, g)
                   /\ "envelope" \in proc'[p].left[e] => tree'[e] \cap Legacy \subseteq proc'[p].left[e]
        <5>1. proc'[p].left[e] \subseteq proc[p].left[e]
          BY <4>2
        <5>2. tree'[e] \cap Legacy \subseteq proc'[p].left[e] \/ ~(tree[e] \cap Legacy \subseteq proc[p].left[e])
          BY <4>2
        <5> QED BY <1>b, <3>1, <5>1, <5>2
      <4> QED BY <1>b, <4>3
    <3> QED BY <1>2, <1>a, <2>2, <3>2, <3>3, RetireDoes
  <2> QED BY <2>1, <2>2
<1> QED BY <1>a, <1>1, <1>2, RecheckDoes, RetireDoes DEF Concerned

LEMMA SoundStep ==
  ASSUME CutoverTypeOK, Control, RuntimeImported, NothingLost, ImportSound, NEW p \in Procs,
         Access(p) \/ Cutover(p) \/ Creates(p) \/ Wipe(p) \/ Fail(p) \/ Crash(p)
  PROVE  ImportSound'
<1>a. proc \in Memories /\ store \in Stores \cup {NoStore}
  BY DEF CutoverTypeOK, Memories
<1>b. \A q \in Procs : Sound(q)
  BY DEF ImportSound, Sound
<1>c. \A q \in Procs : q # p => Sound(q)'
  BY <1>b, OthersSound
<1> SUFFICES Sound(p)'
  BY <1>c DEF ImportSound, Sound
<1>d. \A x \in WipeSteps \cup {"idle", "migrate", "check", "fence", "stage"} : x \notin Concerned
  BY DEF WipeSteps, Concerned
<1>e. {"wipe marker"} \subseteq WipeSteps
  BY DEF WipeSteps
<1>1. CASE Access(p) \/ Acquire(p)
  BY <1>a, <1>d, <1>1, AccessDoes, AcquireDoes, Unconcerned
<1>2. CASE PlainCreate(p) \/ WriteRow(p)
  BY <1>a, <1>d, <1>2, CreateDoes, Unconcerned
<1>3. ASSUME NEW hadRow \in BOOLEAN, NEW committed \in BOOLEAN, Release(p, hadRow, committed)
      PROVE  Sound(p)'
  BY <1>a, <1>d, <1>e, <1>3, ReleaseDoes, Unconcerned
<1>4. CASE Wipe(p)
  BY <1>a, <1>d, <1>4, WipeDoes, Unconcerned
<1>5. CASE Check(p) \/ TakeFence(p)
  BY <1>a, <1>d, <1>5, FenceDoes, Unconcerned
<1>6. CASE Seal(p)
  BY <1>a, <1>d, <1>6, SealDoes, Unconcerned
<1>7. CASE Fail(p)
  BY <1>a, <1>d, <1>7, FailDoes, Unconcerned
<1>8. CASE Crash(p)
  <2>1. proc'[p].pc = "idle"
    BY <1>a, <1>8, CrashDoes DEF Started
  <2> QED BY <1>d, <2>1, Unconcerned
<1>9. CASE Migrate(p)
  BY <1>9, MigrateSound
<1>10. CASE Stage(p) \/ Install(p) \/ Mark(p)
  BY <1>b, <1>10, ImportSounds
<1>11. CASE Quarantine(p)
  BY <1>b, <1>11, QuarantineSounds
<1>12. CASE Absorb(p)
  BY <1>b, <1>12, AbsorbSounds
<1>13. CASE Recheck(p) \/ Retire(p)
  BY <1>b, <1>13, RetireSounds
<1>14. Sound(p)'
  BY <1>1, <1>2, <1>3, <1>4, <1>5, <1>6, <1>7, <1>8, <1>9, <1>10, <1>11, <1>12, <1>13
     DEF Cutover, FirstImport, ResidueImport, Creates, Releases
<1> QED BY <1>14

(* Only a quarantine and a retirement change the tree. *)
LEMMA Movers ==
  ASSUME NEW p \in Procs,
         Access(p) \/ Cutover(p) \/ Creates(p) \/ Wipe(p) \/ Fail(p) \/ Crash(p)
  PROVE  tree' = tree \/ Quarantine(p) \/ Retire(p)
<1>1. CASE Access(p)
  BY <1>1 DEF Access
<1>2. CASE Acquire(p) \/ PlainCreate(p) \/ WriteRow(p)
  BY <1>2 DEF Acquire, PlainCreate, WriteRow, disk
<1>3. ASSUME NEW hadRow \in BOOLEAN, NEW committed \in BOOLEAN, Release(p, hadRow, committed)
      PROVE  tree' = tree
  BY <1>3 DEF Release
<1>4. CASE Wipe(p)
  BY <1>4 DEF Wipe, WipeMarker, WipeFence, WipeBackup
<1>5. CASE Migrate(p)
  BY <1>5 DEF Migrate, disk
<1>6. CASE FirstImport(p)
  BY <1>6 DEF FirstImport, Check, TakeFence, Stage, Install, Mark, disk
<1>7. CASE Absorb(p) \/ Recheck(p)
  BY <1>7 DEF Absorb, Recheck, disk
<1>8. CASE Seal(p)
  BY <1>8 DEF Seal
<1>9. CASE Fail(p) \/ Crash(p)
  BY <1>9 DEF Fail, Crash, disk
<1> QED BY <1>1, <1>2, <1>3, <1>4, <1>5, <1>6, <1>7, <1>8, <1>9
        DEF Cutover, ResidueImport, Creates, Releases

(* What a step takes from the tree is safe. *)
LEMMA Removed ==
  ASSUME CutoverTypeOK, Control, ImportSound, NEW p \in Procs,
         Access(p) \/ Cutover(p) \/ Creates(p) \/ Wipe(p) \/ Fail(p) \/ Crash(p),
         NEW d \in Dirs, NEW f \in legacy[d], f \in tree[d], f \notin tree'[d]
  PROVE  Safe(d, f)
<1>a. proc \in Memories /\ tree \in [Dirs -> SUBSET (Legacy \cup {"runtime"})]
  BY DEF CutoverTypeOK, Memories
<1>1. Quarantine(p) \/ Retire(p)
  BY Movers
<1>2. CASE Quarantine(p)
  <2>1. proc[p].pc = "quarantine"
    BY <1>2, <1>a, QuarantineDoes
  <2>2. \/ \E e \in Dirs, g \in Legacy :
             Turn(p, RemovalOrder, e, g) /\ tree' = [tree EXCEPT ![e] = @ \ {g}]
        \/ tree' = tree
    BY <1>2 DEF Quarantine
  <2>3. PICK e \in Dirs, g \in Legacy :
          Turn(p, RemovalOrder, e, g) /\ tree' = [tree EXCEPT ![e] = @ \ {g}]
    BY <2>2
  <2>4. g \in proc[p].left[e]
    BY <2>3 DEF Turn
  <2>5. d = e /\ f = g
    BY <1>a, <2>3
  <2> QED BY <2>1, <2>4, <2>5 DEF ImportSound, QuarantineSound, Safe
<1>3. CASE Retire(p)
  <2>1. proc[p].pc = "retire"
    BY <1>3, <1>a, RetireDoes
  <2>2. \/ \E e \in Dirs, g \in Legacy : g \in proc[p].left[e] /\ tree' = [tree EXCEPT ![e] = @ \ {g}]
        \/ \E e \in Dirs : tree' = [tree EXCEPT ![e] = @ \cup {"runtime"}]
        \/ tree' = tree
    <3>1. CASE /\ proc'[p].pc = "retire" /\ proc'[p].left = proc[p].left
               /\ \E e \in Dirs : /\ "envelope" \in proc[p].left[e] /\ "envelope" \in tree[e]
                                  /\ tree' = [tree EXCEPT ![e] = @ \cup {"runtime"}]
      BY <3>1
    <3>2. CASE /\ proc'[p].pc = "retire"
               /\ \E e \in Dirs, g \in Legacy :
                    /\ g \in proc[p].left[e]
                    /\ tree' = [tree EXCEPT ![e] = @ \ {g}]
                    /\ proc'[p].left = [proc[p].left EXCEPT ![e] = @ \ {g}]
      BY <3>2
    <3> QED BY <1>3, <1>a, <3>1, <3>2, RetireDoes
  <2>3. ~ \E e \in Dirs : tree' = [tree EXCEPT ![e] = @ \cup {"runtime"}]
    BY <1>a
  <2>4. PICK e \in Dirs, g \in Legacy :
          g \in proc[p].left[e] /\ tree' = [tree EXCEPT ![e] = @ \ {g}]
    BY <2>2, <2>3
  <2>5. d = e /\ f = g
    BY <1>a, <2>4
  <2> QED BY <2>1, <2>4, <2>5 DEF ImportSound, RetireSound
<1> QED BY <1>1, <1>2, <1>3

LEMMA LostStep ==
  ASSUME CutoverTypeOK, Control, ImportSound, NothingLost, NEW p \in Procs,
         Access(p) \/ Cutover(p) \/ Creates(p) \/ Wipe(p) \/ Fail(p) \/ Crash(p)
  PROVE  NothingLost'
<1> SUFFICES ASSUME NEW d \in Dirs, NEW f \in legacy'[d], f \notin tree'[d]
             PROVE  Safe(d, f)'
  BY DEF NothingLost, Safe
<1>1. f \in legacy[d]
  BY Acts
<1>2. Safe(d, f)
  <2>1. CASE f \in tree[d]
    BY <1>1, <2>1, Removed
  <2>2. CASE f \notin tree[d]
    BY <1>1, <2>2 DEF NothingLost, Safe
  <2> QED BY <2>1, <2>2
<1>3. Kept(d, f)
  BY <1>1, Stable
<1> QED BY <1>2, <1>3 DEF Kept

LEMMA RuntimeStep ==
  ASSUME CutoverTypeOK, Control, ImportSound, NothingLost, RuntimeImported, NEW p \in Procs,
         Access(p) \/ Cutover(p) \/ Creates(p) \/ Wipe(p) \/ Fail(p) \/ Crash(p)
  PROVE  RuntimeImported'
<1>a. /\ proc \in Memories /\ tree \in [Dirs -> SUBSET (Legacy \cup {"runtime"})]
      /\ legacy' = legacy
      /\ \A d \in Dirs : legacy[d] \subseteq Legacy
  BY Acts, LegacyTyped DEF CutoverTypeOK, Memories
<1> SUFFICES ASSUME NEW d \in Dirs, "runtime" \in tree'[d], "envelope" \in legacy[d],
                    NEW f \in legacy[d]
             PROVE  InStore(d, f)'
  BY <1>a DEF RuntimeImported
<1>1. InStore(d, f)
  <2>1. CASE "runtime" \in tree[d]
    BY <2>1 DEF RuntimeImported
  <2>2. CASE "runtime" \notin tree[d]
    <3>1. Retire(p)
      <4>1. CASE Quarantine(p)
        <5>1. \A e \in Dirs : tree'[e] \subseteq tree[e]
          BY <1>a, <4>1, QuarantineRemoves
        <5> QED BY <2>2, <5>1
      <4> QED BY <2>2, <4>1, Movers
    <3>2. proc[p].pc = "retire"
      BY <1>a, <3>1, RetireDoes
    <3>3. \/ \E e \in Dirs : /\ "envelope" \in proc[p].left[e]
                             /\ tree' = [tree EXCEPT ![e] = @ \cup {"runtime"}]
          \/ \E e \in Dirs, g \in Legacy : tree' = [tree EXCEPT ![e] = @ \ {g}]
          \/ tree' = tree
      BY <3>1 DEF Retire, Turn
    <3>4. "envelope" \in proc[p].left[d]
      BY <1>a, <2>2, <3>3
    <3>5. /\ \A g \in proc[p].left[d] : Safe(d, g)
          /\ tree[d] \cap Legacy \subseteq proc[p].left[d]
      BY <3>2, <3>4 DEF ImportSound, RetireSound
    <3>6. Safe(d, f)
      BY <1>a, <3>5 DEF NothingLost, Safe
    <3> QED BY <3>6 DEF Safe, Unclaimed
  <2> QED BY <2>1, <2>2
<1>2. Kept(d, f)
  BY Stable
<1> QED BY <1>1, <1>2 DEF Kept

-----------------------------------------------------------------------------
LEMMA InitSound == Init => IInv
<1> SUFFICES ASSUME Init PROVE IInv
  OBVIOUS
<1>a. legacy \in LegacyTrees /\ legacy \in Trees
  BY CutoverAssumption DEF Init
<1>b. \A d \in Dirs : legacy[d] \subseteq Legacy /\ "runtime" \notin legacy[d]
  BY <1>a DEF LegacyTrees, Legacy
<1>c. PICK first \in Procs :
        proc = [p \in Procs |-> IF p = first \/ marker \/ tree # Nothing THEN Started
                                ELSE [Started EXCEPT !.pc = "down"]]
  BY DEF Init
<1>d. DEFINE Down == [Started EXCEPT !.pc = "down"]
<1>e. /\ Started.pc = "idle" /\ Started.snap = Nothing /\ Started.left = Nothing
      /\ ~Started.creating /\ Started.leases = 0 /\ ~Started.owned
      /\ Down.pc = "down" /\ Down.snap = Nothing /\ Down.left = Nothing
      /\ ~Down.creating /\ Down.leases = 0 /\ ~Down.owned
  BY DEF Started
<1>f. \A p \in Procs : proc[p] = Started \/ (proc[p] = Down /\ ~marker /\ tree = Nothing)
  BY <1>c
<1>f2. ~marker /\ tree = Nothing => \A p \in Procs \ {first} : proc[p] = Down
  BY <1>c
<1>g. /\ backup = Nothing /\ creates = 0 /\ faults = 0
      /\ \/ marker = FALSE /\ fence = "none" /\ store = NoStore /\ tree = legacy
         \/ /\ marker = TRUE /\ fence \in {"none", "retired"}
            /\ \E rows \in SUBSET Dirs :
                 /\ store = [EmptyStore EXCEPT !.rows = rows]
                 /\ tree = [d \in Dirs |-> IF d \in rows /\ "envelope" \notin legacy[d]
                                           THEN legacy[d] \cup {"runtime"} ELSE legacy[d]]
  BY DEF Init
<1>h. store \in Stores \cup {NoStore} /\ (marker => store \in Stores)
  <2>1. \A rows \in SUBSET Dirs : [EmptyStore EXCEPT !.rows = rows] \in Stores
    BY StoresTyped DEF Stores
  <2> QED BY <1>g, <2>1
<1>i. \A d \in Dirs : /\ legacy[d] \subseteq tree[d]
                      /\ tree[d] \cap Legacy \subseteq legacy[d]
                      /\ "runtime" \in tree[d] => "envelope" \notin legacy[d]
                      /\ tree[d] \subseteq legacy[d] \cup {"runtime"}
  BY <1>b, <1>g DEF Legacy
<1>j. tree \in [Dirs -> SUBSET (Legacy \cup {"runtime"})]
  <2>1. tree = [d \in Dirs |-> tree[d]]
    BY <1>a, <1>g DEF LegacyTrees
  <2> QED BY <1>b, <1>i, <2>1
<1>k. \A p \in Procs : /\ proc[p].pc \in {"idle", "down"} /\ ~proc[p].creating
                       /\ proc[p].leases = 0 /\ ~proc[p].owned
                       /\ proc[p].snap = Nothing /\ proc[p].left = Nothing
  <2> HIDE DEF Down
  <2> QED BY <1>e, <1>f
<1>1. CutoverTypeOK
  <2>1. proc \in [Procs -> Processes]
    BY <1>c, StartedTyped
  <2>2. backup \in LegacyTrees
    BY <1>g, StartedTyped
  <2>3. creates \in 0 .. MaxCreates /\ faults \in 0 .. MaxFaults
    BY <1>g, CutoverAssumption
  <2>4. marker \in BOOLEAN /\ fence \in {"none", "migrating", "retired"}
    BY <1>g
  <2> QED BY <1>a, <1>h, <1>j, <2>1, <2>2, <2>3, <2>4 DEF CutoverTypeOK
<1>2. Mode
  <2>1. CASE ~marker /\ tree = Nothing
    <3>1. \A q \in Procs \ {first} : proc[q].pc = "down"
      <4> HIDE DEF Down
      <4> QED BY <1>e, <1>f2, <2>1
    <3>2. legacy = Nothing
      BY <1>g, <2>1
    <3> QED BY <1>k, <2>1, <3>1, <3>2 DEF Mode, Fresh
  <2>2. CASE marker \/ tree # Nothing
    <3>1. marker \/ legacy # Nothing
      BY <1>g, <2>2
    <3>2. marker => store # NoStore
      BY <1>h, StoreAssumption
    <3> QED BY <1>k, <3>1, <3>2 DEF Mode, Shared, WipeSteps
  <2> QED BY <2>1, <2>2
<1>3. TreeSound
  <2>1. ~marker => tree = legacy
    BY <1>g
  <2> QED BY <1>i, <1>k, <2>1 DEF TreeSound, Nothing
<1>4. Marked /\ Fenced /\ Wiped
  <2>1. \A p \in Procs : proc[p].pc \notin ResidueSteps \cup {"retire", "seal"}
                              \cup FirstSteps \cup Holders \cup WipeSteps
    BY <1>k DEF ResidueSteps, FirstSteps, Holders, WipeSteps
  <2>2. Marked
    BY <1>k, <2>1 DEF Marked
  <2>3. Fenced
    BY <2>1 DEF Fenced
  <2> QED BY <2>1, <2>2, <2>3 DEF Wiped
<1>5. RowsFirst /\ NeverAmbiguous
  <2>1. marker => store.queue = {} /\ store.replayed = {}
    BY <1>g DEF EmptyStore
  <2> QED BY <1>g, <2>1 DEF RowsFirst, NeverAmbiguous
<1>6. RuntimeImported /\ NothingLost
  BY <1>i DEF RuntimeImported, NothingLost
<1>7. ImportSound
  BY <1>k DEF ImportSound, FirstSound, QuarantineSound, AbsorbSound, RetireSound
<1> QED BY <1>1, <1>2, <1>3, <1>4, <1>5, <1>6, <1>7 DEF IInv, Control

LEMMA Inductive == IInv /\ [Next]_vars => IInv'
<1> SUFFICES ASSUME IInv, [Next]_vars PROVE IInv'
  OBVIOUS
<1>1. CASE UNCHANGED vars
  <2>1. /\ legacy' = legacy /\ tree' = tree /\ backup' = backup /\ store' = store
        /\ marker' = marker /\ fence' = fence /\ proc' = proc /\ creates' = creates
        /\ faults' = faults
    BY <1>1 DEF vars
  <2>2. CutoverTypeOK'
    BY <2>1 DEF IInv, CutoverTypeOK
  <2>3. Mode' /\ TreeSound'
    BY <2>1 DEF IInv, Control, Mode, Fresh, Shared, TreeSound
  <2>4. Marked' /\ Fenced' /\ Wiped' /\ RowsFirst' /\ NeverAmbiguous'
    BY <2>1 DEF IInv, Control, Marked, Fenced, Wiped, RowsFirst, NeverAmbiguous
  <2>5. \A d \in Dirs : \A f : InStore(d, f)' = InStore(d, f) /\ Safe(d, f)' = Safe(d, f)
    BY <2>1 DEF InStore, Safe, Unclaimed
  <2>6. RuntimeImported' /\ NothingLost'
    BY <2>1, <2>5 DEF IInv, RuntimeImported, NothingLost, Unclaimed
  <2>7. ImportSound'
    BY <2>1, <2>5 DEF IInv, ImportSound, FirstSound, QuarantineSound, AbsorbSound, RetireSound, ClaimSeen
  <2> QED BY <2>2, <2>3, <2>4, <2>6, <2>7 DEF IInv, Control
<1>2. ASSUME NEW p \in Procs,
             Access(p) \/ Cutover(p) \/ Creates(p) \/ Wipe(p) \/ Fail(p) \/ Crash(p)
      PROVE  IInv'
  <2>1. CutoverTypeOK'
    BY TypeStep DEF IInv
  <2>2. Mode' /\ TreeSound' /\ FenceSound'
    BY <1>2, ModeStep, TreeStep, FenceStep DEF IInv
  <2>3. RowsFirst'
    BY <1>2, StoreStep, GrowStep DEF IInv
  <2>4. RuntimeImported' /\ ImportSound' /\ NothingLost'
    BY <1>2, RuntimeStep, SoundStep, LostStep DEF IInv
  <2> QED BY <2>1, <2>2, <2>3, <2>4 DEF IInv, Control, FenceSound
<1> QED BY <1>1, <1>2 DEF Next

LEMMA Invariant == Spec => []IInv
BY InitSound, Inductive, PTL DEF Spec

(* The shape of the disk and of the processes' memories                    *)
(* (session-application.ts, migration.ts).                                 *)
THEOREM CutoverTypeCorrect == Spec => []CutoverTypeOK
<1>1. IInv => CutoverTypeOK
  BY DEF IInv
<1> QED BY <1>1, Invariant, PTL

(* However the importers of one project crash, fail and interleave, every  *)
(* piece of the legacy tree is still there or safe in the store.           *)
THEOREM LegacyKept == Spec => []NothingLost
<1>1. IInv => NothingLost
  BY DEF IInv
<1> QED BY <1>1, Invariant, PTL

(* No interruption leaves a database alone, the state that every access    *)
(* refuses as "ambiguous" and no operation repairs.                        *)
THEOREM CutoverNeverAmbiguous == Spec => []NeverAmbiguous
<1>1. IInv => NeverAmbiguous
  BY DEF IInv, Control
<1> QED BY <1>1, Invariant, PTL

-----------------------------------------------------------------------------
(* A session whose envelope has its second name has its row: retiring asks *)
(* for the row first, and only an empty store is ever taken back.          *)
Resumed == \A d \in Dirs : "runtime" \in tree[d] => store # NoStore /\ d \in store.rows

LEMMA ResumedStep ==
  ASSUME IInv, Resumed, NEW p \in Procs,
         Access(p) \/ Cutover(p) \/ Creates(p) \/ Wipe(p) \/ Fail(p) \/ Crash(p)
  PROVE  Resumed'
<1>a. /\ proc \in Memories /\ tree \in [Dirs -> SUBSET (Legacy \cup {"runtime"})]
      /\ proc[p].left \in LegacyTrees
      /\ \A d \in Dirs : proc[p].left[d] \subseteq legacy[d]
  BY ProcessTyped DEF IInv, Control, TreeSound, CutoverTypeOK, Memories
<1> SUFFICES ASSUME NEW d \in Dirs, "runtime" \in tree'[d]
             PROVE  store' # NoStore /\ d \in store'.rows
  BY DEF Resumed
<1>1. store # NoStore /\ d \in store.rows
  <2>1. CASE "runtime" \in tree[d]
    BY <2>1 DEF Resumed
  <2>2. CASE "runtime" \notin tree[d]
    <3>1. Retire(p)
      <4>1. CASE Quarantine(p)
        <5>1. \A e \in Dirs : tree'[e] \subseteq tree[e]
          BY <1>a, <4>1, QuarantineRemoves DEF IInv
        <5> QED BY <2>2, <5>1
      <4> QED BY <2>2, <4>1, Movers
    <3>2. proc[p].pc = "retire"
      BY <1>a, <3>1, RetireDoes DEF IInv
    <3>3. \/ \E e \in Dirs : /\ "envelope" \in proc[p].left[e]
                             /\ tree' = [tree EXCEPT ![e] = @ \cup {"runtime"}]
          \/ \E e \in Dirs, g \in Legacy : tree' = [tree EXCEPT ![e] = @ \ {g}]
          \/ tree' = tree
      BY <3>1 DEF Retire, Turn
    <3>4. "envelope" \in proc[p].left[d]
      BY <1>a, <2>2, <3>3
    <3>5. Safe(d, "envelope") /\ "envelope" \in legacy[d]
      BY <1>a, <3>2, <3>4 DEF IInv, ImportSound, RetireSound
    <3> QED BY <3>5 DEF Safe, Unclaimed, InStore
  <2> QED BY <2>1, <2>2
<1>2. Grows
  BY StoreStep, GrowStep DEF IInv
<1> QED BY <1>1, <1>2 DEF Grows, EmptyStore

(* An access of the legacy tree or its store (configuredSessionApplication, *)
(* migrateJsonSessionRecords, migrateLegacyResidue) is refused by nothing  *)
(* but a fence without a marker, whatever files any interrupted imports,   *)
(* retirements and releases left: that fence is the one state of the disk  *)
(* the program does not go on from.                                        *)
THEOREM OnlyFenceRefuses == Spec => []Resumable
<1>1. Init => Resumed
  <2> SUFFICES ASSUME Init, NEW d \in Dirs, "runtime" \in tree[d]
               PROVE  store # NoStore /\ d \in store.rows
    BY DEF Resumed
  <2>1. \A e \in Dirs : "runtime" \notin legacy[e]
    BY CutoverAssumption DEF Init, LegacyTrees, Legacy
  <2>2. marker => store # NoStore
    <3>1. \A rows \in SUBSET Dirs : [EmptyStore EXCEPT !.rows = rows] \in Stores
      BY StoresTyped DEF Stores
    <3> QED BY <3>1, StoreAssumption DEF Init
  <2>3. PICK rows \in SUBSET Dirs :
          /\ marker = TRUE /\ store = [EmptyStore EXCEPT !.rows = rows]
          /\ tree = [e \in Dirs |-> IF e \in rows /\ "envelope" \notin legacy[e]
                                    THEN legacy[e] \cup {"runtime"} ELSE legacy[e]]
    BY <2>1 DEF Init
  <2>4. d \in rows /\ store.rows = rows
    BY <2>1, <2>3 DEF EmptyStore
  <2> QED BY <2>2, <2>3, <2>4
<1>2. IInv /\ Resumed /\ [Next]_vars => Resumed'
  <2> SUFFICES ASSUME IInv, Resumed, [Next]_vars PROVE Resumed'
    OBVIOUS
  <2>1. CASE UNCHANGED vars
    BY <2>1 DEF vars, Resumed
  <2> QED BY <2>1, ResumedStep DEF Next
<1>3. IInv /\ Resumed => Resumable
  <2> SUFFICES ASSUME IInv, Resumed PROVE Resumable
    OBVIOUS
  <2>1. ~marker => \A d \in Dirs : ~Unreadable(d)
    BY LegacyTyped DEF IInv, Control, TreeSound, Legacy, Unreadable
  <2>2. ~marker /\ store # NoStore => fence # "none"
    BY DEF IInv, Control, NeverAmbiguous
  <2>3. \A d \in Dirs : ~Rowless(d)
    BY DEF Resumed, Rowless
  <2> QED BY <2>1, <2>2, <2>3 DEF Resumable, Refused, Unmarked
<1> QED BY <1>1, <1>2, <1>3, Invariant, PTL DEF Spec

(* An installed database only grows, or its creator takes it back empty.   *)
THEOREM StoreOnlyGrows == Spec => StoreGrows
<1>1. IInv /\ [Next]_vars => [Grows]_vars
  <2> SUFFICES ASSUME IInv, [Next]_vars PROVE [Grows]_vars
    OBVIOUS
  <2>1. ASSUME NEW p \in Procs,
               Access(p) \/ Cutover(p) \/ Creates(p) \/ Wipe(p) \/ Fail(p) \/ Crash(p)
        PROVE  Grows
    BY <2>1, StoreStep, GrowStep DEF IInv
  <2> QED BY <2>1 DEF Next
<1>2. Spec => [][Grows]_vars
  BY <1>1, Invariant, PTL DEF Spec
<1> QED BY <1>2 DEF StoreGrows, Grows
=============================================================================
