----------------------------- MODULE StoreCutover -----------------------------
(***************************************************************************)
(* The cutover from the legacy JSON session tree to the canonical SQLite   *)
(* store (spec-cli/src/session-application.ts and                          *)
(* packages/session-application/src/migration.ts), and the leases by which *)
(* a create may take back the fresh store it caused.                       *)
(*                                                                         *)
(* What stage the cutover is in is read from which files exist: the        *)
(* database, its marker, the fence and the legacy tree. Every step below   *)
(* is one change of the disk; between two of them the process may end or   *)
(* another one may act. What a process remembers is in proc.               *)
(*                                                                         *)
(* A legacy directory is the set of its pieces: "envelope" (session.json), *)
(* "pending" and "timeline", and "runtime" (runtime.json), the name the    *)
(* envelope keeps once it is retired. Watchers and parents travel with the *)
(* row; cursors and unreadable files are only backed up.                   *)
(***************************************************************************)
EXTENDS Integers, FiniteSets

CONSTANTS
  Procs,        \* backends and command-line processes on one project
  NumDirs,      \* session directories, in the order of their names
  Trees,        \* the legacy trees the first process may find
  NoStore,      \* there is no database file
  MaxCreates,   \* bound: session creates
  MaxFaults     \* bound: crashes and failed steps

Dirs == 1 .. NumDirs
Legacy == {"envelope", "pending", "timeline"}
LegacyTrees == [Dirs -> SUBSET Legacy]

ASSUME CutoverAssumption ==
  /\ NumDirs \in Nat /\ MaxCreates \in Nat /\ MaxFaults \in Nat
  /\ Trees \subseteq LegacyTrees

VARIABLES
  legacy,       \* the tree that was there at first
  tree,         \* the session directories now
  backup,       \* the copies kept beside the database
  store,        \* the database
  marker,       \* the .json-migration.json file
  fence,        \* the .json-migration.lock file
  proc,         \* the memory of each process
  creates,      \* creates so far
  faults

disk == <<tree, backup, store, marker, fence>>
vars == <<legacy, tree, backup, store, marker, fence, proc, creates, faults>>

(* The deterministic event ids start with the digest of the input files,   *)
(* so what they depend on is which import it is and what the tree held.    *)
Seeds == [mode : {"first", "residue"}, of : LegacyTrees]

(* A database: the sessions with a row, the timelines that were replayed   *)
(* and under which seed, the legacy debts in the queue (the key legacy:mid *)
(* makes an import of the same debt the same row), and how many sessions   *)
(* were created live.                                                      *)
Stores == [rows : SUBSET Dirs, replayed : SUBSET (Dirs \X Seeds),
           queue : SUBSET Dirs, born : Nat]
EmptyStore == [rows |-> {}, replayed |-> {}, queue |-> {}, born |-> 0]

ASSUME StoreAssumption == NoStore \notin Stores

Nothing == [d \in Dirs |-> {}]
LegacyOf(t) == [d \in Dirs |-> t[d] \cap Legacy]

(* A process between calls; settled is settledResidueStores, owned, done   *)
(* and leases are the three freshStore variables, rowed counts the leased  *)
(* creates whose row has been written.                                     *)
Started ==
  [pc |-> "idle", creating |-> FALSE, snap |-> Nothing, left |-> Nothing,
   settled |-> FALSE, owned |-> FALSE, done |-> FALSE, leases |-> 0, rowed |-> 0]

FirstSteps == {"check", "fence", "stage", "install", "mark"}
ResidueSteps == {"quarantine", "absorb", "recheck"}
WipeSteps == {"wipe marker", "wipe fence", "wipe backup"}
Processes ==
  [pc : {"down", "idle", "migrate", "retire", "seal"} \cup FirstSteps
          \cup ResidueSteps \cup WipeSteps,
   creating : BOOLEAN, snap : LegacyTrees, left : LegacyTrees,
   settled : BOOLEAN, owned : BOOLEAN, done : BOOLEAN,
   leases : Nat, rowed : Nat]

-----------------------------------------------------------------------------
(* legacyResidueExists *)
Residue == \E d \in Dirs : tree[d] \cap Legacy # {}

(* sessionApplicationCutoverState *)
CutoverState(p) ==
  CASE marker /\ (proc[p].settled \/ ~Residue) -> "ready"
    [] marker /\ ~proc[p].settled /\ Residue -> "residue"
    [] ~marker /\ fence # "none" -> "fenced"
    [] ~marker /\ fence = "none" /\ tree # Nothing -> "migration-required"
    [] ~marker /\ fence = "none" /\ tree = Nothing /\ store # NoStore -> "ambiguous"
    [] OTHER -> "fresh"

(* readLegacyDir refuses a directory that holds both names of an envelope. *)
Unreadable(d) == {"envelope", "runtime"} \subseteq tree[d]
Readable == [d \in Dirs |-> IF Unreadable(d) THEN {} ELSE tree[d] \cap Legacy]
Quarantined == [d \in Dirs |-> IF Unreadable(d) THEN tree[d] \cap Legacy ELSE {}]

(* The loops go through the directories by name and through each one's     *)
(* files in an order of their own; left is what is still to be gone over.  *)
ImportOrder == [envelope |-> 1, timeline |-> 2, pending |-> 3]
RemovalOrder == [envelope |-> 1, pending |-> 2, timeline |-> 3]
Over(p) == proc[p].left = Nothing
Turn(p, order, d, f) ==
  /\ f \in proc[p].left[d]
  /\ \A g \in proc[p].left[d] : order[f] <= order[g]
  /\ \A e \in Dirs : proc[p].left[e] # {} => d <= e
Copied(files) == [d \in Dirs |-> backup[d] \cup files[d]]

Goto(p, pc) == proc' = [proc EXCEPT ![p].pc = pc]
Work(p, pc, left) == proc' = [proc EXCEPT ![p].pc = pc, ![p].left = left]
Progress(p, d, f) == proc' = [proc EXCEPT ![p].left[d] = @ \ {f}]

-----------------------------------------------------------------------------
(* configuredSessionApplication: a legacy tree is cut over at its first    *)
(* canonical access; a fence or a database alone is refused. A ready store *)
(* and one with residue are opened, which makes the file when it is gone.  *)
Opened == IF store = NoStore THEN EmptyStore ELSE store
Access(p) ==
  /\ proc[p].pc = "idle"
  /\ \/ /\ CutoverState(p) = "ready"
        /\ store' = Opened
        /\ proc' = [proc EXCEPT ![p].settled = TRUE]
     \/ /\ CutoverState(p) = "residue"
        /\ store' = Opened
        /\ proc' = [proc EXCEPT ![p].pc = "migrate", ![p].creating = FALSE]
     \/ /\ CutoverState(p) \in {"migration-required", "fresh"}
        /\ proc' = [proc EXCEPT ![p].pc = "migrate", ![p].creating = FALSE]
        /\ UNCHANGED store
     \/ /\ CutoverState(p) \in {"fenced", "ambiguous"}
        /\ UNCHANGED <<store, proc>>
  /\ UNCHANGED <<legacy, tree, backup, marker, fence, creates, faults>>

(* acquireFreshSessionApplicationForCreate: only a create may answer a     *)
(* fresh project, and it holds a lease on the store it causes.             *)
Acquire(p) ==
  /\ proc[p].pc = "idle" /\ creates < MaxCreates
  /\ creates' = creates + 1
  /\ \/ /\ CutoverState(p) = "fresh"
        /\ proc' = [proc EXCEPT ![p].pc = "migrate", ![p].creating = TRUE]
     \/ /\ CutoverState(p) = "ready" /\ store # NoStore
        /\ proc[p].owned /\ ~proc[p].done
        /\ proc' = [proc EXCEPT ![p].leases = @ + 1, ![p].settled = TRUE]
  /\ UNCHANGED <<legacy, disk, faults>>

(* A create that found a store which is nobody's to take back.             *)
PlainCreate(p) ==
  /\ proc[p].pc = "idle" /\ creates < MaxCreates
  /\ CutoverState(p) = "ready" /\ store # NoStore
  /\ ~(proc[p].owned /\ ~proc[p].done)
  /\ creates' = creates + 1
  /\ store' = [store EXCEPT !.born = @ + 1]
  /\ proc' = [proc EXCEPT ![p].settled = TRUE]
  /\ UNCHANGED <<legacy, tree, backup, marker, fence, faults>>

(* The leased create publishes its canonical row.                          *)
WriteRow(p) ==
  /\ proc[p].pc = "idle" /\ proc[p].rowed < proc[p].leases /\ store # NoStore
  /\ store' = [store EXCEPT !.born = @ + 1]
  /\ proc' = [proc EXCEPT ![p].rowed = @ + 1]
  /\ UNCHANGED <<legacy, tree, backup, marker, fence, creates, faults>>

(* releaseFreshSessionApplicationForCreate. A create that wrote its row    *)
(* may still fail, so the last release counts the rows before it removes   *)
(* the database, then the marker, then the fence and the backup.           *)
HoldsNothing == FALSE  \* mutant: the rows are not counted
HoldsSessions == store # NoStore /\ (store.rows # {} \/ store.born > 0)
Release(p, hadRow, committed) ==
  /\ proc[p].pc = "idle" /\ proc[p].leases > 0
  /\ committed => hadRow
  /\ IF hadRow THEN proc[p].rowed > 0 ELSE proc[p].rowed < proc[p].leases
  /\ LET mine == [proc[p] EXCEPT !.leases = @ - 1, !.rowed = IF hadRow THEN @ - 1 ELSE @,
                                 !.done = @ \/ committed]
         last == mine.leases = 0
         keep == mine.done \/ HoldsSessions
     IN /\ proc' = [proc EXCEPT ![p] =
                      CASE last /\ keep -> [mine EXCEPT !.done = TRUE]
                        [] last /\ ~keep -> [mine EXCEPT !.pc = "wipe marker"]
                        [] OTHER -> mine]
        /\ fence' = IF last /\ keep THEN "none" ELSE fence
        /\ store' = IF last /\ ~keep THEN NoStore ELSE store
  /\ UNCHANGED <<legacy, tree, backup, marker, creates, faults>>

WipeMarker(p) ==
  /\ proc[p].pc = "wipe marker"
  /\ marker' = FALSE
  /\ Goto(p, "wipe fence")
  /\ UNCHANGED <<legacy, tree, backup, store, fence, creates, faults>>
WipeFence(p) ==
  /\ proc[p].pc = "wipe fence"
  /\ fence' = "none"
  /\ Goto(p, "wipe backup")
  /\ UNCHANGED <<legacy, tree, backup, store, marker, creates, faults>>
WipeBackup(p) ==
  /\ proc[p].pc = "wipe backup"
  /\ backup' = Nothing
  /\ proc' = [proc EXCEPT ![p].pc = "idle", ![p].owned = FALSE]
  /\ UNCHANGED <<legacy, tree, store, marker, fence, creates, faults>>

-----------------------------------------------------------------------------
(* Mutant: a marked store is taken to have a clean tree. *)
MigrateMarkedIsClean(p) ==
  /\ proc[p].pc = "migrate"
  /\ \/ marker /\ Work(p, "retire", LegacyOf(tree))
     \/ ~marker /\ proc' = [proc EXCEPT ![p].pc = "check", ![p].snap = LegacyOf(tree)]
  /\ UNCHANGED <<legacy, disk, creates, faults>>
(* Mutant: what cannot be read beside a marked store is refused. *)
MigrateRefusing(p) ==
  /\ proc[p].pc = "migrate"
  /\ \/ (\E d \in Dirs : Unreadable(d)) /\ Goto(p, "idle")
     \/ /\ marker /\ ~ \E d \in Dirs : Unreadable(d)
        /\ proc' = [proc EXCEPT ![p].pc = "quarantine", ![p].snap = Readable]
     \/ /\ ~marker /\ ~ \E d \in Dirs : Unreadable(d)
        /\ proc' = [proc EXCEPT ![p].pc = "check", ![p].snap = LegacyOf(tree)]
  /\ UNCHANGED <<legacy, disk, creates, faults>>
(* migrateJsonSessionRecords: read the marker and the legacy tree.         *)
Migrate(p) ==
  /\ proc[p].pc = "migrate"
  /\ \/ /\ marker /\ store = NoStore
        /\ Goto(p, "idle")
     \/ /\ marker /\ store # NoStore
        /\ proc' = [proc EXCEPT ![p].pc = "quarantine", ![p].snap = Readable,
                                ![p].left = Quarantined]
     \/ /\ ~marker /\ \E d \in Dirs : Unreadable(d)
        /\ Goto(p, "idle")
     \/ /\ ~marker /\ ~ \E d \in Dirs : Unreadable(d)
        /\ proc' = [proc EXCEPT ![p].pc = "check", ![p].snap = LegacyOf(tree)]
  /\ UNCHANGED <<legacy, disk, creates, faults>>

(* The first import refuses a database without a marker and any fence,     *)
Check(p) ==
  /\ proc[p].pc = "check"
  /\ Goto(p, IF store = NoStore /\ fence = "none" THEN "fence" ELSE "idle")
  /\ UNCHANGED <<legacy, disk, creates, faults>>

(* writes its own fence with the exclusive flag,                           *)
TakeFence(p) ==
  /\ proc[p].pc = "fence"
  /\ \/ fence = "none" /\ fence' = "migrating" /\ Goto(p, "stage")
     \/ fence # "none" /\ UNCHANGED fence /\ Goto(p, "idle")
  /\ UNCHANGED <<legacy, tree, backup, store, marker, creates, faults>>

(* copies the files (and builds a staging database from them),             *)
Imported(snap) ==
  LET sessions == {d \in Dirs : "envelope" \in snap[d]}
      told == {d \in sessions : "timeline" \in snap[d]}
  IN [rows |-> sessions,
      replayed |-> told \X {[mode |-> "first", of |-> snap]},
      queue |-> {d \in sessions : "pending" \in snap[d]},
      born |-> 0]
Stage(p) ==
  /\ proc[p].pc = "stage"
  /\ backup' = Copied(proc[p].snap)
  /\ Goto(p, "install")
  /\ UNCHANGED <<legacy, tree, store, marker, fence, creates, faults>>

(* renames it over the database path when the tree has not changed,        *)
Install(p) ==
  /\ proc[p].pc = "install"
  /\ \/ /\ LegacyOf(tree) = proc[p].snap
        /\ store' = Imported(proc[p].snap)
        /\ Goto(p, "mark") /\ UNCHANGED fence
     \/ /\ LegacyOf(tree) # proc[p].snap
        /\ fence' = "none"
        /\ Goto(p, "idle") /\ UNCHANGED store
  /\ UNCHANGED <<legacy, tree, backup, marker, creates, faults>>

(* and writes the marker, exclusively too.                                 *)
Mark(p) ==
  /\ proc[p].pc = "mark"
  /\ \/ ~marker /\ marker' = TRUE /\ Work(p, "retire", LegacyOf(tree))
     \/ marker /\ UNCHANGED marker /\ Goto(p, "idle")
  /\ UNCHANGED <<legacy, tree, backup, store, fence, creates, faults>>

-----------------------------------------------------------------------------
(* quarantineUnreadableResidue, file by file; then migrateLegacyResidue    *)
(* when something readable is left: the retired envelopes must have rows,  *)
(* and the files are copied before any of them is imported.                *)
Orphaned(p) ==
  \E d \in Dirs : /\ proc[p].snap[d] # {}
                  /\ "runtime" \in tree[d] /\ d \notin store.rows
Quarantine(p) ==
  /\ proc[p].pc = "quarantine"
  /\ \/ \E d \in Dirs, f \in Legacy :
          /\ Turn(p, RemovalOrder, d, f)
          /\ backup' = [backup EXCEPT ![d] = @ \cup {f}]
          /\ tree' = [tree EXCEPT ![d] = @ \ {f}]
          /\ Progress(p, d, f)
     \/ /\ Over(p) /\ proc[p].snap = Nothing
        /\ Work(p, "retire", LegacyOf(tree))
        /\ UNCHANGED <<tree, backup>>
     \/ /\ Over(p) /\ proc[p].snap # Nothing
        /\ \A d \in Dirs : proc[p].snap[d] \subseteq tree[d]
        /\ ~Orphaned(p)
        /\ backup' = Copied(proc[p].snap)
        /\ Work(p, "absorb", proc[p].snap)
        /\ UNCHANGED tree
     \/ /\ Over(p) /\ proc[p].snap # Nothing
        /\ Orphaned(p) \/ \E d \in Dirs : ~(proc[p].snap[d] \subseteq tree[d])
        /\ Goto(p, "idle")
        /\ UNCHANGED <<tree, backup>>
  /\ UNCHANGED <<legacy, store, marker, fence, creates, faults>>

(* One transaction of the residue import. An envelope makes a row only     *)
(* where there is none; replayTimeline skips a subject whose first event   *)
(* id is already in the store; a directory without a row is no session.    *)
SeedOf(p) == [mode |-> "residue", of |-> proc[p].snap]
Absorbed(st, d, f, seed) ==
  CASE f = "envelope" -> [st EXCEPT !.rows = @ \cup {d}]
    [] f = "timeline" /\ d \in st.rows -> [st EXCEPT !.replayed = @ \cup {<<d, seed>>}]
    [] f = "pending" /\ d \in st.rows -> [st EXCEPT !.queue = @ \cup {d}]
    [] OTHER -> st
Absorb(p) ==
  /\ proc[p].pc = "absorb"
  /\ \/ \E d \in Dirs, f \in Legacy :
          /\ Turn(p, ImportOrder, d, f) /\ store # NoStore
          /\ store' = Absorbed(store, d, f, SeedOf(p))
          /\ Progress(p, d, f)
     \/ /\ Over(p)
        /\ Goto(p, "recheck")
        /\ UNCHANGED store
  /\ UNCHANGED <<legacy, tree, backup, marker, fence, creates, faults>>

(* assertResidueInputsUnchanged                                            *)
Recheck(p) ==
  /\ proc[p].pc = "recheck"
  /\ \/ LegacyOf(tree) = proc[p].snap /\ Quarantined = Nothing
        /\ Work(p, "retire", LegacyOf(tree))
     \/ (LegacyOf(tree) # proc[p].snap \/ Quarantined # Nothing) /\ Goto(p, "idle")
  /\ UNCHANGED <<legacy, disk, creates, faults>>

(* retireLegacyArtifacts: the envelope is written under its new name and   *)
(* then unlinked, then the artifact files, then the timeline.              *)
Retire(p) ==
  /\ proc[p].pc = "retire"
  /\ \/ \E d \in Dirs, f \in Legacy :
          /\ Turn(p, RemovalOrder, d, f)
          /\ IF f = "envelope" /\ f \in tree[d] /\ "runtime" \notin tree[d]
             THEN /\ tree' = [tree EXCEPT ![d] = @ \cup {"runtime"}]
                  /\ UNCHANGED proc
             ELSE /\ tree' = [tree EXCEPT ![d] = @ \ {f}]
                  /\ Progress(p, d, f)
     \/ /\ Over(p)
        /\ Goto(p, "seal")
        /\ UNCHANGED tree
  /\ UNCHANGED <<legacy, backup, store, marker, fence, creates, faults>>

(* The fence ends retired; the create that caused a fresh store owns it.   *)
Seal(p) ==
  /\ proc[p].pc = "seal"
  /\ fence' = "retired"
  /\ proc' = [proc EXCEPT ![p] =
       IF proc[p].creating
       THEN [proc[p] EXCEPT !.pc = "idle", !.settled = TRUE, !.creating = FALSE,
                            !.owned = TRUE, !.done = FALSE, !.leases = @ + 1]
       ELSE [proc[p] EXCEPT !.pc = "idle", !.settled = TRUE]]
  /\ UNCHANGED <<legacy, tree, backup, store, marker, creates, faults>>

-----------------------------------------------------------------------------
(* Mutant: the fence is taken down whatever was installed. *)
FailUnfenced(p) ==
  /\ proc[p].pc \in {"stage", "install", "mark"}
  /\ faults < MaxFaults /\ faults' = faults + 1
  /\ fence' = "none"
  /\ Goto(p, "idle")
  /\ UNCHANGED <<legacy, tree, backup, store, marker, creates>>
(* A step throws. Before the database is installed the importer takes its  *)
(* fence down again; after that everything stays where it is.              *)
Fail(p) ==
  /\ proc[p].pc \in {"migrate", "retire", "seal"} \cup FirstSteps \cup ResidueSteps
  /\ faults < MaxFaults /\ faults' = faults + 1
  /\ fence' = IF proc[p].pc \in {"stage", "install"} THEN "none" ELSE fence
  /\ Goto(p, "idle")
  /\ UNCHANGED <<legacy, tree, backup, store, marker, creates>>

(* A process ends and is started again with nothing in memory.             *)
Crash(p) ==
  /\ proc[p].pc # "down"
  /\ faults < MaxFaults /\ faults' = faults + 1
  /\ proc' = [proc EXCEPT ![p] = Started]
  /\ UNCHANGED <<legacy, disk, creates>>

Wipe(p) == WipeMarker(p) \/ WipeFence(p) \/ WipeBackup(p)
FirstImport(p) == Check(p) \/ TakeFence(p) \/ Stage(p) \/ Install(p) \/ Mark(p)
ResidueImport(p) == Quarantine(p) \/ Absorb(p) \/ Recheck(p)
Cutover(p) == Migrate(p) \/ FirstImport(p) \/ ResidueImport(p) \/ Retire(p) \/ Seal(p)
Releases(p) == \E hadRow, committed \in BOOLEAN : Release(p, hadRow, committed)
Creates(p) == Acquire(p) \/ PlainCreate(p) \/ WriteRow(p) \/ Releases(p)

(* An unmarked project with a tree, a marked one whose importer left       *)
(* residue (rows, envelopes retired where they were imported), or a        *)
(* project with neither, which one process opens.                          *)
Init ==
  /\ legacy \in Trees
  /\ backup = Nothing
  /\ \/ /\ marker = FALSE /\ fence = "none" /\ store = NoStore /\ tree = legacy
     \/ /\ marker = TRUE /\ fence \in {"none", "retired"}
        /\ \E rows \in SUBSET Dirs :
             /\ store = [EmptyStore EXCEPT !.rows = rows]
             /\ tree = [d \in Dirs |-> IF d \in rows /\ "envelope" \notin legacy[d]
                                       THEN legacy[d] \cup {"runtime"} ELSE legacy[d]]
  /\ \E first \in Procs :
       proc = [p \in Procs |-> IF p = first \/ marker \/ tree # Nothing THEN Started
                               ELSE [Started EXCEPT !.pc = "down"]]
  /\ creates = 0 /\ faults = 0

Next == \E p \in Procs :
  Access(p) \/ Cutover(p) \/ Creates(p) \/ Wipe(p) \/ Fail(p) \/ Crash(p)

(* Canonical accesses keep coming, a process goes on with what it does,    *)
(* and a create is released in the end.                                    *)
Fairness == \A p \in Procs :
  WF_vars(Access(p)) /\ WF_vars(Cutover(p)) /\ WF_vars(Wipe(p)) /\ WF_vars(Releases(p))
Spec == Init /\ [][Next]_vars
FairSpec == Spec /\ Fairness
-----------------------------------------------------------------------------
(* The shape of the disk and of what the processes remember.               *)
CutoverTypeOK ==
  /\ legacy \in Trees
  /\ tree \in [Dirs -> SUBSET (Legacy \cup {"runtime"})]
  /\ backup \in LegacyTrees
  /\ store \in Stores \cup {NoStore}
  /\ marker \in BOOLEAN
  /\ fence \in {"none", "migrating", "retired"}
  /\ proc \in [Procs -> Processes]
  /\ creates \in 0 .. MaxCreates /\ faults \in 0 .. MaxFaults

(* Whatever crashes, fails or runs beside it, every piece of the legacy    *)
(* tree is still there or is in the installed store; a piece of a          *)
(* directory that is no session is at least in the backup.                 *)
InStore(d, f) ==
  /\ store # NoStore
  /\ CASE f = "envelope" -> d \in store.rows
       [] f = "timeline" -> \E e \in store.replayed : e[1] = d
       [] f = "pending" -> d \in store.queue
Unclaimed(d) == "envelope" \notin legacy[d] /\ (store = NoStore \/ d \notin store.rows)
NothingLost ==
  \A d \in Dirs : \A f \in legacy[d] :
    f \in tree[d] \/ InStore(d, f) \/ (Unclaimed(d) /\ f \in backup[d])

(* A database never stands alone: the answer "ambiguous", which no         *)
(* operation of the program leaves again, is never given.                  *)
NeverAmbiguous == store # NoStore => marker \/ fence # "none"

(* Why an access is refused, whatever it tries: a fence without a marker,  *)
(* a database alone, an envelope under both names before there is a        *)
(* marker, or a retired envelope that left pieces behind and has no row.   *)
Unmarked == ~marker /\ fence # "none"
Rowless(d) ==
  "runtime" \in tree[d] /\ Readable[d] # {} /\ (store = NoStore \/ d \notin store.rows)
Refused ==
  \/ Unmarked
  \/ ~marker /\ (store # NoStore \/ \E d \in Dirs : Unreadable(d))
  \/ marker /\ \E d \in Dirs : Rowless(d)

(* Whatever set of files an interrupted import, retirement or release      *)
(* leaves, the next access can go on from it with one exception: the fence *)
(* of an importer that ended between writing it and the marker, which      *)
(* refuses every access until a person removes it.                         *)
Resumable == Refused => Unmarked

(* No import, retry or release replaces an installed database or takes it  *)
(* away while it holds a session.                                          *)
StoreGrows == [][store # NoStore =>
  \/ /\ store' # NoStore
     /\ store.rows \subseteq store'.rows /\ store.replayed \subseteq store'.replayed
     /\ store.queue \subseteq store'.queue /\ store.born <= store'.born
  \/ store' = NoStore /\ store = EmptyStore]_vars

(* When the faults end, the cutover does: the store is marked and nothing  *)
(* legacy is left, or a fence without a marker waits for a person.         *)
Settles == \/ <>[](marker /\ ~Residue)
           \/ <>[](~marker /\ fence # "none")

(* Not kept by the code (README, Divergences), though replayTimeline's     *)
(* comment and the json-migration spec promise it: a timeline is replayed  *)
(* once, whatever was interrupted.                                         *)
HistoryOnce ==
  \A e, f \in {x \in Dirs \X Seeds : store # NoStore /\ x \in store.replayed} :
    e[1] = f[1] => e = f
=============================================================================
