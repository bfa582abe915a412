--------------------------- MODULE GraphCache_proofs ---------------------------
(***************************************************************************)
(* For any number of sessions and of versions: the anchor of the cached    *)
(* board is honest, its topology never goes back, a full build keeps the   *)
(* published rows, and a signalled structural change is carried or owed.   *)
(*                                                                         *)
(* The argument follows what each flight has captured. A sample lies in    *)
(* the past, so it is at most what is read later; only a build replaces    *)
(* the topology, so a splice that was not rebased still stands on the      *)
(* cached board, and a build still stands on the full half of the anchor   *)
(* it sampled.                                                             *)
(***************************************************************************)
EXTENDS GraphCache, TLAPS

(* b was read in the past. *)
Past(b) ==
  /\ b.topo <= inputs.topo
  /\ \A s \in Sessions : b.rec[s] <= inputs.rec[s] /\ b.live[s] <= inputs.live[s]

ReadInThePast ==
  /\ Past(told) /\ Past(build.board) /\ Past(splice.board)
  /\ cached # NoBoard => Past(cached)

(* What a build has sampled. *)
SampleSound ==
  build.stage \in {"sampled"} \cup Producing =>
    /\ build.before.full <= inputs.topo
    /\ \A s \in Sessions : build.before.sessions[s] <= inputs.rec[s]
    /\ build.warm => cached # NoBoard /\ build.anchor.full = anchor.full
    /\ build.stage # "sampled" /\ build.scope = "sessions" => build.warm

(* What a build has read, against its sample and the board it replaces. *)
BuildSound ==
  build.stage \in {"read", "verified"} =>
    /\ build.before.full <= build.board.topo \/ build.scope = "sessions"
    /\ build.scope = "sessions" => build.board.topo = cached.topo
    /\ \A s \in Sessions : build.before.sessions[s] <= build.board.rec[s]
    /\ cached # NoBoard => build.board.topo >= cached.topo
    /\ cached # NoBoard /\ ~build.published =>
         \A s \in Sessions : /\ build.board.rec[s] >= cached.rec[s]
                             /\ build.board.live[s] >= cached.live[s]

(* What a build will have carried of the structural signals. *)
StructureAhead ==
  /\ build.stage = "sampled" /\ ~build.moved => told.topo <= build.before.full
  /\ build.stage = "producing" /\ build.scope = "sessions" /\ dirty # "full" =>
       cached.topo >= told.topo
  /\ build.stage \in {"read", "verified"} /\ dirty # "full" => build.board.topo >= told.topo

SpliceSound ==
  /\ splice.stage # "idle" => cached # NoBoard
  /\ splice.stage = "sampled" /\ ~splice.rebased =>
       IF splice.ids = {} THEN \A s \in Sessions : splice.before[s] <= inputs.rec[s]
       ELSE splice.before = anchor.sessions
  /\ splice.stage = "read" /\ ~splice.rebased =>
       /\ splice.board.topo = cached.topo
       /\ \A s \in Sessions : /\ splice.before[s] <= splice.board.rec[s]
                            /\ splice.board.rec[s] >= cached.rec[s]
                            /\ splice.board.live[s] >= cached.live[s]

IInv == /\ GraphTypeOK /\ ReadInThePast /\ SampleSound /\ BuildSound /\ SpliceSound
        /\ AnchorHonest /\ StructureAhead /\ StructureCarriedOrOwed
LEMMA BoardTyped ==
  ASSUME NEW b \in Boards
  PROVE  /\ b.topo \in 0 .. MaxTopo
         /\ b.rec \in [Sessions -> 0 .. MaxRow]
         /\ b.live \in [Sessions -> 0 .. MaxRow]
         /\ RevisionOf(b) \in Revisions
         /\ b # NoBoard
BY GraphAssumption DEF Boards, Revisions, RevisionOf

LEMMA OldestTyped == Oldest \in Boards /\ RevisionOf(Oldest) \in Revisions
BY GraphAssumption DEF Oldest, Boards, Revisions, RevisionOf

LEMMA IdleTyped ==
  /\ IdleBuild \in BuildFlights /\ IdleSplice \in SpliceFlights
  /\ IdleBuild.stage = "idle" /\ IdleSplice.stage = "idle"
<1>1. IdleBuild \in BuildFlights
  BY OldestTyped DEF IdleBuild, BuildFlights, Scopes
<1>2. Oldest.rec \in [Sessions -> 0 .. MaxRow] /\ RevisionOf(Oldest).sessions = Oldest.rec
  BY OldestTyped, BoardTyped DEF RevisionOf
<1>3. IdleSplice \in SpliceFlights
  BY <1>2, OldestTyped DEF IdleSplice, SpliceFlights
<1> QED BY <1>1, <1>3 DEF IdleBuild, IdleSplice

(* A flight keeps its type in each step of it. *)
LEMMA BuildStepTyped ==
  ASSUME NEW b \in BuildFlights
  PROVE  /\ [b EXCEPT !.moved = TRUE] \in BuildFlights
         /\ [b EXCEPT !.signalled = TRUE] \in BuildFlights
         /\ \A x \in BOOLEAN : [b EXCEPT !.published = TRUE, !.signalled = x] \in BuildFlights
         /\ \A x \in BOOLEAN : [b EXCEPT !.stage = "started", !.verify = x] \in BuildFlights
         /\ \A x \in BOOLEAN, y \in Revisions, z \in Revisions :
              [b EXCEPT !.stage = "sampled", !.warm = x, !.anchor = y, !.before = z]
                \in BuildFlights
         /\ \A x \in Scopes, y \in BOOLEAN :
              [b EXCEPT !.stage = "producing", !.scope = x, !.moved = FALSE, !.owed = y]
                \in BuildFlights
         /\ \A x \in Boards : [b EXCEPT !.stage = "read", !.board = x] \in BuildFlights
         /\ \A x \in Revisions : [b EXCEPT !.stage = "verified", !.after = x] \in BuildFlights
BY DEF BuildFlights, Producing

LEMMA SpliceStepTyped ==
  ASSUME NEW p \in SpliceFlights
  PROVE  /\ [p EXCEPT !.stage = "started"] \in SpliceFlights
         /\ \A x \in BOOLEAN : [p EXCEPT !.rebased = x] \in SpliceFlights
         /\ \A x \in SUBSET Sessions, y \in [Sessions -> 0 .. MaxRow] :
              [p EXCEPT !.stage = "sampled", !.ids = x, !.rebased = FALSE, !.before = y]
                \in SpliceFlights
         /\ \A x \in Boards : [p EXCEPT !.stage = "read", !.board = x] \in SpliceFlights
BY DEF SpliceFlights

LEMMA TypeStep ==
  ASSUME GraphTypeOK, SampleSound, SpliceSound, [Next]_vars
  PROVE  GraphTypeOK'
<1> USE GraphAssumption DEF GraphTypeOK
<1>1. CASE UNCHANGED vars
  BY <1>1 DEF vars
<1>2. CASE WriteTopo
  BY <1>2 DEF WriteTopo, Boards
<1>3. ASSUME NEW s \in Sessions, WriteRecord(s) PROVE GraphTypeOK'
  <2>1. inputs.rec[s] \in Nat /\ inputs.live[s] \in Nat /\ inputs.rec[s] + inputs.live[s] < MaxRow
    BY <1>3, GraphAssumption DEF WriteRecord, RowMoves, Boards
  <2>2. inputs.rec[s] + 1 \in 0 .. MaxRow
    BY <2>1, GraphAssumption
  <2> QED BY <1>3, <2>2 DEF WriteRecord, Boards
<1>4. ASSUME NEW s \in Sessions, LivenessMoves(s) PROVE GraphTypeOK'
  <2>1. inputs.rec[s] \in Nat /\ inputs.live[s] \in Nat /\ inputs.rec[s] + inputs.live[s] < MaxRow
    BY <1>4, GraphAssumption DEF LivenessMoves, RowMoves, Boards
  <2>2. inputs.live[s] + 1 \in 0 .. MaxRow
    BY <2>1, GraphAssumption
  <2> QED BY <1>4, <2>2 DEF LivenessMoves, Boards
<1>5. CASE SignalFull
  BY <1>5, BuildStepTyped DEF SignalFull, Boards, Invalidated, Scopes
<1>6. ASSUME NEW ids \in SUBSET Sessions, SignalSessions(ids) PROVE GraphTypeOK'
  BY <1>6, BuildStepTyped DEF SignalSessions, Boards, SessionsInvalidated, Scopes, MergeDirty
<1>7. CASE GetBoard \/ Patrol
  BY <1>7, IdleTyped, BuildStepTyped DEF GetBoard, Patrol, StartBuild
<1>8. CASE SessionRefresh
  BY <1>8, IdleTyped, BuildStepTyped, SpliceStepTyped DEF SessionRefresh, StartBuild, StartSplice
<1>9. CASE StaleRead
  BY <1>9, IdleTyped, BuildStepTyped, SpliceStepTyped DEF StaleRead, StartBuild, StartSplice
<1>10. CASE BuildSample
  BY <1>10, BoardTyped, BuildStepTyped DEF BuildSample
<1>11. CASE BuildDischarge
  BY <1>11, IdleTyped DEF BuildDischarge
<1>12. CASE BuildProduce
  <2>1. PICK x \in Scopes, y \in BOOLEAN :
          build' = [build EXCEPT !.stage = "producing", !.scope = x, !.moved = FALSE, !.owed = y]
    BY <1>12 DEF BuildProduce, Scopes
  <2>2. build' \in BuildFlights
    BY <2>1, BuildStepTyped
  <2> QED BY <1>12, <2>2 DEF BuildProduce
<1>13. CASE BuildRead
  <2>1. build.scope = "full" \/ cached # NoBoard
    BY <1>13 DEF SampleSound, BuildRead, BuildFlights, Scopes, Producing
  <2>2. inputs \in Boards /\ (cached # NoBoard => [inputs EXCEPT !.topo = cached.topo] \in Boards)
    BY DEF Boards
  <2> QED BY <1>13, <2>1, <2>2, BuildStepTyped DEF BuildRead
<1>14. CASE BuildVerify
  BY <1>14, BoardTyped, BuildStepTyped DEF BuildVerify
<1>15. CASE BuildCommit
  <2>1. Completed \in Revisions
    BY DEF Completed, BuildFlights, Revisions
  <2>2. cached' \in Boards
    BY <1>15 DEF BuildCommit, Rebases, Rebased, Boards, BuildFlights
  <2>3. anchor' \in Revisions
    BY <1>15, <2>1 DEF BuildCommit, Revisions
  <2>4. sessionOwed' \in BOOLEAN /\ dirty' \in Scopes \cup {"none"}
    BY <1>15 DEF BuildCommit, RowsStillOwed, MergeDirty, Scopes
  <2>5. build' \in BuildFlights /\ splice' \in SpliceFlights
    <3>1. (splice.stage \in {"sampled", "read"}) \in BOOLEAN
      OBVIOUS
    <3> QED BY <1>15, <3>1, IdleTyped, SpliceStepTyped DEF BuildCommit
  <2> QED BY <1>15, <2>2, <2>3, <2>4, <2>5 DEF BuildCommit
<1>16. CASE BuildFail
  BY <1>16, IdleTyped DEF BuildFail, Scopes, MergeDirty, BuildFlights
<1>17. CASE BackoffOver
  BY <1>17 DEF BackoffOver
<1>18. CASE SpliceSample
  BY <1>18, BoardTyped, SpliceStepTyped DEF SpliceSample, Revisions
<1>19. CASE SpliceRead
  <2>1. cached \in Boards
    BY <1>19 DEF SpliceSound, SpliceRead
  <2>2. splice' = [splice EXCEPT !.stage = "read", !.board = splice'.board]
        /\ splice'.board \in Boards
    BY <1>19, <2>1 DEF SpliceRead, Boards, SpliceFlights
  <2> QED BY <1>19, <2>2, SpliceStepTyped DEF SpliceRead
<1>20. CASE SpliceAgain
  BY <1>20, IdleTyped, SpliceStepTyped DEF SpliceAgain
<1>21. ASSUME NEW late \in BOOLEAN, SpliceCommit(late) PROVE GraphTypeOK'
  <2>1. cached' \in Boards /\ anchor' \in Revisions
    BY <1>21 DEF SpliceCommit, SpliceFlights, Revisions
  <2>2. sessionOwed' \in BOOLEAN /\ dirty' \in Scopes \cup {"none"} /\ failures' \in 0 .. MaxFailures
    BY <1>21 DEF SpliceCommit, MergeDirty, Scopes
  <2>3. build' \in BuildFlights
    <3>1. PICK x \in BOOLEAN : build' \in {build, [build EXCEPT !.published = TRUE, !.signalled = x]}
      BY <1>21 DEF SpliceCommit, BuildFlights
    <3> QED BY <3>1, BuildStepTyped
  <2> QED BY <1>21, <2>1, <2>2, <2>3, IdleTyped DEF SpliceCommit
<1>22. CASE SpliceFail
  BY <1>22, IdleTyped DEF SpliceFail, MergeDirty, Scopes
<1> QED
  BY <1>1, <1>2, <1>3, <1>4, <1>5, <1>6, <1>7, <1>8, <1>9, <1>10, <1>11, <1>12, <1>13, <1>14,
     <1>15, <1>16, <1>17, <1>18, <1>19, <1>20, <1>21, <1>22
     DEF Next, Inputs, Signals, Readers, BuildStep, SpliceStep
LEMMA Numbers ==
  ASSUME GraphTypeOK
  PROVE  /\ \A b \in {inputs, told, build.board, splice.board} \cup ({cached} \ {NoBoard}) :
              b.topo \in Nat /\ \A s \in Sessions : b.rec[s] \in Nat /\ b.live[s] \in Nat
         /\ \A r \in {anchor, build.anchor, build.before} :
              r.full \in Nat /\ \A s \in Sessions : r.sessions[s] \in Nat
         /\ \A s \in Sessions : splice.before[s] \in Nat
<1>1. \A b \in Boards : b.topo \in Nat /\ \A s \in Sessions : b.rec[s] \in Nat /\ b.live[s] \in Nat
  BY GraphAssumption DEF Boards
<1>2. \A r \in Revisions : r.full \in Nat /\ \A s \in Sessions : r.sessions[s] \in Nat
  BY GraphAssumption DEF Revisions
<1>3. /\ build.board \in Boards /\ build.anchor \in Revisions /\ build.before \in Revisions
      /\ splice.board \in Boards /\ splice.before \in [Sessions -> 0 .. MaxRow]
  BY DEF GraphTypeOK, BuildFlights, SpliceFlights
<1> QED BY <1>1, <1>2, <1>3, GraphAssumption DEF GraphTypeOK

LEMMA InputsGrow ==
  ASSUME GraphTypeOK, [Next]_vars
  PROVE  /\ inputs'.topo >= inputs.topo
         /\ \A s \in Sessions : inputs'.rec[s] >= inputs.rec[s] /\ inputs'.live[s] >= inputs.live[s]
<1>1. /\ inputs.topo \in Nat
      /\ \A s \in Sessions : inputs.rec[s] \in Nat /\ inputs.live[s] \in Nat
  BY Numbers
<1>2. inputs \in Boards
  BY DEF GraphTypeOK
<1>3. CASE inputs' = inputs
  BY <1>1, <1>3
<1>4. CASE WriteTopo
  BY <1>1, <1>2, <1>4 DEF WriteTopo, Boards
<1>5. ASSUME NEW s \in Sessions, WriteRecord(s) \/ LivenessMoves(s)
      PROVE  /\ inputs'.topo >= inputs.topo
             /\ \A t \in Sessions : inputs'.rec[t] >= inputs.rec[t] /\ inputs'.live[t] >= inputs.live[t]
  BY <1>1, <1>2, <1>5 DEF WriteRecord, LivenessMoves, Boards
<1>6. inputs' = inputs \/ WriteTopo \/ \E s \in Sessions : WriteRecord(s) \/ LivenessMoves(s)
  BY DEF Next, Inputs, Signals, Readers, BuildStep, SpliceStep, vars, SignalFull, SignalSessions,
         GetBoard, SessionRefresh, Patrol, StaleRead, BuildSample, BuildDischarge, BuildProduce,
         BuildRead, BuildVerify, BuildCommit, BuildFail, BackoffOver, SpliceSample, SpliceRead,
         SpliceAgain, SpliceCommit, SpliceFail
<1> QED BY <1>3, <1>4, <1>5, <1>6

LEMMA PastKept ==
  ASSUME GraphTypeOK, GraphTypeOK', [Next]_vars, NEW b \in Boards, Past(b)
  PROVE  /\ b.topo <= inputs'.topo
         /\ \A s \in Sessions : b.rec[s] <= inputs'.rec[s] /\ b.live[s] <= inputs'.live[s]
<1>1. \A c \in {b, inputs, inputs'} :
        c.topo \in Nat /\ \A s \in Sessions : c.rec[s] \in Nat /\ c.live[s] \in Nat
  BY GraphAssumption DEF GraphTypeOK, Boards
<1> QED BY <1>1, InputsGrow DEF Past

LEMMA PastNow ==
  ASSUME GraphTypeOK
  PROVE  Past(inputs) /\ Past(Oldest)
<1>1. inputs.topo \in Nat /\ \A s \in Sessions : inputs.rec[s] \in Nat /\ inputs.live[s] \in Nat
  BY Numbers
<1> QED BY <1>1 DEF Past, Oldest

LEMMA SpliceReads ==
  ASSUME GraphTypeOK, SpliceRead
  PROVE  /\ splice'.board.topo = cached.topo
         /\ \A s \in Sessions :
              /\ splice'.board.rec[s] = IF splice.ids = {} \/ s \in splice.ids
                                       THEN inputs.rec[s] ELSE cached.rec[s]
              /\ splice'.board.live[s] = IF splice.ids = {} \/ s \in splice.ids
                                        THEN inputs.live[s] ELSE cached.live[s]
         /\ splice'.stage = "read" /\ splice'.before = splice.before
         /\ splice'.ids = splice.ids /\ splice'.rebased = splice.rebased
BY DEF GraphTypeOK, SpliceFlights, SpliceRead

(* Every board a step leaves behind is an old one, or was read in the step. *)
LEMMA PastStep ==
  ASSUME GraphTypeOK, GraphTypeOK', ReadInThePast, SampleSound, SpliceSound, [Next]_vars
  PROVE  ReadInThePast'
<1> USE PastNow DEF ReadInThePast
<1>i. IdleBuild.board = Oldest /\ IdleSplice.board = Oldest
  BY DEF IdleBuild, IdleSplice
<1>a. Past(told') /\ (cached' # NoBoard => Past(cached'))
  <2>1. CASE UNCHANGED <<told, cached>>
    BY <2>1
  <2>2. CASE SignalFull
    BY <2>2 DEF SignalFull, Past, GraphTypeOK, Boards
  <2>3. ASSUME NEW ids \in SUBSET Sessions, SignalSessions(ids)
        PROVE  Past(told') /\ (cached' # NoBoard => Past(cached'))
    BY <2>3 DEF SignalSessions, Past, GraphTypeOK, Boards
  <2>4. CASE BuildCommit
    <3>1. build.board \in Boards
      BY DEF GraphTypeOK, BuildFlights
    <3> QED BY <2>4, <3>1 DEF BuildCommit, Past, Rebases, Rebased, Boards
  <2>5. ASSUME NEW late \in BOOLEAN, SpliceCommit(late)
        PROVE  Past(told') /\ (cached' # NoBoard => Past(cached'))
    BY <2>5 DEF SpliceCommit
  <2> QED BY <2>1, <2>2, <2>3, <2>4, <2>5
      DEF Next, Inputs, Signals, Readers, BuildStep, SpliceStep, vars, WriteTopo, WriteRecord,
          LivenessMoves, GetBoard, SessionRefresh, Patrol, StaleRead, BuildSample, BuildDischarge,
          BuildProduce, BuildRead, BuildVerify, BuildFail, BackoffOver, SpliceSample, SpliceRead,
          SpliceAgain, SpliceFail
<1>b. Past(build'.board)
  <2>1. CASE build'.board \in {build.board, Oldest}
    BY <2>1
  <2>2. CASE BuildRead
    <3>1. build'.board = IF build.scope = "full" THEN inputs ELSE [inputs EXCEPT !.topo = cached.topo]
      BY <2>2 DEF BuildRead, GraphTypeOK, BuildFlights
    <3>2. build.scope = "full" \/ cached # NoBoard
      BY <2>2 DEF SampleSound, BuildRead, GraphTypeOK, BuildFlights, Scopes, Producing
    <3> QED BY <3>1, <3>2 DEF Past
  <2>3. BuildRead \/ build'.board \in {build.board, Oldest}
    <3>1. build \in BuildFlights
      BY DEF GraphTypeOK
    <3> QED BY <3>1, <1>i
      DEF BuildFlights, Next, Inputs, Signals, Readers, BuildStep, SpliceStep, vars, WriteTopo, WriteRecord,
          LivenessMoves, SignalFull, SignalSessions, Invalidated, SessionsInvalidated, StartBuild,
          GetBoard, SessionRefresh, Patrol, StaleRead, BuildSample, BuildDischarge, BuildProduce,
          BuildVerify, BuildCommit, BuildFail, BackoffOver, SpliceSample, SpliceRead,
          SpliceAgain, SpliceCommit, SpliceFail, IdleBuild
  <2> QED BY <2>1, <2>2, <2>3
<1>c. Past(splice'.board)
  <2>1. CASE splice'.board \in {splice.board, Oldest}
    BY <2>1
  <2>2. CASE SpliceRead
    <3>1. Past(cached)
      BY <2>2 DEF SpliceSound, SpliceRead
    <3>2. /\ splice'.board.topo = cached.topo
          /\ \A s \in Sessions : /\ splice'.board.rec[s] \in {inputs.rec[s], cached.rec[s]}
                               /\ splice'.board.live[s] \in {inputs.live[s], cached.live[s]}
      BY <2>2, SpliceReads
    <3> QED BY <3>1, <3>2 DEF Past
  <2>3. SpliceRead \/ splice'.board \in {splice.board, Oldest}
    <3>1. splice \in SpliceFlights
      BY DEF GraphTypeOK
    <3> QED BY <3>1, <1>i
      DEF SpliceFlights, Next, Inputs, Signals, Readers, BuildStep, SpliceStep, vars, WriteTopo, WriteRecord,
          LivenessMoves, SignalFull, SignalSessions, StartSplice,
          GetBoard, SessionRefresh, Patrol, StaleRead, BuildSample, BuildDischarge, BuildProduce, BuildRead,
          BuildVerify, BuildCommit, BuildFail, BackoffOver, SpliceSample,
          SpliceAgain, SpliceCommit, SpliceFail, IdleSplice
  <2> QED BY <2>1, <2>2, <2>3
<1>d. /\ told' \in Boards /\ (cached' # NoBoard => cached' \in Boards)
      /\ build'.board \in Boards /\ splice'.board \in Boards
  BY DEF GraphTypeOK, BuildFlights, SpliceFlights
<1>e. \A b \in {told', build'.board, splice'.board} \cup ({cached'} \ {NoBoard}) :
        /\ b.topo <= inputs'.topo
        /\ \A s \in Sessions : b.rec[s] <= inputs'.rec[s] /\ b.live[s] <= inputs'.live[s]
  BY <1>a, <1>b, <1>c, <1>d, PastKept
<1> QED BY <1>e DEF Past

(* A step that is not of the build leaves what the build has captured. *)
SameBuild ==
  /\ build'.stage = build.stage /\ build'.scope = build.scope /\ build'.warm = build.warm
  /\ build'.anchor = build.anchor /\ build'.before = build.before
  /\ build'.board = build.board
  /\ ~build'.moved => ~build.moved
  /\ ~build'.published => ~build.published

LEMMA OtherSteps ==
  ASSUME GraphTypeOK, [Next]_vars, ~BuildStep
  PROVE  build'.stage \in {"idle", "started"} \/ SameBuild
<1>1. build \in BuildFlights
  BY DEF GraphTypeOK
<1>2. \A x \in BOOLEAN : [IdleBuild EXCEPT !.stage = "started", !.verify = x].stage = "started"
  BY DEF IdleBuild
<1>3. IdleBuild.stage = "idle"
  BY DEF IdleBuild
<1>4. CASE build' = build
  BY <1>4 DEF SameBuild
<1>5. CASE build' = [build EXCEPT !.moved = TRUE]
  BY <1>1, <1>5 DEF SameBuild, BuildFlights
<1>6. CASE build' = [build EXCEPT !.signalled = TRUE]
  BY <1>1, <1>6 DEF SameBuild, BuildFlights
<1>7. CASE \E x \in BOOLEAN : build' = [build EXCEPT !.published = TRUE, !.signalled = x]
  BY <1>1, <1>7 DEF SameBuild, BuildFlights
<1>8. \/ build' \in {build, [build EXCEPT !.moved = TRUE], [build EXCEPT !.signalled = TRUE]}
      \/ \E x \in BOOLEAN : build' = [build EXCEPT !.published = TRUE, !.signalled = x]
      \/ \E x \in BOOLEAN : build' = [IdleBuild EXCEPT !.stage = "started", !.verify = x]
      \/ build' = IdleBuild
  <2>1. ASSUME NEW late \in BOOLEAN, SpliceCommit(late)
        PROVE  build' = build \/ \E x \in BOOLEAN :
                 build' = [build EXCEPT !.published = TRUE, !.signalled = x]
    BY <1>1, <2>1 DEF SpliceCommit, BuildFlights
  <2> QED BY <2>1 DEF Next, Inputs, Signals, Readers, SpliceStep, vars, WriteTopo, WriteRecord,
         LivenessMoves, SignalFull, SignalSessions, Invalidated, SessionsInvalidated, StartBuild,
         GetBoard, SessionRefresh, Patrol, StaleRead, BuildFail, BackoffOver,
         SpliceSample, SpliceRead, SpliceAgain, SpliceFail
<1> QED BY <1>2, <1>3, <1>4, <1>5, <1>6, <1>7, <1>8

(* Such a step publishes only rows: the topology and its revision stay. *)
LEMMA OtherBoards ==
  ASSUME GraphTypeOK, SpliceSound, [Next]_vars, ~BuildStep
  PROVE  /\ anchor'.full = anchor.full
         /\ cached # NoBoard => cached' # NoBoard /\ cached'.topo = cached.topo
         /\ \/ /\ cached' = cached
               /\ anchor' = anchor
            \/ \E late \in BOOLEAN : SpliceCommit(late)
<1>1. ASSUME NEW late \in BOOLEAN, SpliceCommit(late)
      PROVE  /\ anchor'.full = anchor.full
             /\ cached # NoBoard => cached' # NoBoard /\ cached'.topo = cached.topo
  <2>1. splice.board \in Boards /\ anchor \in Revisions
    BY DEF GraphTypeOK, SpliceFlights
  <2>2. cached' = splice.board /\ splice.board.topo = cached.topo
    BY <1>1 DEF SpliceCommit, SpliceSound, LostBase
  <2>3. anchor'.full = anchor.full
    BY <1>1, <2>1 DEF SpliceCommit, Revisions
  <2> QED BY <2>1, <2>2, <2>3, BoardTyped
<1>2. \/ cached' = cached /\ anchor' = anchor
      \/ \E late \in BOOLEAN : SpliceCommit(late)
  BY DEF Next, Inputs, Signals, Readers, SpliceStep, vars, WriteTopo, WriteRecord,
         LivenessMoves, SignalFull, SignalSessions,
         GetBoard, SessionRefresh, Patrol, StaleRead, BuildFail, BackoffOver,
         SpliceSample, SpliceRead, SpliceAgain, SpliceFail
<1> QED BY <1>1, <1>2

(* The steps of the build. *)
Sampled ==
  /\ build'.stage = "sampled" /\ build'.warm = (cached # NoBoard)
  /\ build'.anchor = anchor /\ build'.before = RevisionOf(inputs)
KeepsSample ==
  build'.before = build.before /\ build'.anchor = build.anchor /\ build'.warm = build.warm
KeepsBuild == KeepsSample /\ build'.scope = build.scope /\ build'.published = build.published

LEMMA BuildSteps ==
  ASSUME GraphTypeOK
  PROVE  /\ BuildSample => Sampled
         /\ BuildDischarge => build'.stage = "idle"
         /\ BuildProduce => build.stage = "sampled" /\ build'.stage = "producing" /\ KeepsSample
         /\ BuildRead => /\ build.stage = "producing" /\ build'.stage = "read" /\ KeepsBuild
                         /\ build'.board = IF build.scope = "full" THEN inputs
                                           ELSE [inputs EXCEPT !.topo = cached.topo]
         /\ BuildVerify => /\ build.stage = "read" /\ build'.stage = "verified" /\ KeepsBuild
                           /\ build'.board = build.board
         /\ BuildCommit => build.stage = "verified" /\ build'.stage = "idle"
<1>1. build \in BuildFlights /\ IdleBuild.stage = "idle"
  BY DEF GraphTypeOK, IdleBuild
<1>2. BuildSample => Sampled
  <2>1. \A x, y, z :
          LET b == [build EXCEPT !.stage = "sampled", !.warm = x, !.anchor = y, !.before = z]
          IN /\ b.stage = "sampled" /\ b.warm = x /\ b.anchor = y /\ b.before = z
    BY <1>1 DEF BuildFlights
  <2> QED BY <2>1 DEF BuildSample, Sampled
<1>3. BuildDischarge => build'.stage = "idle"
  BY <1>1 DEF BuildDischarge
<1>4. BuildProduce => build.stage = "sampled" /\ build'.stage = "producing" /\ KeepsSample
  BY <1>1 DEF BuildProduce, KeepsSample, BuildFlights
<1>5. BuildRead => /\ build.stage = "producing" /\ build'.stage = "read" /\ KeepsBuild
                   /\ build'.board = IF build.scope = "full" THEN inputs
                                     ELSE [inputs EXCEPT !.topo = cached.topo]
  BY <1>1 DEF BuildRead, KeepsSample, KeepsBuild, BuildFlights
<1>6. BuildVerify => /\ build.stage = "read" /\ build'.stage = "verified" /\ KeepsBuild
                     /\ build'.board = build.board
  BY <1>1 DEF BuildVerify, KeepsSample, KeepsBuild, BuildFlights
<1>7. BuildCommit => build.stage = "verified" /\ build'.stage = "idle"
  BY <1>1 DEF BuildCommit
<1> QED BY <1>2, <1>3, <1>4, <1>5, <1>6, <1>7

LEMMA SampleStep ==
  ASSUME GraphTypeOK, GraphTypeOK', SampleSound, SpliceSound, [Next]_vars
  PROVE  SampleSound'
<1> USE DEF SampleSound
<1>1. /\ \A b \in {inputs, inputs'} : b.topo \in Nat /\ \A s \in Sessions : b.rec[s] \in Nat
      /\ build.before.full \in Nat /\ \A s \in Sessions : build.before.sessions[s] \in Nat
  <2>1. inputs \in Boards /\ inputs' \in Boards
    BY DEF GraphTypeOK
  <2> QED BY <2>1, Numbers, GraphAssumption DEF Boards
<1>2. CASE ~BuildStep
  <2>1. CASE build'.stage \in {"idle", "started"}
    BY <2>1 DEF Producing
  <2>2. CASE SameBuild
    BY <1>1, <1>2, <2>2, InputsGrow, OtherBoards DEF SameBuild
  <2> QED BY <1>2, <2>1, <2>2, OtherSteps
<1>3. CASE BuildSample
  <2>1. Sampled /\ inputs' = inputs /\ cached' = cached /\ anchor' = anchor
    BY <1>3, BuildSteps DEF BuildSample
  <2>2. build'.before.full = inputs.topo /\ build'.before.sessions = inputs.rec
    BY <2>1 DEF Sampled, RevisionOf
  <2>3. build'.stage = "sampled" /\ (build'.warm => cached # NoBoard) /\ build'.anchor = anchor
    BY <2>1 DEF Sampled
  <2> QED BY <1>1, <2>1, <2>2, <2>3
<1>4. CASE BuildDischarge \/ BuildCommit
  BY <1>4, BuildSteps DEF Producing
<1>5. CASE BuildProduce
  <2>1. build.stage = "sampled" /\ KeepsSample /\ UNCHANGED <<inputs, cached, anchor>>
    BY <1>5, BuildSteps DEF BuildProduce
  <2>2. build'.scope = "sessions" => build.warm
    BY <1>5 DEF BuildProduce, Validated, GraphTypeOK, BuildFlights
  <2> QED BY <2>1, <2>2 DEF KeepsSample
<1>6. CASE BuildRead \/ BuildVerify
  <2>1. build.stage \in Producing /\ build.stage # "sampled" /\ KeepsBuild /\ UNCHANGED <<inputs, cached, anchor>>
    BY <1>6, BuildSteps DEF BuildRead, BuildVerify, Producing
  <2> QED BY <2>1 DEF KeepsSample, KeepsBuild
<1> QED BY <1>2, <1>3, <1>4, <1>5, <1>6 DEF BuildStep

LEMMA BuildKept ==
  ASSUME GraphTypeOK, GraphTypeOK', ReadInThePast, SampleSound, BuildSound, SpliceSound, [Next]_vars
  PROVE  BuildSound'
<1> USE DEF BuildSound
<1>1. CASE ~BuildStep
  <2>1. CASE build'.stage \in {"idle", "started"}
    BY <2>1
  <2>2. CASE SameBuild /\ cached' = cached
    BY <2>2 DEF SameBuild
  <2>3. ASSUME NEW late \in BOOLEAN, SpliceCommit(late), SameBuild
        PROVE  BuildSound'
    <3>1. build'.stage \in {"read", "verified"} => build'.published
      BY <2>3 DEF SpliceCommit, SameBuild, Producing, GraphTypeOK, BuildFlights
    <3>2. cached # NoBoard /\ cached'.topo = cached.topo
      BY <1>1, <2>3, OtherBoards DEF SpliceSound, SpliceCommit
    <3> QED BY <2>3, <3>1, <3>2 DEF SameBuild
  <2> QED BY <1>1, <2>1, <2>2, <2>3, OtherSteps, OtherBoards
<1>2. CASE BuildSample \/ BuildDischarge \/ BuildCommit \/ BuildProduce
  BY <1>2, BuildSteps DEF Sampled
<1>3. CASE BuildRead
  <2>1. /\ build.stage = "producing" /\ KeepsBuild
        /\ UNCHANGED <<inputs, cached>>
        /\ build'.board = IF build.scope = "full" THEN inputs ELSE [inputs EXCEPT !.topo = cached.topo]
    BY <1>3, BuildSteps DEF BuildRead
  <2>2. build.scope \in Scopes /\ inputs \in Boards
    BY DEF GraphTypeOK, BuildFlights
  <2>3. /\ build'.board.rec = inputs.rec /\ build'.board.live = inputs.live
        /\ build'.board.topo = IF build.scope = "full" THEN inputs.topo ELSE cached.topo
    BY <2>1, <2>2 DEF Boards
  <2>4. /\ build.before.full <= inputs.topo
        /\ \A s \in Sessions : build.before.sessions[s] <= inputs.rec[s]
    BY <2>1 DEF SampleSound, Producing
  <2>5. cached # NoBoard => Past(cached) /\ cached.topo \in Nat /\ inputs.topo \in Nat
                            /\ \A s \in Sessions : /\ cached.rec[s] \in Nat /\ cached.live[s] \in Nat
                                                 /\ inputs.rec[s] \in Nat /\ inputs.live[s] \in Nat
    BY Numbers DEF ReadInThePast
  <2> QED BY <2>1, <2>2, <2>3, <2>4, <2>5 DEF KeepsBuild, KeepsSample, Past, Scopes
<1>4. CASE BuildVerify
  BY <1>4, BuildSteps DEF BuildVerify, KeepsBuild, KeepsSample
<1> QED BY <1>1, <1>2, <1>3, <1>4 DEF BuildStep

LEMMA AnchorStep ==
  ASSUME GraphTypeOK, SampleSound, BuildSound, SpliceSound, AnchorHonest, [Next]_vars
  PROVE  AnchorHonest'
<1> USE DEF AnchorHonest
<1>1. CASE ~BuildStep
  <2>1. ASSUME NEW late \in BOOLEAN, SpliceCommit(late) PROVE AnchorHonest'
    <3>1. /\ cached' = splice.board /\ anchor' = [anchor EXCEPT !.sessions = splice.before]
          /\ splice.stage = "read" /\ ~splice.rebased
      BY <2>1 DEF SpliceCommit, LostBase
    <3>2. anchor'.sessions = splice.before /\ anchor'.full = anchor.full
      BY <3>1 DEF GraphTypeOK, Revisions
    <3> QED BY <3>1, <3>2 DEF SpliceSound
  <2> QED BY <1>1, <2>1, OtherBoards
<1>2. CASE BuildSample \/ BuildDischarge \/ BuildProduce \/ BuildRead \/ BuildVerify
  BY <1>2 DEF BuildSample, BuildDischarge, BuildProduce, BuildRead, BuildVerify
<1>3. CASE BuildCommit
  <2>1. build.board \in Boards /\ build.scope \in Scopes /\ build.stage \in Producing
        /\ build.stage \in {"read", "verified"} /\ build.stage # "sampled"
    BY <1>3 DEF BuildCommit, GraphTypeOK, BuildFlights, Producing
  <2>2. Completed.full <= build.board.topo /\ Completed.sessions = build.before.sessions
    BY <2>1 DEF Completed, BuildSound, SampleSound, Scopes
  <2>3. CASE Rebases
    <3>1. /\ cached' = Rebased(build.board)
          /\ anchor' = [Completed EXCEPT !.sessions = anchor.sessions]
      BY <1>3, <2>3 DEF BuildCommit
    <3>2. /\ cached'.topo = build.board.topo /\ cached'.rec = cached.rec
          /\ anchor'.full = Completed.full /\ anchor'.sessions = anchor.sessions
      BY <2>1, <3>1 DEF Rebased, Boards, Completed
    <3> QED BY <2>2, <2>3, <3>2 DEF Rebases
  <2>4. CASE ~Rebases
    <3>1. cached' = build.board /\ anchor' = Completed
      BY <1>3, <2>4 DEF BuildCommit
    <3> QED BY <2>1, <2>2, <3>1 DEF BuildSound
  <2> QED BY <2>3, <2>4
<1> QED BY <1>1, <1>2, <1>3 DEF BuildStep

LEMMA SpliceKept ==
  ASSUME GraphTypeOK, GraphTypeOK', ReadInThePast, SpliceSound, AnchorHonest, [Next]_vars
  PROVE  SpliceSound'
<1> USE DEF SpliceSound
<1>1. splice \in SpliceFlights /\ IdleSplice.stage = "idle"
  BY DEF GraphTypeOK, IdleSplice
<1>2. CASE splice' = IdleSplice
  BY <1>1, <1>2
<1>3. CASE splice' = [IdleSplice EXCEPT !.stage = "started"] /\ cached' # NoBoard
  BY <1>3 DEF IdleSplice
<1>4. CASE UNCHANGED <<splice, cached, anchor>>
  <2>1. \A s \in Sessions : splice.before[s] \in Nat /\ inputs.rec[s] \in Nat /\ inputs'.rec[s] \in Nat
    BY Numbers, GraphAssumption DEF GraphTypeOK, Boards
  <2> QED BY <1>4, <2>1, InputsGrow
<1>5. CASE SpliceSample
  <2>1. DEFINE ids == IF unknown THEN {} ELSE affected
               before == IF ids = {} THEN inputs.rec ELSE anchor.sessions
  <2>2. /\ splice.stage = "started" /\ UNCHANGED <<inputs, cached, anchor>>
        /\ splice' = [splice EXCEPT !.stage = "sampled", !.ids = ids, !.rebased = FALSE, !.before = before]
    BY <1>5 DEF SpliceSample
  <2>3. splice'.stage = "sampled" /\ splice'.ids = ids /\ splice'.before = before
    BY <1>1, <2>2 DEF SpliceFlights
  <2>4. \A s \in Sessions : inputs.rec[s] <= inputs.rec[s]
    BY Numbers
  <2> QED BY <2>2, <2>3, <2>4
<1>6. CASE SpliceRead
  <2>1. /\ splice.stage = "sampled" /\ cached # NoBoard /\ UNCHANGED <<inputs, cached, anchor>>
        /\ Past(cached)
    BY <1>6 DEF SpliceRead, ReadInThePast
  <2>2. \A s \in Sessions : /\ inputs.rec[s] \in Nat /\ cached.rec[s] \in Nat
                            /\ inputs.live[s] \in Nat /\ cached.live[s] \in Nat
                            /\ anchor.sessions[s] \in Nat /\ splice.before[s] \in Nat
    BY <2>1, Numbers
  <2>3. ASSUME ~splice.rebased, NEW s \in Sessions
        PROVE  splice.before[s] <= splice'.board.rec[s]
    <3>1. CASE splice.ids = {}
      BY <1>6, <2>1, <2>3, <3>1, SpliceReads
    <3>2. CASE splice.ids # {}
      <4>1. splice.before[s] <= cached.rec[s] /\ cached.rec[s] <= inputs.rec[s]
        BY <2>1, <2>3, <3>2 DEF AnchorHonest, Past
      <4>2. splice'.board.rec[s] \in {inputs.rec[s], cached.rec[s]}
        BY <1>6, SpliceReads
      <4> QED BY <2>2, <4>1, <4>2
    <3> QED BY <3>1, <3>2
  <2>4. ASSUME NEW s \in Sessions
        PROVE  splice'.board.rec[s] >= cached.rec[s] /\ splice'.board.live[s] >= cached.live[s]
    <3>1. /\ splice'.board.rec[s] \in {inputs.rec[s], cached.rec[s]}
          /\ splice'.board.live[s] \in {inputs.live[s], cached.live[s]}
      BY <1>6, SpliceReads
    <3> QED BY <2>1, <2>2, <3>1 DEF Past
  <2> QED BY <1>6, <2>1, <2>3, <2>4, SpliceReads
<1>7. CASE BuildCommit
  <2>1. cached' # NoBoard
    <3>1. build.board \in Boards
      BY DEF GraphTypeOK, BuildFlights
    <3>2. Rebases => Rebased(build.board) \in Boards
      BY <3>1 DEF Rebases, Rebased, GraphTypeOK, Boards
    <3> QED BY <1>7, <3>1, <3>2, BoardTyped DEF BuildCommit
  <2>2. splice'.stage = splice.stage /\ (splice.stage \in {"sampled", "read"} => splice'.rebased)
    <3>1. \A x : LET q == [splice EXCEPT !.rebased = x] IN q.stage = splice.stage /\ q.rebased = x
      BY <1>1 DEF SpliceFlights
    <3> QED BY <1>7, <3>1 DEF BuildCommit
  <2> QED BY <2>1, <2>2
<1>8. \/ splice' = IdleSplice
      \/ splice' = [IdleSplice EXCEPT !.stage = "started"] /\ cached' # NoBoard
      \/ UNCHANGED <<splice, cached, anchor>>
      \/ SpliceSample \/ SpliceRead \/ BuildCommit
  BY DEF Next, Inputs, Signals, Readers, BuildStep, SpliceStep, vars, WriteTopo, WriteRecord,
         LivenessMoves, SignalFull, SignalSessions, StartSplice, CanSplice,
         GetBoard, SessionRefresh, Patrol, StaleRead, BuildSample, BuildDischarge, BuildProduce,
         BuildRead, BuildVerify, BuildFail, BackoffOver, SpliceAgain, SpliceCommit, SpliceFail
<1> QED BY <1>2, <1>3, <1>4, <1>5, <1>6, <1>7, <1>8

LEMMA OtherSignals ==
  ASSUME GraphTypeOK, [Next]_vars, ~BuildStep
  PROVE  /\ dirty' # "full" => dirty # "full" /\ told'.topo = told.topo
         /\ told'.topo = told.topo \/ (build.stage = "sampled" => build'.moved)
         /\ BuildFail /\ dirty' # "full" /\ build.stage \in Producing => build.scope = "sessions"
<1>1. build \in BuildFlights /\ told \in Boards
  BY DEF GraphTypeOK
<1>2. ASSUME NEW ids \in SUBSET Sessions, SignalSessions(ids)
      PROVE  told'.topo = told.topo /\ (dirty' # "full" => dirty # "full")
  BY <1>1, <1>2 DEF SignalSessions, Boards, MergeDirty
<1>3. CASE SignalFull
  BY <1>1, <1>3 DEF SignalFull, Invalidated, BuildFlights, BuildFail
<1>4. CASE BuildFail
  BY <1>1, <1>4 DEF BuildFail, MergeDirty, BuildFlights, Scopes
<1>5. ASSUME ~SignalFull, ~BuildFail, \A ids \in SUBSET Sessions : ~SignalSessions(ids)
      PROVE  told' = told /\ (dirty' # "full" => dirty # "full")
  BY <1>5 DEF Next, Inputs, Signals, Readers, SpliceStep, vars, WriteTopo, WriteRecord,
         LivenessMoves, StartSplice, GetBoard, SessionRefresh, Patrol, StaleRead, BackoffOver,
         SpliceSample, SpliceRead, SpliceAgain, SpliceCommit, SpliceFail, MergeDirty
<1>6. ASSUME NEW ids \in SUBSET Sessions, SignalSessions(ids) PROVE ~BuildFail
  BY <1>6 DEF SignalSessions, BuildFail
<1> QED BY <1>2, <1>3, <1>4, <1>5, <1>6

(* A validation that finds the structure unmoved has looked at every       *)
(* signal there was.                                                       *)
LEMMA UnmovedIsCarried ==
  ASSUME GraphTypeOK, SampleSound, AnchorHonest, StructureAhead,
         build.stage = "sampled", Validated, ~FullMoved
  PROVE  cached # NoBoard /\ cached.topo >= told.topo
<1>1. cached # NoBoard /\ build.anchor.full = anchor.full
  BY DEF SampleSound, Validated
<1>2. told.topo <= build.before.full /\ build.before.full = build.anchor.full
  BY DEF StructureAhead, Validated, FullMoved
<1>3. anchor.full <= cached.topo
  BY <1>1 DEF AnchorHonest
<1>4. told.topo \in Nat /\ anchor.full \in Nat /\ cached.topo \in Nat
  BY <1>1, Numbers
<1> QED BY <1>1, <1>2, <1>3, <1>4

(* A build of rows alone stands on a board that carries the structure. *)
LEMMA RowsOnCarried ==
  ASSUME GraphTypeOK, SampleSound, BuildSound, StructureAhead,
         build.stage \in Producing, build.scope = "sessions", dirty # "full"
  PROVE  cached # NoBoard /\ cached.topo >= told.topo
BY DEF SampleSound, BuildSound, StructureAhead, Producing

LEMMA CarriedStep ==
  ASSUME GraphTypeOK, SampleSound, BuildSound, SpliceSound, AnchorHonest, StructureAhead,
         StructureCarriedOrOwed, [Next]_vars
  PROVE  StructureCarriedOrOwed'
<1> USE DEF StructureCarriedOrOwed
<1> SUFFICES ASSUME dirty' # "full", build'.stage \notin Producing
             PROVE  cached' # NoBoard /\ cached'.topo >= told'.topo
  BY DEF Producing
<1>1. CASE ~BuildStep
  <2>1. dirty # "full" /\ told'.topo = told.topo
    BY <1>1, OtherSignals
  <2>2. CASE build.stage \notin Producing
    BY <1>1, <2>1, <2>2, OtherBoards
  <2>3. CASE build.stage \in Producing
    <3>1. BuildFail
      <4>1. build \in BuildFlights /\ build.stage \notin {"idle", "started", "sampled"}
        BY <2>3 DEF GraphTypeOK, Producing
      <4>2. ~SameBuild
        BY <2>3 DEF SameBuild
      <4>3. build' # build
        BY <2>3
      <4>4. \A late \in BOOLEAN : ~SpliceCommit(late)
        BY <2>3, <4>1 DEF SpliceCommit, BuildFlights
      <4>5. ~SignalFull /\ \A ids \in SUBSET Sessions : ~SignalSessions(ids)
        BY <2>3, <4>1, <4>3 DEF SignalFull, SignalSessions, Invalidated, SessionsInvalidated, BuildFlights
      <4> QED BY <1>1, <2>3, <4>1, <4>3, <4>4, <4>5
          DEF Next, Inputs, Signals, Readers, SpliceStep, vars, WriteTopo, WriteRecord,
              LivenessMoves, CanBuild, GetBoard, SessionRefresh, Patrol, StaleRead, BackoffOver,
              SpliceSample, SpliceRead, SpliceAgain, SpliceFail
    <3>2. cached # NoBoard /\ cached.topo >= told.topo
      BY <1>1, <2>1, <2>3, <3>1, OtherSignals, RowsOnCarried
    <3> QED BY <1>1, <2>1, <3>2, OtherBoards
  <2> QED BY <2>2, <2>3
<1>2. CASE BuildSample
  BY <1>2 DEF BuildSample, Producing
<1>3. CASE BuildDischarge
  BY <1>3, UnmovedIsCarried DEF BuildDischarge, CanDischarge
<1>4. CASE BuildProduce \/ BuildRead \/ BuildVerify
  BY <1>4, BuildSteps DEF Producing
<1>5. CASE BuildCommit
  <2>1. build.board \in Boards /\ build.stage = "verified" /\ dirty # "full"
    BY <1>5 DEF BuildCommit, GraphTypeOK, BuildFlights, MergeDirty
  <2>2. build.board.topo >= told.topo
    BY <2>1 DEF StructureAhead
  <2>3. Rebases => cached \in Boards /\ Rebased(build.board) \in Boards
                   /\ Rebased(build.board).topo = build.board.topo
    BY <2>1 DEF Rebases, Rebased, Boards, GraphTypeOK
  <2>4. cached' \in Boards /\ cached'.topo = build.board.topo
    BY <1>5, <2>1, <2>3 DEF BuildCommit
  <2>5. told' = told
    BY <1>5 DEF BuildCommit
  <2> QED BY <2>2, <2>4, <2>5, BoardTyped
<1> QED BY <1>1, <1>2, <1>3, <1>4, <1>5 DEF BuildStep

LEMMA AheadStep ==
  ASSUME GraphTypeOK, ReadInThePast, SampleSound, BuildSound, SpliceSound, AnchorHonest,
         StructureAhead, StructureCarriedOrOwed, [Next]_vars
  PROVE  StructureAhead'
<1>1. CASE ~BuildStep
  <2>1. CASE build'.stage \in {"idle", "started"}
    BY <2>1 DEF StructureAhead
  <2>2. CASE SameBuild
    <3>1. /\ dirty' # "full" => dirty # "full" /\ told'.topo = told.topo
          /\ told'.topo = told.topo \/ (build.stage = "sampled" => build'.moved)
      BY <1>1, OtherSignals
    <3>2. build'.stage = "producing" /\ build'.scope = "sessions" /\ dirty' # "full" =>
            cached'.topo >= told'.topo
      BY <1>1, <2>2, <3>1, OtherBoards, RowsOnCarried DEF SameBuild, Producing
    <3> QED BY <2>2, <3>1, <3>2 DEF SameBuild, StructureAhead
  <2> QED BY <1>1, <2>1, <2>2, OtherSteps
<1>2. CASE BuildSample
  <2>1. Sampled /\ told' = told
    BY <1>2, BuildSteps DEF BuildSample
  <2>2. build'.before.full = inputs.topo /\ build'.stage = "sampled"
    BY <2>1 DEF Sampled, RevisionOf
  <2>3. told.topo <= inputs.topo
    BY DEF ReadInThePast, Past
  <2> QED BY <2>1, <2>2, <2>3 DEF StructureAhead
<1>3. CASE BuildDischarge \/ BuildCommit
  BY <1>3, BuildSteps DEF StructureAhead
<1>4. CASE BuildProduce
  <2>1. /\ build.stage = "sampled" /\ build'.stage = "producing"
        /\ UNCHANGED <<told, cached>>
    BY <1>4, BuildSteps DEF BuildProduce
  <2>2. build'.scope = "sessions" =>
          \/ Validated /\ ~FullMoved
          \/ dirty = "sessions"
    BY <1>4 DEF BuildProduce, GraphTypeOK, BuildFlights
  <2>3. build'.scope = "sessions" => cached.topo >= told.topo
    BY <2>1, <2>2, UnmovedIsCarried DEF StructureCarriedOrOwed, Producing
  <2> QED BY <2>1, <2>3 DEF StructureAhead
<1>5. CASE BuildRead
  <2>1. /\ build.stage = "producing" /\ build'.stage = "read"
        /\ UNCHANGED <<told, cached, dirty>>
        /\ build'.board = IF build.scope = "full" THEN inputs ELSE [inputs EXCEPT !.topo = cached.topo]
    BY <1>5, BuildSteps DEF BuildRead
  <2>2. build.scope \in Scopes /\ inputs \in Boards
    BY DEF GraphTypeOK, BuildFlights
  <2>3. build'.board.topo = IF build.scope = "full" THEN inputs.topo ELSE cached.topo
    BY <2>1, <2>2 DEF Boards
  <2>4. told.topo <= inputs.topo /\ told.topo \in Nat /\ inputs.topo \in Nat
    BY Numbers DEF ReadInThePast, Past
  <2>5. dirty # "full" => build'.board.topo >= told.topo
    BY <2>1, <2>2, <2>3, <2>4 DEF StructureAhead, Scopes
  <2> QED BY <2>1, <2>5 DEF StructureAhead
<1>6. CASE BuildVerify
  <2>1. /\ build.stage = "read" /\ build'.stage = "verified" /\ build'.board = build.board
        /\ UNCHANGED <<told, dirty>>
    BY <1>6, BuildSteps DEF BuildVerify
  <2> QED BY <2>1 DEF StructureAhead
<1> QED BY <1>1, <1>2, <1>3, <1>4, <1>5, <1>6 DEF BuildStep

LEMMA InvInit == Init => IInv
<1> SUFFICES ASSUME Init PROVE IInv
  OBVIOUS
<1> USE DEF Init
<1>1. GraphTypeOK
  <2>1. inputs \in Boards /\ told \in Boards /\ anchor \in Revisions
    BY OldestTyped
  <2>2. build \in BuildFlights /\ splice \in SpliceFlights
    BY IdleTyped
  <2>3. failures \in 0 .. MaxFailures /\ dirty \in Scopes
    BY GraphAssumption DEF Scopes
  <2> QED BY <2>1, <2>2, <2>3 DEF GraphTypeOK
<1>2. build.stage = "idle" /\ splice.stage = "idle" /\ build.board = Oldest /\ splice.board = Oldest
  BY DEF IdleBuild, IdleSplice
<1>3. ReadInThePast
  <2>1. Past(Oldest) /\ told = Oldest /\ cached = NoBoard
    BY <1>1, PastNow
  <2> QED BY <1>2, <2>1 DEF ReadInThePast
<1> QED BY <1>1, <1>2, <1>3
    DEF IInv, SampleSound, BuildSound, SpliceSound, AnchorHonest, StructureAhead,
        StructureCarriedOrOwed, Producing

LEMMA InvStep == IInv /\ [Next]_vars => IInv'
<1> SUFFICES ASSUME IInv, [Next]_vars PROVE IInv'
  OBVIOUS
<1> USE DEF IInv
<1>1. GraphTypeOK'
  BY TypeStep
<1>2. ReadInThePast' /\ SampleSound'
  BY <1>1, PastStep, SampleStep
<1>3. BuildSound' /\ SpliceSound' /\ AnchorHonest'
  BY <1>1, BuildKept, SpliceKept, AnchorStep
<1>4. StructureAhead' /\ StructureCarriedOrOwed'
  BY AheadStep, CarriedStep
<1> QED BY <1>1, <1>2, <1>3, <1>4

LEMMA Invariant == Spec => []IInv
BY InvInit, InvStep, PTL DEF Spec

(* Every reachable state of the cache has its type: there is always a     *)
(* board under a splice and under a build of rows.                         *)
THEOREM GraphTypeCorrect == Spec => []GraphTypeOK
<1>1. IInv => GraphTypeOK
  BY DEF IInv
<1> QED BY Invariant, <1>1, PTL

(* The revision the cache compares with never certifies bytes that the     *)
(* cached board did not read.                                              *)
THEOREM AnchorNeverLies == Spec => []AnchorHonest
<1>1. IInv => AnchorHonest
  BY DEF IInv
<1> QED BY Invariant, <1>1, PTL

(* No interleaving of signals, validations, splices, failures and readers  *)
(* loses a structural signal.                                              *)
THEOREM StructureNeverLost == Spec => []StructureCarriedOrOwed
<1>1. IInv => StructureCarriedOrOwed
  BY DEF IInv
<1> QED BY Invariant, <1>1, PTL

LEMMA CommittedTopology ==
  ASSUME GraphTypeOK, BuildSound, BuildCommit, cached # NoBoard
  PROVE  cached'.topo = build.board.topo /\ build.board.topo >= cached.topo
<1>1. build.board \in Boards /\ build.stage = "verified"
  BY DEF GraphTypeOK, BuildFlights, BuildCommit
<1>2. Rebases => Rebased(build.board).topo = build.board.topo
  BY <1>1 DEF Rebases, Rebased, Boards
<1> QED BY <1>1, <1>2 DEF BuildCommit, BuildSound

(* The topology of the cached board only moves forward: no splice is       *)
(* published over a board newer than its base.                             *)
THEOREM TopologyNeverBack == Spec => TopologyForward
<1>1. IInv /\ [Next]_vars => [cached # NoBoard => cached'.topo >= cached.topo]_vars
  <2> SUFFICES ASSUME IInv, [Next]_vars, cached # NoBoard
               PROVE  cached'.topo >= cached.topo
    OBVIOUS
  <2>1. GraphTypeOK /\ BuildSound /\ SpliceSound
    BY DEF IInv
  <2>2. cached.topo \in Nat
    BY <2>1, Numbers
  <2>3. CASE ~BuildStep
    BY <2>1, <2>2, <2>3, OtherBoards
  <2>4. CASE BuildCommit
    BY <2>1, <2>4, CommittedTopology
  <2>5. CASE BuildSample \/ BuildDischarge \/ BuildProduce \/ BuildRead \/ BuildVerify
    BY <2>2, <2>5 DEF BuildSample, BuildDischarge, BuildProduce, BuildRead, BuildVerify
  <2> QED BY <2>3, <2>4, <2>5 DEF BuildStep
<1> QED BY Invariant, <1>1, PTL DEF Spec, TopologyForward

(* A step that is not the commit of a build of rows alone keeps every row, *)
(* or publishes one at least as new.                                       *)
LEMMA RowsKept ==
  ASSUME IInv, [Next]_vars, cached # NoBoard, NEW s \in Sessions,
         ~(build.stage = "verified" /\ build.scope = "sessions")
  PROVE  cached'.rec[s] >= cached.rec[s] /\ cached'.live[s] >= cached.live[s]
<1>1. GraphTypeOK /\ BuildSound /\ SpliceSound
  BY DEF IInv
<1>2. cached.rec[s] \in Nat /\ cached.live[s] \in Nat
  BY <1>1, Numbers
<1>3. CASE cached' = cached
  BY <1>2, <1>3
<1>4. ASSUME NEW late \in BOOLEAN, SpliceCommit(late)
      PROVE  cached'.rec[s] >= cached.rec[s] /\ cached'.live[s] >= cached.live[s]
  BY <1>1, <1>4 DEF SpliceCommit, SpliceSound, LostBase
<1>5. CASE BuildCommit
  <2>1. build.board \in Boards /\ build.scope = "full" /\ build.stage = "verified"
    BY <1>1, <1>5 DEF BuildCommit, GraphTypeOK, BuildFlights, Scopes
  <2>2. CASE Rebases
    <3>1. cached' = Rebased(build.board)
      BY <1>5, <2>2 DEF BuildCommit
    <3>2. cached'.rec = cached.rec /\ cached'.live = cached.live
      BY <2>1, <3>1 DEF Rebased, Boards
    <3> QED BY <1>2, <3>2
  <2>3. CASE ~Rebases
    <3>1. cached' = build.board /\ ~build.published
      BY <1>5, <2>1, <2>3 DEF BuildCommit, Rebases
    <3> QED BY <1>1, <2>1, <3>1 DEF BuildSound
  <2> QED BY <2>2, <2>3
<1>6. CASE ~BuildStep
  BY <1>1, <1>3, <1>4, <1>6, OtherBoards
<1>7. CASE BuildSample \/ BuildDischarge \/ BuildProduce \/ BuildRead \/ BuildVerify
  BY <1>3, <1>7 DEF BuildSample, BuildDischarge, BuildProduce, BuildRead, BuildVerify
<1> QED BY <1>5, <1>6, <1>7 DEF BuildStep

(* No visible row is rolled back, but by the commit of a build of rows.    *)
THEOREM RowsNeverBack == Spec => RowsForward
<1>1. IInv /\ [Next]_vars =>
        [(cached # NoBoard /\ ~(build.stage = "verified" /\ build.scope = "sessions")) =>
           \A s \in Sessions : /\ cached'.rec[s] >= cached.rec[s]
                               /\ cached'.live[s] >= cached.live[s]]_vars
  BY RowsKept
<1> QED BY Invariant, <1>1, PTL DEF Spec, RowsForward
=============================================================================
