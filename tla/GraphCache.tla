------------------------------ MODULE GraphCache ------------------------------
(***************************************************************************)
(* The board cache of spec-cli/src/graphCache.ts: one structural flight    *)
(* that validates and builds, and beside it one session splice, both       *)
(* publishing into the same cached board.                                  *)
(*                                                                         *)
(* The inputs of a board are versions that only grow: of its topology (the *)
(* checkout, its specs, worktrees, configuration and issues), and for each *)
(* session of its record and of its liveness. A board is a copy of the     *)
(* inputs its producer read, and a revision is the digest of an input:     *)
(* liveness is in no revision. The counters that a flight captures and     *)
(* compares later (gen, sessionGeneration, sessionProjectionPublication,   *)
(* topologyGeneration, the identity of the cached board) are flags of the  *)
(* flight that say whether the counter has moved since.                    *)
(***************************************************************************)
EXTENDS Naturals

CONSTANTS
  Sessions,     \* the sessions on the board
  NoBoard,      \* nothing is cached yet
  MaxTopo,      \* bound: versions of the topology
  MaxRow,       \* bound: moves of the record and of the liveness of a session
  MaxFailures   \* bound: producers that fail or settle after their watchdog

ASSUME GraphAssumption ==
  /\ MaxTopo \in Nat /\ MaxRow \in Nat
  /\ MaxFailures \in Nat
  /\ NoBoard \notin [topo : Nat, rec : [Sessions -> Nat], live : [Sessions -> Nat]]

VARIABLES
  inputs,       \* what is on disk and in the terminals now
  told,         \* the part of the inputs that change signals have covered
  cached,       \* the last completed board
  anchor,       \* cachedRevision: the inputs the board is known to carry
  dirty,        \* the scope of the structural producer's obligation
  sessionOwed,  \* a session projection is owed
  affected,     \* the sessions named by signals since the last projection
  unknown,      \* a sessions signal named none
  build,        \* inflight
  splice,       \* sessionFlight
  backoff,      \* retryAt is in the future
  failures

vars == <<inputs, told, cached, anchor, dirty, sessionOwed, affected, unknown,
          build, splice, backoff, failures>>

Boards == [topo : 0 .. MaxTopo, rec : [Sessions -> 0 .. MaxRow],
           live : [Sessions -> 0 .. MaxRow]]
Revisions == [full : 0 .. MaxTopo, sessions : [Sessions -> 0 .. MaxRow]]
Scopes == {"sessions", "full"}
Oldest == [topo |-> 0, rec |-> [s \in Sessions |-> 0], live |-> [s \in Sessions |-> 0]]

(* boardInputRevision: the digest of what a board would read now. *)
RevisionOf(b) == [full |-> b.topo, sessions |-> b.rec]

(* A flight: its stage and what it has captured so far. *)
Producing == {"producing", "read", "verified"}
IdleBuild ==
  [stage |-> "idle", verify |-> FALSE, warm |-> FALSE, moved |-> FALSE, scope |-> "full",
   anchor |-> RevisionOf(Oldest), before |-> RevisionOf(Oldest), after |-> RevisionOf(Oldest),
   owed |-> FALSE, signalled |-> FALSE, published |-> FALSE, board |-> Oldest]
IdleSplice ==
  [stage |-> "idle", ids |-> {}, before |-> RevisionOf(Oldest).sessions,
   rebased |-> FALSE, board |-> Oldest]

MergeDirty(d, scope) == IF "full" \in {d, scope} THEN "full" ELSE "sessions"

Init ==
  /\ inputs = Oldest /\ told = Oldest
  /\ cached = NoBoard /\ anchor = RevisionOf(Oldest)
  /\ dirty = "full" /\ sessionOwed = FALSE
  /\ affected = {} /\ unknown = FALSE
  /\ build = IdleBuild /\ splice = IdleSplice
  /\ backoff = FALSE /\ failures = 0

-----------------------------------------------------------------------------
(* The inputs and the signals of graph-stream. A watcher may miss a write, *)
(* and a signal may name a leaf that no board reads.                       *)

WriteTopo ==
  /\ inputs.topo < MaxTopo
  /\ inputs' = [inputs EXCEPT !.topo = @ + 1]
  /\ UNCHANGED <<told, cached, anchor, dirty, sessionOwed, affected, unknown,
                 build, splice, backoff, failures>>

RowMoves(s) == inputs.rec[s] + inputs.live[s] < MaxRow

WriteRecord(s) ==
  /\ RowMoves(s)
  /\ inputs' = [inputs EXCEPT !.rec[s] = @ + 1]
  /\ UNCHANGED <<told, cached, anchor, dirty, sessionOwed, affected, unknown,
                 build, splice, backoff, failures>>

LivenessMoves(s) ==
  /\ RowMoves(s)
  /\ inputs' = [inputs EXCEPT !.live[s] = @ + 1]
  /\ UNCHANGED <<told, cached, anchor, dirty, sessionOwed, affected, unknown,
                 build, splice, backoff, failures>>

(* gen and sessionGeneration, as a running build will compare them. *)
Invalidated == IF build.stage = "sampled" THEN [build EXCEPT !.moved = TRUE] ELSE build
SessionsInvalidated ==
  CASE build.stage = "sampled" -> [build EXCEPT !.moved = TRUE]
    [] build.stage \in Producing -> [build EXCEPT !.signalled = TRUE]
    [] OTHER -> build

(* invalidateBoard('full'). *)
SignalFull ==
  /\ told' = [told EXCEPT !.topo = inputs.topo]
  /\ dirty' = "full" /\ backoff' = FALSE /\ build' = Invalidated
  /\ UNCHANGED <<inputs, cached, anchor, sessionOwed, affected, unknown, splice, failures>>

(* invalidateBoard('sessions', ids): a record commit names its session, the *)
(* pollers of the terminals name none.                                      *)
SignalSessions(ids) ==
  /\ told' = IF ids = {} THEN [told EXCEPT !.rec = inputs.rec, !.live = inputs.live]
             ELSE [told EXCEPT !.rec = [s \in Sessions |->
                     IF s \in ids THEN inputs.rec[s] ELSE told.rec[s]]]
  /\ sessionOwed' = TRUE /\ dirty' = MergeDirty(dirty, "sessions") /\ backoff' = FALSE
  /\ affected' = IF ids = {} THEN {} ELSE affected \cup ids
  /\ unknown' = (unknown \/ ids = {})
  /\ build' = SessionsInvalidated
  /\ UNCHANGED <<inputs, cached, anchor, splice, failures>>

-----------------------------------------------------------------------------
(* The readers. Each starts at most one producer of each kind; a reader    *)
(* that joins a running one changes nothing.                               *)

CanBuild == build.stage = "idle" /\ ~backoff
StartBuild(verify) == build' = [IdleBuild EXCEPT !.stage = "started", !.verify = verify]
CanSplice == cached # NoBoard /\ sessionOwed /\ splice.stage = "idle"

(* startSessionSplice up to its first turn: the claim is consumed. *)
StartSplice ==
  /\ sessionOwed' = FALSE
  /\ dirty' = IF dirty = "sessions" THEN "none" ELSE dirty
  /\ splice' = [IdleSplice EXCEPT !.stage = "started"]

(* getBoard: a fresh reader. *)
GetBoard ==
  /\ CanBuild
  /\ dirty = "full" \/ (splice.stage = "idle" /\ (dirty # "none" \/ cached = NoBoard))
  /\ StartBuild(FALSE)
  /\ UNCHANGED <<inputs, told, cached, anchor, dirty, sessionOwed, affected, unknown,
                 splice, backoff, failures>>

(* getBoardForSessionRefresh with a claim to serve; without one it is      *)
(* GetBoard.                                                               *)
SessionRefresh ==
  /\ CanSplice
  /\ StartSplice
  /\ IF CanBuild /\ dirty = "full" THEN StartBuild(FALSE) ELSE UNCHANGED build
  /\ UNCHANGED <<inputs, told, cached, anchor, affected, unknown, backoff, failures>>

(* patrolBoard: validate although nothing is dirty. *)
Patrol ==
  /\ CanBuild
  /\ StartBuild(FALSE)
  /\ UNCHANGED <<inputs, told, cached, anchor, dirty, sessionOwed, affected, unknown,
                 splice, backoff, failures>>

(* readBoard('stale-ok'): the last board is returned at once and one        *)
(* producer is started for what is owed; a read that owes nothing and whose *)
(* last sample has aged starts a verification.                              *)
Refreshing == build.stage # "idle" /\ ~build.verify
StaleRead ==
  /\ cached # NoBoard /\ ~Refreshing
  /\ \/ /\ dirty = "full" /\ CanBuild
        /\ StartBuild(FALSE) /\ UNCHANGED <<dirty, sessionOwed, splice>>
     \/ /\ dirty # "full" \/ (build.stage = "idle" /\ backoff)
        /\ CanSplice
        /\ StartSplice /\ UNCHANGED build
     \/ /\ dirty = "sessions" /\ splice.stage = "idle" /\ ~sessionOwed /\ CanBuild
        /\ StartBuild(FALSE) /\ UNCHANGED <<dirty, sessionOwed, splice>>
     \/ /\ dirty = "none" /\ splice.stage = "idle" /\ ~sessionOwed /\ CanBuild
        /\ StartBuild(TRUE) /\ UNCHANGED <<dirty, sessionOwed, splice>>
  /\ UNCHANGED <<inputs, told, cached, anchor, affected, unknown, backoff, failures>>

(* What such a read answers: fresh, when nothing is owed and no refresh is *)
(* running; a verification is not a refresh.                               *)
AnswersFresh ==
  /\ cached # NoBoard /\ dirty = "none" /\ ~sessionOwed
  /\ splice.stage = "idle" /\ ~Refreshing

-----------------------------------------------------------------------------
(* The structural flight of startBuild.                                    *)

(* The producer's turn: the board, its anchor and the inputs are sampled. *)
BuildSample ==
  /\ build.stage = "started"
  /\ build' = [build EXCEPT !.stage = "sampled", !.warm = (cached # NoBoard),
                              !.anchor = anchor, !.before = RevisionOf(inputs)]
  /\ UNCHANGED <<inputs, told, cached, anchor, dirty, sessionOwed, affected, unknown,
                 splice, backoff, failures>>

(* What the sample says, when no signal came since it was taken. *)
Validated == build.warm /\ ~build.moved
FullMoved == build.before.full # build.anchor.full
RowsClaimed ==
  sessionOwed \/ dirty = "sessions" \/ build.before.sessions # build.anchor.sessions

(* An unmoved structural claim is discharged without a producer. *)
DischargeUnlooked == build.warm /\ ~FullMoved /\ ~RowsClaimed
CanDischarge == Validated /\ ~FullMoved /\ ~RowsClaimed
BuildDischarge ==
  /\ build.stage = "sampled" /\ CanDischarge
  /\ dirty' = "none" /\ build' = IdleBuild /\ backoff' = FALSE
  /\ UNCHANGED <<inputs, told, cached, anchor, sessionOwed, affected, unknown, splice, failures>>

(* The domain is derived from what moved; without a validation it is what   *)
(* was claimed. The producer consumes the claim it is about to satisfy.     *)
BuildProduce ==
  LET scope == IF Validated THEN IF FullMoved THEN "full" ELSE "sessions"
               ELSE IF dirty = "sessions" /\ build.warm THEN "sessions" ELSE "full"
      owed == sessionOwed \/ (Validated /\ dirty # "sessions"
                              /\ build.before.sessions # build.anchor.sessions)
  IN /\ build.stage = "sampled" /\ ~CanDischarge
     /\ dirty' = "none"
     /\ sessionOwed' = (owed /\ scope = "full")
     /\ build' = [build EXCEPT !.stage = "producing", !.scope = scope, !.moved = FALSE,
                                !.owed = (owed /\ scope = "full")]
     /\ UNCHANGED <<inputs, told, cached, anchor, affected, unknown, splice, backoff, failures>>

(* buildBoard reads every input, spliceSessions the rows: they are put on  *)
(* the topology of the cached board, which only this flight replaces.      *)
BuildRead ==
  /\ build.stage = "producing"
  /\ build' = [build EXCEPT !.stage = "read",
                 !.board = IF build.scope = "full" THEN inputs
                           ELSE [inputs EXCEPT !.topo = cached.topo]]
  /\ UNCHANGED <<inputs, told, cached, anchor, dirty, sessionOwed, affected, unknown,
                 splice, backoff, failures>>

(* The inputs are sampled again. *)
BuildVerify ==
  /\ build.stage = "read"
  /\ build' = [build EXCEPT !.stage = "verified", !.after = RevisionOf(inputs)]
  /\ UNCHANGED <<inputs, told, cached, anchor, dirty, sessionOwed, affected, unknown,
                 splice, backoff, failures>>

FullStable == build.after.full = build.before.full
SessionsStable == build.after.sessions = build.before.sessions

CompletedAfter ==
  [full |-> IF build.scope = "full" THEN build.after.full ELSE build.anchor.full,
   sessions |-> build.before.sessions]

(* The revision of the finished board: a half that moved while it was made *)
(* keeps the sample taken before, so that a later validation sees the move. *)
Completed ==
  [full |-> IF build.scope = "full" THEN build.before.full ELSE build.anchor.full,
   sessions |-> build.before.sessions]

(* rebasePublishedSessions: rows that a splice published while a full board *)
(* was made are newer than its own.                                         *)
RebasesNever == FALSE
Rebases == build.scope = "full" /\ build.published /\ cached # NoBoard
Rebased(b) == [b EXCEPT !.rec = cached.rec, !.live = cached.live]

(* The rows that this build has not settled. *)
RowsStillOwed ==
  \/ sessionOwed
  \/ ~build.published /\ (build.owed \/ ~SessionsStable \/ build.signalled)

BuildCommit ==
  /\ build.stage = "verified"
  /\ cached' = IF Rebases THEN Rebased(build.board) ELSE build.board
  /\ anchor' = IF Rebases THEN [Completed EXCEPT !.sessions = anchor.sessions] ELSE Completed
  /\ sessionOwed' = RowsStillOwed
  /\ dirty' = IF ~FullStable THEN "full"
              ELSE IF RowsStillOwed THEN MergeDirty(dirty, "sessions") ELSE dirty
  /\ splice' = [splice EXCEPT !.rebased = (splice.stage \in {"sampled", "read"})]
  /\ build' = IdleBuild /\ backoff' = FALSE
  /\ UNCHANGED <<inputs, told, affected, unknown, failures>>

(* The producer throws, or its watchdog has fired before it settles: what  *)
(* it had consumed is owed again.                                          *)
BuildFail ==
  /\ build.stage # "idle" /\ failures < MaxFailures
  /\ failures' = failures + 1
  /\ dirty' = IF build.stage \in Producing THEN MergeDirty(dirty, build.scope) ELSE dirty
  /\ build' = IdleBuild /\ backoff' = TRUE
  /\ UNCHANGED <<inputs, told, cached, anchor, sessionOwed, affected, unknown, splice>>

BackoffOver ==
  /\ backoff /\ backoff' = FALSE
  /\ UNCHANGED <<inputs, told, cached, anchor, dirty, sessionOwed, affected, unknown,
                 build, splice, failures>>

-----------------------------------------------------------------------------
(* The session splice of startSessionSplice.                               *)

(* A turn of its loop: the request and the base are taken. A splice of the *)
(* whole roster samples the revision, a partial one keeps the base's.      *)
SpliceSample ==
  LET ids == IF unknown THEN {} ELSE affected
  IN /\ splice.stage = "started"
     /\ splice' = [splice EXCEPT !.stage = "sampled", !.ids = ids, !.rebased = FALSE,
                     !.before = IF ids = {} THEN inputs.rec ELSE anchor.sessions]
     /\ affected' = {} /\ unknown' = FALSE
     /\ UNCHANGED <<inputs, told, cached, anchor, dirty, sessionOwed, build, backoff, failures>>

(* spliceSessions: the rows of the request on the base's board. *)
SpliceRead ==
  /\ splice.stage = "sampled"
  /\ splice' = [splice EXCEPT !.stage = "read",
       !.board = [topo |-> cached.topo,
                  rec  |-> [s \in Sessions |-> IF splice.ids = {} \/ s \in splice.ids
                                               THEN inputs.rec[s] ELSE cached.rec[s]],
                  live |-> [s \in Sessions |-> IF splice.ids = {} \/ s \in splice.ids
                                               THEN inputs.live[s] ELSE cached.live[s]]]]
  /\ UNCHANGED <<inputs, told, cached, anchor, dirty, sessionOwed, affected, unknown,
                 build, backoff, failures>>

(* The structural flight has published since the base was taken. *)
LostBaseUnseen == FALSE
LostBase == splice.rebased
SpliceAgain ==
  /\ splice.stage = "read" /\ LostBase
  /\ splice' = [IdleSplice EXCEPT !.stage = "started"]
  /\ UNCHANGED <<inputs, told, cached, anchor, dirty, sessionOwed, affected, unknown,
                 build, backoff, failures>>

(* The rows are published over the base's topology and its full revision; *)
(* rows that moved meanwhile, or a watchdog that has fired, owe a splice.  *)
SpliceCommit(late) ==
  LET stable == splice.ids # {} \/ splice.before = inputs.rec
  IN /\ splice.stage = "read" /\ ~LostBase
     /\ late => failures < MaxFailures
     /\ failures' = IF late THEN failures + 1 ELSE failures
     /\ cached' = splice.board
     /\ anchor' = [anchor EXCEPT !.sessions = splice.before]
     /\ sessionOwed' = (sessionOwed \/ ~stable \/ late)
     /\ dirty' = IF stable /\ ~late THEN dirty ELSE MergeDirty(dirty, "sessions")
     /\ build' = IF build.stage \in Producing
                 THEN [build EXCEPT !.published = TRUE, !.signalled = @ \/ ~stable]
                 ELSE build
     /\ splice' = IdleSplice
     /\ UNCHANGED <<inputs, told, affected, unknown, backoff>>

SpliceFail ==
  /\ splice.stage # "idle" /\ failures < MaxFailures
  /\ failures' = failures + 1
  /\ sessionOwed' = TRUE /\ dirty' = MergeDirty(dirty, "sessions")
  /\ splice' = IdleSplice
  /\ UNCHANGED <<inputs, told, cached, anchor, affected, unknown, build, backoff>>

-----------------------------------------------------------------------------

Inputs == WriteTopo \/ \E s \in Sessions : WriteRecord(s) \/ LivenessMoves(s)
Signals == SignalFull \/ \E ids \in SUBSET Sessions : SignalSessions(ids)
Readers == GetBoard \/ SessionRefresh \/ Patrol \/ StaleRead
BuildStep == BuildSample \/ BuildDischarge \/ BuildProduce \/ BuildRead \/ BuildVerify \/ BuildCommit
SpliceStep == SpliceSample \/ SpliceRead \/ SpliceAgain \/ \E late \in BOOLEAN : SpliceCommit(late)

Next == \/ Inputs \/ Signals \/ Readers
        \/ BuildStep \/ BuildFail \/ BackoffOver
        \/ SpliceStep \/ SpliceFail

Spec == Init /\ [][Next]_vars

(* Producers settle, the backoff is a time that passes, and graph-stream   *)
(* patrols every fifteen seconds while a delta subscriber listens.         *)
FairSpec ==
  /\ Spec
  /\ WF_vars(BuildStep) /\ WF_vars(SpliceStep) /\ WF_vars(BackoffOver) /\ WF_vars(Patrol)

-----------------------------------------------------------------------------

BuildFlights ==
  [stage : {"idle", "started", "sampled"} \cup Producing, verify : BOOLEAN, warm : BOOLEAN,
   moved : BOOLEAN, scope : Scopes, anchor : Revisions, before : Revisions, after : Revisions,
   owed : BOOLEAN, signalled : BOOLEAN, published : BOOLEAN, board : Boards]
SpliceFlights ==
  [stage : {"idle", "started", "sampled", "read"}, ids : SUBSET Sessions,
   before : [Sessions -> 0 .. MaxRow], rebased : BOOLEAN, board : Boards]

GraphTypeOK ==
  /\ inputs \in Boards /\ told \in Boards /\ cached \in Boards \cup {NoBoard}
  /\ anchor \in Revisions
  /\ dirty \in Scopes \cup {"none"} /\ sessionOwed \in BOOLEAN
  /\ affected \subseteq Sessions /\ unknown \in BOOLEAN
  /\ build \in BuildFlights /\ splice \in SpliceFlights
  /\ backoff \in BOOLEAN /\ failures \in 0 .. MaxFailures

(* The revision of the cached board never names an input that the board did *)
(* not read: otherwise a validation would discharge a claim against bytes   *)
(* nobody carries (revisionCarriedByBoard, the anchor of startBuild).       *)
AnchorHonest ==
  cached # NoBoard =>
    /\ anchor.full <= cached.topo
    /\ \A s \in Sessions : anchor.sessions[s] <= cached.rec[s]

(* A structural change that was signalled is on the board, or the structural *)
(* producer still owes it: no discharge, splice, failure or commit of an     *)
(* older flight loses it.                                                    *)
StructureCarriedOrOwed ==
  (dirty # "full" /\ build.stage \notin Producing) =>
    cached # NoBoard /\ cached.topo >= told.topo

(* The topology on the board never goes back: a splice that was cut from an *)
(* older board is not published over a newer one.                           *)
TopologyForward ==
  [][cached # NoBoard => cached'.topo >= cached.topo]_vars

(* No visible row is rolled back by a splice or by a full build: the rows   *)
(* that were published while it ran survive its commit. The commit of a     *)
(* build of rows alone is the exception that NeverLags is about.            *)
RowsForward ==
  [][(cached # NoBoard /\ ~(build.stage = "verified" /\ build.scope = "sessions")) =>
       \A s \in Sessions : /\ cached'.rec[s] >= cached.rec[s]
                           /\ cached'.live[s] >= cached.live[s]]_vars

(* When the inputs and the signals come to rest, the board comes to carry   *)
(* the inputs, also those that no signal was given for: the patrol, and the *)
(* obligations that it finds, converge.                                     *)
Carries(b) == b # NoBoard /\ RevisionOf(b) = RevisionOf(inputs)
BoardConverges == <>[][~Signals]_vars => <>[]Carries(cached)

(* Not kept by the code (README, Divergences): the cache can never lag a    *)
(* change the stream would push. Once nothing is owed and nothing runs, the *)
(* rows on the board are those that the signals were about.                 *)
Settled == dirty = "none" /\ ~sessionOwed /\ build.stage = "idle" /\ splice.stage = "idle"
NeverLags ==
  Settled => \A s \in Sessions : /\ cached.rec[s] >= told.rec[s]
                                 /\ cached.live[s] >= told.live[s]

(* Not kept by the code (README, Divergences): a reader who is told fresh   *)
(* holds the structure that was signalled, as only a completed refresh      *)
(* makes the stale signal disappear.                                        *)
FreshCarriesStructure == AnswersFresh => cached.topo >= told.topo
=============================================================================
