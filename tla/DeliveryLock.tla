----------------------------- MODULE DeliveryLock -----------------------------
(***************************************************************************)
(* The lock of one delivery queue, spec-cli/src/delivery-lock.ts: a file   *)
(* created with open(path, "wx") that holds its creator's process id.      *)
(* session-record-lock.ts takes record locks by the same steps.            *)
(*                                                                         *)
(* A process runs JavaScript tasks. claimDeliveryLock never awaits, so the *)
(* tasks of one process do not interleave inside it, while each of its     *)
(* system calls interleaves with those of other processes. release and     *)
(* reclaim unlink whatever file the path names by then. A process id is    *)
(* not reused.                                                             *)
(***************************************************************************)
EXTENDS Naturals, FiniteSets

CONSTANTS
  Tasks,    \* the delivery loops and lock holders of all processes
  Pids,     \* operating system processes
  PidOf,    \* PidOf[t]: the process that runs task t
  Mortal,   \* the processes that may exit or be killed during a behaviour
  NoPid,    \* no process
  Absent    \* no lock file

ASSUME LockAssumption ==
  /\ PidOf \in [Tasks -> Pids]
  /\ Mortal \subseteq Pids
  /\ NoPid \notin Pids
  /\ Absent \notin [by : Pids, named : BOOLEAN]

VARIABLES
  file,    \* the lock file: whose open created it, is the id written yet
  claim,   \* claim[t]: where t stands in claimDeliveryLock
  alive    \* alive[p]: process p has not ended

lockVars == <<file, claim, alive>>

Inside == {"retry", "opened", "exists", "read", "stale"}   \* not returned yet
Stages == Inside \cup {"idle", "held"}
At(stage) == [at |-> stage, owner |-> NoPid]

(* t may take a step: no sibling task is inside the synchronous call.      *)
Runs(t) ==
  /\ alive[PidOf[t]]
  /\ \A u \in Tasks \ {t} : PidOf[u] = PidOf[t] => claim[u].at \notin Inside

Step(t, from, to) ==
  /\ Runs(t)
  /\ claim[t].at \in from
  /\ claim' = [claim EXCEPT ![t] = to]
  /\ UNCHANGED alive

(* The id read from the file, none while it is missing or empty.           *)
Owner == IF file # Absent /\ file.named THEN file.by ELSE NoPid

(* openSync(path, 'wx'): creates the file or reports EEXIST. *)
OpenAny(t) ==
  /\ file' = [by |-> PidOf[t], named |-> FALSE]
  /\ Step(t, {"idle", "retry"}, At("opened"))
Create(t) ==
  /\ file = Absent
  /\ file' = [by |-> PidOf[t], named |-> FALSE]
  /\ Step(t, {"idle", "retry"}, At("opened"))

Find(t) ==
  /\ file # Absent
  /\ Step(t, {"idle", "retry"}, At("exists"))
  /\ UNCHANGED file

(* writeSync goes to the opened file, which the path may no longer name.   *)
Name(t) ==
  /\ Step(t, {"opened"}, At("held"))
  /\ file' = IF file = [by |-> PidOf[t], named |-> FALSE]
               THEN [file EXCEPT !.named = TRUE] ELSE file

(* readFileSync, then kill(owner, 0) *)
ReadOwner(t) ==
  /\ Owner \notin {NoPid, PidOf[t]}
  /\ Step(t, {"exists"}, [at |-> "read", owner |-> Owner])
  /\ UNCHANGED file

Condemn(t) ==
  /\ claim[t].at = "read" /\ ~alive[claim[t].owner]
  /\ Step(t, {"read"}, At("stale"))
  /\ UNCHANGED file

GiveUp(t) ==
  /\ \/ claim[t].at = "exists" /\ Owner \in {NoPid, PidOf[t]}
     \/ claim[t].at = "read" /\ alive[claim[t].owner]
  /\ Step(t, {"exists", "read"}, At("idle"))
  /\ UNCHANGED file

(* The dead owner's file is unlinked and the open is tried again. *)
Reclaim(t) ==
  /\ Step(t, {"stale"}, At("retry"))
  /\ file' = Absent

Release(t) ==
  /\ Step(t, {"held"}, At("idle"))
  /\ file' = Absent

(* An exit or a kill leaves the file behind. *)
End(p) ==
  /\ p \in Mortal /\ alive[p]
  /\ alive' = [alive EXCEPT ![p] = FALSE]
  /\ claim' = [t \in Tasks |-> IF PidOf[t] = p THEN At("idle") ELSE claim[t]]
  /\ UNCHANGED file

LockInit ==
  /\ file = Absent
  /\ claim = [t \in Tasks |-> At("idle")]
  /\ alive = [p \in Pids |-> TRUE]

(* The steps between the call of claimDeliveryLock and its return. *)
Claiming(t) == Create(t) \/ Find(t) \/ ReadOwner(t) \/ Condemn(t) \/ Reclaim(t)

LockNext ==
  \/ \E t \in Tasks : Claiming(t) \/ Name(t) \/ GiveUp(t) \/ Release(t)
  \/ \E p \in Pids : End(p)

LockSpec == LockInit /\ [][LockNext]_lockVars

-----------------------------------------------------------------------------
(* Properties *)

LockTypeOK ==
  /\ file \in [by : Pids, named : BOOLEAN] \cup {Absent}
  /\ claim \in [Tasks -> [at : Stages, owner : Pids \cup {NoPid}]]
  /\ alive \in [Pids -> BOOLEAN]

Holders == {t \in Tasks : claim[t].at = "held"}

(* At most one task holds the queue as long as no process has ended,       *)
(* whatever order the opens, writes, reads and unlinks of several          *)
(* processes take (claimDeliveryLock, release).                            *)
AllAlive == \A p \in Pids : alive[p]
Exclusion == AllAlive => \A t, u \in Holders : t = u

(* The claim is real without a condition: two processes draining the same  *)
(* session never both hold its queue (delivery-queue: "two processes       *)
(* draining the same session at the same moment cannot both hand over the  *)
(* same message").                                                         *)
OneHolder == \A t, u \in Holders : t = u
=============================================================================
