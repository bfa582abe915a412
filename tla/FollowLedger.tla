----------------------------- MODULE FollowLedger -----------------------------
(***************************************************************************)
(* What the session application promises about one followed subject, with  *)
(* no topology, no state rows and no transactions: its history only grows, *)
(* a watcher follows it through named relations, at most one of them its   *)
(* tree parent's, and how far a watcher has read is a place in the history *)
(* that never moves back; a new watch begins at the newest place.          *)
(* SessionApplication implements this module for every subject, and the    *)
(* series of WatchNotices use it.                                          *)
(***************************************************************************)
EXTENDS Naturals

CONSTANTS
  Watchers,   \* who may follow the subject
  None,       \* has never followed
  Relations,  \* the names of the relations
  Tree        \* the one a session has to its children in the tree

VARIABLES
  length,     \* the number of events the subject has had
  relations,  \* relations[w]: those of w to the subject
  place       \* place[w]: the newest event w has followed

ledger == <<length, relations, place>>

Read(w) == IF place[w] = None THEN 0 ELSE place[w]
Farther(w, n) == IF Read(w) > n THEN place[w] ELSE n
Parents(rel) == {w \in Watchers : Tree \in rel[w]}
OnlyParent(rel) == \A v, w \in Parents(rel) : v = w

LedgerInit ==
  /\ length \in Nat
  /\ relations \in [Watchers -> SUBSET Relations] /\ OnlyParent(relations)
  /\ place \in [Watchers -> (0 .. length) \cup {None}]

(* An event is added; with it the subject may change its tree parent.      *)
Record ==
  /\ length' = length + 1
  /\ relations' \in [Watchers -> SUBSET Relations] /\ OnlyParent(relations')
  /\ \A w \in Watchers : relations'[w] \ {Tree} = relations[w] \ {Tree}
  /\ UNCHANGED place

Watch(w, r) ==
  /\ r \notin relations[w] \cup {Tree}
  /\ relations' = [relations EXCEPT ![w] = @ \cup {r}]
  /\ place' = [place EXCEPT ![w] = Farther(w, length)]
  /\ UNCHANGED length

Unwatch(w, r) ==
  /\ r \in relations[w] \ {Tree}
  /\ relations' = [relations EXCEPT ![w] = @ \ {r}]
  /\ UNCHANGED <<length, place>>

(* How far w has followed is written down.                                 *)
Follow(w, n) ==
  /\ place' = [place EXCEPT ![w] = Farther(w, n)]
  /\ UNCHANGED <<length, relations>>

LedgerNext ==
  \/ Record
  \/ \E w \in Watchers :
       \/ \E r \in Relations : Watch(w, r) \/ Unwatch(w, r)
       \/ \E n \in 1 .. length : Follow(w, n)

LedgerSpec == LedgerInit /\ [][LedgerNext]_ledger
=============================================================================
