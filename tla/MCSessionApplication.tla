------------------------ MODULE MCSessionApplication ------------------------
(***************************************************************************)
(* SessionApplication on three sessions: enough for a chain of parents, a  *)
(* cycle of three refused at its last edge, and a move between two parents.*)
(***************************************************************************)
EXTENDS SessionApplication, TLC

CONSTANTS
  MaxTotal,    \* bound: events and messages of all sessions together
  MaxFollows   \* bound: follow cursors, and watch edges, that exist at once

Total[S \in SUBSET Sessions] ==
  IF S = {} THEN 0
  ELSE LET s == CHOOSE x \in S : TRUE IN Len(log[s]) + Len(mail[s]) + Total[S \ {s}]

Follows == {p \in Sessions \X Sessions : cursor[p[1]][p[2]] # None}
Watches == {e \in edges : e[3] # Parent}

Small ==
  /\ Total[Sessions] <= MaxTotal
  /\ Cardinality(Follows) <= MaxFollows
  /\ Cardinality(Watches) <= MaxFollows

Symmetry == Permutations(Sessions) \cup Permutations(Statuses)
=============================================================================
