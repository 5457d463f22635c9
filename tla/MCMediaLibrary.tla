---------------------------- MODULE MCMediaLibrary ----------------------------
(***************************************************************************)
(* MediaLibrary with two syncs, collectors of one of AgendaScope's sources *)
(* and of one made here, and a capture, over two articles.                 *)
(***************************************************************************)
EXTENDS MediaLibrary

CONSTANTS x, y, worker, manual, ours, own

SiteOf == [c \in Collectors |-> IF c = ours THEN own ELSE Src]

(* Of the four things that may come between the syncs (a change at         *)
(* AgendaScope, a failure, a collection, a capture) some happen.           *)
Happened == {a \in Captures : at[a] # "idle"}
Events == edits + faults + visits + Cardinality(Happened)
CONSTANT MaxEvents
FewEvents == Events <= MaxEvents

(* Of articles and syncs that are alike one is the first.                  *)
WithoutLossOfGenerality ==
  /\ edits = 0 => agenda[x] # Gone
  /\ born = 1 => run[worker] = 1

===============================================================================
