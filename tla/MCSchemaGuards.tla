---------------------------- MODULE MCSchemaGuards ----------------------------
(***************************************************************************)
(* SchemaGuards on small instances.  Sessions and parents are              *)
(* interchangeable: every action treats them alike.                        *)
(***************************************************************************)
EXTENDS SchemaGuards, TLC

CONSTANTS s1, s2, p1, p2

(* Parents of one family interact through children moved between them     *)
(* only: where no child can move, one parent at a time is worked on.       *)
Untouched(p) ==
  /\ kids[p] = {} /\ row[p].phase \in {"none", "queued", "live"}
  /\ \A s \in Sessions : held[s][p] = "no" /\ own[s][p] = Same

OneAtATime == table.move = "refused" => \E p \in Parents : Untouched(p)

Alike == Permutations({s1, s2}) \cup Permutations({p1, p2})

===============================================================================
