---------------------------- MODULE MCWorkerFleet ----------------------------
(***************************************************************************)
(* Small fleets for TLC.  Jobs are 1, 2, ... in the order of created_at.   *)
(***************************************************************************)
EXTENDS WorkerFleet, TLC

CONSTANTS p1, p2, p3, w1, w2

Slot(w, d, caps) == [id |-> w, domain |-> d, configs |-> caps, digest |-> "live"]

AllLive == [j \in Jobs |-> "live"]

(* Two slots with one identity (a rolling restart), and a peer.            *)
TakeoverSettings ==
  (p1 :> Slot(w1, "semantic", {"model"})) @@
  (p2 :> Slot(w1, "semantic", {"model"})) @@
  (p3 :> Slot(w2, "semantic", {"model"}))

(* The two slots of one identity are interchangeable there.                *)
TwinSymmetry == Permutations({p1, p2})

TwinSettings ==
  (p1 :> Slot(w1, "semantic", {"model"})) @@
  (p2 :> Slot(w1, "semantic", {"model"}))

EvaluationSettings ==
  (p1 :> Slot(w1, "evaluation", {"chat"})) @@
  (p2 :> Slot(w2, "evaluation", {"chat"}))

(* Two semantic daemons with identities of their own.                      *)
PeerSettings ==
  (p1 :> Slot(w1, "semantic", {"model"})) @@
  (p2 :> Slot(w2, "semantic", {"model"}))

(* One semantic daemon with a model, alone.                                *)
SoloSettings == (p1 :> Slot(w1, "semantic", {"model"}))

(* A daemon without a model configuration serves smoke runs only.          *)
SmokeOnlySettings ==
  (p1 :> Slot(w1, "semantic", {"model"})) @@
  (p2 :> Slot(w2, "semantic", {}))

(* Which process refuses which job: none refuses any; p1 refuses job 1;    *)
(* all refuse job 1.                                                       *)
NoRejects == [p \in Procs |-> {}]
AllRejectFirst == [p \in Procs |-> {1}]
RejectsFirst == [p \in Procs |-> IF p = p1 THEN {1} ELSE {}]

JustSemantic == <<"semantic">>
SmokeThenSemantic == <<"smoke", "semantic">>
ResearchThenSmoke == <<"research", "smoke">>
ChatThenChat == <<"chat", "chat">>

=============================================================================
