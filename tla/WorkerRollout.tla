--------------------------- MODULE WorkerRollout ---------------------------
(***************************************************************************)
(* What the deployment promises about workers: a worker goes live, that is *)
(* a vault opens positions with it, only when it is ready: its strategies  *)
(* accept it and its factors are set.  Workers become ready and go live    *)
(* one at a time, and none of it is ever taken back.                       *)
(***************************************************************************)
VARIABLES ready, live

Init == ready = {} /\ live = {}

Prepare == /\ \E w \in ready' \ ready : ready' = ready \cup {w}
           /\ UNCHANGED live

GoLive == /\ \E w \in ready \ live : live' = live \cup {w}
          /\ UNCHANGED ready

Next == Prepare \/ GoLive

Spec == Init /\ [][Next]_<<ready, live>>
=============================================================================
