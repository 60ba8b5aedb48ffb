-------------------------- MODULE MCReceiverTraffic --------------------------
(***************************************************************************)
(* The receiver under two kinds of traffic: "few" frames, whose fragments  *)
(* may be late or lost, and "shapes", fragments that need not fit together *)
(* and need not find memory.  A behaviour brings one of them.              *)
(***************************************************************************)
EXTENDS MCReceiver

VARIABLE
    traffic     \* "few" or "shapes", from the first state on

ShapesAndFew == AnyShape \cup Few

Brought ==
    CASE traffic = "shapes" -> AnyShape
      [] traffic = "few" -> Few

TrafficInit ==
    /\ Init
    /\ traffic \in {"few", "shapes"}
    /\ traffic = "shapes" => mMode = "THREADED"

\* Shapes arrive until a frame has been delivered; both within the bounds of
\* ReceiveFragment.
Arrives ==
    /\ traffic = "shapes" => Log = <<>>
    /\ \E p \in Brought, aSourceId \in Sources, memory \in AllocOutcomes :
         /\ traffic = "few" => memory
         /\ ReceiveFragment(p, aSourceId, memory)

TrafficNext == (Arrives \/ Internal \/ Tick) /\ UNCHANGED traffic

TrafficSpec ==
    TrafficInit /\ [][TrafficNext]_<<vars, traffic>> /\ Fairness

-----------------------------------------------------------------------------
(* RefusalLeavesBuckets asks of a state what each packet of Packets would  *)
(* do; the states that shapes lead to are asked.                           *)

\* A packet that a handler refuses changes no bucket and not the map, in any
\* state that fragments of any shape lead to (efp.h:1252-1275, 1380-1423,
\* 1531-1560).
ShapesLeaveBuckets == traffic = "shapes" => RefusalLeavesBuckets
==============================================================================
