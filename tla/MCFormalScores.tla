--------------------------- MODULE MCFormalScores ---------------------------
(***************************************************************************)
(* The data of one symbol: its formal scores, and its liquidations.  The   *)
(* two share no variable, so that a behaviour is about one of them: the    *)
(* other never leaves its initial state.  No event arrives after MaxEvents *)
(* of them.                                                                *)
(***************************************************************************)
EXTENDS FormalScores, Liquidations

MCInit == Init /\ LiqInit

MCNext ==
  \/ Next /\ liquidations = <<>> /\ UNCHANGED <<liquidations, arrived>>
  \/ ApplyForceOrder /\ bars = 0 /\ ~rate /\ ~history /\ ~partial /\ book = "none"
     /\ UNCHANGED vars
  \/ Len(arrived) = MaxEvents /\ UNCHANGED <<vars, liquidations, arrived>>

MCSpec == MCInit /\ [][MCNext]_<<vars, liquidations, arrived>>
=============================================================================
