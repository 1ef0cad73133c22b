---------------------------- MODULE MCGestoTrack ----------------------------
(* Sharp objects: each sensor sees either the object or the background, so *)
(* no two samples in a row fall.  W < IdleTime, as in the program (8 and   *)
(* 10 periods).                                                            *)
EXTENDS GestoTrack

Near == 1
Far == 3
Sharply == {Near, Far}

(* An object that approaches slowly may fall several samples in a row. *)
Slowly == {1, 3, 5}
=============================================================================
