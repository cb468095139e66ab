---------------------------- MODULE MCJianeiRack ----------------------------
(***************************************************************************)
(* Instances of JianeiRack: two ports on two boards.                       *)
(***************************************************************************)
EXTENDS JianeiRack

CONSTANTS b1, b2, p1, p2, eid1, eid2, n1, n2

AcrossBoardOf == (p1 :> b1) @@ (p2 :> b2)
OneCompared == (eid1 :> "x")
BothFull == {(p1 :> eid1) @@ (p2 :> eid1)}
=============================================================================
