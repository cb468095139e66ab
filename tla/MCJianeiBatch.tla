---------------------------- MODULE MCJianeiBatch ----------------------------
(***************************************************************************)
(* Instances of JianeiBatch: two boards; a pair of ports on board 1, and a *)
(* pair with a port on each.  Labels eid1 and eid3 agree on the bytes      *)
(* checked, eid2 differs.                                                  *)
(***************************************************************************)
EXTENDS JianeiBatch, TLC

CONSTANTS p1, p2, p3, p4, eid1, eid2, eid3, n1, n2, f1

MCPorts == {p1, p2, p3, p4}
MCBoardOf == (p1 :> 1) @@ (p2 :> 1) @@ (p3 :> 2) @@ (p4 :> 1)
(* both pairs on one board each, so that both can be concluded *)
ApartBoardOf == (p1 :> 1) @@ (p2 :> 1) @@ (p3 :> 2) @@ (p4 :> 2)
MCEids == {eid1, eid2, eid3}
MCChecked == (eid1 :> "x") @@ (eid2 :> "y") @@ (eid3 :> "x") @@ (NoEid :> Blank)
TwoEids == {eid1, eid2}
TwoChecked == (eid1 :> "x") @@ (eid2 :> "y") @@ (NoEid :> Blank)
MCLayouts == {<<[ydk |-> p1, ddk |-> p2], [ydk |-> p3, ddk |-> p4]>>}
(* Spec writes sent and results and never reads them. *)
WithoutResults == <<batch, ends, entires, uploads, single, orderLed, alive, holder, used>>
=============================================================================
