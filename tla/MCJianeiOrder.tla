---------------------------- MODULE MCJianeiOrder ----------------------------
(***************************************************************************)
(* Instances of JianeiOrder: two boards, the first with two ports; labels  *)
(* eid1 and eid2 that agree on the bytes compared when they are recorded but   *)
(* not on the bytes checked before the confirm, and eid3 that agrees with    *)
(* neither.                                                                *)
(***************************************************************************)
EXTENDS JianeiOrder, TLC

CONSTANTS b1, b2, p1, p2, p3, eid1, eid2, eid3, n1, n2, f1, f2

MCBoards == {b1, b2}
MCPorts == {p1, p2, p3}
MCBoardOf == (p1 :> b1) @@ (p2 :> b1) @@ (p3 :> b2)
MCEids == {eid1, eid2, eid3}
MCCompared == (eid1 :> "x") @@ (eid2 :> "x") @@ (eid3 :> "y")
MCChecked == (eid1 :> "x") @@ (eid2 :> "z") @@ (eid3 :> "y")
OneEid == {eid1}
OneCompared == (eid1 :> "x")
MCNumbers == {n1, n2}
AcrossPorts == {p1, p3}
AcrossBoardOf == (p1 :> b1) @@ (p3 :> b2)
(* What the steps of Spec and the properties of any_report read: sent, kind *)
(* and label are only ever written by Spec.                                *)
WithoutLabels == <<ord, eid_port1, eid_port2, txBuf, orderLed, alive, sockets,
                   replies, confirmed, used>>
SameNumbers == Permutations({n1, n2})
=============================================================================
