--------------------------- MODULE MCJiajianOrder ---------------------------
(* Instances of JiajianOrder with two racks. *)
EXTENDS JiajianOrder, TLC
CONSTANTS r1, r2, p1, p2, e1, e2, n1, n2, f1, c1, c2, Blank
MCRacks == {r1, r2}
(* What the steps of Spec and the properties checked under it read: heard   *)
(* and concluded are only written there.                                    *)
WithoutObservers == <<order, orderLed, wiping, call, wire, answers, request,
                      armed, tag, outbox>>
Same == Permutations({c1, c2}) \cup Permutations({n1, n2})
=============================================================================
