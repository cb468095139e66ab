------------------------------ MODULE OrderDesk ------------------------------
(***************************************************************************)
(* What the main board promises about work orders, whatever their kind: at *)
(* most one is in hand; it is answered to the one who asked, at most once, *)
(* and only when all its ports but at most the one reporting right now had *)
(* already reported a good conclusion.  An order may also end unanswered:  *)
(* refused, dropped, withdrawn, or replaced by the next.                   *)
(***************************************************************************)
EXTENDS Naturals, Sequences

CONSTANTS Ports, Numbers, Askers, NoNumber, Nobody

VARIABLES current, asker, wanted, concluded, taken, answers

deskVars == <<current, asker, wanted, concluded, taken, answers>>

Init ==
  /\ current = NoNumber
  /\ asker = Nobody
  /\ wanted = {}
  /\ concluded = {}
  /\ taken = {}
  /\ answers = <<>>

Idle == current' = NoNumber /\ asker' = Nobody /\ wanted' = {} /\ concluded' = {}

(* an order is taken, in the place of the one in hand *)
Accept(n, t, W) ==
  /\ n \notin taken
  /\ taken' = taken \cup {n}
  /\ current' = n
  /\ asker' = t
  /\ wanted' = W
  /\ concluded' = {}
  /\ UNCHANGED answers

Refuse(n) == n \notin taken /\ taken' = taken \cup {n} /\ Idle /\ UNCHANGED answers

ConcludePort(p) ==
  /\ p \in wanted
  /\ concluded' = concluded \cup {p}
  /\ UNCHANGED <<current, asker, wanted, taken, answers>>

Answer(p) ==
  /\ current # NoNumber
  /\ p \in wanted
  /\ wanted \subseteq concluded \cup {p}
  /\ answers' = Append(answers, [number |-> current, to |-> asker])
  /\ Idle
  /\ UNCHANGED taken

Drop == Idle /\ UNCHANGED <<taken, answers>>

Next ==
  \/ \E n \in Numbers, t \in Askers, W \in SUBSET Ports : Accept(n, t, W)
  \/ \E n \in Numbers : Refuse(n)
  \/ \E p \in Ports : ConcludePort(p) \/ Answer(p)
  \/ Drop

Spec == Init /\ [][Next]_deskVars
=============================================================================
