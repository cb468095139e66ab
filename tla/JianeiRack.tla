----------------------------- MODULE JianeiRack -----------------------------
(***************************************************************************)
(* The main board with its interface boards and the worker at the rack.    *)
(*                                                                         *)
(* The firmware of an interface board is not in the repository; it is      *)
(* modelled from the frames the main board sends and the reports it reads. *)
(* A board arms the ports an order names, and reports every movement of a  *)
(* label at an armed port with the command byte of the order that armed    *)
(* it.  Told to conclude, it disarms the port and reports the result.      *)
(* Reports wait in the board until it is polled, one per poll              *)
(* (main.c:2179-2209), so they are read later than they happened, and      *)
(* after whatever requests came in between.                                *)
(***************************************************************************)
EXTENDS JianeiOrder, SequencesExt

CONSTANTS
  MaxReports,    \* bound of a board's queue, on the worker's movements
  Results,       \* the results a board may give of a conclusion
  FirstLabels    \* the ways labels may be in the rack at the start

ASSUME RackBoundAssumption ==
  /\ MaxReports \in Nat \ {0}
  /\ Results \subseteq BOOLEAN
  /\ FirstLabels \subseteq [Ports -> Eids \cup {NoEid}]

VARIABLES
  armed,    \* what each port was armed for
  tag,      \* the label in each port
  outbox    \* the reports each board has not been polled for

rackVars == <<vars, armed, tag, outbox>>

NotArmed == [cmd |-> NoKind, full |-> FALSE]

Movement(cmd, what, p, e) == [cmd |-> cmd, what |-> what, port |-> p, eid |-> e, ok |-> TRUE]
Conclusion(cmd, p, ok) == [cmd |-> cmd, what |-> CONCLUDED, port |-> p, eid |-> NoEid, ok |-> ok]

Addressed(frames, ops) == UNION {fr.ports : fr \in {g \in frames : g.op \in ops}}

(***************************************************************************)
(* What the boards make of the frames of this step: all of them took their *)
(* frame if all acknowledged; otherwise any of the well-formed ones may    *)
(* have been taken, its acknowledgement lost.  box: the queues before.     *)
(***************************************************************************)
Deliver(box) ==
  \E got \in SUBSET {fr \in sent'.frames : fr.whole}, ok \in Results :
    LET done == {p \in Addressed(got, {CONFIRM}) : armed[p] # NotArmed}
        ordered == Addressed(got, Kinds)
        freed == Addressed(got, {CANCEL}) \cup done
        conclusions(b) == SetToSeq({Conclusion(armed[p].cmd, p, ok) :
                                      p \in {x \in done : BoardOf[x] = b}})
    IN  /\ sent'.acked => got = sent'.frames
        /\ armed' = [p \in Ports |->
             IF p \in ordered
             THEN [cmd |-> (CHOOSE fr \in got : fr.op \in Kinds /\ p \in fr.ports).op,
                   full |-> tag[p] # NoEid]
             ELSE IF p \in freed THEN NotArmed ELSE armed[p]]
        /\ outbox' = [b \in Boards |-> box[b] \o conclusions(b)]

Ask == (Request \/ CancelRequest) /\ Deliver(outbox) /\ UNCHANGED tag

(* a board is polled and its oldest report handled *)
Poll(b) ==
  /\ alive
  /\ outbox[b] # <<>>
  /\ LET r == Head(outbox[b])
     IN  IF r.what = CONCLUDED THEN ConcludeReport(r.cmd, r.port, r.ok)
         ELSE MoveReport(r.cmd, r.what, r.port, r.eid)
  /\ Deliver([outbox EXCEPT ![b] = Tail(@)])
  /\ UNCHANGED tag

(* the worker puts a label in or takes it out; an armed port reports it *)
MoveLabel(p, e) ==
  LET out == tag[p] # NoEid
      what == IF armed[p].full THEN (IF out THEN PULLED ELSE REINSERTED)
                               ELSE (IF out THEN PULLEDBACK ELSE INSERTED)
  IN  /\ out => e = tag[p]
      /\ armed[p] # NotArmed
      /\ Len(outbox[BoardOf[p]]) < MaxReports
      /\ tag' = [tag EXCEPT ![p] = IF out THEN NoEid ELSE e]
      /\ outbox' = [outbox EXCEPT ![BoardOf[p]] =
                      Append(@, Movement(armed[p].cmd, what, p, e))]
      /\ UNCHANGED <<vars, armed>>

Reboot == Restart /\ UNCHANGED <<armed, tag, outbox>>

RackInit ==
  /\ Init
  /\ armed = [p \in Ports |-> NotArmed]
  /\ tag \in FirstLabels
  /\ outbox = [b \in Boards |-> <<>>]

RackNext ==
  \/ alive /\ Ask
  \/ \E b \in Boards : Poll(b)
  \/ \E p \in Ports, e \in Eids : MoveLabel(p, e)
  \/ Reboot

(***************************************************************************)
(* The poll thread visits the boards in turn and never stops; the watchdog *)
(* reboots a dead rack.  Nothing is assumed of askers and worker.          *)
(***************************************************************************)
RackSpec ==
  /\ RackInit
  /\ [][RackNext]_rackVars
  /\ \A b \in Boards : WF_rackVars(Poll(b))
  /\ WF_rackVars(Reboot)

-----------------------------------------------------------------------------
(* The board of port p has done its part: it watches the port no more, and *)
(* the last it had to say of it is the result for the order in hand.       *)
Settled(p) ==
  LET waiting == SelectSeq(outbox[BoardOf[p]], LAMBDA r : r.port = p)
      flag == IF eid_port1.port = p THEN eid_port1.flag ELSE eid_port2.flag
  IN  /\ armed[p] = NotArmed
      /\ IF waiting = <<>> THEN flag = CONCLUDED
         ELSE Last(waiting).what = CONCLUDED /\ Last(waiting).cmd = kind

AllSettled(n) == ord.number = n /\ OrderPorts # {} /\ \A p \in OrderPorts : Settled(p)

(* Once the boards of all its ports have concluded an order, the order     *)
(* ends, whatever movements, repeated confirms and reports of orders that  *)
(* were withdrawn or replaced are still waiting in front of the results.   *)
SettledOrderEnds == \A n \in Numbers : AllSettled(n) ~> ord.number # n
=============================================================================
