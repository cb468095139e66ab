------------------------ MODULE JianeiOrderlyProofs -------------------------
(***************************************************************************)
(* The single orders of a rack whose boards report only about the order in *)
(* hand, for every rack.  They implement OrderDesk; boards are told to     *)
(* conclude when every label is in place, and the two labels kept agree.   *)
(***************************************************************************)
EXTENDS JianeiOrderProofs

(* What the flags and the port records say of the order in hand: an order  *)
(* of one port has one, no order has none, and a flag of conclusion stands *)
(* for a conclusion of this order.                                         *)
PortsOfOrder ==
  /\ kind \in SingleKinds => eid_port2.port = NoPort
  /\ ord.number = NoNumber => eid_port1.port = NoPort /\ eid_port2.port = NoPort

DeskInv == TypeOK /\ FlagsAreOfThisOrder /\ PortsOfOrder

(* A step of OrderlySpec is a step of Spec. *)
LEMMA OrderlyIsStep ==
  ASSUME [OrderlyNext]_vars
  PROVE  [Next]_vars
BY DEF OrderlyNext, Next

(* Every outcome keeps the ports to the order. *)
LEMMA PortsStep ==
  ASSUME TypeOK, PortsOfOrder, Outcome
  PROVE  PortsOfOrder'
<1>1. ASSUME DropOrder
      PROVE  PortsOfOrder'
  BY <1>1 DEF DropOrder, ForgetPorts, FreshPort, PortsOfOrder
<1>2. CASE Asked
  <2>1. PICK n \in Numbers, to \in Askers :
          \/ DropOrder
          \/ \E cmd \in Kinds, p \in Ports, q \in Ports \cup {NoPort} :
               /\ cmd \in SingleKinds => q = NoPort
               /\ TakeOrder(cmd, n, to, p, q)
          \/ /\ ord' = [number |-> n, to |-> MOBILE]
             /\ eid_port1' = FreshPort(NoPort)
             /\ eid_port2' = FreshPort(NoPort)
    BY <1>2 DEF Asked
  <2> QED
    BY <1>1, <2>1, AskerAssumption DEF TakeOrder, FreshPort, PortsOfOrder
<1>3. CASE Noted
  BY <1>1, <1>3 DEF Noted, GoesOn, Kept, PortsOfOrder
<1>4. CASE Died
  BY <1>4 DEF Died, orderVars, PortsOfOrder
<1>5. CASE ConclusionNoted
  <2>1. \A p, ok : /\ Flagged(eid_port1, p, ok).port = eid_port1.port
                   /\ Flagged(eid_port2, p, ok).port = eid_port2.port
    BY DEF Flagged, TypeOK, OrderTypeOK, PortSlots
  <2> QED
    BY <1>5, <2>1 DEF ConclusionNoted, PortsOfOrder
<1> QED
  BY <1>1, <1>2, <1>3, <1>4, <1>5 DEF Outcome, Withdrawn, Answered, Success, Rebooted

(* The invariant of the refinement. *)
LEMMA DeskInvStep ==
  ASSUME DeskInv, [Next]_vars
  PROVE  DeskInv'
BY StepType, StepOutcome, FlagsStep, PortsStep DEF DeskInv

-----------------------------------------------------------------------------
(* The steps.                                                              *)

(* An order that goes, goes from the desk. *)
LEMMA DropMaps ==
  ASSUME DropOrder
  PROVE  /\ ord'.number = NoNumber
         /\ ord'.to = MOBILE
         /\ OrderPorts' = {}
         /\ confirmed' = {}
BY DEF DropOrder, NoOrder, ForgetPorts, FreshPort, OrderPorts

(* A request is accepted or refused. *)
LEMMA RequestMaps ==
  ASSUME Asked
  PROVE  Desk!Next
<1>1. PICK n \in Numbers, to \in Askers :
        /\ n \notin used
        /\ used' = used \cup {n}
        /\ UNCHANGED replies
        /\ \/ DropOrder
           \/ \E cmd \in Kinds, p \in Ports, q \in Ports \cup {NoPort} :
                TakeOrder(cmd, n, to, p, q)
           \/ /\ ord' = [number |-> n, to |-> MOBILE]
              /\ eid_port1' = FreshPort(NoPort)
              /\ eid_port2' = FreshPort(NoPort)
              /\ confirmed' = {}
  BY DEF Asked
<1>2. CASE DropOrder
  BY <1>1, <1>2, DropMaps DEF Desk!Next, Desk!Refuse, Desk!Idle
<1>3. ASSUME NEW t \in Askers, ord' = [number |-> n, to |-> t], OrderPorts' \in SUBSET Ports,
             confirmed' = {}
      PROVE  Desk!Next
  <2>1. Desk!Accept(n, t, OrderPorts')
    BY <1>1, <1>3 DEF Desk!Accept
  <2> QED
    BY <1>3, <2>1 DEF Desk!Next
<1>4. CASE \E cmd \in Kinds, p \in Ports, q \in Ports \cup {NoPort} :
             TakeOrder(cmd, n, to, p, q)
  BY <1>3, <1>4 DEF TakeOrder, FreshPort, OrderPorts
<1>5. CASE /\ ord' = [number |-> n, to |-> MOBILE]
           /\ eid_port1' = FreshPort(NoPort)
           /\ eid_port2' = FreshPort(NoPort)
           /\ confirmed' = {}
  BY <1>3, <1>5 DEF FreshPort, OrderPorts, Askers
<1> QED
  BY <1>1, <1>2, <1>4, <1>5

(* A withdrawal, a movement, a death and a reboot drop the order or change *)
(* nothing the desk sees.                                                  *)
LEMMA OtherMaps ==
  ASSUME Withdrawn \/ Noted \/ Died \/ Rebooted
  PROVE  Desk!Next \/ UNCHANGED Desk!deskVars
<1>1. ASSUME DropOrder, UNCHANGED <<replies, used>>
      PROVE  Desk!Next
  BY <1>1, DropMaps DEF Desk!Next, Desk!Drop, Desk!Idle
<1>2. ASSUME GoesOn, UNCHANGED <<replies, used>>
      PROVE  UNCHANGED Desk!deskVars
  BY <1>2 DEF GoesOn, Kept, OrderPorts, Desk!deskVars
<1>3. ASSUME Died
      PROVE  UNCHANGED Desk!deskVars
  BY <1>3 DEF Died, orderVars, OrderPorts, Desk!deskVars
<1> QED
  BY <1>1, <1>2, <1>3 DEF Withdrawn, Noted, Rebooted, NothingEnds

(* The results the desk gives are the results written, without the labels. *)
Answers(s) == [i \in DOMAIN s |-> [number |-> s[i].number, to |-> s[i].to]]

(* One result more here is one answer more there. *)
LEMMA AppendMaps ==
  ASSUME NEW R, NEW s \in Seq(R), NEW r \in R
  PROVE  Answers(Append(s, r)) = Append(Answers(s), [number |-> r.number, to |-> r.to])
<1> DEFINE cut(x) == [number |-> x.number, to |-> x.to]
           t == [i \in DOMAIN s |-> cut(s[i])]
           D == {cut(s[i]) : i \in DOMAIN s} \cup {cut(r)}
<1> SUFFICES [i \in DOMAIN Append(s, r) |-> cut(Append(s, r)[i])] = Append(t, cut(r))
  BY DEF Answers
<1> HIDE DEF cut
<1>1. /\ Len(s) \in Nat
      /\ DOMAIN s = 1 .. Len(s)
      /\ DOMAIN Append(s, r) = 1 .. Len(s) + 1
      /\ \A i \in 1 .. Len(s) + 1 : Append(s, r)[i] = IF i = Len(s) + 1 THEN r ELSE s[i]
  OBVIOUS
<1>2. t \in Seq(D) /\ Len(t) = Len(s)
  BY <1>1
<1>3. /\ DOMAIN Append(t, cut(r)) = 1 .. Len(s) + 1
      /\ \A i \in 1 .. Len(s) + 1 :
           Append(t, cut(r))[i] = IF i = Len(s) + 1 THEN cut(r) ELSE cut(s[i])
  BY <1>1, <1>2
<1> QED
  BY <1>1, <1>2, <1>3

(* When the flags of all its ports are in, all but the one reporting had   *)
(* concluded already.                                                      *)
LEMMA FlagsComplete ==
  ASSUME DeskInv, NEW p \in OrderPorts, NEW ok \in BOOLEAN,
         Flagged(eid_port1, p, ok).flag = CONCLUDED,
         kind \in SingleKinds \/ FlagPair(p, ok).flag = CONCLUDED
  PROVE  OrderPorts \subseteq confirmed \cup {p}
<1>1. eid_port1.port = p \/ eid_port1.port \in confirmed
  BY DEF Flagged, DeskInv, FlagsAreOfThisOrder
<1>2. kind \in SingleKinds => eid_port2.port = NoPort
  BY DEF DeskInv, PortsOfOrder
<1>3. kind \in SingleKinds \/ eid_port2.port = p \/ eid_port2.port \in confirmed
  BY DEF FlagPair, Flagged, DeskInv, FlagsAreOfThisOrder
<1> QED
  BY <1>1, <1>2, <1>3 DEF OrderPorts

(* A success is the desk's answer, or loses the order with its socket. *)
LEMMA SuccessMaps ==
  ASSUME TypeOK, NEW p \in OrderPorts, ord.number # NoNumber, NEW e,
         OrderPorts \subseteq confirmed \cup {p}, Success(e)
  PROVE  Desk!Next
<1> DEFINE r == [number |-> ord.number, to |-> ord.to, eid |-> e]
<1>1. /\ DropOrder
      /\ UNCHANGED used
      /\ replies' \in {replies, Append(replies, r)}
  BY DEF Success
<1>2. CASE replies' = replies
  BY <1>1, <1>2, DropMaps DEF Desk!Next, Desk!Drop, Desk!Idle
<1>3. CASE replies' = Append(replies, r)
  <2> DEFINE T == [number : Numbers, to : Askers, eid : Eids \cup {NoEid}]
             R == T \cup {r}
  <2>1. replies \in Seq(R) /\ r \in R
    <3>1. replies \in Seq(T)
      BY DEF TypeOK, AskerTypeOK
    <3> HIDE DEF T, r
    <3> QED
      BY <3>1
  <2>2. Answers(replies') = Append(Answers(replies), [number |-> ord.number, to |-> ord.to])
    <3>1. Answers(Append(replies, r))
            = Append(Answers(replies), [number |-> r.number, to |-> r.to])
      <4> HIDE DEF R, r
      <4> QED
        BY <2>1, AppendMaps
    <3> QED
      BY <1>3, <3>1
  <2>3. p \in Ports
    BY DEF TypeOK, OrderTypeOK, PortSlots, OrderPorts
  <2>4. Desk!Answer(p)
    BY <1>1, <2>2, DropMaps DEF Answers, Desk!Answer, Desk!Idle
  <2> QED
    BY <2>3, <2>4 DEF Desk!Next
<1> QED
  BY <1>1, <1>2, <1>3

(* A conclusion is noted, answers the order, or kills the process. *)
LEMMA ConcludeMaps ==
  ASSUME DeskInv, NEW p \in OrderPorts, NEW ok \in BOOLEAN, kind \in Kinds,
         ConcludeReport(kind, p, ok)
  PROVE  Desk!Next \/ UNCHANGED Desk!deskVars
<1>0. p \in Ports
  BY DEF DeskInv, TypeOK, OrderTypeOK, PortSlots, OrderPorts
<1>1. ASSUME NEW e2, e2 \in {eid_port2, FlagPair(p, ok)},
             kind \in SingleKinds \/ e2 = FlagPair(p, ok),
             Conclude(kind, p, ok, Flagged(eid_port1, p, ok), e2)
      PROVE  Desk!Next \/ UNCHANGED Desk!deskVars
  <2> DEFINE e1 == Flagged(eid_port1, p, ok)
             flags == IF kind \in SingleKinds THEN {e1.flag} ELSE {e1.flag, e2.flag}
  <2>1. CASE flags = {CONCLUDED} /\ ord.number # NoNumber /\ Success(e1.eid)
    <3>1. OrderPorts \subseteq confirmed \cup {p}
      BY <1>1, <2>1, FlagsComplete
    <3> QED
      BY <2>1, <3>1, SuccessMaps DEF DeskInv
  <2>2. CASE Crash
    BY <2>2, OtherMaps DEF Crash, Died
  <2>3. CASE /\ eid_port1' = e1
             /\ eid_port2' = e2
             /\ UNCHANGED <<ord, orderLed, kind, label>>
             /\ confirmed' = confirmed \cup (IF ok THEN {p} \cap OrderPorts ELSE {})
             /\ NothingSent
             /\ NothingEnds
    <3>1. e1.port = eid_port1.port /\ e2.port = eid_port2.port
      BY <1>1 DEF Flagged, FlagPair, DeskInv, TypeOK, OrderTypeOK, PortSlots
    <3>2. OrderPorts' = OrderPorts
      BY <2>3, <3>1 DEF OrderPorts
    <3>3. CASE ok
      <4>1. Desk!ConcludePort(p)
        BY <2>3, <3>2, <3>3 DEF Desk!ConcludePort, NothingEnds
      <4> QED
        BY <1>0, <4>1 DEF Desk!Next
    <3>4. CASE ~ok
      BY <2>3, <3>2, <3>4 DEF Desk!deskVars, NothingEnds
    <3> QED
      BY <3>3, <3>4
  <2> QED
    BY <1>1, <2>1, <2>2, <2>3 DEF Conclude
<1>2. CASE kind \in SingleKinds
  BY <1>1, <1>2
     DEF ConcludeReport, ConcludedNew1, ConcludedDel1, SingleKinds, PairKinds,
         CMD_NEW_1_PORTS, CMD_DEL_1_PORTS, CMD_EXC_2_PORTS, CMD_NEW_2_PORTS, CMD_DEL_2_PORTS
<1>3. CASE kind \in PairKinds
  BY <1>1, <1>3
     DEF ConcludeReport, ConcludedPair, PairKinds,
         CMD_NEW_1_PORTS, CMD_DEL_1_PORTS, CMD_EXC_2_PORTS, CMD_NEW_2_PORTS, CMD_DEL_2_PORTS
<1> QED
  BY <1>2, <1>3 DEF Kinds

(* Every step of the rack is a step of the desk, or none. *)
LEMMA StepMaps ==
  ASSUME DeskInv, [OrderlyNext]_vars
  PROVE  Desk!Next \/ UNCHANGED Desk!deskVars
<1>1. CASE Request
  BY <1>1, RequestOutcome, RequestMaps
<1>2. CASE CancelRequest
  BY <1>2, OtherMaps DEF CancelRequest, Cancel, Withdrawn
<1>3. ASSUME NEW cmd \in Kinds, NEW what \in Movements, NEW p \in Ports, NEW e \in Eids,
             MoveReport(cmd, what, p, e)
      PROVE  Desk!Next \/ UNCHANGED Desk!deskVars
  BY <1>3, MoveOutcome, OtherMaps DEF DeskInv
<1>4. ASSUME NEW cmd \in Kinds, NEW p \in OrderPorts, NEW ok \in BOOLEAN,
             cmd = kind, ConcludeReport(cmd, p, ok)
      PROVE  Desk!Next \/ UNCHANGED Desk!deskVars
  BY <1>4, ConcludeMaps
<1>5. ASSUME NEW b \in Boards, PollAck(b)
      PROVE  Desk!Next \/ UNCHANGED Desk!deskVars
  BY <1>5, OtherMaps DEF PollAck, NothingEnds, Died
<1>6. CASE Restart
  BY <1>6, OtherMaps DEF Restart, Rebooted
<1>7. CASE UNCHANGED vars
  BY <1>7, OtherMaps DEF vars, orderVars, Died
<1> QED
  BY <1>1, <1>2, <1>3, <1>4, <1>5, <1>6, <1>7 DEF OrderlyNext

(* The rack starts as the desk does. *)
LEMMA InitMaps ==
  ASSUME Init
  PROVE  Desk!Init /\ DeskInv
<1>1. OrderPorts = {}
  BY DEF Init, FreshPort, OrderPorts
<1>2. Desk!Init
  BY <1>1 DEF Init, NoOrder, Desk!Init
<1>3. FlagsAreOfThisOrder /\ PortsOfOrder
  BY DEF Init, FreshPort, FlagsAreOfThisOrder, PortsOfOrder, BLANK, CONCLUDED
<1> QED
  BY <1>2, <1>3, InitType DEF DeskInv

(* While boards report only about the order in hand, an order is answered  *)
(* to the one who asked, once, and only when every port but at most the    *)
(* one reporting had reported a good conclusion of this very order.        *)
THEOREM DeskImplemented == OrderlySpec => KeepsDesk
<1>1. Init => Desk!Init /\ DeskInv
  BY InitMaps
<1>2. DeskInv /\ [OrderlyNext]_vars => DeskInv'
  BY OrderlyIsStep, DeskInvStep
<1>3. DeskInv /\ [OrderlyNext]_vars => [Desk!Next]_(Desk!deskVars)
  BY StepMaps
<1> QED
  BY <1>1, <1>2, <1>3, PTL DEF OrderlySpec, KeepsDesk, Desk!Spec

-----------------------------------------------------------------------------
port1 == eid_port1.port
port2 == eid_port2.port

(* An order has the ports of its kind; one for another rack (new 2) has none. *)
OrderShape ==
  /\ kind = NoKind => port1 = NoPort /\ port2 = NoPort
  /\ kind \in SingleKinds => port1 \in Ports /\ port2 = NoPort
  /\ kind \in PairKinds => \/ port1 = NoPort /\ port2 = NoPort
                           \/ port1 \in Ports /\ port2 \in Ports /\ port1 # port2

(* What the records say of a label is what was reported of it last. *)
RecordsTrue ==
  /\ kind # CMD_NEW_2_PORTS => eid_port2.eid = NoEid
  /\ kind = CMD_EXC_2_PORTS /\ eid_port1.moved = PULLED => label[port1] = PULLED
  /\ kind = CMD_DEL_2_PORTS =>
       /\ eid_port1.flag = PULLED => label[port1] = PULLED
       /\ eid_port2.flag = PULLED => label[port2] = PULLED
  /\ kind = CMD_NEW_2_PORTS =>
       /\ eid_port1.eid # NoEid => label[port1] = INSERTED
       /\ eid_port2.eid # NoEid => label[port2] = INSERTED

LabelInv == OrderShape /\ RecordsTrue /\ LabelsAgree /\ ConfirmFollowsLabels

NoConfirm == \A fr \in sent.frames : fr.op # CONFIRM
Calm(tx) == \A b \in Boards : tx[b] # NoFrame => tx[b].op # CONFIRM

(* The command bytes and movements differ. *)
LEMMA Bytes ==
  /\ Kinds = {CMD_NEW_1_PORTS, CMD_EXC_2_PORTS, CMD_DEL_1_PORTS, CMD_NEW_2_PORTS, CMD_DEL_2_PORTS}
  /\ SingleKinds = {CMD_NEW_1_PORTS, CMD_DEL_1_PORTS}
  /\ PairKinds = {CMD_EXC_2_PORTS, CMD_NEW_2_PORTS, CMD_DEL_2_PORTS}
  /\ CMD_EXC_2_PORTS \notin SingleKinds /\ CMD_NEW_2_PORTS \notin SingleKinds
  /\ CMD_DEL_2_PORTS \notin SingleKinds
  /\ CMD_NEW_1_PORTS # CMD_DEL_1_PORTS
  /\ CMD_EXC_2_PORTS # CMD_NEW_2_PORTS /\ CMD_EXC_2_PORTS # CMD_DEL_2_PORTS
  /\ CMD_DEL_2_PORTS # CMD_NEW_2_PORTS
  /\ CONFIRM \notin Kinds /\ CONFIRM \notin {REDIRECT, OUTPUT, CANCEL}
  /\ NoKind \notin Kinds
  /\ PULLED # BLANK /\ INSERTED # BLANK /\ PULLED # INSERTED /\ PULLED # REINSERTED
  /\ PULLED # CONCLUDED /\ PULLED # FAILED
  /\ Placed(PULLED) = PULLED /\ Placed(INSERTED) = INSERTED
BY DEF Kinds, SingleKinds, PairKinds, CMD_NEW_1_PORTS, CMD_DEL_1_PORTS, CMD_EXC_2_PORTS,
       CMD_NEW_2_PORTS, CMD_DEL_2_PORTS, CONFIRM, REDIRECT, OUTPUT, CANCEL, NoKind, PULLED,
       INSERTED, BLANK, REINSERTED, CONCLUDED, FAILED, Placed

-----------------------------------------------------------------------------
(* A slot written with a frame that is no confirm stays calm. *)
LEMMA StageCalm ==
  ASSUME NEW tx \in Lines, Calm(tx), NEW p, NEW fr, fr.op # CONFIRM
  PROVE  Calm(Stage(tx, p, fr))
BY DEF Stage, Calm, Lines

(* Frames of another operation leave the slots without a confirm. *)
LEMMA PairStageCalm ==
  ASSUME NEW tx \in Lines, Calm(tx), NEW p, NEW q,
         NEW op \in Kinds \cup {REDIRECT, OUTPUT, CANCEL}
  PROVE  Calm(PairStage(tx, op, p, q))
<1>1. op # CONFIRM
  BY Bytes
<1>2. \A S : Frame(op, S).op # CONFIRM
  BY <1>1 DEF Frame
<1>3. Stage(tx, p, Frame(op, {p} \cap Ports)) \in Lines
  BY FrameType, StageType
<1>4. Calm(Stage(tx, p, Frame(op, {p} \cap Ports)))
  BY <1>2, StageCalm
<1>5. Calm(Stage(tx, p, Frame(op, {p, q} \cap Ports)))
  BY <1>2, StageCalm
<1>6. Calm(Stage(Stage(tx, p, Frame(op, {p} \cap Ports)), q, Frame(op, {q} \cap Ports)))
  BY <1>2, <1>3, <1>4, StageCalm
<1> QED
  BY <1>5, <1>6 DEF PairStage

(* So does the notice of a label pulled back out. *)
LEMMA OutputStageCalm ==
  ASSUME NEW tx \in Lines, Calm(tx), NEW p, NEW q
  PROVE  Calm(OutputStage(tx, p, q))
<1> DEFINE torn == [Frame(OUTPUT, {p} \cap Ports) EXCEPT !.whole = FALSE]
<1>1. OUTPUT # CONFIRM
  BY Bytes
<1>2. \A S : Frame(OUTPUT, S).op # CONFIRM
  BY <1>1 DEF Frame
<1>3. torn.op # CONFIRM
  BY <1>1 DEF Frame
<1>4. Stage(tx, p, torn) \in Lines
  BY FrameType, StageType
<1> HIDE DEF torn
<1>5. Calm(Stage(tx, p, torn))
  BY <1>3, StageCalm
<1>6. Calm(Stage(Stage(tx, p, torn), q, Frame(OUTPUT, {q} \cap Ports)))
  BY <1>2, <1>4, <1>5, StageCalm
<1>7. Calm(Stage(tx, p, Frame(OUTPUT, {p, q} \cap Ports)))
  BY <1>2, StageCalm
<1> QED
  BY <1>6, <1>7 DEF OutputStage, torn

(* A transmission sends what is staged. *)
LEMMA TransmitCalm ==
  ASSUME NEW tx, Calm(tx), NEW ok, Transmit(tx, ok)
  PROVE  NoConfirm'
BY DEF Transmit, Staged, Calm, NoConfirm

(* Nothing sent is no confirm. *)
LEMMA SilenceCalm == ASSUME sent' = Silence PROVE NoConfirm'
BY DEF Silence, NoConfirm

(* Between handlers no confirm is staged. *)
LEMMA SlotsCalm ==
  ASSUME TypeOK, OnlyOutputLingers
  PROVE  txBuf \in Lines /\ Calm(txBuf)
BY Bytes DEF TypeOK, LineTypeOK, Lines, OnlyOutputLingers, Calm

(* Without a confirm there is nothing to follow. *)
LEMMA CalmFollows == ASSUME NoConfirm' PROVE ConfirmFollowsLabels'
BY DEF NoConfirm, ConfirmFollowsLabels

-----------------------------------------------------------------------------
(* An order dropped leaves no record of a label. *)
LEMMA DropLabels == ASSUME DropOrder PROVE LabelInv'
<1>1. /\ ord'.number = NoNumber
      /\ eid_port1' = FreshPort(NoPort) /\ eid_port2' = FreshPort(NoPort)
      /\ kind' = NoKind
  BY DEF DropOrder, NoOrder, ForgetPorts
<1>2. OrderShape' /\ RecordsTrue' /\ LabelsAgree'
  BY <1>1, Bytes DEF OrderShape, RecordsTrue, LabelsAgree, FreshPort, port1, port2
<1>3. ConfirmFollowsLabels'
  BY <1>1 DEF ConfirmFollowsLabels
<1> QED
  BY <1>2, <1>3 DEF LabelInv

(* A new order knows of no label. *)
LEMMA FreshLabels ==
  ASSUME NEW cmd \in Kinds, NEW p, NEW q,
         \/ cmd \in SingleKinds /\ p \in Ports /\ q = NoPort
         \/ cmd \in PairKinds /\ p = NoPort /\ q = NoPort
         \/ cmd \in PairKinds /\ p \in Ports /\ q \in Ports \ {p},
         eid_port1' = FreshPort(p), eid_port2' = FreshPort(q), kind' = cmd, NoConfirm'
  PROVE  LabelInv'
<1>1. OrderShape'
  BY Bytes DEF OrderShape, FreshPort, port1, port2
<1>2. RecordsTrue' /\ LabelsAgree'
  BY Bytes DEF RecordsTrue, LabelsAgree, FreshPort
<1> QED
  BY <1>1, <1>2, CalmFollows DEF LabelInv

(* A request of a kind whose failure drops the order. *)
LEMMA StartLabels ==
  ASSUME TypeOK, OnlyOutputLingers,
         NEW cmd \in Kinds, NEW n, NEW to, NEW p \in Ports, NEW q, NEW mine \in BOOLEAN,
         \/ cmd \in SingleKinds /\ q = NoPort
         \/ cmd \in PairKinds /\ q \in Ports \ {p},
         StartOrder(cmd, n, to, p, q, mine)
  PROVE  LabelInv'
<1>1. CASE DropOrder
  BY <1>1, DropLabels
<1>2. ASSUME NEW ok \in BOOLEAN, Transmit(PairStage(txBuf, cmd, p, q), ok),
             TakeOrder(cmd, n, to, p, q)
      PROVE  LabelInv'
  <2>1. NoConfirm'
    BY <1>2, SlotsCalm, PairStageCalm, TransmitCalm
  <2> QED
    BY <1>2, <2>1, FreshLabels DEF TakeOrder
<1> QED
  BY <1>1, <1>2 DEF StartOrder

(* A request of any kind. *)
LEMMA RequestLabels ==
  ASSUME TypeOK, OnlyOutputLingers, Request
  PROVE  LabelInv'
<1>1. PICK n \in Numbers, to \in Askers, p \in Ports, mine \in BOOLEAN :
        \/ RequestNew1(n, to, p, mine)
        \/ RequestDel1(n, to, p, mine)
        \/ \E q \in Ports \ {p} :
             \/ RequestExc2(n, to, p, q, mine)
             \/ RequestNew2(n, to, p, q, mine)
             \/ RequestDel2(n, to, p, q, mine)
  BY DEF Request
<1>2. CASE RequestNew1(n, to, p, mine) \/ RequestDel1(n, to, p, mine)
  <2>1. ASSUME NEW cmd \in SingleKinds, StartOrder(cmd, n, to, p, NoPort, mine)
        PROVE  LabelInv'
    BY <2>1, StartLabels DEF Kinds
  <2> QED
    BY <1>2, <2>1, Bytes DEF RequestNew1, RequestDel1
<1>3. ASSUME NEW q \in Ports \ {p}, RequestExc2(n, to, p, q, mine) \/ RequestDel2(n, to, p, q, mine)
      PROVE  LabelInv'
  BY <1>3, StartLabels, Bytes DEF RequestExc2, RequestDel2
<1>4. ASSUME NEW q \in Ports \ {p}, RequestNew2(n, to, p, q, mine)
      PROVE  LabelInv'
  <2>1. CASE /\ NothingSent
             /\ eid_port1' = FreshPort(NoPort)
             /\ eid_port2' = FreshPort(NoPort)
             /\ kind' = CMD_NEW_2_PORTS
    <3>1. NoConfirm'
      BY <2>1, SilenceCalm DEF NothingSent
    <3> QED
      BY <2>1, <3>1, Bytes, FreshLabels
  <2>2. ASSUME NEW ok \in BOOLEAN, Transmit(PairStage(txBuf, CMD_NEW_2_PORTS, p, q), ok),
               TakeOrder(CMD_NEW_2_PORTS, n, to, p, q)
        PROVE  LabelInv'
    <3>1. NoConfirm'
      BY <2>2, SlotsCalm, PairStageCalm, TransmitCalm, Bytes
    <3> QED
      BY <2>2, <3>1, Bytes, FreshLabels DEF TakeOrder
  <2> QED
    BY <1>4, <2>1, <2>2 DEF RequestNew2
<1> QED
  BY <1>1, <1>2, <1>3, <1>4

-----------------------------------------------------------------------------
(* A conclusion changes flags only, and never to the mark of a pull. *)
LEMMA ConcludeLabels ==
  ASSUME TypeOK, LabelInv, NEW cmd \in Kinds, NEW p \in Ports, NEW ok \in BOOLEAN,
         ConcludeReport(cmd, p, ok)
  PROVE  LabelInv'
<1> DEFINE Same(e, d) == /\ d.port = e.port /\ d.eid = e.eid /\ d.moved = e.moved
                         /\ d.flag = PULLED => e.flag = PULLED
<1>1. \A e \in PortSlots : Same(e, e) /\ Same(e, Flagged(e, p, ok))
  BY Bytes DEF Flagged, PortSlots
<1>2. eid_port1 \in PortSlots /\ eid_port2 \in PortSlots
  BY DEF TypeOK, OrderTypeOK
<1>3. ASSUME NEW c, NEW e1, NEW e2, Same(eid_port1, e1), Same(eid_port2, e2),
             Conclude(c, p, ok, e1, e2)
      PROVE  LabelInv'
  <2>1. CASE \E e : Success(e)
    BY <2>1, DropLabels DEF Success
  <2>2. CASE Crash
    <3>1. NoConfirm' /\ UNCHANGED <<eid_port1, eid_port2, kind, label>>
      BY <2>2, SilenceCalm DEF Crash, orderVars
    <3> QED
      BY <3>1, CalmFollows DEF LabelInv, OrderShape, RecordsTrue, LabelsAgree, port1, port2
  <2>3. CASE /\ eid_port1' = e1
             /\ eid_port2' = e2
             /\ UNCHANGED <<kind, label>>
             /\ NothingSent
    <3>1. ConfirmFollowsLabels'
      BY <2>3, SilenceCalm, CalmFollows DEF NothingSent
    <3>2. OrderShape' /\ LabelsAgree'
      BY <1>3, <2>3 DEF LabelInv, OrderShape, LabelsAgree, port1, port2
    <3>3. RecordsTrue'
      BY <1>3, <2>3 DEF LabelInv, RecordsTrue, port1, port2
    <3> QED
      BY <3>1, <3>2, <3>3 DEF LabelInv
  <2> QED
    BY <1>3, <2>1, <2>2, <2>3 DEF Conclude
<1>4. Same(eid_port1, Flagged(eid_port1, p, ok)) /\ Same(eid_port2, eid_port2)
      /\ Same(eid_port2, FlagPair(p, ok))
  BY <1>1, <1>2 DEF FlagPair
<1> HIDE DEF Same
<1> QED
  BY <1>3, <1>4, Bytes DEF ConcludeReport, ConcludedNew1, ConcludedDel1, ConcludedPair

-----------------------------------------------------------------------------
(* Movements of the order in hand. *)

(* A port of the order is one of its kind's. *)
LEMMA OrderPort ==
  ASSUME TypeOK, LabelInv, NEW p \in OrderPorts
  PROVE  /\ p \in Ports /\ kind \in Kinds
         /\ kind \in SingleKinds => p = port1 /\ OrderPorts = {port1}
         /\ kind \in PairKinds => /\ p \in {port1, port2} /\ port1 # port2
                                 /\ port1 \in Ports /\ port2 \in Ports
                                 /\ OrderPorts = {port1, port2}
<1>1. p \in {port1, port2} /\ p # NoPort
  BY DEF OrderPorts, port1, port2
<1>2. kind \in Kinds \cup {NoKind} /\ Kinds = SingleKinds \cup PairKinds
  BY DEF TypeOK, OrderTypeOK, Kinds
<1>3. OrderShape
  BY DEF LabelInv
<1> QED
  BY <1>1, <1>2, <1>3, RackAssumption DEF OrderShape, OrderPorts, port1, port2

(* An order that stays in hand keeps its shape. *)
LEMMA StaysLabels ==
  ASSUME TypeOK, LabelInv, NEW what, NEW p \in OrderPorts, OrderStays(what, p),
         eid_port1'.port = port1, eid_port2'.port = port2, RecordsTrue', LabelsAgree',
         NoConfirm' \/ \A x \in OrderPorts : LabelDone(x)'
  PROVE  LabelInv'
<1>1. OrderShape'
  BY DEF OrderStays, LabelInv, OrderShape, port1, port2
<1>2. OrderPorts' = OrderPorts
  BY DEF OrderPorts, port1, port2
<1>3. ConfirmFollowsLabels'
  BY <1>2, CalmFollows DEF ConfirmFollowsLabels
<1> QED
  BY <1>1, <1>3 DEF LabelInv

(* What a movement leaves of the labels. *)
LEMMA StaysLabel ==
  ASSUME TypeOK, LabelInv, NEW what, NEW p \in OrderPorts, OrderStays(what, p)
  PROVE  /\ kind' = kind
         /\ label'[p] = Placed(what)
         /\ \A x \in Ports : x # p => label'[x] = label[x]
BY OrderPort DEF OrderStays, TypeOK, OrderTypeOK

(* A report that is ignored sends nothing, and no record tells of its port. *)
LEMMA QuietLabels ==
  ASSUME TypeOK, LabelInv, NEW what, NEW p \in OrderPorts, OrderStays(what, p),
         sent' = Silence, UNCHANGED <<eid_port1, eid_port2>>,
         \/ kind \in SingleKinds
         \/ kind = CMD_EXC_2_PORTS /\ p # port1
  PROVE  LabelInv'
<1>1. RecordsTrue' /\ LabelsAgree'
  BY StaysLabel, OrderPort, Bytes DEF LabelInv, RecordsTrue, LabelsAgree, port1, port2
<1> QED
  BY <1>1, SilenceCalm, StaysLabels DEF port1, port2

(* Orders of one port. *)
LEMMA SingleLabels ==
  ASSUME TypeOK, OnlyOutputLingers, LabelInv, NEW what \in Movements,
         NEW p \in OrderPorts, NEW e \in Eids,
         \/ kind = CMD_NEW_1_PORTS /\ MovedNew1(what, p, e)
         \/ kind = CMD_DEL_1_PORTS /\ MovedDel1(what, p, e)
  PROVE  LabelInv'
<1>1. CASE Ignore(what, p)
  BY <1>1, QuietLabels, Bytes DEF Ignore, NothingSent
<1>2. CASE PulledBackNew1(p)
  BY <1>2, QuietLabels, Bytes DEF PulledBackNew1
<1>3. ASSUME RecordAndConfirm(what, p, e),
             \/ kind = CMD_NEW_1_PORTS /\ what = INSERTED
             \/ kind = CMD_DEL_1_PORTS /\ what = PULLED
      PROVE  LabelInv'
  <2> DEFINE e1 == [eid_port1 EXCEPT !.eid = e]
  <2>1. DropOrder \/ (OrderStays(what, p) /\ eid_port1' = e1 /\ eid_port2' = eid_port2)
    BY <1>3 DEF RecordAndConfirm, TransmitOrDrop
  <2>2. CASE OrderStays(what, p) /\ eid_port1' = e1 /\ eid_port2' = eid_port2
    <3>1. eid_port1'.port = port1 /\ eid_port2'.port = port2
      BY <2>2 DEF TypeOK, OrderTypeOK, PortSlots, port1, port2
    <3>2. RecordsTrue' /\ LabelsAgree'
      BY <1>3, <2>2, StaysLabel, Bytes DEF LabelInv, RecordsTrue, LabelsAgree
    <3>3. OrderPorts = {p}
      BY <1>3, OrderPort, Bytes
    <3>4. LabelDone(p)'
      BY <1>3, <2>2, StaysLabel, Bytes DEF LabelDone
    <3> QED
      BY <2>2, <3>1, <3>2, <3>3, <3>4, StaysLabels
  <2> QED
    BY <2>1, <2>2, DropLabels
<1> QED
  BY <1>1, <1>2, <1>3
     DEF MovedNew1, MovedDel1, InsertedNew1, PulledDel1

(* The exchange: the old port is empty when its record says so. *)
LEMMA Exc2Labels ==
  ASSUME TypeOK, OnlyOutputLingers, LabelInv, NEW what \in Movements,
         NEW p \in OrderPorts, kind = CMD_EXC_2_PORTS, MovedExc2(what, p),
         what \in Expected(CMD_EXC_2_PORTS, p = port1)
  PROVE  LabelInv'
<1>0. what \in {PULLED, REINSERTED} <=> p = port1
  BY DEF Expected, CMD_NEW_1_PORTS, CMD_NEW_2_PORTS, CMD_DEL_1_PORTS, CMD_DEL_2_PORTS,
         CMD_EXC_2_PORTS, PULLED, REINSERTED, INSERTED, PULLEDBACK
<1>1. CASE what \in {PULLED, REINSERTED} /\ PulledExc2(what, p)
  <2>1. eid_port1' = [eid_port1 EXCEPT !.moved = what] /\ eid_port2' = eid_port2
    BY <1>0, <1>1 DEF PulledExc2, port1
  <2>2. /\ eid_port1'.port = port1 /\ eid_port2'.port = port2
        /\ eid_port1'.moved = what
    BY <2>1 DEF TypeOK, OrderTypeOK, PortSlots, port1, port2
  <2>3. RecordsTrue' /\ LabelsAgree'
    BY <1>0, <1>1, <2>1, <2>2, StaysLabel, Bytes
       DEF PulledExc2, LabelInv, RecordsTrue, LabelsAgree, port1
  <2> QED
    BY <1>1, <2>2, <2>3, SilenceCalm, StaysLabels DEF PulledExc2, NothingSent
<1>2. CASE what = INSERTED /\ InsertedExc2(p)
  <2>0. p # port1 /\ p = port2 /\ OrderPorts = {port1, port2}
    BY <1>0, <1>2, OrderPort, Bytes DEF INSERTED, PULLED, REINSERTED
  <2>1. CASE Ignore(INSERTED, p)
    BY <2>0, <2>1, QuietLabels DEF Ignore, NothingSent
  <2>2. CASE DropOrder
    BY <2>2, DropLabels
  <2>3. CASE /\ OrderStays(INSERTED, p) /\ UNCHANGED <<eid_port1, eid_port2>>
             /\ eid_port1.moved = PULLED
    <3>1. RecordsTrue' /\ LabelsAgree'
      BY <2>0, <2>3, StaysLabel, OrderPort, Bytes
         DEF LabelInv, RecordsTrue, LabelsAgree, port1, port2
    <3>2. label[port1] = PULLED
      BY <2>3 DEF LabelInv, RecordsTrue
    <3>3. label'[port1] = PULLED /\ label'[port2] = INSERTED
      BY <2>0, <2>3, <3>2, StaysLabel, OrderPort, Bytes
    <3>4. kind' = CMD_EXC_2_PORTS /\ eid_port1'.port = port1 /\ eid_port2'.port = port2
      BY <2>3, StaysLabel DEF port1, port2
    <3>5. ASSUME NEW x \in OrderPorts
          PROVE  LabelDone(x)'
      <4>1. label'[x] = IF x = eid_port1'.port THEN PULLED ELSE INSERTED
        BY <2>0, <3>3, <3>4
      <4> QED
        BY <3>4, <4>1, Bytes DEF LabelDone
    <3> QED
      BY <2>0, <2>3, <3>1, <3>4, <3>5, StaysLabels
  <2> QED
    BY <1>2, <2>1, <2>2, <2>3 DEF InsertedExc2, TransmitOrDrop
<1>3. CASE what = PULLEDBACK /\ PulledBackExc2(p)
  <2>1. p # port1
    BY <1>0, <1>3 DEF PULLEDBACK, PULLED, REINSERTED
  <2> QED
    BY <1>3, <2>1, QuietLabels DEF PulledBackExc2, NothingSent, port1
<1> QED
  BY <1>1, <1>2, <1>3 DEF MovedExc2, Movements

(* The removal: a record marked pulled has its label pulled. *)
LEMMA Del2Labels ==
  ASSUME TypeOK, OnlyOutputLingers, LabelInv, NEW what \in {PULLED, REINSERTED},
         NEW p \in OrderPorts, kind = CMD_DEL_2_PORTS, MovedDel2(what, p)
  PROVE  LabelInv'
<1> DEFINE e1 == Mark(eid_port1, p, what)
           e2 == MarkSecond(p, what)
<1>1. /\ p \in {port1, port2} /\ port1 # port2
      /\ port1 \in Ports /\ port2 \in Ports /\ OrderPorts = {port1, port2}
  BY OrderPort, Bytes
<1>2. /\ e1.port = port1 /\ e1.eid = eid_port1.eid
      /\ e1.flag = IF p = port1 THEN what ELSE eid_port1.flag
      /\ e2.port = port2 /\ e2.eid = eid_port2.eid
      /\ e2.flag = IF p = port2 THEN what ELSE eid_port2.flag
  BY <1>1 DEF Mark, MarkSecond, TypeOK, OrderTypeOK, PortSlots, port1, port2
<1>3. ASSUME OrderStays(what, p), eid_port1' = e1, eid_port2' = e2
      PROVE  /\ RecordsTrue' /\ LabelsAgree'
             /\ eid_port1'.port = port1 /\ eid_port2'.port = port2
             /\ e1.flag = PULLED /\ e2.flag = PULLED => \A x \in OrderPorts : LabelDone(x)'
  <2>1. /\ kind' = kind /\ label'[p] = Placed(what)
        /\ \A x \in Ports : x # p => label'[x] = label[x]
    BY <1>3, StaysLabel
  <2>2. /\ eid_port1.flag = PULLED => label[port1] = PULLED
        /\ eid_port2.flag = PULLED => label[port2] = PULLED
        /\ eid_port2.eid = NoEid
    BY Bytes DEF LabelInv, RecordsTrue
  <2>3. /\ e1.flag = PULLED => label'[port1] = PULLED
        /\ e2.flag = PULLED => label'[port2] = PULLED
    BY <1>1, <1>2, <2>1, <2>2, Bytes
  <2> HIDE DEF e1, e2
  <2>4. RecordsTrue' /\ LabelsAgree'
    BY <1>2, <1>3, <2>1, <2>2, <2>3, Bytes DEF RecordsTrue, LabelsAgree, port1, port2
  <2>5. ASSUME e1.flag = PULLED, e2.flag = PULLED, NEW x \in OrderPorts
        PROVE  LabelDone(x)'
    BY <1>1, <2>1, <2>3, <2>5, Bytes DEF LabelDone
  <2> QED
    BY <1>2, <1>3, <2>4, <2>5
<1>4. CASE what = PULLED /\ PulledDel2(p)
  <2> DEFINE tx == IF e1.flag = e2.flag THEN ConfirmBoth(txBuf) ELSE txBuf
  <2>1. PICK ok \in BOOLEAN :
          /\ Transmit(tx, ok)
          /\ IF ok THEN OrderStays(what, p) /\ eid_port1' = e1 /\ eid_port2' = e2
                   ELSE DropOrder
    BY <1>4 DEF PulledDel2, TransmitOrDrop
  <2>2. CASE e1.flag = e2.flag
    <3>1. e1.flag = PULLED /\ e2.flag = PULLED
      BY <1>1, <1>2, <1>4, <2>2
    <3> HIDE DEF e1, e2
    <3> QED
      BY <1>3, <2>1, <3>1, DropLabels, StaysLabels
  <2>3. CASE e1.flag # e2.flag
    <3>1. NoConfirm'
      BY <2>1, <2>3, SlotsCalm, TransmitCalm
    <3> HIDE DEF e1, e2
    <3> QED
      BY <1>3, <2>1, <3>1, DropLabels, StaysLabels
  <2> QED
    BY <2>2, <2>3
<1>5. CASE what = REINSERTED /\ ReinsertedDel2(p)
  <2>1. OrderStays(what, p) /\ eid_port1' = e1 /\ eid_port2' = e2 /\ NoConfirm'
    BY <1>5, SilenceCalm DEF ReinsertedDel2, NothingSent
  <2> HIDE DEF e1, e2
  <2> QED
    BY <1>3, <2>1, StaysLabels
<1> QED
  BY <1>4, <1>5, Bytes DEF MovedDel2

(* Passing a label on stages no confirm. *)
LEMMA PassCalm ==
  ASSUME NEW mine, NEW other, NEW e, txBuf \in Lines, Calm(txBuf)
  PROVE  PassLabel(mine, other, e) \in Lines /\ Calm(PassLabel(mine, other, e))
<1>1. \A S : Frame(REDIRECT, S).op # CONFIRM
  BY Bytes DEF Frame
<1>2. \A x : /\ Stage(txBuf, x, Frame(REDIRECT, {x} \cap Ports)) \in Lines
            /\ Calm(Stage(txBuf, x, Frame(REDIRECT, {x} \cap Ports)))
  BY <1>1, FrameType, StageType, StageCalm
<1> QED
  BY <1>2 DEF PassLabel

(* The labelling of two ends: a record with a label has it inserted. *)
LEMMA New2Labels ==
  ASSUME TypeOK, OnlyOutputLingers, LabelInv, NEW what \in {INSERTED, PULLEDBACK},
         NEW p \in OrderPorts, NEW e \in Eids, kind = CMD_NEW_2_PORTS,
         MovedNew2(what, p, e)
  PROVE  LabelInv'
<1>1. /\ p \in {port1, port2} /\ port1 # port2
      /\ port1 \in Ports /\ port2 \in Ports /\ OrderPorts = {port1, port2}
  BY OrderPort, Bytes
<1>2. /\ eid_port1.eid # NoEid => label[port1] = INSERTED
      /\ eid_port2.eid # NoEid => label[port2] = INSERTED
      /\ LabelsAgree
  BY DEF LabelInv, RecordsTrue
<1>3. ASSUME NEW e1, NEW e2, OrderStays(what, p), eid_port1' = e1, eid_port2' = e2,
             e1.port = port1, e2.port = port2,
             e1.eid # NoEid => label'[port1] = INSERTED,
             e2.eid # NoEid => label'[port2] = INSERTED,
             e1.eid # NoEid /\ e2.eid # NoEid => Compared[e1.eid] = Compared[e2.eid],
             NoConfirm' \/ (e1.eid # NoEid /\ e2.eid # NoEid)
      PROVE  LabelInv'
  <2>1. kind' = CMD_NEW_2_PORTS
    BY <1>3, StaysLabel
  <2>2. RecordsTrue' /\ LabelsAgree'
    BY <1>3, <2>1, Bytes DEF RecordsTrue, LabelsAgree, port1, port2
  <2>3. ASSUME e1.eid # NoEid, e2.eid # NoEid, NEW x \in OrderPorts
        PROVE  LabelDone(x)'
    BY <1>1, <1>3, <2>1, <2>3, Bytes DEF LabelDone
  <2> QED
    BY <1>3, <2>2, <2>3, StaysLabels
<1>4. CASE what = INSERTED /\ InsertedNew2(p, e)
  <2> DEFINE first == eid_port1.port = p
             second == ~first /\ eid_port2.port = p
             e1 == IF first THEN KeepLabel(eid_port1, eid_port2, e) ELSE eid_port1
             e2 == IF second THEN KeepLabel(eid_port2, eid_port1, e) ELSE eid_port2
             passed == CASE first -> PassLabel(eid_port1, eid_port2, e)
                         [] second -> PassLabel(eid_port2, eid_port1, e)
                         [] OTHER -> txBuf
             tx == IF Agree(e1, e2) THEN ConfirmBoth(passed) ELSE passed
  <2>1. PICK ok \in BOOLEAN : Transmit(tx, ok)
    BY <1>4 DEF InsertedNew2
  <2>2. OrderStays(INSERTED, p) /\ eid_port1' = e1 /\ eid_port2' = e2
    BY <1>4 DEF InsertedNew2
  <2>3. first \/ second
    BY <1>1 DEF port1, port2
  <2>4. passed \in Lines /\ Calm(passed)
    BY <2>3, PassCalm, SlotsCalm
  <2>5. ASSUME NEW d \in PortSlots, NEW other
        PROVE  /\ KeepLabel(d, other, e).port = d.port
               /\ \/ KeepLabel(d, other, e).eid = d.eid
                  \/ /\ KeepLabel(d, other, e).eid = e /\ d.eid = NoEid
                     /\ other.eid = NoEid \/ Compared[other.eid] = Compared[e]
    BY DEF KeepLabel, Keeps, PortSlots
  <2>6. eid_port1 \in PortSlots /\ eid_port2 \in PortSlots
    BY DEF TypeOK, OrderTypeOK
  <2>7. /\ e1.port = port1 /\ e2.port = port2
        /\ e1.eid # NoEid /\ e2.eid # NoEid => Compared[e1.eid] = Compared[e2.eid]
    BY <1>2, <2>3, <2>5, <2>6 DEF LabelsAgree, port1, port2
  <2>8. /\ e1.eid # NoEid => label'[port1] = INSERTED
        /\ e2.eid # NoEid => label'[port2] = INSERTED
    BY <1>1, <1>2, <2>2, StaysLabel, Bytes DEF port1, port2
  <2> HIDE DEF e1, e2, passed
  <2>9. NoConfirm' \/ (e1.eid # NoEid /\ e2.eid # NoEid)
    BY <2>1, <2>4, TransmitCalm DEF Agree
  <2> QED
    BY <1>3, <1>4, <2>2, <2>7, <2>8, <2>9
<1>5. CASE what = PULLEDBACK /\ PulledBackNew2(p)
  <2> DEFINE first == eid_port1.port = p
             second == ~first /\ eid_port2.port = p
             e1 == IF first THEN [eid_port1 EXCEPT !.eid = NoEid] ELSE eid_port1
             e2 == IF second THEN [eid_port2 EXCEPT !.eid = NoEid] ELSE eid_port2
  <2>1. \/ DropOrder
        \/ OrderStays(PULLEDBACK, p) /\ eid_port1' = e1 /\ eid_port2' = e2
    BY <1>5 DEF PulledBackNew2, TransmitOrDrop
  <2>2. NoConfirm'
    <3>1. Calm(OutputStage(txBuf, e1.port, e2.port))
      BY SlotsCalm, OutputStageCalm
    <3> QED
      BY <1>5, <3>1, TransmitCalm, SilenceCalm DEF PulledBackNew2, TransmitOrDrop, NothingSent
  <2>3. /\ e1.port = port1 /\ e2.port = port2
        /\ e1.eid = NoEid \/ (e1.eid = eid_port1.eid /\ p # port1)
        /\ e2.eid = NoEid \/ (e2.eid = eid_port2.eid /\ p # port2)
    BY <1>1 DEF TypeOK, OrderTypeOK, PortSlots, port1, port2
  <2> HIDE DEF e1, e2
  <2>4. ASSUME OrderStays(PULLEDBACK, p)
        PROVE  /\ e1.eid # NoEid => label'[port1] = INSERTED
               /\ e2.eid # NoEid => label'[port2] = INSERTED
    BY <1>1, <1>2, <2>3, <2>4, StaysLabel
  <2>5. e1.eid # NoEid /\ e2.eid # NoEid => Compared[e1.eid] = Compared[e2.eid]
    BY <1>1, <2>3
  <2> QED
    BY <1>3, <1>5, <2>1, <2>2, <2>3, <2>4, <2>5, DropLabels
<1> QED
  BY <1>4, <1>5, Bytes DEF MovedNew2, PULLEDBACK, INSERTED

(* A report the order expects. *)
LEMMA MoveLabels ==
  ASSUME TypeOK, OnlyOutputLingers, LabelInv, NEW cmd \in Kinds, NEW what \in Movements,
         NEW p \in Ports, NEW e \in Eids, OrderlyMove(cmd, what, p),
         MoveReport(cmd, what, p, e)
  PROVE  LabelInv'
<1>1. /\ cmd = kind /\ p \in OrderPorts /\ what \in Expected(cmd, p = port1)
  BY DEF OrderlyMove, port1
<1>2. CASE cmd = CMD_NEW_1_PORTS
  BY <1>1, <1>2, SingleLabels, Bytes DEF MoveReport
<1>3. CASE cmd = CMD_DEL_1_PORTS
  BY <1>1, <1>3, SingleLabels, Bytes DEF MoveReport
<1>4. CASE cmd = CMD_EXC_2_PORTS
  BY <1>1, <1>4, Exc2Labels, Bytes DEF MoveReport
<1>5. CASE cmd = CMD_NEW_2_PORTS
  <2>1. what \in {INSERTED, PULLEDBACK}
    BY <1>1, <1>5, Bytes DEF Expected
  <2> QED
    BY <1>1, <1>5, <2>1, New2Labels, Bytes DEF MoveReport
<1>6. CASE cmd = CMD_DEL_2_PORTS
  <2>1. what \in {PULLED, REINSERTED}
    BY <1>1, <1>6, Bytes DEF Expected
  <2> QED
    BY <1>1, <1>6, <2>1, Del2Labels, Bytes DEF MoveReport
<1> QED
  BY <1>2, <1>3, <1>4, <1>5, <1>6, Bytes

-----------------------------------------------------------------------------
(* What every step of OrderlySpec keeps. *)
OrderlyInv == TypeOK /\ OnlyOutputLingers /\ LabelInv

(* No order, no label, nothing said. *)
LEMMA InitLabels == ASSUME Init PROVE OrderlyInv
<1>1. OnlyOutputLingers
  BY DEF Init, OnlyOutputLingers, NoFrames
<1>2. OrderShape /\ RecordsTrue /\ LabelsAgree
  BY Bytes DEF Init, FreshPort, OrderShape, RecordsTrue, LabelsAgree, port1, port2
<1>3. ConfirmFollowsLabels
  BY DEF Init, Silence, ConfirmFollowsLabels
<1> QED
  BY <1>1, <1>2, <1>3, InitType DEF OrderlyInv, LabelInv

(* Every step. *)
LEMMA StepLabels == ASSUME OrderlyInv, [OrderlyNext]_vars PROVE OrderlyInv'
<1> USE DEF OrderlyInv
<1>1. TypeOK' /\ OnlyOutputLingers'
  BY OrderlyIsStep, StepType, StepSlots, SlotsStep
<1>2. CASE Request
  BY <1>1, <1>2, RequestLabels
<1>3. CASE CancelRequest \/ Restart
  BY <1>1, <1>3, DropLabels DEF CancelRequest, Cancel, Restart
<1>4. ASSUME NEW cmd \in Kinds, NEW what \in Movements, NEW p \in Ports, NEW e \in Eids,
             OrderlyMove(cmd, what, p), MoveReport(cmd, what, p, e)
      PROVE  OrderlyInv'
  BY <1>1, <1>4, MoveLabels
<1>5. ASSUME NEW cmd \in Kinds, NEW p \in Ports, NEW ok \in BOOLEAN,
             ConcludeReport(cmd, p, ok)
      PROVE  OrderlyInv'
  BY <1>1, <1>5, ConcludeLabels
<1>6. ASSUME UNCHANGED orderVars, sent' = Silence
      PROVE  LabelInv'
  <2>1. OrderShape' /\ RecordsTrue' /\ LabelsAgree'
    BY <1>6 DEF orderVars, LabelInv, OrderShape, RecordsTrue, LabelsAgree, port1, port2
  <2> QED
    BY <1>6, <2>1, SilenceCalm, CalmFollows DEF LabelInv
<1>7. ASSUME NEW b \in Boards, PollAck(b)
      PROVE  OrderlyInv'
  BY <1>1, <1>6, <1>7 DEF PollAck
<1>8. CASE UNCHANGED vars
  <2>1. OrderShape' /\ RecordsTrue' /\ LabelsAgree'
    BY <1>8 DEF vars, LabelInv, OrderShape, RecordsTrue, LabelsAgree, port1, port2
  <2>2. ConfirmFollowsLabels'
    BY <1>8 DEF vars, LabelInv, ConfirmFollowsLabels, LabelDone, OrderPorts
  <2> QED
    BY <1>1, <2>1, <2>2 DEF LabelInv
<1> QED
  BY <1>2, <1>3, <1>4, <1>5, <1>7, <1>8 DEF OrderlyNext

(* While boards report only about the order in hand, no board is told to   *)
(* conclude before the label of every port is where the order wants it:    *)
(* however labels are put in, pulled back and put in again.                *)
THEOREM ConfirmCorrect == OrderlySpec => []ConfirmFollowsLabels
<1>1. Init => OrderlyInv
  BY InitLabels
<1>2. OrderlyInv /\ [OrderlyNext]_vars => OrderlyInv'
  BY StepLabels
<1>3. OrderlyInv => ConfirmFollowsLabels
  BY DEF OrderlyInv, LabelInv
<1> QED
  BY <1>1, <1>2, <1>3, PTL DEF OrderlySpec

(* The two labels kept for an order of two ports agree on the bytes that   *)
(* were compared.                                                          *)
THEOREM LabelsCorrect == OrderlySpec => []LabelsAgree
<1>1. Init => OrderlyInv
  BY InitLabels
<1>2. OrderlyInv /\ [OrderlyNext]_vars => OrderlyInv'
  BY StepLabels
<1>3. OrderlyInv => LabelsAgree
  BY DEF OrderlyInv, LabelInv
<1> QED
  BY <1>1, <1>2, <1>3, PTL DEF OrderlySpec
=============================================================================
