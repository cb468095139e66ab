------------------------- MODULE JianeiOrderProofs --------------------------
(***************************************************************************)
(* Single orders, for every rack (any boards, ports, labels, numbers and   *)
(* sockets) and every report: type correctness and the safety invariants.  *)
(* A step is first reduced to what it does to the order in hand (lemma     *)
(* StepOutcome); each invariant is then preserved by every outcome.        *)
(***************************************************************************)
EXTENDS JianeiOrder, TLAPS

Lines == [Boards -> Frames \cup {NoFrame}]

-----------------------------------------------------------------------------
(* Staging keeps every slot a frame or empty. *)

(* Any part of the rack's ports makes a frame of any operation. *)
LEMMA FrameType ==
  ASSUME NEW op \in Kinds \cup {CONFIRM, REDIRECT, OUTPUT, CANCEL}, NEW S
  PROVE  /\ Frame(op, S \cap Ports) \in Frames
         /\ [Frame(op, S \cap Ports) EXCEPT !.whole = FALSE] \in Frames
BY DEF Frame, Frames

(* Stage writes one slot, or none. *)
LEMMA StageType ==
  ASSUME NEW tx \in Lines, NEW p, NEW fr \in Frames
  PROVE  Stage(tx, p, fr) \in Lines
BY RackAssumption DEF Stage, Lines

(* PairStage writes one slot or two. *)
LEMMA PairStageType ==
  ASSUME NEW tx \in Lines, NEW p, NEW q,
         NEW op \in Kinds \cup {CONFIRM, REDIRECT, OUTPUT, CANCEL}
  PROVE  PairStage(tx, op, p, q) \in Lines
<1>1. /\ Frame(op, {p, q} \cap Ports) \in Frames
      /\ Frame(op, {p} \cap Ports) \in Frames
      /\ Frame(op, {q} \cap Ports) \in Frames
  BY FrameType
<1>2. Stage(tx, p, Frame(op, {p, q} \cap Ports)) \in Lines
  BY <1>1, StageType
<1>3. Stage(tx, p, Frame(op, {p} \cap Ports)) \in Lines
  BY <1>1, StageType
<1>4. Stage(Stage(tx, p, Frame(op, {p} \cap Ports)), q, Frame(op, {q} \cap Ports)) \in Lines
  BY <1>1, <1>3, StageType
<1> QED
  BY <1>2, <1>4 DEF PairStage

(* So does OutputStage, its first frame without a length. *)
LEMMA OutputStageType ==
  ASSUME NEW tx \in Lines, NEW p, NEW q
  PROVE  OutputStage(tx, p, q) \in Lines
<1> DEFINE torn == [Frame(OUTPUT, {p} \cap Ports) EXCEPT !.whole = FALSE]
<1>1. /\ Frame(OUTPUT, {p, q} \cap Ports) \in Frames
      /\ torn \in Frames
      /\ Frame(OUTPUT, {q} \cap Ports) \in Frames
  BY FrameType
<1>2. Stage(tx, p, Frame(OUTPUT, {p, q} \cap Ports)) \in Lines
  BY <1>1, StageType
<1>3. Stage(tx, p, torn) \in Lines
  BY <1>1, StageType
<1>4. Stage(Stage(tx, p, torn), q, Frame(OUTPUT, {q} \cap Ports)) \in Lines
  BY <1>1, <1>3, StageType
<1> QED
  BY <1>2, <1>4 DEF OutputStage

-----------------------------------------------------------------------------
(* The routines the handlers are built from. *)

(* Transmit empties the slots and remembers what it wrote. *)
LEMMA TransmitType ==
  ASSUME NEW tx \in Lines, NEW ok \in BOOLEAN, Transmit(tx, ok)
  PROVE  LineTypeOK'
BY DEF Transmit, Staged, NoFrames, LineTypeOK, Lines

(* A handler that sends nothing leaves the slots alone. *)
LEMMA SilenceType ==
  ASSUME LineTypeOK, NothingSent
  PROVE  LineTypeOK'
BY DEF NothingSent, Silence, LineTypeOK

(* A fresh port record is a port record. *)
LEMMA FreshPortType ==
  ASSUME NEW p \in Ports \cup {NoPort}
  PROVE  FreshPort(p) \in PortSlots
BY DEF FreshPort, PortSlots

(* An order dropped leaves the order fields zeroed. *)
LEMMA DropType ==
  ASSUME DropOrder
  PROVE  OrderTypeOK'
BY FreshPortType DEF DropOrder, ForgetPorts, OrderTypeOK, NoOrder, Askers

(* An order taken fills them from the request. *)
LEMMA TakeType ==
  ASSUME NEW cmd \in Kinds, NEW n \in Numbers, NEW to \in Askers,
         NEW p \in Ports \cup {NoPort}, NEW q \in Ports \cup {NoPort},
         TakeOrder(cmd, n, to, p, q)
  PROVE  OrderTypeOK'
BY FreshPortType DEF TakeOrder, OrderTypeOK

(* An order that stays in hand changes in its port records only. *)
LEMMA StaysType ==
  ASSUME OrderTypeOK, NEW what, NEW p \in Ports, OrderStays(what, p),
         eid_port1' \in PortSlots, eid_port2' \in PortSlots
  PROVE  OrderTypeOK'
BY DEF OrderStays, OrderTypeOK, Placed

(* Send and, when a board does not answer, drop. *)
LEMMA TransmitOrDropType ==
  ASSUME OrderTypeOK, NEW tx \in Lines, NEW what, NEW p \in Ports,
         NEW e1 \in PortSlots, NEW e2 \in PortSlots,
         TransmitOrDrop(tx, what, p, e1, e2)
  PROVE  OrderTypeOK' /\ LineTypeOK'
<1>1. PICK ok \in BOOLEAN :
        /\ Transmit(tx, ok)
        /\ IF ok THEN OrderStays(what, p) /\ eid_port1' = e1 /\ eid_port2' = e2
                 ELSE DropOrder
  BY DEF TransmitOrDrop
<1>2. LineTypeOK'
  BY <1>1, TransmitType
<1>3. OrderTypeOK'
  BY <1>1, DropType, StaysType
<1> QED
  BY <1>2, <1>3

(* Every routine that ends a report keeps the asker's side as it was. *)
LEMMA NothingEndsType ==
  ASSUME AskerTypeOK, NothingEnds
  PROVE  AskerTypeOK'
BY DEF NothingEnds, AskerTypeOK

(* A report that is ignored changes no type. *)
LEMMA IgnoreType ==
  ASSUME TypeOK, NEW what, NEW p \in Ports, Ignore(what, p)
  PROVE  TypeOK'
<1>1. eid_port1' \in PortSlots /\ eid_port2' \in PortSlots
  BY DEF Ignore, TypeOK, OrderTypeOK
<1>2. OrderTypeOK'
  BY <1>1, StaysType DEF Ignore, TypeOK
<1>3. LineTypeOK'
  BY SilenceType DEF Ignore, TypeOK
<1> QED
  BY <1>2, <1>3, NothingEndsType DEF Ignore, TypeOK

(* A success writes a result, drops the order and sends nothing. *)
LEMMA SuccessType ==
  ASSUME TypeOK, ord.number # NoNumber, NEW e \in Eids \cup {NoEid}, Success(e)
  PROVE  TypeOK'
<1>1. PICK delivered \in BOOLEAN :
        /\ replies' = IF delivered
                      THEN Append(replies, [number |-> ord.number, to |-> ord.to,
                                            eid |-> e])
                      ELSE replies
        /\ sockets' = IF delivered THEN sockets ELSE sockets \ {ord.to}
        /\ DropOrder
        /\ NothingSent
        /\ UNCHANGED <<alive, used>>
  BY DEF Success
<1>2. OrderTypeOK' /\ LineTypeOK'
  BY <1>1, DropType, SilenceType DEF TypeOK
<1>3. ord.number \in Numbers /\ ord.to \in Askers
  BY DEF TypeOK, OrderTypeOK
<1>4. replies' \in Seq([number : Numbers, to : Askers, eid : Eids \cup {NoEid}])
  <2> DEFINE R == [number : Numbers, to : Askers, eid : Eids \cup {NoEid}]
             r == [number |-> ord.number, to |-> ord.to, eid |-> e]
  <2>1. replies \in Seq(R)
    BY DEF TypeOK, AskerTypeOK
  <2>2. r \in R
    BY <1>3
  <2> HIDE DEF R, r
  <2>3. Append(replies, r) \in Seq(R)
    BY <2>1, <2>2
  <2>4. replies' = IF delivered THEN Append(replies, r) ELSE replies
    BY <1>1 DEF r
  <2>5. replies' \in Seq(R)
    BY <2>1, <2>3, <2>4
  <2> QED
    BY <2>5 DEF R
<1>5. AskerTypeOK'
  BY <1>1, <1>4 DEF TypeOK, AskerTypeOK
<1> QED
  BY <1>2, <1>5 DEF TypeOK

(* A process that dies changes nothing but being alive. *)
LEMMA CrashType ==
  ASSUME TypeOK, Crash
  PROVE  TypeOK'
BY DEF Crash, orderVars, TypeOK, OrderTypeOK, LineTypeOK, AskerTypeOK, Silence

(* A flag is one of the flags. *)
LEMMA FlaggedType ==
  ASSUME NEW e \in PortSlots, NEW p, NEW ok
  PROVE  Flagged(e, p, ok) \in PortSlots
BY DEF Flagged, PortSlots

(* The conclusion of a port ends the order, the process, or neither. *)
LEMMA ConcludeType ==
  ASSUME TypeOK, NEW cmd, NEW p \in Ports, NEW ok \in BOOLEAN,
         NEW e1 \in PortSlots, NEW e2 \in PortSlots,
         Conclude(cmd, p, ok, e1, e2)
  PROVE  TypeOK'
<1> DEFINE flags == IF cmd \in SingleKinds THEN {e1.flag} ELSE {e1.flag, e2.flag}
<1>1. CASE ord.number # NoNumber /\ Success(e1.eid)
  <2>1. e1.eid \in Eids \cup {NoEid}
    BY DEF PortSlots
  <2> QED
    BY <1>1, <2>1, SuccessType
<1>2. CASE Crash
  BY <1>2, CrashType
<1>3. CASE /\ eid_port1' = e1
           /\ eid_port2' = e2
           /\ UNCHANGED <<ord, orderLed, kind, label>>
           /\ confirmed' = confirmed \cup (IF ok THEN {p} \cap OrderPorts ELSE {})
           /\ NothingSent
           /\ NothingEnds
  <2>1. OrderTypeOK'
    BY <1>3 DEF TypeOK, OrderTypeOK
  <2> QED
    BY <1>3, <2>1, SilenceType, NothingEndsType DEF TypeOK
<1> QED
  BY <1>1, <1>2, <1>3 DEF Conclude

-----------------------------------------------------------------------------
(* The actions. *)

(* A request of any kind. *)
LEMMA RequestType ==
  ASSUME TypeOK, Request
  PROVE  TypeOK'
<1>1. ASSUME NEW cmd \in Kinds, NEW n \in Numbers, NEW to \in Askers,
             NEW p \in Ports, NEW q \in Ports \cup {NoPort}, NEW mine \in BOOLEAN,
             StartOrder(cmd, n, to, p, q, mine)
      PROVE  TypeOK'
  <2>1. AskerTypeOK'
    BY <1>1 DEF StartOrder, Arrive, TypeOK, AskerTypeOK
  <2>2. CASE NothingSent /\ DropOrder
    BY <2>1, <2>2, SilenceType, DropType DEF TypeOK
  <2>3. CASE \E ok \in BOOLEAN :
               /\ Transmit(PairStage(txBuf, cmd, p, q), ok)
               /\ IF ok THEN TakeOrder(cmd, n, to, p, q) ELSE DropOrder
    <3>1. PairStage(txBuf, cmd, p, q) \in Lines
      BY PairStageType DEF TypeOK, LineTypeOK, Lines
    <3> QED
      BY <2>1, <2>3, <3>1, TransmitType, TakeType, DropType DEF TypeOK
  <2> QED
    BY <1>1, <2>2, <2>3 DEF StartOrder
<1>2. ASSUME NEW n \in Numbers, NEW to \in Askers, NEW p \in Ports,
             NEW q \in Ports, NEW mine \in BOOLEAN,
             RequestNew2(n, to, p, q, mine)
      PROVE  TypeOK'
  <2>1. AskerTypeOK'
    BY <1>2 DEF RequestNew2, Arrive, TypeOK, AskerTypeOK
  <2>2. CASE /\ NothingSent
             /\ ord' = [number |-> n, to |-> MOBILE]
             /\ eid_port1' = FreshPort(NoPort)
             /\ eid_port2' = FreshPort(NoPort)
             /\ UNCHANGED orderLed
             /\ kind' = CMD_NEW_2_PORTS
             /\ label' = [x \in Ports |-> BLANK]
             /\ confirmed' = {}
    <3>1. OrderTypeOK'
      BY <2>2, FreshPortType
         DEF TypeOK, OrderTypeOK, Askers, Kinds, PairKinds
    <3> QED
      BY <2>1, <2>2, <3>1, SilenceType DEF TypeOK
  <2>3. CASE /\ \E ok \in BOOLEAN :
                  Transmit(PairStage(txBuf, CMD_NEW_2_PORTS, p, q), ok)
             /\ TakeOrder(CMD_NEW_2_PORTS, n, to, p, q)
    <3>1. CMD_NEW_2_PORTS \in Kinds
      BY DEF Kinds, PairKinds
    <3>2. PairStage(txBuf, CMD_NEW_2_PORTS, p, q) \in Lines
      BY <3>1, PairStageType DEF TypeOK, LineTypeOK, Lines
    <3> QED
      BY <2>1, <2>3, <3>1, <3>2, TransmitType, TakeType DEF TypeOK
  <2> QED
    BY <1>2, <2>2, <2>3 DEF RequestNew2
<1>3. /\ CMD_NEW_1_PORTS \in Kinds /\ CMD_DEL_1_PORTS \in Kinds
      /\ CMD_EXC_2_PORTS \in Kinds /\ CMD_DEL_2_PORTS \in Kinds
  BY DEF Kinds, SingleKinds, PairKinds
<1> QED
  BY <1>1, <1>2, <1>3
     DEF Request, RequestNew1, RequestDel1, RequestExc2, RequestDel2

(* A cancel. *)
LEMMA CancelType ==
  ASSUME TypeOK, CancelRequest
  PROVE  TypeOK'
<1>1. PICK to \in Askers, p \in Ports : \E q \in (Ports \ {p}) \cup {NoPort} :
        Cancel(to, p, q)
  BY DEF CancelRequest
<1>2. PICK q \in (Ports \ {p}) \cup {NoPort} : Cancel(to, p, q)
  BY <1>1
<1>3. PairStage(txBuf, CANCEL, p, q) \in Lines
  BY PairStageType DEF TypeOK, LineTypeOK, Lines
<1>4. LineTypeOK'
  BY <1>2, <1>3, TransmitType DEF Cancel
<1>5. AskerTypeOK'
  BY <1>2 DEF Cancel, TypeOK, AskerTypeOK
<1> QED
  BY <1>2, <1>4, <1>5, DropType DEF Cancel, TypeOK

(* A report that is noted and sends nothing. *)
LEMMA QuietType ==
  ASSUME TypeOK, NEW what, NEW p \in Ports, OrderStays(what, p),
         eid_port1' \in PortSlots, eid_port2' \in PortSlots,
         NothingSent, NothingEnds
  PROVE  TypeOK'
BY StaysType, SilenceType, NothingEndsType DEF TypeOK

(* A report that makes the board send. *)
LEMMA SendType ==
  ASSUME TypeOK, NEW tx \in Lines, NEW what, NEW p \in Ports,
         NEW e1 \in PortSlots, NEW e2 \in PortSlots,
         TransmitOrDrop(tx, what, p, e1, e2), NothingEnds
  PROVE  TypeOK'
BY TransmitOrDropType, NothingEndsType DEF TypeOK

(* Frames staged for confirms, and for outputs. *)
LEMMA StagedType ==
  ASSUME TypeOK, NEW p, NEW q
  PROVE  /\ txBuf \in Lines
         /\ PairStage(txBuf, CONFIRM, p, q) \in Lines
         /\ OutputStage(txBuf, p, q) \in Lines
BY PairStageType, OutputStageType DEF TypeOK, LineTypeOK, Lines

(* The port records of a well-typed order. *)
LEMMA RecordType ==
  ASSUME TypeOK
  PROVE  /\ eid_port1 \in PortSlots /\ eid_port2 \in PortSlots
         /\ \A e \in Eids \cup {NoEid} : /\ [eid_port1 EXCEPT !.eid = e] \in PortSlots
                                        /\ [eid_port2 EXCEPT !.eid = e] \in PortSlots
         /\ \A w \in {PULLED, REINSERTED} : /\ [eid_port1 EXCEPT !.moved = w] \in PortSlots
                                            /\ [eid_port2 EXCEPT !.moved = w] \in PortSlots
                                            /\ [eid_port1 EXCEPT !.flag = w] \in PortSlots
                                            /\ [eid_port2 EXCEPT !.flag = w] \in PortSlots
BY DEF TypeOK, OrderTypeOK, PortSlots

(* A label recorded and confirmed, by the orders of one port. *)
LEMMA RecordAndConfirmType ==
  ASSUME TypeOK, NEW what, NEW p \in Ports, NEW e \in Eids, RecordAndConfirm(what, p, e)
  PROVE  TypeOK'
BY SendType, StagedType, RecordType DEF RecordAndConfirm

(* Reports about orders of one port. *)
LEMMA MovedSingleType ==
  ASSUME TypeOK, NEW what \in Movements, NEW p \in Ports, NEW e \in Eids,
         MovedNew1(what, p, e) \/ MovedDel1(what, p, e)
  PROVE  TypeOK'
<1>1. CASE Ignore(what, p)
  BY <1>1, IgnoreType
<1>2. CASE RecordAndConfirm(what, p, e)
  BY <1>2, RecordAndConfirmType
<1>3. CASE PulledBackNew1(p)
  <2>1. OrderTypeOK'
    <3>1. eid_port1' \in PortSlots /\ eid_port2' \in PortSlots
      BY <1>3, RecordType DEF PulledBackNew1
    <3> QED
      BY <1>3, <3>1, StaysType DEF PulledBackNew1, TypeOK
  <2>2. LineTypeOK'
    <3>1. txBuf' \in Lines
      BY <1>3, StagedType DEF PulledBackNew1
    <3> QED
      BY <1>3, <3>1 DEF PulledBackNew1, LineTypeOK, Lines, Silence
  <2> QED
    BY <1>3, <2>1, <2>2, NothingEndsType DEF PulledBackNew1, TypeOK
<1> QED
  BY <1>1, <1>2, <1>3
     DEF MovedNew1, MovedDel1, InsertedNew1, PulledDel1

(* Reports about an exchange. *)
LEMMA MovedExc2Type ==
  ASSUME TypeOK, NEW what \in Movements, NEW p \in Ports, MovedExc2(what, p)
  PROVE  TypeOK'
<1>1. CASE what \in {PULLED, REINSERTED} /\ PulledExc2(what, p)
  <2>1. eid_port1' \in PortSlots /\ eid_port2' \in PortSlots
    BY <1>1, RecordType DEF PulledExc2
  <2> QED
    BY <1>1, <2>1, QuietType DEF PulledExc2
<1>2. CASE InsertedExc2(p)
  BY <1>2, SendType, StagedType, RecordType, IgnoreType
     DEF InsertedExc2, ConfirmBoth
<1>3. CASE PulledBackExc2(p)
  <2>1. eid_port1' \in PortSlots /\ eid_port2' \in PortSlots
    BY <1>3, RecordType DEF PulledBackExc2
  <2> QED
    BY <1>3, <2>1, QuietType DEF PulledBackExc2
<1> QED
  BY <1>1, <1>2, <1>3 DEF MovedExc2, Movements

(* Reports about a removal of two labels. *)
LEMMA MovedDel2Type ==
  ASSUME TypeOK, NEW what \in Movements, NEW p \in Ports, MovedDel2(what, p)
  PROVE  TypeOK'
<1>1. \A w \in {PULLED, REINSERTED} : /\ Mark(eid_port1, p, w) \in PortSlots
                                      /\ MarkSecond(p, w) \in PortSlots
  BY RecordType DEF Mark, MarkSecond
<1>2. CASE PulledDel2(p)
  BY <1>1, <1>2, SendType, StagedType DEF PulledDel2, ConfirmBoth
<1>3. CASE ReinsertedDel2(p)
  BY <1>1, <1>3, QuietType DEF ReinsertedDel2
<1> QED
  BY <1>2, <1>3, IgnoreType DEF MovedDel2

(* Reports about an order that labels two ports. *)
LEMMA MovedNew2Type ==
  ASSUME TypeOK, NEW what \in Movements, NEW p \in Ports, NEW e \in Eids,
         MovedNew2(what, p, e)
  PROVE  TypeOK'
<1>1. CASE InsertedNew2(p, e)
  <2> DEFINE first == eid_port1.port = p
             second == ~first /\ eid_port2.port = p
             e1 == IF first THEN KeepLabel(eid_port1, eid_port2, e) ELSE eid_port1
             e2 == IF second THEN KeepLabel(eid_port2, eid_port1, e) ELSE eid_port2
             passed == CASE first -> PassLabel(eid_port1, eid_port2, e)
                         [] second -> PassLabel(eid_port2, eid_port1, e)
                         [] OTHER -> txBuf
             tx == IF Agree(e1, e2) THEN ConfirmBoth(passed) ELSE passed
  <2>1. e1 \in PortSlots /\ e2 \in PortSlots
    BY RecordType DEF KeepLabel
  <2>2. PassLabel(eid_port1, eid_port2, e) \in Lines
    BY StagedType, FrameType, StageType DEF PassLabel
  <2>3. PassLabel(eid_port2, eid_port1, e) \in Lines
    BY StagedType, FrameType, StageType DEF PassLabel
  <2>4. passed \in Lines
    BY <2>2, <2>3, StagedType
  <2>5. tx \in Lines
    BY <2>4, PairStageType DEF ConfirmBoth
  <2>6. /\ \E ok \in BOOLEAN : Transmit(tx, ok)
        /\ OrderStays(INSERTED, p)
        /\ eid_port1' = e1
        /\ eid_port2' = e2
        /\ NothingEnds
    BY <1>1 DEF InsertedNew2
  <2> QED
    BY <2>1, <2>5, <2>6, TransmitType, StaysType, NothingEndsType DEF TypeOK
<1>2. CASE PulledBackNew2(p)
  <2> DEFINE first == eid_port1.port = p
             second == ~first /\ eid_port2.port = p
             e1 == IF first THEN [eid_port1 EXCEPT !.eid = NoEid] ELSE eid_port1
             e2 == IF second THEN [eid_port2 EXCEPT !.eid = NoEid] ELSE eid_port2
  <2>1. e1 \in PortSlots /\ e2 \in PortSlots
    BY RecordType
  <2>2. CASE TransmitOrDrop(OutputStage(txBuf, e1.port, e2.port), PULLEDBACK, p, e1, e2)
             /\ NothingEnds
    BY <2>1, <2>2, SendType, StagedType
  <2>3. CASE /\ OrderStays(PULLEDBACK, p)
             /\ eid_port1' = e1
             /\ eid_port2' = e2
             /\ NothingSent
             /\ NothingEnds
    BY <2>1, <2>3, QuietType
  <2> QED
    BY <1>2, <2>2, <2>3 DEF PulledBackNew2
<1> QED
  BY <1>1, <1>2, IgnoreType DEF MovedNew2

(* A report of a movement, of any kind. *)
LEMMA MoveReportType ==
  ASSUME TypeOK, NEW cmd \in Kinds, NEW what \in Movements, NEW p \in Ports,
         NEW e \in Eids, MoveReport(cmd, what, p, e)
  PROVE  TypeOK'
<1>1. \/ MovedNew1(what, p, e) \/ MovedDel1(what, p, e) \/ MovedExc2(what, p)
      \/ MovedNew2(what, p, e) \/ MovedDel2(what, p)
  BY DEF MoveReport, Kinds, SingleKinds, PairKinds
<1> QED
  BY <1>1, MovedSingleType, MovedExc2Type, MovedNew2Type, MovedDel2Type

(* A report of a conclusion, of any kind. *)
LEMMA ConcludeReportType ==
  ASSUME TypeOK, NEW cmd \in Kinds, NEW p \in Ports, NEW ok \in BOOLEAN,
         ConcludeReport(cmd, p, ok)
  PROVE  TypeOK'
<1>1. /\ Flagged(eid_port1, p, ok) \in PortSlots
      /\ FlagPair(p, ok) \in PortSlots
      /\ eid_port2 \in PortSlots
  BY RecordType, FlaggedType DEF FlagPair
<1>2. \/ ConcludedNew1(p, ok) \/ ConcludedDel1(p, ok) \/ ConcludedPair(cmd, p, ok)
  BY DEF ConcludeReport, Kinds, SingleKinds
<1> QED
  BY <1>1, <1>2, ConcludeType DEF ConcludedNew1, ConcludedDel1, ConcludedPair

(* The acknowledgement of a poll empties a slot. *)
LEMMA PollAckType ==
  ASSUME TypeOK, NEW b \in Boards, PollAck(b)
  PROVE  TypeOK'
<1>1. OrderTypeOK'
  BY DEF PollAck, orderVars, TypeOK, OrderTypeOK
<1>2. LineTypeOK'
  BY DEF PollAck, Silence, TypeOK, LineTypeOK
<1> QED
  BY <1>1, <1>2, NothingEndsType DEF PollAck, TypeOK

(* The watchdog. *)
LEMMA RestartType ==
  ASSUME TypeOK, Restart
  PROVE  TypeOK'
<1>1. OrderTypeOK'
  BY DropType DEF Restart
<1>2. LineTypeOK'
  BY DEF Restart, NoFrames, Silence, LineTypeOK
<1>3. AskerTypeOK'
  BY DEF Restart, TypeOK, AskerTypeOK
<1> QED
  BY <1>1, <1>2, <1>3 DEF TypeOK

(* The initial state. *)
LEMMA InitType ==
  ASSUME Init
  PROVE  TypeOK
<1>1. OrderTypeOK
  BY FreshPortType DEF Init, OrderTypeOK, NoOrder, Askers
<1>2. LineTypeOK
  BY DEF Init, LineTypeOK, NoFrames, Silence
<1>3. AskerTypeOK
  BY DEF Init, AskerTypeOK
<1> QED
  BY <1>1, <1>2, <1>3 DEF TypeOK

(* Every step. *)
LEMMA StepType ==
  ASSUME TypeOK, [Next]_vars
  PROVE  TypeOK'
<1>1. CASE Request
  BY <1>1, RequestType
<1>2. CASE CancelRequest
  BY <1>2, CancelType
<1>3. ASSUME NEW cmd \in Kinds, NEW what \in Movements, NEW p \in Ports, NEW e \in Eids,
             MoveReport(cmd, what, p, e)
      PROVE  TypeOK'
  BY <1>3, MoveReportType
<1>4. ASSUME NEW cmd \in Kinds, NEW p \in Ports, NEW ok \in BOOLEAN,
             ConcludeReport(cmd, p, ok)
      PROVE  TypeOK'
  BY <1>4, ConcludeReportType
<1>5. ASSUME NEW b \in Boards, PollAck(b)
      PROVE  TypeOK'
  BY <1>5, PollAckType
<1>6. CASE Restart
  BY <1>6, RestartType
<1>7. CASE UNCHANGED vars
  BY <1>7 DEF vars, TypeOK, OrderTypeOK, LineTypeOK, AskerTypeOK
<1> QED
  BY <1>1, <1>2, <1>3, <1>4, <1>5, <1>6, <1>7 DEF Next

(* Whatever the boards report and whoever asks, the order in hand, the     *)
(* slots of the line and the results written keep to their types.          *)
THEOREM TypeCorrect == Spec => []TypeOK
<1>1. Init => TypeOK
  BY InitType
<1>2. TypeOK /\ [Next]_vars => TypeOK'
  BY StepType
<1> QED
  BY <1>1, <1>2, PTL DEF Spec

-----------------------------------------------------------------------------
(* What a step does to the order in hand.                                  *)

(* the record of a port goes on: same port, no conclusion out of nowhere *)
Kept(e, d) == d.port = e.port /\ (d.flag = CONCLUDED => e.flag = CONCLUDED)

GoesOn ==
  /\ UNCHANGED <<ord, orderLed, kind, confirmed>>
  /\ Kept(eid_port1, eid_port1')
  /\ Kept(eid_port2, eid_port2')

(* a movement is noted, or ends the order unanswered *)
Noted == NothingEnds /\ (GoesOn \/ DropOrder)

(* a request spends its number: refused, taken, or (new 2 for another rack) *)
(* taken without ports and without an asker                                 *)
Asked ==
  \E n \in Numbers, to \in Askers :
    /\ n \notin used
    /\ used' = used \cup {n}
    /\ Arrive(to)
    /\ UNCHANGED replies
    /\ \/ DropOrder
       \/ \E cmd \in Kinds, p \in Ports, q \in Ports \cup {NoPort} :
            /\ cmd \in SingleKinds => q = NoPort
            /\ TakeOrder(cmd, n, to, p, q)
       \/ /\ ord' = [number |-> n, to |-> MOBILE]
          /\ eid_port1' = FreshPort(NoPort)
          /\ eid_port2' = FreshPort(NoPort)
          /\ confirmed' = {}

Withdrawn ==
  /\ DropOrder
  /\ \E to \in Askers : sockets' = (sockets \cup ({to} \cap Fds)) \ {ord.to}
  /\ UNCHANGED <<replies, used>>

Answered == ord.number # NoNumber /\ \E e : Success(e)

Died == UNCHANGED <<orderVars, sockets, replies, used>>

(* a conclusion is noted *)
ConclusionNoted ==
  /\ UNCHANGED <<ord, orderLed, kind>>
  /\ NothingEnds
  /\ \E p \in Ports, ok \in BOOLEAN :
       /\ eid_port1' = Flagged(eid_port1, p, ok)
       /\ eid_port2' \in {eid_port2, Flagged(eid_port2, p, ok)}
       /\ confirmed' = confirmed \cup (IF ok THEN {p} \cap OrderPorts ELSE {})

Rebooted == DropOrder /\ sockets' = {} /\ UNCHANGED <<replies, used>>

(* A step of the rack has one of these outcomes.                           *)
Outcome ==
  Asked \/ Withdrawn \/ Noted \/ Answered \/ Died \/ ConclusionNoted \/ Rebooted

(* A record left alone, given a label or marked with a movement is kept. *)
LEMMA KeptRecords ==
  ASSUME TypeOK
  PROVE  \A e \in {eid_port1, eid_port2} :
           /\ Kept(e, e)
           /\ \A x : Kept(e, [e EXCEPT !.eid = x]) /\ Kept(e, [e EXCEPT !.moved = x])
           /\ \A w \in {PULLED, REINSERTED} : Kept(e, [e EXCEPT !.flag = w])
BY DEF Kept, TypeOK, OrderTypeOK, PortSlots, PULLED, REINSERTED, CONCLUDED

(* Sending keeps the records given to it, or ends the order. *)
LEMMA SendOutcome ==
  ASSUME NEW tx, NEW what, NEW p, NEW e1, NEW e2,
         TransmitOrDrop(tx, what, p, e1, e2), NothingEnds,
         Kept(eid_port1, e1), Kept(eid_port2, e2)
  PROVE  Noted
BY DEF TransmitOrDrop, OrderStays, Noted, GoesOn

(* Ignoring a report keeps them too. *)
LEMMA IgnoreOutcome ==
  ASSUME TypeOK, NEW what, NEW p, Ignore(what, p)
  PROVE  Noted
BY KeptRecords DEF Ignore, OrderStays, Noted, GoesOn

(* A movement is noted or ends the order, whatever the kind of its report. *)
LEMMA MoveOutcome ==
  ASSUME TypeOK, NEW cmd \in Kinds, NEW what \in Movements, NEW p \in Ports,
         NEW e \in Eids, MoveReport(cmd, what, p, e)
  PROVE  Noted
<1>1. CASE MovedNew1(what, p, e) \/ MovedDel1(what, p, e)
  <2>1. ASSUME NEW w, RecordAndConfirm(w, p, e)
        PROVE  Noted
    BY <2>1, KeptRecords, SendOutcome DEF RecordAndConfirm
  <2>2. ASSUME PulledBackNew1(p)
        PROVE  Noted
    BY <2>2, KeptRecords DEF PulledBackNew1, OrderStays, Noted, GoesOn
  <2> QED
    BY <1>1, <2>1, <2>2, IgnoreOutcome
       DEF MovedNew1, MovedDel1, InsertedNew1, PulledDel1
<1>2. CASE MovedExc2(what, p)
  <2>1. ASSUME PulledExc2(what, p)
        PROVE  Noted
    BY <2>1, KeptRecords DEF PulledExc2, OrderStays, Noted, GoesOn
  <2>2. ASSUME InsertedExc2(p)
        PROVE  Noted
    BY <2>2, KeptRecords, SendOutcome, IgnoreOutcome DEF InsertedExc2
  <2>3. ASSUME PulledBackExc2(p)
        PROVE  Noted
    BY <2>3, KeptRecords DEF PulledBackExc2, OrderStays, Noted, GoesOn
  <2> QED
    BY <1>2, <2>1, <2>2, <2>3 DEF MovedExc2, Movements
<1>3. CASE MovedDel2(what, p)
  <2>1. \A w \in {PULLED, REINSERTED} : /\ Kept(eid_port1, Mark(eid_port1, p, w))
                                       /\ Kept(eid_port2, MarkSecond(p, w))
    BY KeptRecords DEF Mark, MarkSecond
  <2>2. ASSUME PulledDel2(p)
        PROVE  Noted
    BY <2>1, <2>2, SendOutcome DEF PulledDel2
  <2>3. ASSUME ReinsertedDel2(p)
        PROVE  Noted
    BY <2>1, <2>3 DEF ReinsertedDel2, OrderStays, Noted, GoesOn
  <2> QED
    BY <1>3, <2>2, <2>3, IgnoreOutcome DEF MovedDel2
<1>4. CASE MovedNew2(what, p, e)
  <2>1. /\ Kept(eid_port1, KeepLabel(eid_port1, eid_port2, e))
        /\ Kept(eid_port2, KeepLabel(eid_port2, eid_port1, e))
    BY KeptRecords DEF KeepLabel
  <2>2. ASSUME InsertedNew2(p, e)
        PROVE  Noted
    BY <2>1, <2>2, KeptRecords DEF InsertedNew2, OrderStays, Noted, GoesOn
  <2>3. ASSUME PulledBackNew2(p)
        PROVE  Noted
    <3> DEFINE first == eid_port1.port = p
               second == ~first /\ eid_port2.port = p
               e1 == IF first THEN [eid_port1 EXCEPT !.eid = NoEid] ELSE eid_port1
               e2 == IF second THEN [eid_port2 EXCEPT !.eid = NoEid] ELSE eid_port2
    <3>1. Kept(eid_port1, e1) /\ Kept(eid_port2, e2)
      BY KeptRecords
    <3>2. CASE TransmitOrDrop(OutputStage(txBuf, e1.port, e2.port), PULLEDBACK, p, e1, e2)
               /\ NothingEnds
      BY <3>1, <3>2, SendOutcome
    <3>3. CASE /\ OrderStays(PULLEDBACK, p)
               /\ eid_port1' = e1
               /\ eid_port2' = e2
               /\ NothingEnds
      BY <3>1, <3>3 DEF OrderStays, Noted, GoesOn
    <3> QED
      BY <2>3, <3>2, <3>3 DEF PulledBackNew2
  <2> QED
    BY <1>4, <2>2, <2>3, IgnoreOutcome DEF MovedNew2
<1> QED
  BY <1>1, <1>2, <1>3, <1>4 DEF MoveReport, Kinds, SingleKinds, PairKinds

(* A conclusion is noted, answers the order or kills the process. *)
LEMMA ConcludeOutcome ==
  ASSUME NEW cmd \in Kinds, NEW p \in Ports, NEW ok \in BOOLEAN,
         ConcludeReport(cmd, p, ok)
  PROVE  Answered \/ Died \/ ConclusionNoted
<1>1. ASSUME NEW c, NEW e1, NEW e2,
             e1 = Flagged(eid_port1, p, ok), e2 \in {eid_port2, Flagged(eid_port2, p, ok)},
             Conclude(c, p, ok, e1, e2)
      PROVE  Answered \/ Died \/ ConclusionNoted
  <2>1. CASE ord.number # NoNumber /\ Success(e1.eid)
    BY <2>1 DEF Answered
  <2>2. CASE Crash
    BY <2>2 DEF Crash, Died
  <2>3. CASE /\ eid_port1' = e1
             /\ eid_port2' = e2
             /\ UNCHANGED <<ord, orderLed, kind, label>>
             /\ confirmed' = confirmed \cup (IF ok THEN {p} \cap OrderPorts ELSE {})
             /\ NothingSent
             /\ NothingEnds
    BY <1>1, <2>3 DEF ConclusionNoted
  <2> QED
    BY <1>1, <2>1, <2>2, <2>3 DEF Conclude
<1>2. FlagPair(p, ok) \in {eid_port2, Flagged(eid_port2, p, ok)}
  BY DEF FlagPair
<1> QED
  BY <1>1, <1>2
     DEF ConcludeReport, ConcludedNew1, ConcludedDel1, ConcludedPair, Kinds, SingleKinds

(* A request is refused or taken. *)
LEMMA RequestOutcome ==
  ASSUME Request
  PROVE  Asked
<1>1. ASSUME NEW cmd \in Kinds, NEW n \in Numbers, NEW to \in Askers, NEW p \in Ports,
             NEW q \in Ports \cup {NoPort}, NEW mine \in BOOLEAN,
             cmd \in SingleKinds => q = NoPort,
             StartOrder(cmd, n, to, p, q, mine)
      PROVE  Asked
  BY <1>1 DEF StartOrder, Asked
<1>2. ASSUME NEW n \in Numbers, NEW to \in Askers, NEW p \in Ports,
             NEW q \in Ports, NEW mine \in BOOLEAN, RequestNew2(n, to, p, q, mine)
      PROVE  Asked
  <2>1. CMD_NEW_2_PORTS \in Kinds \ SingleKinds
    BY DEF Kinds, PairKinds, SingleKinds, CMD_NEW_1_PORTS, CMD_DEL_1_PORTS, CMD_NEW_2_PORTS
  <2> QED
    BY <1>2, <2>1 DEF RequestNew2, Asked
<1>3. /\ CMD_NEW_1_PORTS \in Kinds /\ CMD_DEL_1_PORTS \in Kinds
      /\ CMD_EXC_2_PORTS \in Kinds \ SingleKinds
      /\ CMD_DEL_2_PORTS \in Kinds \ SingleKinds
  BY DEF Kinds, SingleKinds, PairKinds, CMD_NEW_1_PORTS, CMD_DEL_1_PORTS,
         CMD_EXC_2_PORTS, CMD_DEL_2_PORTS
<1> QED
  BY <1>1, <1>2, <1>3
     DEF Request, RequestNew1, RequestDel1, RequestExc2, RequestDel2

(* Every step has an outcome. *)
LEMMA StepOutcome ==
  ASSUME TypeOK, [Next]_vars
  PROVE  Outcome
<1>1. CASE Request
  BY <1>1, RequestOutcome DEF Outcome
<1>2. CASE CancelRequest
  BY <1>2 DEF CancelRequest, Cancel, Withdrawn, Outcome
<1>3. ASSUME NEW cmd \in Kinds, NEW what \in Movements, NEW p \in Ports, NEW e \in Eids,
             MoveReport(cmd, what, p, e)
      PROVE  Outcome
  BY <1>3, MoveOutcome DEF Outcome
<1>4. ASSUME NEW cmd \in Kinds, NEW p \in Ports, NEW ok \in BOOLEAN,
             ConcludeReport(cmd, p, ok)
      PROVE  Outcome
  BY <1>4, ConcludeOutcome DEF Outcome
<1>5. ASSUME NEW b \in Boards, PollAck(b)
      PROVE  Outcome
  BY <1>5 DEF PollAck, NothingEnds, Died, Outcome
<1>6. CASE Restart
  BY <1>6 DEF Restart, Rebooted, Outcome
<1>7. CASE UNCHANGED vars
  BY <1>7 DEF vars, orderVars, Died, Outcome
<1> QED
  BY <1>1, <1>2, <1>3, <1>4, <1>5, <1>6, <1>7 DEF Next

-----------------------------------------------------------------------------
(* The lamp.                                                               *)

(* No outcome leaves the lamp on without an order. *)
LEMMA LampStep ==
  ASSUME LampMeansOrder, Outcome
  PROVE  LampMeansOrder'
<1>1. ASSUME DropOrder
      PROVE  LampMeansOrder'
  BY <1>1 DEF DropOrder, LampMeansOrder
<1>2. CASE Asked
  BY <1>1, <1>2, AskerAssumption DEF Asked, TakeOrder, LampMeansOrder
<1>3. CASE Noted
  BY <1>1, <1>3 DEF Noted, GoesOn, LampMeansOrder
<1>4. CASE Died \/ ConclusionNoted
  BY <1>4 DEF Died, orderVars, ConclusionNoted, LampMeansOrder
<1> QED
  BY <1>1, <1>2, <1>3, <1>4 DEF Outcome, Withdrawn, Answered, Success, Rebooted

(* The lamp burns only while an order is in hand. *)
THEOREM LampCorrect == Spec => []LampMeansOrder
<1>1. Init => LampMeansOrder
  BY DEF Init, LampMeansOrder
<1>2. TypeOK /\ LampMeansOrder /\ [Next]_vars => LampMeansOrder'
  BY StepOutcome, LampStep
<1> QED
  BY <1>1, <1>2, TypeCorrect, PTL DEF Spec

-----------------------------------------------------------------------------
(* The asker's socket.                                                     *)

(* A socket that is closed is closed together with its order. *)
LEMMA AskerStep ==
  ASSUME TypeOK, AskerStillConnected, Outcome
  PROVE  AskerStillConnected'
<1>1. ASSUME DropOrder
      PROVE  AskerStillConnected'
  BY <1>1, AskerAssumption DEF DropOrder, NoOrder, AskerStillConnected
<1>2. CASE Asked
  <2>1. PICK n \in Numbers, to \in Askers :
          /\ Arrive(to)
          /\ \/ DropOrder
             \/ \E cmd \in Kinds, p \in Ports, q \in Ports \cup {NoPort} :
                  TakeOrder(cmd, n, to, p, q)
             \/ ord' = [number |-> n, to |-> MOBILE]
    BY <1>2 DEF Asked
  <2>2. CASE \E cmd \in Kinds, p \in Ports, q \in Ports \cup {NoPort} :
               TakeOrder(cmd, n, to, p, q)
    BY <2>1, <2>2 DEF TakeOrder, Arrive, AskerStillConnected
  <2>3. CASE ord' = [number |-> n, to |-> MOBILE]
    BY <2>3, AskerAssumption DEF AskerStillConnected
  <2> QED
    BY <1>1, <2>1, <2>2, <2>3
<1>3. CASE Noted
  BY <1>1, <1>3 DEF Noted, GoesOn, NothingEnds, AskerStillConnected
<1>4. CASE Died \/ ConclusionNoted
  BY <1>4 DEF Died, orderVars, ConclusionNoted, NothingEnds, AskerStillConnected
<1> QED
  BY <1>1, <1>2, <1>3, <1>4 DEF Outcome, Withdrawn, Answered, Success, Rebooted

(* The order in hand never names a closed socket. *)
THEOREM AskerCorrect == Spec => []AskerStillConnected
<1>1. Init => AskerStillConnected
  BY AskerAssumption DEF Init, NoOrder, AskerStillConnected
<1>2. TypeOK /\ AskerStillConnected /\ [Next]_vars => AskerStillConnected'
  BY StepOutcome, AskerStep
<1> QED
  BY <1>1, <1>2, TypeCorrect, PTL DEF Spec

-----------------------------------------------------------------------------
(* The flags of the ports.                                                 *)

(* A flag is entered with the report that justifies it, and goes with its  *)
(* order.                                                                  *)
LEMMA FlagsStep ==
  ASSUME TypeOK, FlagsAreOfThisOrder, Outcome
  PROVE  FlagsAreOfThisOrder'
<1>1. ASSUME NEW p, NEW q, eid_port1' = FreshPort(p), eid_port2' = FreshPort(q)
      PROVE  FlagsAreOfThisOrder'
  BY <1>1 DEF FreshPort, FlagsAreOfThisOrder, BLANK, CONCLUDED
<1>2. ASSUME DropOrder
      PROVE  FlagsAreOfThisOrder'
  BY <1>1, <1>2 DEF DropOrder, ForgetPorts
<1>3. CASE Asked
  BY <1>1, <1>2, <1>3 DEF Asked, TakeOrder
<1>4. CASE Noted
  BY <1>2, <1>4 DEF Noted, GoesOn, Kept, FlagsAreOfThisOrder
<1>5. CASE Died
  BY <1>5 DEF Died, orderVars, FlagsAreOfThisOrder
<1>6. CASE ConclusionNoted
  <2>1. PICK p \in Ports, ok \in BOOLEAN :
          /\ eid_port1' = Flagged(eid_port1, p, ok)
          /\ eid_port2' \in {eid_port2, Flagged(eid_port2, p, ok)}
          /\ confirmed' = confirmed \cup (IF ok THEN {p} \cap OrderPorts ELSE {})
    BY <1>6 DEF ConclusionNoted
  <2>2. ASSUME NEW e \in {eid_port1, eid_port2},
               e.flag = CONCLUDED => e.port \in confirmed,
               Flagged(e, p, ok).flag = CONCLUDED
        PROVE  Flagged(e, p, ok).port \in confirmed'
    <3>1. e \in PortSlots
      BY DEF TypeOK, OrderTypeOK
    <3>2. CASE e.port # p
      BY <2>1, <2>2, <3>2 DEF Flagged
    <3>3. CASE e.port = p
      <4>1. ok /\ Flagged(e, p, ok).port = p
        BY <2>2, <3>1, <3>3 DEF Flagged, PortSlots, FAILED, CONCLUDED
      <4>2. p \in OrderPorts
        BY <3>3, RackAssumption DEF OrderPorts
      <4> QED
        BY <2>1, <4>1, <4>2
    <3> QED
      BY <3>2, <3>3
  <2> QED
    BY <2>1, <2>2 DEF FlagsAreOfThisOrder
<1> QED
  BY <1>2, <1>3, <1>4, <1>5, <1>6 DEF Outcome, Withdrawn, Answered, Success, Rebooted

(* No flag survives from one order to the next. *)
THEOREM FlagsCorrect == Spec => []FlagsAreOfThisOrder
<1>1. Init => FlagsAreOfThisOrder
  BY DEF Init, FreshPort, FlagsAreOfThisOrder, BLANK, CONCLUDED
<1>2. TypeOK /\ FlagsAreOfThisOrder /\ [Next]_vars => FlagsAreOfThisOrder'
  BY StepOutcome, FlagsStep
<1> QED
  BY <1>1, <1>2, TypeCorrect, PTL DEF Spec

-----------------------------------------------------------------------------
(* One result for one order.  The number of an order in hand is spent, the *)
(* numbers of the results written are spent and are not the one in hand.   *)
NumbersSpent ==
  /\ ord.number # NoNumber => ord.number \in used
  /\ \A i \in DOMAIN replies : replies[i].number \in used \ {ord.number}

AnswerInv == NumbersSpent /\ AnswerOnce

(* Appending the result of a number no result has keeps results apart. *)
LEMMA AppendOnce ==
  ASSUME NEW R, NEW s \in Seq(R), NEW r \in R,
         \A i \in DOMAIN s : s[i].number # r.number,
         \A i, j \in DOMAIN s : s[i].number = s[j].number => i = j
  PROVE  /\ \A i, j \in DOMAIN Append(s, r) :
              Append(s, r)[i].number = Append(s, r)[j].number => i = j
         /\ \A i \in DOMAIN Append(s, r) :
              \/ i \in DOMAIN s /\ Append(s, r)[i] = s[i]
              \/ Append(s, r)[i] = r
<1>1. /\ DOMAIN Append(s, r) = 1 .. Len(s) + 1
      /\ DOMAIN s = 1 .. Len(s)
      /\ Len(s) \in Nat
  OBVIOUS
<1>2. \A i \in 1 .. Len(s) + 1 :
        Append(s, r)[i] = IF i = Len(s) + 1 THEN r ELSE s[i]
  OBVIOUS
<1>3. \A i \in 1 .. Len(s) + 1 : i # Len(s) + 1 => i \in 1 .. Len(s)
  BY <1>1
<1> QED
  BY <1>1, <1>2, <1>3

(* No outcome writes a second result for a number. *)
LEMMA AnswerStep ==
  ASSUME TypeOK, AnswerInv, Outcome
  PROVE  AnswerInv'
<1>0. NoNumber \notin used
  BY AskerAssumption DEF TypeOK, AskerTypeOK
<1>1. ASSUME DropOrder, UNCHANGED replies, used \subseteq used', NoNumber \notin used
      PROVE  AnswerInv'
  BY <1>1 DEF DropOrder, NoOrder, AnswerInv, NumbersSpent, AnswerOnce
<1>2. CASE Asked
  <2>1. PICK n \in Numbers, to \in Askers :
          /\ n \notin used
          /\ used' = used \cup {n}
          /\ UNCHANGED replies
          /\ DropOrder \/ ord'.number = n
    BY <1>2 DEF Asked, TakeOrder
  <2>2. CASE ord'.number = n
    BY <2>1, <2>2 DEF AnswerInv, NumbersSpent, AnswerOnce
  <2> QED
    BY <1>0, <1>1, <2>1, <2>2
<1>3. ASSUME UNCHANGED <<ord, replies, used>>
      PROVE  AnswerInv'
  BY <1>3 DEF AnswerInv, NumbersSpent, AnswerOnce
<1>4. CASE Noted
  BY <1>0, <1>1, <1>3, <1>4 DEF Noted, GoesOn, NothingEnds
<1>5. CASE Died \/ ConclusionNoted
  BY <1>3, <1>5 DEF Died, orderVars, ConclusionNoted, NothingEnds
<1>6. CASE Answered
  <2>1. PICK e : Success(e)
    BY <1>6 DEF Answered
  <2> DEFINE R == [number : Numbers, to : Askers, eid : Eids \cup {NoEid, e}]
             r == [number |-> ord.number, to |-> ord.to, eid |-> e]
  <2>2. replies \in Seq(R)
    <3> DEFINE T == [number : Numbers, to : Askers, eid : Eids \cup {NoEid}]
    <3>1. replies \in Seq(T) /\ T \subseteq R
      BY DEF TypeOK, AskerTypeOK
    <3> HIDE DEF T, R
    <3> QED
      BY <3>1
  <2>3. r \in R
    BY <1>6 DEF Answered, TypeOK, OrderTypeOK
  <2>4. /\ DropOrder
        /\ UNCHANGED used
        /\ replies' \in {replies, Append(replies, r)}
    BY <2>1 DEF Success
  <2>5. \A i \in DOMAIN replies : replies[i].number # r.number
    BY DEF AnswerInv, NumbersSpent
  <2>6. ord'.number = NoNumber /\ r.number \in used
    BY <1>6, <2>4 DEF DropOrder, NoOrder, Answered, AnswerInv, NumbersSpent
  <2> HIDE DEF R, r
  <2>7. CASE replies' = Append(replies, r)
    BY <1>0, <2>2, <2>3, <2>4, <2>5, <2>6, <2>7, AppendOnce
       DEF AnswerInv, NumbersSpent, AnswerOnce
  <2> QED
    BY <1>0, <1>1, <2>4, <2>7
<1> QED
  BY <1>0, <1>1, <1>2, <1>4, <1>5, <1>6 DEF Outcome, Withdrawn, Rebooted

(* The result of an order number is written at most once, however many     *)
(* requests, boards and repeated reports there are.                        *)
THEOREM AnswerCorrect == Spec => []AnswerOnce
<1>1. Init => AnswerInv
  BY DEF Init, NoOrder, AnswerInv, NumbersSpent, AnswerOnce
<1>2. TypeOK /\ AnswerInv /\ [Next]_vars => AnswerInv'
  BY StepOutcome, AnswerStep
<1>3. AnswerInv => AnswerOnce
  BY DEF AnswerInv
<1> QED
  BY <1>1, <1>2, <1>3, TypeCorrect, PTL DEF Spec

-----------------------------------------------------------------------------
(* The transmit slots.                                                     *)

(* What a step does to them: nothing, all sent, an output notice staged,   *)
(* or one slot emptied by the acknowledgement of a poll.                   *)
SlotsLeft ==
  \/ txBuf' \in {txBuf, NoFrames}
  \/ \E p, q : txBuf' = OutputStage(txBuf, p, q)
  \/ \E b \in Boards : txBuf' = [txBuf EXCEPT ![b] = NoFrame]

(* A report leaves the slots like this. *)
LEMMA MoveSlots ==
  ASSUME NEW cmd \in Kinds, NEW what \in Movements, NEW p \in Ports, NEW e \in Eids,
         MoveReport(cmd, what, p, e)
  PROVE  SlotsLeft
<1>1. ASSUME NEW w, Ignore(w, p)
      PROVE  SlotsLeft
  BY <1>1 DEF Ignore, NothingSent, SlotsLeft
<1>2. ASSUME NEW tx, NEW w, NEW d1, NEW d2, TransmitOrDrop(tx, w, p, d1, d2)
      PROVE  SlotsLeft
  BY <1>2 DEF TransmitOrDrop, Transmit, SlotsLeft
<1>3. CASE MovedNew1(what, p, e)
  BY <1>1, <1>2, <1>3
     DEF MovedNew1, InsertedNew1, RecordAndConfirm, PulledBackNew1, SlotsLeft
<1>4. CASE MovedDel1(what, p, e)
  BY <1>1, <1>2, <1>4 DEF MovedDel1, PulledDel1, RecordAndConfirm
<1>5. CASE MovedExc2(what, p)
  BY <1>1, <1>2, <1>5
     DEF MovedExc2, Movements, PulledExc2, InsertedExc2, PulledBackExc2, NothingSent, SlotsLeft
<1>6. CASE MovedDel2(what, p)
  BY <1>1, <1>2, <1>6 DEF MovedDel2, PulledDel2, ReinsertedDel2, NothingSent, SlotsLeft
<1>7. CASE MovedNew2(what, p, e)
  <2>1. ASSUME InsertedNew2(p, e)
        PROVE  SlotsLeft
    BY <2>1 DEF InsertedNew2, Transmit, SlotsLeft
  <2>2. ASSUME PulledBackNew2(p)
        PROVE  SlotsLeft
    BY <1>2, <2>2 DEF PulledBackNew2, NothingSent, SlotsLeft
  <2> QED
    BY <1>1, <1>7, <2>1, <2>2 DEF MovedNew2
<1> QED
  BY <1>3, <1>4, <1>5, <1>6, <1>7 DEF MoveReport, Kinds, SingleKinds, PairKinds

(* So does every other step. *)
LEMMA StepSlots ==
  ASSUME [Next]_vars
  PROVE  SlotsLeft
<1>1. CASE Request
  BY <1>1
     DEF Request, RequestNew1, RequestDel1, RequestExc2, RequestDel2, RequestNew2,
         StartOrder, Transmit, NothingSent, SlotsLeft
<1>2. CASE CancelRequest
  BY <1>2 DEF CancelRequest, Cancel, Transmit, SlotsLeft
<1>3. ASSUME NEW cmd \in Kinds, NEW p \in Ports, NEW ok \in BOOLEAN,
             ConcludeReport(cmd, p, ok)
      PROVE  SlotsLeft
  <2>1. ASSUME NEW c, NEW e1, NEW e2, Conclude(c, p, ok, e1, e2)
        PROVE  SlotsLeft
    BY <2>1 DEF Conclude, Success, Crash, NothingSent, SlotsLeft
  <2> QED
    BY <1>3, <2>1
       DEF ConcludeReport, ConcludedNew1, ConcludedDel1, ConcludedPair, Kinds, SingleKinds
<1>4. ASSUME NEW b \in Boards, PollAck(b)
      PROVE  SlotsLeft
  BY <1>4 DEF PollAck, SlotsLeft
<1>5. CASE Restart \/ UNCHANGED vars
  BY <1>5 DEF Restart, vars, SlotsLeft
<1> QED
  BY <1>1, <1>2, <1>3, <1>4, <1>5, MoveSlots DEF Next

(* Only output notices are staged without being sent. *)
LEMMA SlotsStep ==
  ASSUME TypeOK, OnlyOutputLingers, SlotsLeft
  PROVE  OnlyOutputLingers'
<1>1. txBuf \in [Boards -> Frames \cup {NoFrame}]
  BY DEF TypeOK, LineTypeOK
<1>2. CASE txBuf' \in {txBuf, NoFrames}
  BY <1>2 DEF OnlyOutputLingers, NoFrames
<1>3. CASE \E b \in Boards : txBuf' = [txBuf EXCEPT ![b] = NoFrame]
  BY <1>1, <1>3 DEF OnlyOutputLingers
<1>4. CASE \E p, q : txBuf' = OutputStage(txBuf, p, q)
  <2>1. ASSUME NEW tx \in Lines, NEW p, NEW fr \in Frames, fr.op = OUTPUT,
               \A b \in Boards : tx[b] # NoFrame => tx[b].op = OUTPUT
        PROVE  \A b \in Boards : Stage(tx, p, fr)[b] # NoFrame => Stage(tx, p, fr)[b].op = OUTPUT
    BY <2>1, RackAssumption DEF Stage, Lines
  <2>2. PICK p, q : txBuf' = OutputStage(txBuf, p, q)
    BY <1>4
  <2> DEFINE torn == [Frame(OUTPUT, {p} \cap Ports) EXCEPT !.whole = FALSE]
             both == Frame(OUTPUT, {p, q} \cap Ports)
             second == Frame(OUTPUT, {q} \cap Ports)
  <2>3. /\ torn \in Frames /\ torn.op = OUTPUT
        /\ both \in Frames /\ both.op = OUTPUT
        /\ second \in Frames /\ second.op = OUTPUT
    BY FrameType DEF Frame
  <2>4. txBuf' \in {Stage(txBuf, p, both), Stage(Stage(txBuf, p, torn), q, second)}
    BY <2>2 DEF OutputStage
  <2> HIDE DEF torn, both, second
  <2>5. txBuf \in Lines /\ Stage(txBuf, p, torn) \in Lines
    BY <1>1, <2>3, StageType DEF Lines
  <2> QED
    BY <2>1, <2>3, <2>4, <2>5 DEF OnlyOutputLingers
<1> QED
  BY <1>2, <1>3, <1>4 DEF SlotsLeft

(* No order, confirm, redirect or cancel is left behind for the next       *)
(* transmission to carry.                                                  *)
THEOREM SlotsCorrect == Spec => []OnlyOutputLingers
<1>1. Init => OnlyOutputLingers
  BY DEF Init, NoFrames, OnlyOutputLingers
<1>2. TypeOK /\ OnlyOutputLingers /\ [Next]_vars => OnlyOutputLingers'
  BY StepSlots, SlotsStep
<1> QED
  BY <1>1, <1>2, TypeCorrect, PTL DEF Spec
=============================================================================
