----------------------------- MODULE JianeiOrder -----------------------------
(***************************************************************************)
(* The single orders of one rack together: requests and cancels from the   *)
(* handheld and the network, reports from the interface boards, the poll's *)
(* acknowledgements, and the watchdog.                                     *)
(*                                                                         *)
(* Spec lets a board report anything about any port, with the command byte *)
(* of any kind: the main board checks none of it, and a board can still    *)
(* hold a report of an order that was withdrawn or replaced.  OrderlySpec  *)
(* keeps only the reports boards send about the order in hand.             *)
(***************************************************************************)
EXTENDS JianeiPair

Askers == Fds \cup {MOBILE}

(* module_mainBoard_Webmaster_Part_orderOperations_handle, by src[20] *)
Request ==
  \E n \in Numbers, to \in Askers, p \in Ports, mine \in BOOLEAN :
    \/ RequestNew1(n, to, p, mine)
    \/ RequestDel1(n, to, p, mine)
    \/ \E q \in Ports \ {p} :
         \/ RequestExc2(n, to, p, q, mine)
         \/ RequestNew2(n, to, p, q, mine)
         \/ RequestDel2(n, to, p, q, mine)

CancelRequest ==
  \E to \in Askers, p \in Ports : \E q \in (Ports \ {p}) \cup {NoPort} : Cancel(to, p, q)

(* module_mainBoard_orderOperations_handle, by src[4] *)
MoveReport(cmd, what, p, e) ==
  CASE cmd = CMD_NEW_1_PORTS -> MovedNew1(what, p, e)
    [] cmd = CMD_DEL_1_PORTS -> MovedDel1(what, p, e)
    [] cmd = CMD_EXC_2_PORTS -> MovedExc2(what, p)
    [] cmd = CMD_NEW_2_PORTS -> MovedNew2(what, p, e)
    [] cmd = CMD_DEL_2_PORTS -> MovedDel2(what, p)

ConcludeReport(cmd, p, ok) ==
  CASE cmd = CMD_NEW_1_PORTS -> ConcludedNew1(p, ok)
    [] cmd = CMD_DEL_1_PORTS -> ConcludedDel1(p, ok)
    [] cmd \in PairKinds -> ConcludedPair(cmd, p, ok)

(* an a6 answer to a poll clears the slot of the board it names *)
PollAck(b) ==
  /\ txBuf[b] # NoFrame
  /\ txBuf' = [txBuf EXCEPT ![b] = NoFrame]
  /\ sent' = Silence
  /\ UNCHANGED orderVars
  /\ NothingEnds

(***************************************************************************)
(* The movements a board reports about a port of an order of each kind.    *)
(***************************************************************************)
Expected(cmd, first) ==
  CASE cmd \in {CMD_NEW_1_PORTS, CMD_NEW_2_PORTS} -> {INSERTED, PULLEDBACK}
    [] cmd \in {CMD_DEL_1_PORTS, CMD_DEL_2_PORTS} -> {PULLED, REINSERTED}
    [] cmd = CMD_EXC_2_PORTS -> IF first THEN {PULLED, REINSERTED}
                                         ELSE {INSERTED, PULLEDBACK}

OrderlyMove(cmd, what, p) ==
  /\ cmd = kind
  /\ p \in OrderPorts
  /\ what \in Expected(cmd, p = eid_port1.port)

Next ==
  \/ /\ alive
     /\ \/ Request
        \/ CancelRequest
        \/ \E cmd \in Kinds, what \in Movements, p \in Ports, e \in Eids :
             MoveReport(cmd, what, p, e)
        \/ \E cmd \in Kinds, p \in Ports, ok \in BOOLEAN : ConcludeReport(cmd, p, ok)
        \/ \E b \in Boards : PollAck(b)
  \/ Restart

OrderlyNext ==
  \/ /\ alive
     /\ \/ Request
        \/ CancelRequest
        \/ \E cmd \in Kinds, what \in Movements, p \in Ports, e \in Eids :
             OrderlyMove(cmd, what, p) /\ MoveReport(cmd, what, p, e)
        \/ \E cmd \in Kinds, p \in Ports, ok \in BOOLEAN :
             cmd = kind /\ p \in OrderPorts /\ ConcludeReport(cmd, p, ok)
        \/ \E b \in Boards : PollAck(b)
  \/ Restart

Spec == Init /\ [][Next]_vars
OrderlySpec == Init /\ [][OrderlyNext]_vars

-----------------------------------------------------------------------------
(* Every variable keeps to the values the C fields can hold. *)
OrderTypeOK ==
  /\ ord \in [number : Numbers \cup {NoNumber}, to : Askers]
  /\ eid_port1 \in PortSlots
  /\ eid_port2 \in PortSlots
  /\ orderLed \in BOOLEAN
  /\ kind \in Kinds \cup {NoKind}
  /\ label \in [Ports -> {BLANK, PULLED, INSERTED}]
  /\ confirmed \subseteq Ports

LineTypeOK ==
  /\ txBuf \in [Boards -> Frames \cup {NoFrame}]
  /\ sent \in [frames : SUBSET Frames, acked : BOOLEAN]

AskerTypeOK ==
  /\ alive \in BOOLEAN
  /\ sockets \subseteq Fds
  /\ replies \in Seq([number : Numbers, to : Askers, eid : Eids \cup {NoEid}])
  /\ used \subseteq Numbers

TypeOK == OrderTypeOK /\ LineTypeOK /\ AskerTypeOK

(* The result of an order number is written at most once, however late,    *)
(* repeated or foreign the reports of its boards are (the handlers clear   *)
(* Jianei_Order when they answer, and a repeated 0a finds no number).      *)
AnswerOnce ==
  \A i, j \in DOMAIN replies : replies[i].number = replies[j].number => i = j

(* The order in hand never names a socket that is already closed, whose    *)
(* number accept() could give to another requester.                        *)
AskerStillConnected == ord.to \in Fds => ord.to \in sockets

(* The lamp is not left burning after an order has gone.                   *)
LampMeansOrder == orderLed => ord.number # NoNumber

(* A port is flagged concluded only on a good report about this very port  *)
(* since this very order was taken: flags do not survive from one order to *)
(* the next.                                                               *)
FlagsAreOfThisOrder ==
  /\ eid_port1.flag = CONCLUDED => eid_port1.port \in confirmed
  /\ eid_port2.flag = CONCLUDED => eid_port2.port \in confirmed

(* What one handler leaves staged goes out with the next transmission, on  *)
(* behalf of somebody else's order.  Only an output notice may stay behind *)
(* (new_1_port.c:124 stages it and does not send): never an order, a       *)
(* confirm, a redirect or a cancel.                                        *)
OnlyOutputLingers ==
  \A b \in Boards : txBuf[b] # NoFrame => txBuf[b].op = OUTPUT

-----------------------------------------------------------------------------
(* What boards saw before a port may be concluded *)
LabelDone(p) ==
  CASE kind \in {CMD_NEW_1_PORTS, CMD_NEW_2_PORTS} -> label[p] = INSERTED
    [] kind \in {CMD_DEL_1_PORTS, CMD_DEL_2_PORTS} -> label[p] = PULLED
    [] kind = CMD_EXC_2_PORTS -> label[p] = IF p = eid_port1.port THEN PULLED ELSE INSERTED

(* A board is told to conclude a port only while the label of every port   *)
(* of the order is where the order wants it.                               *)
ConfirmFollowsLabels ==
  \A fr \in sent.frames : fr.op = CONFIRM /\ ord.number # NoNumber =>
                     \A p \in OrderPorts : LabelDone(p)

(* The two labels kept for an order of two ports are the same label on the *)
(* bytes that were compared, whatever was pulled and put back meanwhile.   *)
LabelsAgree ==
  eid_port1.eid # NoEid /\ eid_port2.eid # NoEid
    => Compared[eid_port1.eid] = Compared[eid_port2.eid]

(* The rack keeps the promise of OrderDesk. *)
Desk == INSTANCE OrderDesk WITH
  Nobody <- MOBILE, current <- ord.number, asker <- ord.to, wanted <- OrderPorts,
  concluded <- confirmed, taken <- used,
  answers <- [i \in DOMAIN replies |-> [number |-> replies[i].number, to |-> replies[i].to]]

KeepsDesk == Desk!Spec
=============================================================================
