---------------------------- MODULE JianeiCommon ----------------------------
(***************************************************************************)
(* What the five single-order handlers of the main board share: the order  *)
(* in hand (struct orderStruct Jianei_Order), the sixteen transmit slots   *)
(* of the RS-485 line (uart0.txBuf), the order lamp, the sockets that      *)
(* requests arrived on, and the routines of lib_orders/Jianei_common.c     *)
(* that every handler calls.                                               *)
(*                                                                         *)
(* Handlers run under mobile_mutex (main.c:2115, 2164, 2187), so one       *)
(* handler is one step.  A frame is kept as the operation it asks for and  *)
(* the ports it addresses; wording, checksums and escapes are left out.    *)
(***************************************************************************)
EXTENDS Naturals, Sequences

CONSTANTS
  Boards,     \* interface boards, one transmit slot each
  Ports,      \* ports of the rack
  BoardOf,    \* the board a port sits on (byte 0 of a port's address)
  Eids,       \* label contents, 32 bytes each
  Compared,   \* bytes 4..19 of a label, compared when it is recorded
  Checked,    \* bytes 5..20 of a label, compared before confirming
  Numbers,    \* order numbers, all of them non-blank
  Fds,        \* socket descriptors accept() may hand out
  MOBILE,     \* the handheld on uart1
  NoPort, NoEid, NoNumber, NoFrame   \* the all-zero values after a memset

ASSUME RackAssumption ==
  /\ BoardOf \in [Ports -> Boards]
  /\ NoPort \notin Ports
ASSUME LabelAssumption ==
  /\ DOMAIN Compared = Eids
  /\ DOMAIN Checked = Eids
  /\ NoEid \notin Eids
ASSUME AskerAssumption ==
  /\ NoNumber \notin Numbers
  /\ MOBILE \notin Fds

VARIABLES
  ord,          \* ord_number and ord_type/ord_fd of Jianei_Order
  eid_port1,    \* Jianei_Order.eid_port1: address, label, bytes 39 and 40
  eid_port2,    \* Jianei_Order.eid_port2
  txBuf,        \* uart0.txBuf: the frame staged for each board
  sent,         \* what the last handler wrote to the line, and whether all was
                \* acknowledged
  orderLed,     \* the order lamp, ioctl(alarmfd, 3 or 4)
  alive,        \* FALSE once the process has died
  sockets,      \* descriptors accepted and not closed
  replies,      \* the results written to the askers, in order
  kind,         \* the kind of the order in hand (the code does not keep it)
  label,        \* the last label movement each port of the order reported
  confirmed,    \* ports of the order whose board reported a good confirm
  used          \* numbers requested so far

orderVars == <<ord, eid_port1, eid_port2, orderLed, kind, label, confirmed>>
vars == <<ord, eid_port1, eid_port2, txBuf, sent, orderLed, alive, sockets,
          replies, kind, label, confirmed, used>>

(* The command bytes, by the names of Jianei_Order.h *)
CMD_NEW_1_PORTS == "02"
CMD_EXC_2_PORTS == "03"
CMD_DEL_1_PORTS == "04"
CMD_NEW_2_PORTS == "05"
CMD_DEL_2_PORTS == "06"
SingleKinds == {CMD_NEW_1_PORTS, CMD_DEL_1_PORTS}
PairKinds == {CMD_EXC_2_PORTS, CMD_NEW_2_PORTS, CMD_DEL_2_PORTS}
Kinds == SingleKinds \cup PairKinds

CONFIRM == "0a"       \* tell a board to conclude the order on its port
REDIRECT == "41"      \* give a port the label the other end carries
OUTPUT == "8c"        \* tell boards that a label was pulled back out
CANCEL == "9a"        \* withdraw an order

(* What a board reports about a port, byte 5 of its frame *)
PULLED == "01"
REINSERTED == "02"
INSERTED == "03"
PULLEDBACK == "8c"
CONCLUDED == "0a"
Movements == {PULLED, REINSERTED, INSERTED, PULLEDBACK}
FAILED == "0e"
BLANK == "00"
(* a movement that is taken back leaves the label as the order found it *)
Placed(what) == IF what \in {PULLED, INSERTED} THEN what ELSE BLANK
NoKind == "none"

Frame(op, ports) == [op |-> op, ports |-> ports, whole |-> TRUE]
Frames == [op : Kinds \cup {CONFIRM, REDIRECT, OUTPUT, CANCEL},
           ports : SUBSET Ports, whole : BOOLEAN]
NoFrames == [b \in Boards |-> NoFrame]

NoOrder == [number |-> NoNumber, to |-> MOBILE]
FreshPort(p) == [port |-> p, eid |-> NoEid, moved |-> BLANK, flag |-> BLANK]
PortSlots == [port : Ports \cup {NoPort}, eid : Eids \cup {NoEid},
              moved : {BLANK, PULLED, REINSERTED},
              flag : {BLANK, PULLED, REINSERTED, CONCLUDED, FAILED}]

(* The ports of the order in hand *)
OrderPorts == {eid_port1.port, eid_port2.port} \ {NoPort}

(***************************************************************************)
(* Staging.  A slot keeps the last frame written to it.  A port of all     *)
(* zeroes indexes slot -1, which no loop over the slots reads.             *)
(***************************************************************************)
Stage(tx, p, fr) == IF p \in Ports THEN [tx EXCEPT ![BoardOf[p]] = fr] ELSE tx

(* byte 0 of the two addresses is compared, zero included *)
SameBoard(p, q) == \/ p = NoPort /\ q = NoPort
                   \/ p \in Ports /\ q \in Ports /\ BoardOf[p] = BoardOf[q]

(* one frame for two ports of one board, or one frame for each board *)
PairStage(tx, op, p, q) ==
  IF SameBoard(p, q) THEN Stage(tx, p, Frame(op, {p, q} \cap Ports))
  ELSE Stage(Stage(tx, p, Frame(op, {p} \cap Ports)), q, Frame(op, {q} \cap Ports))

(***************************************************************************)
(* zkb_issue_output_command_to_jkb.  With ports on two boards the length   *)
(* of the first frame is written to another buffer: the frame goes out     *)
(* with length 0, and no board takes it.                                   *)
(***************************************************************************)
OutputStage(tx, p, q) ==
  IF SameBoard(p, q) THEN Stage(tx, p, Frame(OUTPUT, {p, q} \cap Ports))
  ELSE Stage(Stage(tx, p, [Frame(OUTPUT, {p} \cap Ports) EXCEPT !.whole = FALSE]),
             q, Frame(OUTPUT, {q} \cap Ports))

Staged(tx) == {tx[b] : b \in Boards} \ {NoFrame}

(* mutant: what was not acknowledged stays staged, as in fast_repost *)
TransmitKeepingUnacked(tx, ok) ==
  /\ ok => \A fr \in Staged(tx) : fr.whole
  /\ sent' = [frames |-> Staged(tx), acked |-> ok]
  /\ txBuf' = IF ok THEN NoFrames ELSE tx

(***************************************************************************)
(* module_order_tasks_to_sim3u1xx_board: up to three rounds over the slots *)
(* that hold a frame.  ok: every one of them was acknowledged.  When one   *)
(* was not, the slots are cleared all the same.                            *)
(***************************************************************************)
Transmit(tx, ok) ==
  /\ Staged(tx) = {} => ok
  /\ ok => \A fr \in Staged(tx) : fr.whole
  /\ sent' = [frames |-> Staged(tx), acked |-> ok]
  /\ txBuf' = NoFrames

Silence == [frames |-> {}, acked |-> TRUE]
NothingSent == sent' = Silence /\ UNCHANGED txBuf

(* both port records zeroed, and with them what is known of the ports *)
ForgetPorts ==
  /\ eid_port1' = FreshPort(NoPort)
  /\ eid_port2' = FreshPort(NoPort)
  /\ kind' = NoKind
  /\ label' = [p \in Ports |-> BLANK]
  /\ confirmed' = {}

(* mutants: the asker is not forgotten; the lamp is not put out *)
DropOrderButAsker ==
  ord' = [ord EXCEPT !.number = NoNumber] /\ orderLed' = FALSE /\ ForgetPorts
DropOrderLampOn == ord' = NoOrder /\ UNCHANGED orderLed /\ ForgetPorts

(***************************************************************************)
(* The memset of Jianei_Order together with the lamp going out: the end of *)
(* orderoperations_failure_and_reply_to_mobile (which, despite its name,   *)
(* replies nothing: its reply is compiled out), of a success and of a      *)
(* cancel.                                                                 *)
(***************************************************************************)
DropOrder ==
  /\ ord' = NoOrder
  /\ orderLed' = FALSE
  /\ ForgetPorts

(* mutant: the memset at the head of the request handler is missing *)
TakeOrderWithoutMemset(cmd, n, to, p, q) ==
  /\ ord' = [number |-> n, to |-> to]
  /\ eid_port1' = [eid_port1 EXCEPT !.port = p]
  /\ eid_port2' = [eid_port2 EXCEPT !.port = q]
  /\ orderLed' = TRUE
  /\ kind' = cmd
  /\ label' = [x \in Ports |-> BLANK]
  /\ confirmed' = {}

(* Jianei_Order filled from a request, the lamp lit *)
TakeOrder(cmd, n, to, p, q) ==
  /\ ord' = [number |-> n, to |-> to]
  /\ eid_port1' = FreshPort(p)
  /\ eid_port2' = FreshPort(q)
  /\ orderLed' = TRUE
  /\ kind' = cmd
  /\ label' = [x \in Ports |-> BLANK]
  /\ confirmed' = {}

(* mutant: the handheld's requests are taken for network requests too *)
ArriveUnchecked(to) ==
  /\ to \in (Fds \ sockets) \cup {MOBILE}
  /\ sockets' = sockets \cup {to}

(* a request comes from the handheld, or on a socket just accepted *)
Arrive(to) ==
  /\ to \in (Fds \ sockets) \cup {MOBILE}
  /\ sockets' = sockets \cup ({to} \cap Fds)

(***************************************************************************)
(* A request of kind 02, 03, 04 or 06: Jianei_Order is overwritten whatever*)
(* it held.  mine: the request names this rack (box_id).                   *)
(***************************************************************************)
StartOrder(cmd, n, to, p, q, mine) ==
  /\ n \notin used
  /\ used' = used \cup {n}
  /\ Arrive(to)
  /\ UNCHANGED <<alive, replies>>
  /\ \/ /\ ~mine
        /\ NothingSent
        /\ DropOrder
     \/ /\ mine
        /\ \E ok \in BOOLEAN :
             /\ Transmit(PairStage(txBuf, cmd, p, q), ok)
             /\ IF ok THEN TakeOrder(cmd, n, to, p, q) ELSE DropOrder

(***************************************************************************)
(* zkb_issue_cancle_command_to_jkb and the transmission after it.  The     *)
(* request is trusted for the ports: nothing compares it with the order in *)
(* hand, which ends whatever its number is.  q is NoPort when the request  *)
(* counts one port.                                                        *)
(***************************************************************************)
Cancel(to, p, q) ==
  /\ to \in (Fds \ sockets) \cup {MOBILE}
  /\ sockets' = (sockets \cup ({to} \cap Fds)) \ {ord.to}
  /\ \E ok \in BOOLEAN : Transmit(PairStage(txBuf, CANCEL, p, q), ok)
  /\ DropOrder
  /\ UNCHANGED <<alive, replies, used>>

(***************************************************************************)
(* Reports.  OrderStays: the order goes on, and the movement is noted for  *)
(* a port of the order.                                                    *)
(***************************************************************************)
OrderStays(what, p) ==
  /\ UNCHANGED <<ord, orderLed, kind, confirmed>>
  /\ label' = IF p \in OrderPorts THEN [label EXCEPT ![p] = Placed(what)] ELSE label

NothingEnds == UNCHANGED <<alive, sockets, replies, used>>

(* send what is staged; when a board does not answer, the order is dropped *)
TransmitOrDrop(tx, what, p, e1, e2) ==
  \E ok \in BOOLEAN :
    /\ Transmit(tx, ok)
    /\ IF ok THEN /\ OrderStays(what, p)
                  /\ eid_port1' = e1
                  /\ eid_port2' = e2
             ELSE DropOrder

(* mutant: the order is not cleared after its result is written *)
SuccessKeepingOrder(eid) ==
  /\ replies' = Append(replies, [number |-> ord.number, to |-> ord.to, eid |-> eid])
  /\ UNCHANGED <<orderVars, sockets, alive, used>>
  /\ NothingSent

(***************************************************************************)
(* orderoperations_success_and_reply_to_mobile: without an order number it *)
(* does nothing; a send() that fails closes the socket and the result is   *)
(* lost; in every case the order is over.                                  *)
(***************************************************************************)
Success(eid) ==
  \E delivered \in BOOLEAN :
    /\ ord.to = MOBILE => delivered
    /\ replies' = IF delivered
                  THEN Append(replies, [number |-> ord.number, to |-> ord.to,
                                        eid |-> eid])
                  ELSE replies
    /\ sockets' = IF delivered THEN sockets ELSE sockets \ {ord.to}
    /\ DropOrder
    /\ NothingSent
    /\ UNCHANGED <<alive, used>>

(***************************************************************************)
(* A failed confirm: the handlers call zkb_issue_cancle_command_to_jkb     *)
(* with src = NULL, which reads src[22].  The process dies.                *)
(***************************************************************************)
Crash ==
  /\ alive' = FALSE
  /\ sent' = Silence
  /\ UNCHANGED <<orderVars, txBuf, sockets, replies, used>>

Flagged(e, p, ok) ==
  IF e.port = p THEN [e EXCEPT !.flag = IF ok THEN CONCLUDED ELSE FAILED] ELSE e

(***************************************************************************)
(* The 0a branch of the five handlers, given the two port records with the *)
(* flag entered: done when every end has flag 0a, dead when one has 0e.    *)
(* A handler of one port looks at eid_port1 only.                          *)
(***************************************************************************)
Conclude(cmd, p, ok, e1, e2) ==
  LET flags == IF cmd \in SingleKinds THEN {e1.flag} ELSE {e1.flag, e2.flag}
  IN  \/ /\ flags = {CONCLUDED}
         /\ ord.number # NoNumber
         /\ Success(e1.eid)
      \/ /\ FAILED \in flags
         /\ Crash
      \/ /\ FAILED \notin flags
         /\ flags = {CONCLUDED} => ord.number = NoNumber
         /\ eid_port1' = e1
         /\ eid_port2' = e2
         /\ UNCHANGED <<ord, orderLed, kind, label>>
         /\ confirmed' = confirmed \cup (IF ok THEN {p} \cap OrderPorts ELSE {})
         /\ NothingSent
         /\ NothingEnds

(* the watchdog reboots the rack: memory, lamp and sockets are gone *)
Restart ==
  /\ ~alive
  /\ alive' = TRUE
  /\ DropOrder
  /\ txBuf' = NoFrames
  /\ sent' = Silence
  /\ sockets' = {}
  /\ UNCHANGED <<replies, used>>

Init ==
  /\ ord = NoOrder
  /\ eid_port1 = FreshPort(NoPort)
  /\ eid_port2 = FreshPort(NoPort)
  /\ txBuf = NoFrames
  /\ sent = Silence
  /\ orderLed = FALSE
  /\ alive = TRUE
  /\ sockets = {}
  /\ replies = <<>>
  /\ kind = NoKind
  /\ label = [p \in Ports |-> BLANK]
  /\ confirmed = {}
  /\ used = {}
=============================================================================
