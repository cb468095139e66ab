--------------------------- MODULE JiajianCommon ---------------------------
(***************************************************************************)
(* What the handlers of inter-rack orders share (lib_orders/               *)
(* Jiajian_common.c): the one order a rack can have in hand, the           *)
(* connection between two racks, the thread that opens it and the thread   *)
(* that reads from it.                                                     *)
(*                                                                         *)
(* Every rack runs the same program.  The rack that gets the order from    *)
(* its asker is host of it; it arms its own port and connects to the other *)
(* rack, which arms the other port and from then on passes on what its     *)
(* boards report and writes to them what the host says.                    *)
(***************************************************************************)
EXTENDS JiajianBoards

CONSTANTS
  Clients, Nobody,   \* sockets of askers; no socket (the handheld has none)
  Orders, NoOrder,
  Conns, NoSock,     \* connections, a bound on those in use at one time
  NoRack, NoMsg,
  MaxWire            \* bound of the messages on their way to one end

ASSUME CommonAssumption ==
  /\ Nobody \notin Clients
  /\ NoOrder \notin Orders
  /\ NoRack \notin Racks
  /\ MaxWire \in Nat \ {0}

VARIABLES
  order,      \* Jiajian_Order of each rack
  orderLed,   \* the order lamp of each rack
  wiping,     \* racks inside the second a cancel sleeps before its memset
  call,       \* the connections and the threads that open them
  wire,       \* messages on their way, per connection and end
  answers,    \* what was sent to askers
  request,    \* observer: what was asked under each number
  heard       \* observer: the last movement a host was told of either end

commonVars == <<order, orderLed, wiping, call, wire, answers, request, heard>>
vars == <<commonVars, boardVars>>

(* Messages between racks.  role says whose handler they are for: 0x18/0x19 *)
(* for the remote rack, 0x08/0x09 for the host.                             *)
Msg(op, k, role) ==
  [op |-> op, cmd |-> [kind |-> k, role |-> role], to |-> NoRack, port |-> NoPort,
   label |-> NoLabel, ok |-> TRUE]
ArmMsg(k, rack, p) == [Msg(ARM, k, "remote") EXCEPT !.to = rack, !.port = p]
PortMsg(op, k, p) == [Msg(op, k, "remote") EXCEPT !.port = p]
GuideMsg(p, e) == [Msg(GUIDE, "new", "remote") EXCEPT !.port = p, !.label = e]
MoveMsg(what, k, e) == [Msg(what, k, "host") EXCEPT !.label = e]
ResultMsg(k, ok) == [Msg(CONCLUDED, k, "host") EXCEPT !.ok = ok]

Ends == {"caller", "callee"}
Other(end) == IF end = "caller" THEN "callee" ELSE "caller"
Sock(c, end) == [conn |-> c, end |-> end]

EMPTY == 4
USED == 5
UNSET == 0

(* memset of Jiajian_Order.  row is row 0 of jiajian_lo_temp_data, the last *)
(* message built for the other rack; incoming the row the reading thread    *)
(* receives into, before it asks for the mutex.                             *)
Cleared ==
  [order_host |-> "none", connect_sockfd |-> NoSock, server_sockfd |-> Nobody,
   order_result |-> NoOrder, local_port |-> NoPort, jiajian_port |-> NoPort,
   local_eid |-> NoLabel, jiajian_eid |-> NoLabel,
   local_stat |-> UNSET, jiajian_stat |-> UNSET,
   local_flag |-> "none", jiajian_flag |-> "none", row |-> NoMsg, incoming |-> NoMsg]

NoCall == [at |-> "free", from |-> NoRack, to |-> NoRack, fresh |-> FALSE, up |-> FALSE]
NotAsked == [host |-> NoRack, here |-> NoPort, far |-> NoRack, there |-> NoPort, client |-> Nobody]
Unheard == [local |-> "nothing", jiajian |-> "nothing"]

CommonInit ==
  /\ order = [r \in Racks |-> Cleared]
  /\ orderLed = [r \in Racks |-> FALSE]
  /\ wiping = {}
  /\ call = [c \in Conns |-> NoCall]
  /\ wire = [c \in Conns |-> [caller |-> <<>>, callee |-> <<>>]]
  /\ answers = <<>>
  /\ request = [n \in Orders |-> NotAsked]
  /\ heard = [r \in Racks |-> Unheard]

-----------------------------------------------------------------------------
(* Sending.  A message to an end nobody reads any more is as good as lost.  *)
Reads(c, end) ==
  IF end = "caller"
  THEN call[c].at \in {"connected", "sent"} \/ order[call[c].from].connect_sockfd = Sock(c, end)
  ELSE call[c].fresh \/ order[call[c].to].connect_sockfd = Sock(c, end)

Delivers(s) == s # NoSock /\ call[s.conn].up /\ Reads(s.conn, Other(s.end))

Carried(s, ms) ==
  IF Delivers(s) THEN [wire EXCEPT ![s.conn][Other(s.end)] = @ \o ms] ELSE wire

Room(s, ms) == Delivers(s) => Len(wire[s.conn][Other(s.end)]) + Len(ms) <= MaxWire

(* Rack r says the messages ms to the other rack, the order becoming o, and *)
(* writes f to its own boards, or writes nothing.                           *)
Say(r, o, ms) ==
  /\ Room(o.connect_sockfd, ms)
  /\ order' = [order EXCEPT ![r] = [o EXCEPT !.row = ms[Len(ms)]]]
  /\ wire' = Carried(o.connect_sockfd, ms)
  /\ UNCHANGED <<orderLed, answers>>

SayAndWrite(r, o, ms, f, waiting) == Say(r, o, ms) /\ Write(r, f, waiting)
JustSay(r, o, m, waiting) == Say(r, o, <<m>>) /\ Silent(r, waiting)
  /\ UNCHANGED <<orderLed, answers>>

JustWrite(r, o, f, waiting) ==
  /\ order' = [order EXCEPT ![r] = o]
  /\ Write(r, f, waiting)
  /\ UNCHANGED <<wire, orderLed, answers>>

Note(r, o, waiting) ==
  /\ order' = [order EXCEPT ![r] = o]
  /\ Silent(r, waiting)
  /\ UNCHANGED <<wire, orderLed, answers>>

(* The order is over at rack r. *)
Clear(r) ==
  /\ order' = [order EXCEPT ![r] = Cleared]
  /\ orderLed' = [orderLed EXCEPT ![r] = FALSE]

(* Mutant: the answer is built after the memset. *)
ReplyAfterMemset(o, ok) ==
  answers' = IF o.server_sockfd = Nobody THEN answers
             ELSE Append(answers, [order |-> NoOrder, to |-> o.server_sockfd, ok |-> ok])

(* Mutant: the socket is not looked at. *)
ReplyToAnything(o, ok) ==
  answers' = Append(answers, [order |-> o.order_result, to |-> o.server_sockfd, ok |-> ok])

(* Jiajian_order_reply_routine: only a socket of the net side is answered.  *)
Reply(o, ok) ==
  answers' = IF o.server_sockfd = Nobody THEN answers
             ELSE Append(answers, [order |-> o.order_result, to |-> o.server_sockfd, ok |-> ok])

(* Mutant: every conclusion is answered. *)
ConcludeEach(r, o, waiting) ==
  /\ Reply(o, "bad" \notin {o.local_flag, o.jiajian_flag})
  /\ Silent(r, waiting) /\ UNCHANGED wire
  /\ IF "none" \notin {o.local_flag, o.jiajian_flag} THEN Clear(r)
     ELSE order' = [order EXCEPT ![r] = o] /\ UNCHANGED orderLed

(* Mutant: one good conclusion is enough. *)
ConcludeEither(r, o, waiting) ==
  LET good == "good" \in {o.local_flag, o.jiajian_flag}
  IN  Reply(o, good) /\ Clear(r) /\ Silent(r, waiting) /\ UNCHANGED wire

(* A conclusion has been entered in o: with both good, or one bad, the order *)
(* is answered and over.                                                     *)
Conclude(r, o, waiting) ==
  LET both == o.local_flag = "good" /\ o.jiajian_flag = "good"
  IN  IF both \/ "bad" \in {o.local_flag, o.jiajian_flag}
      THEN Reply(o, both) /\ Clear(r) /\ Silent(r, waiting) /\ UNCHANGED wire
      ELSE Note(r, o, waiting)

Flag(ok) == IF ok THEN "good" ELSE "bad"

-----------------------------------------------------------------------------
(* The connect thread.  Each of its steps reads the order as it then is,    *)
(* without the mutex.                                                       *)
Reusable(c) ==
  /\ call[c].at \in {"free", "kept"}
  /\ ~ (call[c].fresh /\ wire[c].callee # <<>>)
  /\ \A r \in Racks, end \in Ends : order[r].connect_sockfd # Sock(c, end)

StartCall(r) ==
  \E c \in Conns :
    /\ Reusable(c)
    /\ call' = [call EXCEPT ![c] = [at |-> "starting", from |-> r, to |-> r,
                                    fresh |-> FALSE, up |-> TRUE]]
    /\ wire' = [wire EXCEPT ![c] = [caller |-> <<>>, callee |-> <<>>]]

(***************************************************************************)
(* jiajian_new_or_del_2_ports_order_send_routine: without a connection a   *)
(* thread is started to open one; then the frame for the rack's own board. *)
(***************************************************************************)
SendRoutine(r, s, m, f) ==
  /\ IF s = NoSock THEN StartCall(r)
     ELSE Room(s, <<m>>) /\ wire' = Carried(s, <<m>>) /\ UNCHANGED call
  /\ Write(r, f, outbox[r])

(* The address is read from the row of the last message: it is there in an  *)
(* order; a row of zeros names this very rack; in any other message, a      *)
(* cancel's included, the bytes read are not an address of a rack.          *)
Dialled(r) ==
  CASE order[r].row = NoMsg -> r
    [] order[r].row # NoMsg /\ order[r].row.op = ARM -> order[r].row.to
    [] OTHER -> NoRack

Connected(c) ==
  /\ call[c].at = "starting"
  /\ Dialled(call[c].from) # NoRack
  /\ call' = [call EXCEPT ![c].at = "connected", ![c].to = Dialled(call[c].from), ![c].fresh = TRUE]
  /\ UNCHANGED <<order, wire>>

ConnectFailed(c) ==
  /\ call[c].at = "starting"
  /\ call' = [call EXCEPT ![c] = NoCall]
  /\ UNCHANGED <<order, wire>>

FirstSent(c) ==
  LET row == order[call[c].from].row
  IN  /\ call[c].at = "connected"
      /\ call' = [call EXCEPT ![c].at = "sent"]
      /\ wire' = IF row = NoMsg \/ ~call[c].up THEN wire
                 ELSE [wire EXCEPT ![c].callee = Append(@, row)]
      /\ UNCHANGED order

Kept(c) ==
  /\ call[c].at = "sent"
  /\ call' = [call EXCEPT ![c].at = "kept"]
  /\ order' = [order EXCEPT ![call[c].from].connect_sockfd = Sock(c, "caller")]
  /\ UNCHANGED wire

ConnectStep(c) ==
  /\ Connected(c) \/ ConnectFailed(c) \/ FirstSent(c) \/ Kept(c)
  /\ UNCHANGED <<orderLed, wiping, answers, request, heard, boardVars>>

-----------------------------------------------------------------------------
(* The reading thread.  It receives without the mutex into a row of the     *)
(* order itself, and then waits for the mutex to handle it.                 *)
Receive(r) ==
  LET s == order[r].connect_sockfd
  IN  /\ s # NoSock
      /\ order[r].incoming = NoMsg
      /\ wire[s.conn][s.end] # <<>>
      /\ (s.end = "callee" => ~call[s.conn].fresh)
      /\ order' = [order EXCEPT ![r].incoming = Head(wire[s.conn][s.end])]
      /\ wire' = [wire EXCEPT ![s.conn][s.end] = Tail(@)]
      /\ UNCHANGED <<orderLed, wiping, call, answers, request, heard, boardVars>>

(* The other rack is gone: the thread marks element 5 of connect_sockfd,    *)
(* which is the word after that array, the asker's socket.                  *)
PeerGone(r) ==
  LET s == order[r].connect_sockfd
  IN  /\ s # NoSock
      /\ ~call[s.conn].up
      /\ wire[s.conn][s.end] = <<>>
      /\ order[r].server_sockfd # Nobody
      /\ order' = [order EXCEPT ![r].server_sockfd = Nobody]
      /\ UNCHANGED <<orderLed, wiping, call, wire, answers, request, heard, boardVars>>

(* A rack is reset: its order, its threads and its connections are gone.    *)
(* Its boards have a supply of their own.                                   *)
Restart(r) ==
  /\ Clear(r)
  /\ wiping' = wiping \ {r}
  /\ call' = [c \in Conns |->
       IF call[c].from = r /\ call[c].at = "starting" THEN NoCall
       ELSE IF r \in {call[c].from, call[c].to} /\ call[c].at # "starting"
       THEN [call[c] EXCEPT !.up = FALSE,
                            !.fresh = @ /\ call[c].to # r,
                            !.at = IF call[c].from = r THEN "kept" ELSE @]
       ELSE call[c]]
  /\ UNCHANGED <<wire, answers, request>>
  /\ heard' = [heard EXCEPT ![r] = Unheard]
  /\ UNCHANGED boardVars
=============================================================================
