--------------------------- MODULE JiajianRequest ---------------------------
(***************************************************************************)
(* Requests and cancels of inter-rack orders with two ports, at the rack   *)
(* that gets them from an asker (master_part_1 of both order files) and at *)
(* the rack the host connects to (slave_part_1).                           *)
(***************************************************************************)
EXTENDS JiajianCommon

(* Mutant: the asker's socket is set for a net request and never reset. *)
TakeOrderKeepingAsker(r, k, n, client, end, here, far, there) ==
  /\ r \notin wiping
  /\ request[n] = NotAsked
  /\ order' = [order EXCEPT ![r] = [Cleared EXCEPT
       !.order_host = "this", !.order_result = n, !.row = ArmMsg(k, far, there),
       !.server_sockfd = IF client = Nobody THEN order[r].server_sockfd ELSE client,
       !.local_port = here, !.jiajian_port = there]]
  /\ orderLed' = [orderLed EXCEPT ![r] = TRUE]
  /\ SendRoutine(r, NoSock, ArmMsg(k, far, there), Frame(ARM, here, k, "host"))
  /\ request' = [request EXCEPT ![n] =
       [host |-> r, here |-> here, far |-> far, there |-> there, client |-> client]]
  /\ heard' = [heard EXCEPT ![r] = Unheard]
  /\ UNCHANGED <<wiping, answers>>

(* The rack's own port is the A end or the Z end of the order.  The two     *)
(* ports kept are the A port as the rack's own and the Z port as the other  *)
(* rack's, whichever end is its own.                                        *)
TakeOrder(r, k, n, client, end, here, far, there) ==
  /\ r \notin wiping
  /\ request[n] = NotAsked
  /\ order' = [order EXCEPT ![r] = [Cleared EXCEPT
       !.order_host = "this", !.server_sockfd = client, !.order_result = n,
       !.row = ArmMsg(k, far, there),
       !.local_port = IF end = "A" THEN here ELSE there,
       !.jiajian_port = IF end = "A" THEN there ELSE here]]
  /\ orderLed' = [orderLed EXCEPT ![r] = TRUE]
  /\ SendRoutine(r, NoSock, ArmMsg(k, far, there), Frame(ARM, here, k, "host"))
  /\ request' = [request EXCEPT ![n] =
       [host |-> r, here |-> here, far |-> far, there |-> there, client |-> client]]
  /\ heard' = [heard EXCEPT ![r] = Unheard]
  /\ UNCHANGED <<wiping, answers>>

RequestNew2(r, n, client, end, here, far, there) ==
  TakeOrder(r, "new", n, client, end, here, far, there)

RequestDel2(r, n, client, end, here, far, there) ==
  TakeOrder(r, "del", n, client, end, here, far, there)

(* Neither end is at this rack: the asker is told so, but the order before  *)
(* is gone, and the refused one stays behind as half an order.              *)
Refuse(r, n, client) ==
  LET o == [Cleared EXCEPT !.server_sockfd = client, !.order_result = n]
  IN  /\ r \notin wiping
      /\ request[n] = NotAsked
      /\ order' = [order EXCEPT ![r] = o]
      /\ Reply(o, FALSE)
      /\ request' = [request EXCEPT ![n] = [NotAsked EXCEPT !.client = client]]
      /\ heard' = [heard EXCEPT ![r] = Unheard]
      /\ UNCHANGED <<orderLed, wiping, call, wire, boardVars>>

(* A cancel names both ends again; here is the port at this rack.  The send *)
(* routine sleeps a second, the mutex in its hands, before it clears.       *)
TakeCancel(r, k, here, there) ==
  /\ r \notin wiping
  /\ order[r].order_host # "none"
  /\ wiping' = wiping \cup {r}
  /\ order' = [order EXCEPT ![r].row = PortMsg(CANCEL, k, there)]
  /\ SendRoutine(r, order[r].connect_sockfd, PortMsg(CANCEL, k, there),
                 Frame(CANCEL, here, k, "host"))
  /\ UNCHANGED <<orderLed, answers, request, heard>>

CancelNew2(r, here, there) == TakeCancel(r, "new", here, there)
CancelDel2(r, here, there) == TakeCancel(r, "del", here, there)

Wipe(r) ==
  /\ r \in wiping
  /\ wiping' = wiping \ {r}
  /\ Clear(r)
  /\ heard' = [heard EXCEPT ![r] = Unheard]
  /\ UNCHANGED <<call, wire, answers, request, boardVars>>

(* The port a cancel from the host is written for: the handlers of new      *)
(* orders take it from one byte too early.                                  *)
CancelledPort(m) == IF m.cmd.kind = "new" THEN NoPort ELSE m.port

(* Mutant: the rack that is connected to leaves its lamp alone. *)
AcceptedInTheDark(r, c, m) ==
  /\ m.op # CANCEL /\ m.op = ARM /\ m.to = r
  /\ order' = [order EXCEPT ![r] = [Cleared EXCEPT
       !.order_host = "remote", !.connect_sockfd = Sock(c, "callee")]]
  /\ Write(r, Frame(ARM, m.port, m.cmd.kind, "remote"), outbox[r])
  /\ UNCHANGED orderLed

(***************************************************************************)
(* The net thread of the rack a host has connected to reads one message.   *)
(* Anything but a cancel is taken for an order, and clears the one before; *)
(* only one that names this rack is then taken.                            *)
(***************************************************************************)
Accepted(r, c, m) ==
  /\ m.op # CANCEL /\ m.op = ARM /\ m.to = r
  /\ order' = [order EXCEPT ![r] = [Cleared EXCEPT
       !.order_host = "remote", !.connect_sockfd = Sock(c, "callee")]]
  /\ orderLed' = [orderLed EXCEPT ![r] = TRUE]
  /\ Write(r, Frame(ARM, m.port, m.cmd.kind, "remote"), outbox[r])

NotForUs(r, m) ==
  /\ m.op # CANCEL /\ ~ (m.op = ARM /\ m.to = r)
  /\ order' = [order EXCEPT ![r] = Cleared]
  /\ UNCHANGED <<orderLed, boardVars>>

CancelledByNet(r, m) ==
  /\ m.op = CANCEL
  /\ Clear(r)
  /\ Write(r, Frame(CANCEL, CancelledPort(m), m.cmd.kind, "remote"), outbox[r])

FirstMessage(c) ==
  LET r == call[c].to
      m == Head(wire[c].callee)
  IN  /\ call[c].fresh
      /\ wire[c].callee # <<>>
      /\ r \notin wiping
      /\ m.cmd.role = "remote"
      /\ Accepted(r, c, m) \/ NotForUs(r, m) \/ CancelledByNet(r, m)
      /\ call' = [call EXCEPT ![c].fresh = FALSE]
      /\ wire' = [wire EXCEPT ![c].callee = Tail(@)]
      /\ heard' = [heard EXCEPT ![r] = Unheard]
      /\ UNCHANGED <<wiping, answers, request>>
=============================================================================
