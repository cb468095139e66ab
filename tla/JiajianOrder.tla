---------------------------- MODULE JiajianOrder ----------------------------
(***************************************************************************)
(* Inter-rack orders of two racks or more: requests, cancels, the threads, *)
(* messages, reports and resets together, and what must hold of them.      *)
(***************************************************************************)
EXTENDS JiajianDel2

CONSTANTS
  Hosts,       \* the racks that askers send orders to
  Askers,      \* who asks: sockets, or Nobody for the handheld
  Resets,      \* the racks that may be reset
  OwnEnds,     \* the end of an order that is at the rack that gets it
  Asked        \* the kinds of order asked for

ASSUME OrderAssumption ==
  /\ Hosts \subseteq Racks
  /\ Resets \subseteq Racks
  /\ Askers \subseteq Clients \cup {Nobody}
  /\ OwnEnds \subseteq {"A", "Z"}
  /\ Asked \subseteq Kinds

Init == CommonInit /\ BoardsInit

Ask(r, n) ==
  \E client \in Askers, end \in OwnEnds, here, there \in Ports, far \in Racks \ {r} :
    \/ "new" \in Asked /\ RequestNew2(r, n, client, end, here, far, there)
    \/ "del" \in Asked /\ RequestDel2(r, n, client, end, here, far, there)

Cancel(r) ==
  \E here, there \in Ports :
    \/ "new" \in Asked /\ CancelNew2(r, here, there)
    \/ "del" \in Asked /\ CancelDel2(r, here, there)

(* What a host was last told of either end, whatever it made of it.         *)
Told(r, end, what, e) ==
  heard' = IF what \notin Movements THEN [heard EXCEPT ![r] = IF order'[r] = Cleared THEN Unheard ELSE @]
           ELSE [heard EXCEPT ![r][end] = IF what = INSERTED THEN e
                                          ELSE IF what = REINSERTED THEN "some label" ELSE NoLabel]

(* The message received is handled under the mutex, by the handler of its   *)
(* own command byte, whatever order is in hand by then.                     *)
HandleMessage(r) ==
  LET m == order[r].incoming
      o == [order[r] EXCEPT !.incoming = NoMsg]
  IN  /\ r \notin wiping
      /\ m # NoMsg
      /\ CASE m.cmd = [kind |-> "new", role |-> "host"] -> MasterPart2New2(r, o, m)
           [] m.cmd = [kind |-> "del", role |-> "host"] -> MasterPart2Del2(r, o, m)
           [] m.cmd = [kind |-> "new", role |-> "remote"] -> SlavePart2New2(r, o, m)
           [] m.cmd = [kind |-> "del", role |-> "remote"] -> SlavePart2Del2(r, o, m)
      /\ IF m.cmd.role = "host" THEN Told(r, "jiajian", m.op, m.label) ELSE UNCHANGED heard
      /\ UNCHANGED <<wiping, call, request>>

(* A board is polled, and its oldest report handled likewise. *)
Poll(r) ==
  LET rep == Head(outbox[r])
      waiting == Tail(outbox[r])
      o == order[r]
  IN  /\ r \notin wiping
      /\ outbox[r] # <<>>
      /\ CASE rep.cmd = [kind |-> "new", role |-> "host"] -> MasterPart3New2(r, o, rep, waiting)
           [] rep.cmd = [kind |-> "del", role |-> "host"] -> MasterPart3Del2(r, o, rep, waiting)
           [] rep.cmd = [kind |-> "new", role |-> "remote"] -> SlavePart3New2(r, o, rep, waiting)
           [] rep.cmd = [kind |-> "del", role |-> "remote"] -> SlavePart3Del2(r, o, rep, waiting)
      /\ IF rep.cmd.role = "host" THEN Told(r, "local", rep.what, rep.label) ELSE UNCHANGED heard
      /\ UNCHANGED <<wiping, call, request>>

Move(r, p, e) == MoveLabel(r, p, e) /\ UNCHANGED commonVars

ThreadStep == (\E c \in Conns : ConnectStep(c) \/ FirstMessage(c)) \/ (\E r \in Racks : Receive(r))

RackStep(r) == Wipe(r) \/ HandleMessage(r) \/ Poll(r)

WorkerStep == \E r \in Racks, p \in Ports, e \in Labels : Move(r, p, e)

Next ==
  \/ \E r \in Hosts, n \in Orders : Ask(r, n)
  \/ \E r \in Hosts, n \in Orders, client \in Clients : Refuse(r, n, client)
  \/ \E r \in Hosts : Cancel(r)
  \/ ThreadStep
  \/ \E r \in Racks : RackStep(r) \/ PeerGone(r)
  \/ \E r \in Resets : Restart(r)
  \/ WorkerStep

Spec == Init /\ [][Next]_vars

-----------------------------------------------------------------------------
(***************************************************************************)
(* A patient asker: asks when nothing is left of the order before, and     *)
(* cancels with the ports it asked for.  No rack is reset.  The threads    *)
(* run, boards are polled and the network delivers (the loops of           *)
(* main.c:2179 and Jiajian_common.c:544 never end); a connection may still *)
(* fail, and nothing is assumed of worker and asker.                       *)
(***************************************************************************)
Quiet ==
  /\ wiping = {}
  /\ \A r \in Racks : order[r] = Cleared /\ outbox[r] = <<>>
  /\ \A r \in Racks, p \in Ports : armed[r][p] = NotArmed
  /\ \A c \in Conns : call[c].at \in {"free", "kept"} /\ (call[c].fresh => wire[c].callee = <<>>)

InHand(n) == request[n] # NotAsked /\ order[request[n].host].order_result = n

PatientNext ==
  \/ Quiet /\ \E r \in Hosts, n \in Orders : Ask(r, n)
  \/ \E n \in Orders : InHand(n) /\ LET q == request[n] IN
       \/ armed[q.host][q.here].kind = "new" /\ CancelNew2(q.host, q.here, q.there)
       \/ armed[q.host][q.here].kind = "del" /\ CancelDel2(q.host, q.here, q.there)
  \/ ThreadStep
  \/ \E r \in Racks : RackStep(r)
  \/ WorkerStep

Fairness ==
  /\ \A c \in Conns : WF_vars(ConnectStep(c)) /\ WF_vars(FirstMessage(c))
  /\ \A r \in Racks : /\ WF_vars(Receive(r)) /\ WF_vars(Wipe(r))
                      /\ WF_vars(HandleMessage(r)) /\ WF_vars(Poll(r))

PatientSpec == Init /\ [][PatientNext]_vars /\ Fairness

-----------------------------------------------------------------------------
Sockets == [conn : Conns, end : Ends] \cup {NoSock}
Msgs == [op : {ARM, CANCEL, GUIDE} \cup Movements \cup {CONCLUDED}, cmd : Cmds,
         to : Racks \cup {NoRack}, port : Ports \cup {NoPort},
         label : Labels \cup {NoLabel}, ok : BOOLEAN]
OrderRecords ==
  [order_host : {"none", "this", "remote"}, connect_sockfd : Sockets,
   server_sockfd : Clients \cup {Nobody}, order_result : Orders \cup {NoOrder},
   local_port : Ports \cup {NoPort}, jiajian_port : Ports \cup {NoPort},
   local_eid : Labels \cup {NoLabel}, jiajian_eid : Labels \cup {NoLabel},
   local_stat : {UNSET, EMPTY, USED}, jiajian_stat : {UNSET, EMPTY, USED},
   local_flag : {"none", "good", "bad"}, jiajian_flag : {"none", "good", "bad"},
   row : Msgs \cup {NoMsg}, incoming : Msgs \cup {NoMsg}]
Calls == [at : {"free", "starting", "connected", "sent", "kept"},
          from : Racks \cup {NoRack}, to : Racks \cup {NoRack},
          fresh : BOOLEAN, up : BOOLEAN]
Requests == [host : Racks \cup {NoRack}, here : Ports \cup {NoPort},
             far : Racks \cup {NoRack}, there : Ports \cup {NoPort},
             client : Clients \cup {Nobody}]

(* A row of zeros is no message, and no socket is a connection's. *)
ASSUME BlankAssumption == NoMsg \notin Msgs /\ NoSock \notin [conn : Conns, end : Ends]

(* Every variable has the values it is meant to have. *)
TypeOK ==
  /\ order \in [Racks -> OrderRecords]
  /\ orderLed \in [Racks -> BOOLEAN]
  /\ wiping \subseteq Racks
  /\ call \in [Conns -> Calls]
  /\ wire \in [Conns -> [caller : Seq(Msgs), callee : Seq(Msgs)]]
  /\ answers \in Seq([order : Orders, to : Clients, ok : BOOLEAN])
  /\ request \in [Orders -> Requests]
  /\ BoardsTypeOK

(* An order a rack has taken is answered at most once, whatever comes late  *)
(* from boards and racks, and whoever is reset.  (A refused one can be      *)
(* answered again, by a late report: it stays behind as half an order.)     *)
TakenAnsweredOnce ==
  \A i, j \in DOMAIN answers :
    answers[i].order = answers[j].order /\ request[answers[i].order].host # NoRack => i = j

(* The result of an order goes to the socket that asked for it, never to    *)
(* the asker of an order that replaced it.                                  *)
AnswerGoesToAsker ==
  \A i \in DOMAIN answers : answers[i].to = request[answers[i].order].client

(* While a rack has an order in hand its lamp is lit, at both racks. *)
OrderMeansLamp == \A r \in Racks : order[r].order_host # "none" => orderLed[r]

(* The host's boards are told to conclude only while the last movements it  *)
(* was told of both ends agree: one label put in at both, or both pulled.   *)
ConcludedOnAgreement ==
  [][ \A r \in Racks, p \in Ports :
        concluded'[r][p] \notin {"open", concluded[r][p]} /\ armed[r][p].role = "host"
        => /\ heard'[r].local = heard'[r].jiajian
           /\ IF armed[r][p].kind = "new" THEN heard'[r].local \in Labels
              ELSE heard'[r].local = NoLabel ]_vars

(* An order is answered as done only when the boards of both racks have     *)
(* concluded the very ports it named.                                       *)
SuccessMeansBoth ==
  [][ \A i \in DOMAIN answers' \ DOMAIN answers :
        answers'[i].ok => LET q == request[answers'[i].order]
                          IN  concluded[q.host][q.here] = "good" /\ concluded[q.far][q.there] = "good" ]_vars

(* When the boards of both racks have concluded an order, it ends at the    *)
(* host, however slowly messages and polls come in.                         *)
BothConcluded(n) ==
  LET q == request[n]
  IN  InHand(n) /\ concluded[q.host][q.here] # "open" /\ concluded[q.far][q.there] # "open"

ConcludedOrderEnds == \A n \in Orders : BothConcluded(n) ~> ~InHand(n)
=============================================================================
