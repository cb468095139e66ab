--------------------------- MODULE JiajianProofs ---------------------------
(***************************************************************************)
(* Inter-rack orders, for any number of racks, orders, askers and          *)
(* connections: what is answered, to whom and how often, and the lamps.    *)
(***************************************************************************)
EXTENDS JiajianOrder, SequenceTheorems, TLAPS

-----------------------------------------------------------------------------
(* The values of all variables but the answers, and which racks a thread    *)
(* and an unread connection are between.                                    *)
OrdersTyped == order \in [Racks -> OrderRecords] /\ orderLed \in [Racks -> BOOLEAN]
WireTyped == wire \in [Conns -> [caller : Seq(Msgs), callee : Seq(Msgs)]]
CallsTyped ==
  /\ call \in [Conns -> Calls]
  /\ \A c \in Conns : /\ call[c].at \in {"starting", "connected", "sent"} => call[c].from \in Racks
                      /\ call[c].fresh => call[c].to \in Racks
RestTyped == wiping \subseteq Racks /\ request \in [Orders -> Requests]

Typed == OrdersTyped /\ WireTyped /\ CallsTyped /\ RestTyped /\ BoardsTypeOK

(* What tells whose order it is. *)
IdsOf(o) == <<o.order_host, o.server_sockfd, o.order_result>>

-----------------------------------------------------------------------------
(* What a step does to the orders in hand.                                  *)
OthersKeep(r) == \A q \in Racks \ {r} : IdsOf(order'[q]) = IdsOf(order[q]) /\ orderLed'[q] = orderLed[q]

(* It goes on with the same orders, *)
GoesOn ==
  /\ \A q \in Racks : IdsOf(order'[q]) = IdsOf(order[q]) /\ orderLed'[q] = orderLed[q]
  /\ UNCHANGED <<answers, request>>

(* rack r has none any more, after an answer or without, *)
Answers(r) ==
  /\ order[r].server_sockfd # Nobody
  /\ \E ok \in BOOLEAN :
       answers' = Append(answers, [order |-> order[r].order_result, to |-> order[r].server_sockfd, ok |-> ok])

Loses(r) ==
  /\ OthersKeep(r)
  /\ IdsOf(order'[r]) = IdsOf(Cleared)
  /\ answers' = answers \/ Answers(r)
  /\ UNCHANGED request

(* it has one from the other rack, whose asker it does not know, *)
TakesFar(r) ==
  /\ OthersKeep(r)
  /\ order'[r].order_host = "remote" /\ order'[r].server_sockfd = Nobody /\ order'[r].order_result = NoOrder
  /\ orderLed'[r] = TRUE
  /\ UNCHANGED <<answers, request>>

(* or one from an asker, *)
Takes(r, n, client) ==
  /\ OthersKeep(r)
  /\ request[n] = NotAsked
  /\ order'[r].order_host = "this" /\ order'[r].server_sockfd = client /\ order'[r].order_result = n
  /\ orderLed'[r] = TRUE
  /\ \E q \in Requests : q.host = r /\ q.client = client /\ request' = [request EXCEPT ![n] = q]
  /\ UNCHANGED answers

(* which it may refuse, *)
Refuses(r, n, client) ==
  /\ OthersKeep(r)
  /\ request[n] = NotAsked
  /\ order'[r].order_host = "none" /\ order'[r].server_sockfd = client /\ order'[r].order_result = n
  /\ request' = [request EXCEPT ![n] = [NotAsked EXCEPT !.client = client]]
  /\ answers' = Append(answers, [order |-> n, to |-> client, ok |-> FALSE])

(* or it forgets the asker. *)
Forgets(r) ==
  /\ OthersKeep(r)
  /\ order'[r].order_host = order[r].order_host /\ orderLed'[r] = orderLed[r]
  /\ order'[r].server_sockfd = Nobody /\ order'[r].order_result = order[r].order_result
  /\ UNCHANGED <<answers, request>>

Outcome ==
  \/ GoesOn
  \/ \E r \in Racks : Loses(r) \/ TakesFar(r) \/ Forgets(r)
  \/ \E r \in Racks, n \in Orders :
       (\E client \in Clients \cup {Nobody} : Takes(r, n, client)) \/ (\E client \in Clients : Refuses(r, n, client))

(* A handler of rack r. *)
Handled(r) == Typed' /\ (GoesOn \/ Loses(r))

-----------------------------------------------------------------------------
(* What handlers are built from. *)

(* A cleared order has the values of an order. *)
LEMMA ClearedTyped == Cleared \in OrderRecords /\ Cleared.order_host = "none"
  /\ Cleared.server_sockfd = Nobody /\ Cleared.order_result = NoOrder
BY DEF Cleared, OrderRecords, Sockets, UNSET, EMPTY, USED

(* A message, by the values it is built with. *)
LEMMA MsgsTyped ==
  ASSUME NEW k \in Kinds, NEW p \in Ports \cup {NoPort}, NEW e \in Labels \cup {NoLabel}, NEW rack \in Racks,
         NEW ok \in BOOLEAN
  PROVE  /\ ArmMsg(k, rack, p) \in Msgs
         /\ \A op \in {CANCEL, CONFIRM, OUTPUT} : PortMsg(op, k, p) \in Msgs
         /\ GuideMsg(p, e) \in Msgs
         /\ \A what \in Movements : MoveMsg(what, k, e) \in Msgs
         /\ ResultMsg(k, ok) \in Msgs
BY DEF ArmMsg, PortMsg, GuideMsg, MoveMsg, ResultMsg, Msg, Msgs, Cmds, Kinds, Roles, Movements, ARM, CANCEL, CONFIRM,
   GUIDE, OUTPUT, CONCLUDED, INSERTED, PULLED, REINSERTED, PULLEDBACK

(* A frame, likewise. *)
LEMMA FramesTyped ==
  ASSUME NEW k \in Kinds, NEW p \in Ports \cup {NoPort}, NEW role \in Roles,
         NEW op \in {ARM, CANCEL, CONFIRM, GUIDE, OUTPUT}
  PROVE  Frame(op, p, k, role) \in Frames
BY DEF Frame, Frames, Cmds

(* What is written to the line keeps the boards to their values. *)
LEMMA WriteTyped ==
  ASSUME BoardsTypeOK, NEW r \in Racks, NEW f \in Frames, NEW waiting \in Seq(Reports), Write(r, f, waiting)
  PROVE  BoardsTypeOK'
<1>1. /\ armed \in [Racks -> [Ports -> Cmds \cup {NotArmed}]]
      /\ tag \in [Racks -> [Ports -> Labels \cup {NoLabel}]] /\ tag' = tag
      /\ outbox \in [Racks -> Seq(Reports)]
      /\ concluded \in [Racks -> [Ports -> {"open", "good", "bad"}]]
  BY DEF BoardsTypeOK, Write
<1>2. f.cmd \in Cmds
  BY DEF Frames
<1>3. CASE /\ armed' = [armed EXCEPT ![r][f.port] = f.cmd]
           /\ concluded' = [concluded EXCEPT ![r][f.port] = "open"]
           /\ outbox' = [outbox EXCEPT ![r] = waiting]
  BY <1>1, <1>2, <1>3 DEF BoardsTypeOK
<1>4. CASE /\ armed' = [armed EXCEPT ![r] = [p \in Ports |-> IF p = f.port THEN NotArmed ELSE @[p]]]
           /\ outbox' = [outbox EXCEPT ![r] = waiting]
           /\ UNCHANGED concluded
  BY <1>1, <1>4 DEF BoardsTypeOK
<1>5. ASSUME f.port \in Ports, armed[r][f.port] # NotArmed, NEW ok \in Results,
             outbox' = [outbox EXCEPT ![r] = Append(waiting,
                  [cmd |-> armed[r][f.port], what |-> CONCLUDED, label |-> NoLabel, ok |-> ok])],
             concluded' = [concluded EXCEPT ![r][f.port] = IF ok THEN "good" ELSE "bad"],
             armed' = [armed EXCEPT ![r][f.port] = NotArmed]
      PROVE  BoardsTypeOK'
  <2>1. [cmd |-> armed[r][f.port], what |-> CONCLUDED, label |-> NoLabel, ok |-> ok] \in Reports
    BY <1>1, <1>5, BoardsAssumption DEF Reports
  <2>2. Append(waiting, [cmd |-> armed[r][f.port], what |-> CONCLUDED, label |-> NoLabel, ok |-> ok]) \in Seq(Reports)
    BY <2>1, AppendProperties
  <2>3. outbox' \in [Racks -> Seq(Reports)]
    BY <1>1, <1>5, <2>2
  <2> QED
    BY <1>1, <1>5, <2>3 DEF BoardsTypeOK
<1>6. CASE outbox' = [outbox EXCEPT ![r] = waiting] /\ UNCHANGED <<armed, concluded>>
  BY <1>1, <1>6 DEF BoardsTypeOK
<1> QED
  BY <1>3, <1>4, <1>5, <1>6 DEF Write

(* A handler that writes nothing, likewise. *)
LEMMA SilentTyped ==
  ASSUME BoardsTypeOK, NEW r \in Racks, NEW waiting \in Seq(Reports), Silent(r, waiting)
  PROVE  BoardsTypeOK'
BY DEF BoardsTypeOK, Silent

(* Messages put on the wire keep it to its values. *)
LEMMA CarriedTyped ==
  ASSUME WireTyped, NEW s \in Sockets, NEW ms \in Seq(Msgs), wire' = Carried(s, ms)
  PROVE  WireTyped'
<1>1. CASE Delivers(s)
  <2>1. s \in [conn : Conns, end : Ends]
    BY <1>1 DEF Delivers, Sockets
  <2>2. s.conn \in Conns /\ Other(s.end) \in {"caller", "callee"}
    BY <2>1 DEF Ends, Other
  <2>3. wire[s.conn][Other(s.end)] \in Seq(Msgs)
    BY <2>2 DEF WireTyped
  <2>4. wire[s.conn][Other(s.end)] \o ms \in Seq(Msgs)
    BY <2>3, ConcatProperties
  <2>5. wire' = [wire EXCEPT ![s.conn][Other(s.end)] = wire[s.conn][Other(s.end)] \o ms]
    BY <1>1 DEF Carried
  <2>6. wire[s.conn] \in [caller : Seq(Msgs), callee : Seq(Msgs)]
    BY <2>2 DEF WireTyped
  <2>7. [wire[s.conn] EXCEPT ![Other(s.end)] = wire[s.conn][Other(s.end)] \o ms]
          \in [caller : Seq(Msgs), callee : Seq(Msgs)]
    <3>1. CASE Other(s.end) = "caller"
      BY <2>4, <2>6, <3>1
    <3>2. CASE Other(s.end) = "callee"
      BY <2>4, <2>6, <3>2
    <3> QED
      BY <2>2, <3>1, <3>2
  <2> QED
    BY <2>2, <2>5, <2>7 DEF WireTyped
<1>2. CASE ~Delivers(s)
  BY <1>2 DEF Carried, WireTyped
<1> QED
  BY <1>1, <1>2

-----------------------------------------------------------------------------
(* What handlers do: o is the order of rack r as a handler leaves it.       *)
OfRack(r, o) == o \in OrderRecords /\ IdsOf(o) = IdsOf(order[r])

(* The order goes on as o. *)
LEMMA StaysHandled ==
  ASSUME Typed, NEW r \in Racks, NEW o, OfRack(r, o), order' = [order EXCEPT ![r] = o],
         UNCHANGED <<orderLed, answers, wiping, call, request>>, WireTyped', BoardsTypeOK'
  PROVE  Handled(r)
<1>1. order' \in [Racks -> OrderRecords] /\ \A q \in Racks : order'[q] = IF q = r THEN o ELSE order[q]
  BY DEF Typed, OrdersTyped, OfRack
<1>2. \A q \in Racks : IdsOf(order'[q]) = IdsOf(order[q]) /\ orderLed'[q] = orderLed[q]
  BY <1>1 DEF OfRack, IdsOf
<1>3. GoesOn
  BY <1>2 DEF GoesOn
<1>4. Typed'
  BY <1>1 DEF Typed, OrdersTyped, CallsTyped, RestTyped
<1> QED
  BY <1>3, <1>4 DEF Handled

(* The order is over. *)
LEMMA OverHandled ==
  ASSUME Typed, NEW r \in Racks, Clear(r), answers' = answers \/ Answers(r),
         UNCHANGED <<wiping, call, request>>, WireTyped', BoardsTypeOK'
  PROVE  Handled(r)
<1>1. /\ order' \in [Racks -> OrderRecords] /\ orderLed' \in [Racks -> BOOLEAN]
      /\ \A q \in Racks : order'[q] = IF q = r THEN Cleared ELSE order[q]
      /\ \A q \in Racks : orderLed'[q] = IF q = r THEN FALSE ELSE orderLed[q]
  BY ClearedTyped DEF Typed, OrdersTyped, Clear
<1>2. Loses(r)
  BY <1>1 DEF Loses, OthersKeep
<1>3. Typed'
  BY <1>1 DEF Typed, OrdersTyped, CallsTyped, RestTyped
<1> QED
  BY <1>2, <1>3 DEF Handled

(* It says something to the other rack, and writes a frame or none. *)
LEMMA SayHandled ==
  ASSUME Typed, NEW r \in Racks, NEW o, OfRack(r, o), NEW ms \in Seq(Msgs), ms # <<>>,
         NEW waiting \in Seq(Reports), NEW f \in Frames,
         Say(r, o, ms), Write(r, f, waiting) \/ Silent(r, waiting), UNCHANGED <<wiping, call, request>>
  PROVE  Handled(r)
<1>1. ms[Len(ms)] \in Msgs
  <2>1. Len(ms) \in Nat /\ Len(ms) # 0 /\ Len(ms) \in 1..Len(ms)
    BY EmptySeq, LenProperties
  <2> QED
    BY <2>1, ElementOfSeq
<1>2. PICK o2 : o2 = [o EXCEPT !.row = ms[Len(ms)]]
  OBVIOUS
<1>3. OfRack(r, o2)
  BY <1>1, <1>2 DEF OfRack, OrderRecords, IdsOf
<1>4. order' = [order EXCEPT ![r] = o2] /\ UNCHANGED <<orderLed, answers>>
  BY <1>2 DEF Say
<1>5. o.connect_sockfd \in Sockets /\ wire' = Carried(o.connect_sockfd, ms)
  BY DEF Say, OfRack, OrderRecords
<1>6. WireTyped'
  BY <1>5, CarriedTyped DEF Typed
<1>7. BoardsTypeOK'
  BY WriteTyped, SilentTyped DEF Typed
<1> QED
  BY <1>3, <1>4, <1>6, <1>7, StaysHandled

(* Likewise with a frame always, *)
LEMMA SayAndWriteHandled ==
  ASSUME Typed, NEW r \in Racks, NEW o, OfRack(r, o), NEW ms \in Seq(Msgs), ms # <<>>,
         NEW waiting \in Seq(Reports), NEW f \in Frames,
         SayAndWrite(r, o, ms, f, waiting), UNCHANGED <<wiping, call, request>>
  PROVE  Handled(r)
BY SayHandled DEF SayAndWrite

(* with a message and no frame, *)
LEMMA JustSayHandled ==
  ASSUME Typed, NEW r \in Racks, NEW o, OfRack(r, o), NEW m \in Msgs,
         NEW waiting \in Seq(Reports), JustSay(r, o, m, waiting), UNCHANGED <<wiping, call, request>>
  PROVE  Handled(r)
<1>1. <<m>> \in Seq(Msgs) /\ <<m>> # <<>>
  OBVIOUS
<1>2. PICK k \in Kinds, p \in Ports \cup {NoPort} : TRUE
  BY DEF Kinds
<1>3. Frame(GUIDE, p, k, "host") \in Frames
  BY FramesTyped DEF Roles
<1>4. PICK f : f = Frame(GUIDE, p, k, "host")
  OBVIOUS
<1> QED
  BY <1>1, <1>3, <1>4, SayHandled DEF JustSay

(* with a frame and no message, *)
LEMMA JustWriteHandled ==
  ASSUME Typed, NEW r \in Racks, NEW o, OfRack(r, o), NEW f \in Frames,
         NEW waiting \in Seq(Reports), JustWrite(r, o, f, waiting), UNCHANGED <<wiping, call, request>>
  PROVE  Handled(r)
<1>1. BoardsTypeOK' /\ WireTyped'
  BY WriteTyped DEF Typed, JustWrite, WireTyped
<1> QED
  BY <1>1, StaysHandled DEF JustWrite

(* with neither, *)
LEMMA NoteHandled ==
  ASSUME Typed, NEW r \in Racks, NEW o, OfRack(r, o),
         NEW waiting \in Seq(Reports), Note(r, o, waiting), UNCHANGED <<wiping, call, request>>
  PROVE  Handled(r)
<1>1. BoardsTypeOK' /\ WireTyped'
  BY SilentTyped DEF Typed, Note, WireTyped
<1> QED
  BY <1>1, StaysHandled DEF Note

(* and with a conclusion, which may end the order. *)
LEMMA ConcludeHandled ==
  ASSUME Typed, NEW r \in Racks, NEW o, OfRack(r, o),
         NEW waiting \in Seq(Reports), Conclude(r, o, waiting), UNCHANGED <<wiping, call, request>>
  PROVE  Handled(r)
<1>1. CASE Note(r, o, waiting)
  BY <1>1, NoteHandled
<1>2. ASSUME NEW ok \in BOOLEAN, Reply(o, ok), Clear(r), Silent(r, waiting), UNCHANGED wire
      PROVE  Handled(r)
  <2>1. answers' = answers \/ Answers(r)
    BY <1>2 DEF Reply, Answers, OfRack, IdsOf
  <2>2. BoardsTypeOK' /\ WireTyped'
    BY <1>2, SilentTyped DEF Typed, WireTyped
  <2> QED
    BY <1>2, <2>1, <2>2, OverHandled
<1>3. (o.local_flag = "good" /\ o.jiajian_flag = "good") \in BOOLEAN
  OBVIOUS
<1> QED
  BY <1>1, <1>2, <1>3 DEF Conclude

-----------------------------------------------------------------------------
(* The handlers, one after the other. *)

(* Both ends are told to conclude, or that the port is free again. *)
LEMMA BothHandled ==
  ASSUME Typed, NEW r \in Racks, NEW o, OfRack(r, o), NEW waiting \in Seq(Reports), NEW k \in Kinds,
         UNCHANGED <<wiping, call, request>>, ConfirmBoth(r, k, o, waiting) \/ OutputBoth(r, o, waiting)
  PROVE  Handled(r)
<1>1. o.jiajian_port \in Ports \cup {NoPort} /\ o.local_port \in Ports \cup {NoPort}
  BY DEF OfRack, OrderRecords
<1>2. "host" \in Roles /\ "new" \in Kinds
  BY DEF Roles, Kinds
<1>3. ASSUME NEW op \in {CONFIRM, OUTPUT}, NEW kk \in Kinds,
             SayAndWrite(r, o, <<PortMsg(op, kk, o.jiajian_port)>>, Frame(op, o.local_port, kk, "host"), waiting)
      PROVE  Handled(r)
  <2>1. PICK m : m = PortMsg(op, kk, o.jiajian_port)
    OBVIOUS
  <2>2. PICK f : f = Frame(op, o.local_port, kk, "host")
    OBVIOUS
  <2>3. m \in Msgs
    <3>1. PICK rack \in Racks : TRUE
      OBVIOUS
    <3>2. NoLabel \in Labels \cup {NoLabel} /\ TRUE \in BOOLEAN
      OBVIOUS
    <3> QED
      BY <1>1, <2>1, <3>2, MsgsTyped
  <2>4. f \in Frames
    BY <1>1, <1>2, <2>2, FramesTyped
  <2>5. <<m>> \in Seq(Msgs) /\ <<m>> # <<>>
    BY <2>3
  <2> QED
    BY <1>3, <2>1, <2>2, <2>4, <2>5, SayAndWriteHandled
<1> QED
  BY <1>2, <1>3 DEF ConfirmBoth, OutputBoth

(* Messages, and the frames to the host's own port, are well formed. *)
LEMMA PartsTyped ==
  ASSUME NEW r \in Racks, NEW o \in OrderRecords, NEW e \in Labels \cup {NoLabel}, NEW op \in {GUIDE, CONFIRM}
  PROVE  /\ GuideMsg(o.jiajian_port, e) \in Msgs
         /\ GuideMsg(o.jiajian_port, o.local_eid) \in Msgs
         /\ PortMsg(CONFIRM, "new", o.jiajian_port) \in Msgs
         /\ Frame(op, o.local_port, "new", "host") \in Frames
<1>1. /\ o.jiajian_port \in Ports \cup {NoPort} /\ o.local_port \in Ports \cup {NoPort}
      /\ o.local_eid \in Labels \cup {NoLabel} /\ "new" \in Kinds /\ "host" \in Roles /\ TRUE \in BOOLEAN
  BY DEF OrderRecords, Kinds, Roles
<1> QED
  BY <1>1, MsgsTyped, FramesTyped

(* New orders: a label put in at the other rack, *)
LEMMA FarInsertedHandled ==
  ASSUME Typed, NEW r \in Racks, NEW o, OfRack(r, o), NEW waiting \in Seq(Reports),
         NEW e \in Labels \cup {NoLabel},
         UNCHANGED <<wiping, call, request>>, FarInserted(r, o, e, waiting)
  PROVE  Handled(r)
<1>1. PICK kept : kept = [o EXCEPT !.jiajian_eid = e, !.jiajian_stat = USED]
  OBVIOUS
<1>2. OfRack(r, kept) /\ o \in OrderRecords
  BY <1>1 DEF OfRack, OrderRecords, IdsOf
<1>3. CASE JustWrite(r, kept, Frame(GUIDE, o.local_port, "new", "host"), waiting)
  <2>1. PICK f : f = Frame(GUIDE, o.local_port, "new", "host")
    OBVIOUS
  <2> QED
    BY <1>2, <1>3, <2>1, PartsTyped, JustWriteHandled
<1>4. CASE ConfirmBoth(r, "new", kept, waiting)
  BY <1>2, <1>4, BothHandled DEF Kinds
<1>5. CASE SayAndWrite(r, o, <<GuideMsg(o.jiajian_port, o.local_eid), PortMsg(CONFIRM, "new", o.jiajian_port)>>,
                       Frame(CONFIRM, o.local_port, "new", "host"), waiting)
  <2>1. PICK f : f = Frame(CONFIRM, o.local_port, "new", "host")
    OBVIOUS
  <2>2. PICK m : m = GuideMsg(o.jiajian_port, o.local_eid)
    OBVIOUS
  <2>3. PICK m2 : m2 = PortMsg(CONFIRM, "new", o.jiajian_port)
    OBVIOUS
  <2>4. f \in Frames /\ m \in Msgs /\ m2 \in Msgs
    BY <1>2, <2>1, <2>2, <2>3, PartsTyped
  <2>5. <<m, m2>> \in Seq(Msgs) /\ <<m, m2>> # <<>>
    BY <2>4
  <2> QED
    BY <1>5, <2>1, <2>2, <2>3, <2>4, <2>5, SayAndWriteHandled
<1>6. CASE JustSay(r, o, GuideMsg(o.jiajian_port, o.local_eid), waiting)
  <2>1. PICK m : m = GuideMsg(o.jiajian_port, o.local_eid)
    OBVIOUS
  <2> QED
    BY <1>2, <1>6, <2>1, PartsTyped, JustSayHandled
<1> QED
  BY <1>1, <1>3, <1>4, <1>5, <1>6 DEF FarInserted

(* put in here, *)
LEMMA NearInsertedHandled ==
  ASSUME Typed, NEW r \in Racks, NEW o, OfRack(r, o), NEW waiting \in Seq(Reports),
         NEW e \in Labels \cup {NoLabel},
         UNCHANGED <<wiping, call, request>>, NearInserted(r, o, e, waiting)
  PROVE  Handled(r)
<1>1. PICK kept : kept = [o EXCEPT !.local_eid = e, !.local_stat = USED]
  OBVIOUS
<1>2. OfRack(r, kept) /\ o \in OrderRecords
  BY <1>1 DEF OfRack, OrderRecords, IdsOf
<1>3. CASE JustSay(r, kept, GuideMsg(o.jiajian_port, e), waiting)
  <2>1. PICK m : m = GuideMsg(o.jiajian_port, e)
    OBVIOUS
  <2> QED
    BY <1>2, <1>3, <2>1, PartsTyped, JustSayHandled
<1>4. CASE ConfirmBoth(r, "new", kept, waiting)
  BY <1>2, <1>4, BothHandled DEF Kinds
<1>5. CASE JustWrite(r, [o EXCEPT !.local_eid = NoLabel], Frame(GUIDE, o.local_port, "new", "host"), waiting)
  <2>1. PICK f : f = Frame(GUIDE, o.local_port, "new", "host")
    OBVIOUS
  <2>2. PICK gone : gone = [o EXCEPT !.local_eid = NoLabel]
    OBVIOUS
  <2>3. OfRack(r, gone)
    BY <2>2 DEF OfRack, OrderRecords, IdsOf
  <2> QED
    BY <1>2, <1>5, <2>1, <2>2, <2>3, PartsTyped, JustWriteHandled
<1> QED
  BY <1>1, <1>3, <1>4, <1>5 DEF NearInserted

(* and pulled again, at either. *)
LEMMA PulledBackHandled ==
  ASSUME Typed, NEW r \in Racks, NEW o, OfRack(r, o), NEW waiting \in Seq(Reports),
         UNCHANGED <<wiping, call, request>>, FarPulledBack(r, o, waiting) \/ NearPulledBack(r, o, waiting)
  PROVE  Handled(r)
<1>1. PICK far : far = [o EXCEPT !.jiajian_eid = NoLabel, !.jiajian_stat = EMPTY]
  OBVIOUS
<1>2. PICK near : near = [o EXCEPT !.local_eid = NoLabel, !.local_stat = EMPTY]
  OBVIOUS
<1>3. PICK far2 : far2 = [far EXCEPT !.local_eid = NoLabel]
  OBVIOUS
<1>4. PICK near2 : near2 = [near EXCEPT !.jiajian_eid = NoLabel]
  OBVIOUS
<1>5. OfRack(r, far) /\ OfRack(r, near)
  BY <1>1, <1>2 DEF OfRack, OrderRecords, IdsOf
<1>6. OfRack(r, far2) /\ OfRack(r, near2)
  BY <1>3, <1>4, <1>5 DEF OfRack, OrderRecords, IdsOf
<1>7. \/ OutputBoth(r, far2, waiting) \/ Note(r, far, waiting)
      \/ OutputBoth(r, near2, waiting) \/ Note(r, near, waiting)
  BY <1>1, <1>2, <1>3, <1>4 DEF FarPulledBack, NearPulledBack
<1> QED
  BY <1>5, <1>6, <1>7, BothHandled, NoteHandled DEF Kinds

(* Removals: a label pulled or put back, at either. *)
LEMMA PulledHandled ==
  ASSUME Typed, NEW r \in Racks, NEW o, OfRack(r, o), NEW waiting \in Seq(Reports),
         UNCHANGED <<wiping, call, request>>,
         \/ FarPulled(r, o, waiting) \/ NearPulled(r, o, waiting)
         \/ FarReinserted(r, o, waiting) \/ NearReinserted(r, o, waiting)
  PROVE  Handled(r)
<1>1. PICK far : far = [o EXCEPT !.jiajian_stat = EMPTY]
  OBVIOUS
<1>2. PICK near : near = [o EXCEPT !.local_stat = EMPTY]
  OBVIOUS
<1>3. PICK far2 : far2 = [o EXCEPT !.jiajian_stat = USED]
  OBVIOUS
<1>4. PICK near2 : near2 = [o EXCEPT !.local_stat = USED]
  OBVIOUS
<1>5. OfRack(r, far) /\ OfRack(r, near) /\ OfRack(r, far2) /\ OfRack(r, near2)
  BY <1>1, <1>2, <1>3, <1>4 DEF OfRack, OrderRecords, IdsOf
<1>6. \/ ConfirmBoth(r, "del", far, waiting) \/ Note(r, far, waiting)
      \/ ConfirmBoth(r, "del", near, waiting) \/ Note(r, near, waiting)
      \/ Note(r, far2, waiting) \/ Note(r, near2, waiting)
  BY <1>1, <1>2, <1>3, <1>4 DEF FarPulled, NearPulled, FarReinserted, NearReinserted
<1> QED
  BY <1>5, <1>6, BothHandled, NoteHandled DEF Kinds

(* A port concluded, at either. *)
LEMMA ConcludedHandled ==
  ASSUME Typed, NEW r \in Racks, NEW o, OfRack(r, o), NEW waiting \in Seq(Reports), NEW ok \in BOOLEAN,
         UNCHANGED <<wiping, call, request>>,
         FarConcluded(r, o, ok, waiting) \/ NearConcluded(r, o, ok, waiting)
  PROVE  Handled(r)
<1>1. PICK far : far = [o EXCEPT !.jiajian_flag = Flag(ok)]
  OBVIOUS
<1>2. PICK near : near = [o EXCEPT !.local_flag = Flag(ok)]
  OBVIOUS
<1>3. OfRack(r, far) /\ OfRack(r, near)
  BY <1>1, <1>2 DEF OfRack, OrderRecords, IdsOf, Flag
<1>4. Conclude(r, far, waiting) \/ Conclude(r, near, waiting)
  BY <1>1, <1>2 DEF FarConcluded, NearConcluded
<1> QED
  BY <1>3, <1>4, ConcludeHandled

(* The other rack passes on what its boards report, *)
LEMMA PassedOnHandled ==
  ASSUME Typed, NEW r \in Racks, NEW o, OfRack(r, o), NEW waiting \in Seq(Reports),
         UNCHANGED <<wiping, call, request>>, NEW k \in Kinds, NEW e \in Labels \cup {NoLabel}, NEW ok \in BOOLEAN,
         \/ \E what \in Movements : PassOn(r, o, MoveMsg(what, k, e), waiting)
         \/ PassOnResult(r, o, k, ok, waiting)
  PROVE  Handled(r)
<1>1. NoPort \in Ports \cup {NoPort}
  OBVIOUS
<1>2. ASSUME NEW what \in Movements, PassOn(r, o, MoveMsg(what, k, e), waiting) PROVE Handled(r)
  <2>1. PICK m : m = MoveMsg(what, k, e)
    OBVIOUS
  <2>2. m \in Msgs
    BY <1>1, <2>1, MsgsTyped
  <2> QED
    BY <1>2, <2>1, <2>2, JustSayHandled DEF PassOn
<1>3. CASE PassOnResult(r, o, k, ok, waiting)
  <2>1. PICK m : m = ResultMsg(k, ok)
    OBVIOUS
  <2>2. m \in Msgs
    <3>1. NoLabel \in Labels \cup {NoLabel}
      OBVIOUS
    <3> QED
      BY <1>1, <2>1, <3>1, MsgsTyped
  <2>3. <<m>> \in Seq(Msgs) /\ o.connect_sockfd \in Sockets /\ wire' = Carried(o.connect_sockfd, <<m>>)
    BY <1>3, <2>1, <2>2 DEF PassOnResult, OfRack, OrderRecords
  <2>4. WireTyped' /\ BoardsTypeOK'
    BY <1>3, <2>3, CarriedTyped, SilentTyped DEF Typed, PassOnResult
  <2> QED
    BY <1>3, <2>4, OverHandled DEF PassOnResult
<1> QED
  BY <1>2, <1>3

(* ... and does what the host says. *)
LEMMA ToldHandled ==
  ASSUME Typed, NEW r \in Racks, NEW o, OfRack(r, o), NEW m \in Msgs,
         UNCHANGED <<wiping, call, request>>, SlavePart2New2(r, o, m) \/ SlavePart2Del2(r, o, m)
  PROVE  Handled(r)
<1>1. outbox[r] \in Seq(Reports) /\ m.port \in Ports \cup {NoPort} /\ m.cmd.kind \in Kinds
      /\ CancelledPort(m) \in Ports \cup {NoPort} /\ "remote" \in Roles
  BY DEF Typed, BoardsTypeOK, Msgs, Cmds, CancelledPort, Roles
<1>2. PICK waiting : waiting = outbox[r]
  OBVIOUS
<1>3. ASSUME NEW op \in {GUIDE, OUTPUT, CONFIRM}, NEW k \in Kinds,
             JustWrite(r, o, Frame(op, m.port, k, "remote"), outbox[r])
      PROVE  Handled(r)
  <2>1. PICK f : f = Frame(op, m.port, k, "remote")
    OBVIOUS
  <2>2. f \in Frames
    BY <1>1, <2>1, FramesTyped
  <2> QED
    BY <1>1, <1>2, <1>3, <2>1, <2>2, JustWriteHandled
<1>4. CASE Withdrawn(r, m)
  <2>1. PICK f : f = Frame(CANCEL, CancelledPort(m), m.cmd.kind, "remote")
    OBVIOUS
  <2>2. f \in Frames
    BY <1>1, <2>1, FramesTyped
  <2>3. BoardsTypeOK' /\ WireTyped'
    BY <1>1, <1>2, <1>4, <2>1, <2>2, WriteTyped DEF Typed, Withdrawn, WireTyped
  <2> QED
    BY <1>4, <2>3, OverHandled DEF Withdrawn
<1> QED
  BY <1>3, <1>4 DEF SlavePart2New2, SlavePart2Del2, Kinds

-----------------------------------------------------------------------------
(* Each action: its handler, or what it does to the order itself.           *)

(* A message is handled. *)
LEMMA MessageHandled ==
  ASSUME Typed, NEW r \in Racks, HandleMessage(r)
  PROVE  Handled(r)
<1>1. PICK m : m = order[r].incoming
  OBVIOUS
<1>2. PICK o : o = [order[r] EXCEPT !.incoming = NoMsg]
  OBVIOUS
<1>3. order[r] \in OrderRecords
  BY DEF Typed, OrdersTyped
<1>4. OfRack(r, o)
  BY <1>2, <1>3 DEF OfRack, OrderRecords, IdsOf
<1>5. m \in Msgs
  BY <1>1, <1>3 DEF HandleMessage, OrderRecords
<1>6. m.cmd \in Cmds /\ m.label \in Labels \cup {NoLabel} /\ m.ok \in BOOLEAN
  BY <1>5 DEF Msgs
<1>7. PICK waiting : waiting = outbox[r]
  OBVIOUS
<1>8. waiting \in Seq(Reports)
  BY <1>7 DEF Typed, BoardsTypeOK
<1>9. PICK e : e = m.label
  OBVIOUS
<1>10. PICK ok : ok = m.ok
  OBVIOUS
<1>11. \/ MasterPart2New2(r, o, m) \/ MasterPart2Del2(r, o, m)
       \/ SlavePart2New2(r, o, m) \/ SlavePart2Del2(r, o, m)
  BY <1>1, <1>2, <1>6 DEF HandleMessage, Cmds, Kinds, Roles
<1>12. UNCHANGED <<wiping, call, request>>
  BY DEF HandleMessage
<1>13. CASE SlavePart2New2(r, o, m) \/ SlavePart2Del2(r, o, m)
  BY <1>4, <1>5, <1>12, <1>13, ToldHandled
<1>14. CASE MasterPart2New2(r, o, m)
  BY <1>4, <1>6, <1>7, <1>8, <1>9, <1>10, <1>12, <1>14, FarInsertedHandled, PulledBackHandled, ConcludedHandled
     DEF MasterPart2New2
<1>15. CASE MasterPart2Del2(r, o, m)
  BY <1>4, <1>6, <1>7, <1>8, <1>10, <1>12, <1>15, PulledHandled, ConcludedHandled DEF MasterPart2Del2
<1> QED
  BY <1>11, <1>13, <1>14, <1>15

(* A report is handled. *)
LEMMA PollHandled ==
  ASSUME Typed, NEW r \in Racks, Poll(r)
  PROVE  Handled(r)
<1>1. outbox[r] \in Seq(Reports) /\ outbox[r] # <<>>
  BY DEF Typed, BoardsTypeOK, Poll
<1>2. PICK rep : rep = Head(outbox[r])
  OBVIOUS
<1>3. PICK waiting : waiting = Tail(outbox[r])
  OBVIOUS
<1>4. rep \in Reports /\ waiting \in Seq(Reports)
  BY <1>1, <1>2, <1>3, HeadTailProperties
<1>5. PICK o : o = order[r]
  OBVIOUS
<1>6. OfRack(r, o)
  BY <1>5 DEF OfRack, Typed, OrdersTyped
<1>7. rep.cmd \in Cmds /\ rep.label \in Labels \cup {NoLabel} /\ rep.ok \in BOOLEAN
  BY <1>4 DEF Reports
<1>8. PICK e : e = rep.label
  OBVIOUS
<1>9. PICK ok : ok = rep.ok
  OBVIOUS
<1>10. \/ MasterPart3New2(r, o, rep, waiting) \/ MasterPart3Del2(r, o, rep, waiting)
       \/ SlavePart3New2(r, o, rep, waiting) \/ SlavePart3Del2(r, o, rep, waiting)
  BY <1>2, <1>3, <1>5, <1>7 DEF Poll, Cmds, Kinds, Roles
<1>11. UNCHANGED <<wiping, call, request>>
  BY DEF Poll
<1>12. CASE MasterPart3New2(r, o, rep, waiting)
  BY <1>4, <1>6, <1>7, <1>8, <1>9, <1>11, <1>12, NearInsertedHandled, PulledBackHandled, ConcludedHandled
     DEF MasterPart3New2
<1>13. CASE MasterPart3Del2(r, o, rep, waiting)
  BY <1>4, <1>6, <1>7, <1>9, <1>11, <1>13, PulledHandled, ConcludedHandled DEF MasterPart3Del2
<1>14. PICK k \in Kinds : k = "new"
  BY DEF Kinds
<1>15. PICK d \in Kinds : d = "del"
  BY DEF Kinds
<1>16. {INSERTED, PULLEDBACK} \subseteq Movements /\ {PULLED, REINSERTED} \subseteq Movements
  BY DEF Movements
<1>17. CASE SlavePart3New2(r, o, rep, waiting)
  BY <1>4, <1>6, <1>7, <1>8, <1>9, <1>11, <1>14, <1>16, <1>17, PassedOnHandled DEF SlavePart3New2
<1>18. CASE SlavePart3Del2(r, o, rep, waiting)
  BY <1>4, <1>6, <1>7, <1>8, <1>9, <1>11, <1>15, <1>16, <1>18, PassedOnHandled DEF SlavePart3Del2
<1> QED
  BY <1>10, <1>12, <1>13, <1>17, <1>18

(* The send routine keeps connections, messages and boards to their values. *)
LEMMA SendTyped ==
  ASSUME Typed, NEW r \in Racks, NEW s \in Sockets, NEW m \in Msgs, NEW f \in Frames, SendRoutine(r, s, m, f)
  PROVE  WireTyped' /\ CallsTyped' /\ BoardsTypeOK'
<1>1. PICK waiting : waiting = outbox[r]
  OBVIOUS
<1>2. waiting \in Seq(Reports)
  BY <1>1 DEF Typed, BoardsTypeOK
<1>3. BoardsTypeOK'
  BY <1>1, <1>2, WriteTyped DEF SendRoutine, Typed
<1>4. CASE StartCall(r)
  <2>1. PICK c \in Conns :
          /\ call' = [call EXCEPT ![c] = [at |-> "starting", from |-> r, to |-> r, fresh |-> FALSE, up |-> TRUE]]
          /\ wire' = [wire EXCEPT ![c] = [caller |-> <<>>, callee |-> <<>>]]
    BY <1>4 DEF StartCall
  <2>2. [at |-> "starting", from |-> r, to |-> r, fresh |-> FALSE, up |-> TRUE] \in Calls
    BY DEF Calls
  <2>3. CallsTyped'
    BY <2>1, <2>2 DEF Typed, CallsTyped
  <2>4. <<>> \in Seq(Msgs)
    OBVIOUS
  <2>5. WireTyped'
    BY <2>1, <2>4 DEF Typed, WireTyped
  <2> QED
    BY <1>3, <2>3, <2>5
<1>5. CASE wire' = Carried(s, <<m>>) /\ UNCHANGED call
  <2>1. <<m>> \in Seq(Msgs)
    OBVIOUS
  <2>2. WireTyped' /\ CallsTyped'
    BY <1>5, <2>1, CarriedTyped DEF Typed, CallsTyped
  <2> QED
    BY <1>3, <2>2
<1> QED
  BY <1>4, <1>5 DEF SendRoutine

(* An asker's order is taken, *)
LEMMA TakenOutcome ==
  ASSUME Typed, NEW r \in Racks, NEW n \in Orders, NEW k \in Kinds, NEW client \in Clients \cup {Nobody},
         NEW end, NEW here \in Ports, NEW there \in Ports, NEW far \in Racks,
         TakeOrder(r, k, n, client, end, here, far, there)
  PROVE  Typed' /\ Takes(r, n, client)
<1>1. PICK m : m = ArmMsg(k, far, there)
  OBVIOUS
<1>2. PICK f : f = Frame(ARM, here, k, "host")
  OBVIOUS
<1>3. m \in Msgs
  <2>1. there \in Ports \cup {NoPort} /\ NoLabel \in Labels \cup {NoLabel} /\ TRUE \in BOOLEAN
    OBVIOUS
  <2> QED
    BY <1>1, <2>1, MsgsTyped
<1>4. f \in Frames
  BY <1>2, FramesTyped DEF Roles
<1>5. NoSock \in Sockets
  BY DEF Sockets
<1>6. PICK s : s = NoSock
  OBVIOUS
<1>7. WireTyped' /\ CallsTyped' /\ BoardsTypeOK'
  BY <1>1, <1>2, <1>3, <1>4, <1>5, <1>6, SendTyped DEF TakeOrder
<1>8. PICK o : o = [Cleared EXCEPT
       !.order_host = "this", !.server_sockfd = client, !.order_result = n, !.row = m,
       !.local_port = IF end = "A" THEN here ELSE there,
       !.jiajian_port = IF end = "A" THEN there ELSE here]
  OBVIOUS
<1>9. o \in OrderRecords /\ o.order_host = "this" /\ o.server_sockfd = client /\ o.order_result = n
  BY <1>3, <1>8, ClearedTyped DEF OrderRecords, Cleared
<1>10. order' = [order EXCEPT ![r] = o] /\ orderLed' = [orderLed EXCEPT ![r] = TRUE]
  BY <1>1, <1>8 DEF TakeOrder
<1>11. OrdersTyped' /\ OthersKeep(r) /\ order'[r] = o /\ orderLed'[r] = TRUE
  BY <1>9, <1>10 DEF Typed, OrdersTyped, OthersKeep
<1>12. PICK q : q = [host |-> r, here |-> here, far |-> far, there |-> there, client |-> client]
  OBVIOUS
<1>13. q \in Requests /\ q.host = r /\ q.client = client /\ request' = [request EXCEPT ![n] = q]
  BY <1>12 DEF Requests, TakeOrder
<1>14. RestTyped'
  BY <1>13 DEF Typed, RestTyped, TakeOrder
<1> QED
  BY <1>7, <1>9, <1>11, <1>13, <1>14 DEF Typed, Takes, TakeOrder

(* whichever kind he asks for, *)
LEMMA AskedOutcome ==
  ASSUME Typed, NEW r \in Racks, NEW n \in Orders, Ask(r, n)
  PROVE  Typed' /\ Outcome
<1>1. PICK client \in Clients \cup {Nobody}, end \in OwnEnds, here \in Ports, there \in Ports, far \in Racks, k \in Kinds :
        TakeOrder(r, k, n, client, end, here, far, there)
  BY OrderAssumption DEF Ask, RequestNew2, RequestDel2, Kinds
<1> QED
  BY <1>1, TakenOutcome DEF Outcome

(* refused, *)
LEMMA RefusedOutcome ==
  ASSUME Typed, NEW r \in Racks, NEW n \in Orders, NEW client \in Clients, Refuse(r, n, client)
  PROVE  Typed' /\ Outcome
<1>1. PICK o : o = [Cleared EXCEPT !.server_sockfd = client, !.order_result = n]
  OBVIOUS
<1>2. o \in OrderRecords /\ o.order_host = "none" /\ o.server_sockfd = client /\ o.order_result = n
  BY <1>1, ClearedTyped DEF OrderRecords, Cleared
<1>3. order' = [order EXCEPT ![r] = o] /\ UNCHANGED <<orderLed, wiping, call, wire, boardVars>>
  BY <1>1 DEF Refuse
<1>4. client # Nobody
  BY CommonAssumption
<1>5. answers' = Append(answers, [order |-> n, to |-> client, ok |-> FALSE])
  BY <1>1, <1>2, <1>4 DEF Refuse, Reply
<1>6. [NotAsked EXCEPT !.client = client] \in Requests
  BY DEF NotAsked, Requests
<1>7. request[n] = NotAsked /\ request' = [request EXCEPT ![n] = [NotAsked EXCEPT !.client = client]]
  BY DEF Refuse
<1>8. RestTyped'
  BY <1>3, <1>6, <1>7 DEF Typed, RestTyped
<1>9. OrdersTyped' /\ OthersKeep(r) /\ order'[r] = o
  BY <1>2, <1>3 DEF Typed, OrdersTyped, OthersKeep
<1>10. Refuses(r, n, client)
  BY <1>2, <1>5, <1>7, <1>9 DEF Refuses
<1>11. WireTyped' /\ CallsTyped' /\ BoardsTypeOK'
  BY <1>3 DEF Typed, WireTyped, CallsTyped, BoardsTypeOK, boardVars
<1> QED
  BY <1>8, <1>9, <1>10, <1>11 DEF Typed, Outcome

(* or cancelled. *)
LEMMA CancelledOutcome ==
  ASSUME Typed, NEW r \in Racks, NEW k \in Kinds, NEW here \in Ports, NEW there \in Ports,
         TakeCancel(r, k, here, there)
  PROVE  Typed' /\ Outcome
<1>1. PICK m : m = PortMsg(CANCEL, k, there)
  OBVIOUS
<1>2. PICK f : f = Frame(CANCEL, here, k, "host")
  OBVIOUS
<1>3. m \in Msgs
  <2>1. there \in Ports \cup {NoPort} /\ NoLabel \in Labels \cup {NoLabel} /\ TRUE \in BOOLEAN
    OBVIOUS
  <2> QED
    BY <1>1, <2>1, MsgsTyped
<1>4. f \in Frames
  BY <1>2, FramesTyped DEF Roles
<1>5. PICK s : s = order[r].connect_sockfd
  OBVIOUS
<1>6. order[r] \in OrderRecords /\ s \in Sockets
  BY <1>5 DEF Typed, OrdersTyped, OrderRecords
<1>7. WireTyped' /\ CallsTyped' /\ BoardsTypeOK'
  BY <1>1, <1>2, <1>3, <1>4, <1>5, <1>6, SendTyped DEF TakeCancel
<1>8. order' = [order EXCEPT ![r].row = m] /\ UNCHANGED <<orderLed, answers, request>> /\ wiping' = wiping \cup {r}
  BY <1>1 DEF TakeCancel
<1>9. PICK o : o = [order[r] EXCEPT !.row = m]
  OBVIOUS
<1>10. OfRack(r, o) /\ order' = [order EXCEPT ![r] = o]
  BY <1>3, <1>6, <1>8, <1>9 DEF OfRack, OrderRecords, IdsOf
<1>11. GoesOn /\ OrdersTyped' /\ RestTyped'
  BY <1>8, <1>10 DEF GoesOn, OfRack, IdsOf, Typed, OrdersTyped, RestTyped
<1> QED
  BY <1>7, <1>11 DEF Typed, Outcome

(* A rack's order is wiped, by a cancel or by a reset. *)
LEMMA WipedOutcome ==
  ASSUME Typed, NEW r \in Racks, Clear(r), wiping' = wiping \ {r}, CallsTyped',
         UNCHANGED <<wire, answers, request, boardVars>>
  PROVE  Typed' /\ Outcome
<1>1. /\ order' \in [Racks -> OrderRecords] /\ orderLed' \in [Racks -> BOOLEAN]
      /\ \A q \in Racks : order'[q] = IF q = r THEN Cleared ELSE order[q]
      /\ \A q \in Racks : orderLed'[q] = IF q = r THEN FALSE ELSE orderLed[q]
  BY ClearedTyped DEF Typed, OrdersTyped, Clear
<1>2. Loses(r)
  BY <1>1 DEF Loses, OthersKeep
<1>3. OrdersTyped' /\ WireTyped' /\ RestTyped' /\ BoardsTypeOK'
  BY <1>1 DEF Typed, OrdersTyped, WireTyped, RestTyped, BoardsTypeOK, boardVars
<1> QED
  BY <1>2, <1>3 DEF Typed, Outcome

(* Both of these clear the order. *)
LEMMA ResetOutcome ==
  ASSUME Typed, NEW r \in Racks, Wipe(r) \/ Restart(r)
  PROVE  Typed' /\ Outcome
<1>1. CASE Wipe(r)
  <2>1. CallsTyped'
    BY <1>1 DEF Wipe, Typed, CallsTyped
  <2> QED
    BY <1>1, <2>1, WipedOutcome DEF Wipe
<1>2. CASE Restart(r)
  <2>1. \A c \in Conns : /\ call'[c] \in Calls
                         /\ call'[c].at \in {"starting", "connected", "sent"} => call'[c].from \in Racks
                         /\ call'[c].fresh => call'[c].to \in Racks
    <3> SUFFICES ASSUME NEW c \in Conns
                 PROVE  /\ call'[c] \in Calls
                        /\ call'[c].at \in {"starting", "connected", "sent"} => call'[c].from \in Racks
                        /\ call'[c].fresh => call'[c].to \in Racks
      OBVIOUS
    <3>1. call[c] \in Calls /\ (call[c].at \in {"starting", "connected", "sent"} => call[c].from \in Racks)
          /\ (call[c].fresh => call[c].to \in Racks)
      BY DEF Typed, CallsTyped
    <3>2. \/ call'[c] = NoCall
          \/ call'[c] = [call[c] EXCEPT !.up = FALSE, !.fresh = call[c].fresh /\ call[c].to # r,
                                        !.at = IF call[c].from = r THEN "kept" ELSE call[c].at]
          \/ call'[c] = call[c]
      BY <1>2 DEF Restart
    <3>3. CASE call'[c] = NoCall
      BY <3>3 DEF NoCall, Calls
    <3>4. CASE call'[c] = [call[c] EXCEPT !.up = FALSE, !.fresh = call[c].fresh /\ call[c].to # r,
                                          !.at = IF call[c].from = r THEN "kept" ELSE call[c].at]
      <4>1. (call[c].fresh /\ call[c].to # r) \in BOOLEAN
        OBVIOUS
      <4> QED
        BY <3>1, <3>4, <4>1 DEF Calls
    <3>5. CASE call'[c] = call[c]
      BY <3>1, <3>5
    <3> QED
      BY <3>2, <3>3, <3>4, <3>5
  <2>2. call' \in [Conns -> Calls]
    BY <1>2, <2>1 DEF Restart
  <2>3. CallsTyped'
    BY <2>1, <2>2 DEF CallsTyped
  <2> QED
    BY <1>2, <2>3, WipedOutcome DEF Restart
<1> QED
  BY <1>1, <1>2

(* The first message of a connection is read: an order, or none. *)
LEMMA FirstOutcome ==
  ASSUME Typed, NEW c \in Conns, FirstMessage(c)
  PROVE  Typed' /\ Outcome
<1>1. PICK r : r = call[c].to
  OBVIOUS
<1>2. r \in Racks /\ call[c] \in Calls
  BY <1>1 DEF FirstMessage, Typed, CallsTyped
<1>3. PICK m : m = Head(wire[c].callee)
  OBVIOUS
<1>4. wire[c] \in [caller : Seq(Msgs), callee : Seq(Msgs)] /\ wire[c].callee # <<>>
  BY DEF FirstMessage, Typed, WireTyped
<1>5. m \in Msgs /\ Tail(wire[c].callee) \in Seq(Msgs)
  BY <1>3, <1>4, HeadTailProperties
<1>6. [wire[c] EXCEPT !.callee = Tail(wire[c].callee)] \in [caller : Seq(Msgs), callee : Seq(Msgs)]
  BY <1>4, <1>5
<1>7. wire' = [wire EXCEPT ![c].callee = Tail(wire[c].callee)]
  BY DEF FirstMessage
<1>8. WireTyped'
  BY <1>6, <1>7 DEF Typed, WireTyped
<1>9. call' = [call EXCEPT ![c].fresh = FALSE]
  BY DEF FirstMessage
<1>10. CallsTyped'
  BY <1>2, <1>9 DEF Typed, CallsTyped, Calls
<1>11. UNCHANGED <<wiping, answers, request>> /\ RestTyped'
  BY DEF FirstMessage, Typed, RestTyped
<1>12. Accepted(r, c, m) \/ NotForUs(r, m) \/ CancelledByNet(r, m)
  BY <1>1, <1>3 DEF FirstMessage
<1>13. PICK waiting : waiting = outbox[r]
  OBVIOUS
<1>14. waiting \in Seq(Reports)
  BY <1>2, <1>13 DEF Typed, BoardsTypeOK
<1>15. CancelledPort(m) \in Ports \cup {NoPort} /\ m.port \in Ports \cup {NoPort} /\ m.cmd.kind \in Kinds
  BY <1>5 DEF CancelledPort, Msgs, Cmds
<1>16. CASE Accepted(r, c, m)
  <2>1. PICK f : f = Frame(ARM, m.port, m.cmd.kind, "remote")
    OBVIOUS
  <2>2. f \in Frames
    BY <1>15, <2>1, FramesTyped DEF Roles
  <2>3. BoardsTypeOK'
    BY <1>2, <1>13, <1>14, <1>16, <2>1, <2>2, WriteTyped DEF Typed, Accepted
  <2>4. PICK o : o = [Cleared EXCEPT !.order_host = "remote", !.connect_sockfd = Sock(c, "callee")]
    OBVIOUS
  <2>5. o \in OrderRecords /\ o.order_host = "remote" /\ o.server_sockfd = Nobody /\ o.order_result = NoOrder
    BY <2>4, ClearedTyped DEF OrderRecords, Cleared, Sockets, Sock, Ends
  <2>6. order' = [order EXCEPT ![r] = o] /\ orderLed' = [orderLed EXCEPT ![r] = TRUE]
    BY <1>16, <2>4 DEF Accepted
  <2>7. OrdersTyped' /\ OthersKeep(r) /\ order'[r] = o /\ orderLed'[r] = TRUE
    BY <1>2, <2>5, <2>6 DEF Typed, OrdersTyped, OthersKeep
  <2>8. TakesFar(r)
    BY <1>11, <2>5, <2>7 DEF TakesFar
  <2> QED
    BY <1>2, <1>8, <1>10, <1>11, <2>3, <2>7, <2>8 DEF Typed, Outcome
<1>17. CASE NotForUs(r, m)
  <2>1. order' = [order EXCEPT ![r] = Cleared] /\ UNCHANGED <<orderLed, boardVars>>
    BY <1>17 DEF NotForUs
  <2>2. OrdersTyped' /\ OthersKeep(r) /\ order'[r] = Cleared
    BY <1>2, <2>1, ClearedTyped DEF Typed, OrdersTyped, OthersKeep
  <2>3. Loses(r) /\ BoardsTypeOK'
    BY <1>11, <2>1, <2>2 DEF Loses, Typed, BoardsTypeOK, boardVars
  <2> QED
    BY <1>2, <1>8, <1>10, <1>11, <2>2, <2>3 DEF Typed, Outcome
<1>18. CASE CancelledByNet(r, m)
  <2>1. PICK f : f = Frame(CANCEL, CancelledPort(m), m.cmd.kind, "remote")
    OBVIOUS
  <2>2. f \in Frames
    BY <1>15, <2>1, FramesTyped DEF Roles
  <2>3. BoardsTypeOK'
    BY <1>2, <1>13, <1>14, <1>18, <2>1, <2>2, WriteTyped DEF Typed, CancelledByNet
  <2>4. order' = [order EXCEPT ![r] = Cleared] /\ orderLed' = [orderLed EXCEPT ![r] = FALSE]
    BY <1>18 DEF CancelledByNet, Clear
  <2>5. OrdersTyped' /\ OthersKeep(r) /\ order'[r] = Cleared
    BY <1>2, <2>4, ClearedTyped DEF Typed, OrdersTyped, OthersKeep
  <2>6. Loses(r)
    BY <1>11, <2>5 DEF Loses
  <2> QED
    BY <1>2, <1>8, <1>10, <1>11, <2>3, <2>5, <2>6 DEF Typed, Outcome
<1> QED
  BY <1>12, <1>16, <1>17, <1>18

(* The connect thread takes a step. *)
LEMMA ConnectOutcome ==
  ASSUME Typed, NEW c \in Conns, ConnectStep(c)
  PROVE  Typed' /\ Outcome
<1>1. call[c] \in Calls /\ (call[c].at \in {"starting", "connected", "sent"} => call[c].from \in Racks)
      /\ (call[c].fresh => call[c].to \in Racks)
  BY DEF Typed, CallsTyped
<1>2. UNCHANGED <<orderLed, wiping, answers, request>> /\ RestTyped' /\ BoardsTypeOK'
  BY DEF ConnectStep, Typed, RestTyped, BoardsTypeOK, boardVars
<1>3. CASE UNCHANGED order
  <2>1. GoesOn /\ OrdersTyped'
    BY <1>2, <1>3 DEF GoesOn, IdsOf, Typed, OrdersTyped
  <2>2. CASE Connected(c)
    <3>1. call[c].from \in Racks
      BY <1>1, <2>2 DEF Connected
    <3>2. order[call[c].from].row \in Msgs \cup {NoMsg}
      BY <3>1 DEF Typed, OrdersTyped, OrderRecords
    <3>3. PICK to : to = Dialled(call[c].from)
      OBVIOUS
    <3>4. to \in Racks
      BY <2>2, <3>1, <3>2, <3>3 DEF Connected, Dialled, Msgs
    <3>5. call' = [call EXCEPT ![c].at = "connected", ![c].to = to, ![c].fresh = TRUE]
      BY <2>2, <3>3 DEF Connected
    <3>6. PICK k : k = [call[c] EXCEPT !.at = "connected", !.to = to, !.fresh = TRUE]
      OBVIOUS
    <3>7. k \in Calls /\ k.from \in Racks /\ k.to \in Racks
      BY <1>1, <3>1, <3>4, <3>6 DEF Calls
    <3>8. call' = [call EXCEPT ![c] = k]
      BY <3>5, <3>6
    <3>9. CallsTyped'
      BY <3>7, <3>8 DEF Typed, CallsTyped
    <3>10. WireTyped'
      BY <2>2 DEF Connected, Typed, WireTyped
    <3> QED
      BY <1>2, <2>1, <3>9, <3>10 DEF Typed, Outcome
  <2>3. CASE ConnectFailed(c)
    <3>1. CallsTyped' /\ WireTyped'
      BY <2>3 DEF ConnectFailed, NoCall, Typed, CallsTyped, WireTyped, Calls
    <3> QED
      BY <1>2, <2>1, <3>1 DEF Typed, Outcome
  <2>4. CASE FirstSent(c)
    <3>1. call[c].from \in Racks
      BY <1>1, <2>4 DEF FirstSent
    <3>2. PICK row : row = order[call[c].from].row
      OBVIOUS
    <3>3. row \in Msgs \cup {NoMsg}
      BY <3>1, <3>2 DEF Typed, OrdersTyped, OrderRecords
    <3>4. wire[c] \in [caller : Seq(Msgs), callee : Seq(Msgs)]
      BY DEF Typed, WireTyped
    <3>5. ASSUME UNCHANGED wire PROVE WireTyped'
      BY <3>5 DEF Typed, WireTyped
    <3>6. ASSUME row # NoMsg, wire' = [wire EXCEPT ![c].callee = Append(wire[c].callee, row)]
          PROVE  WireTyped'
      <4>1. Append(wire[c].callee, row) \in Seq(Msgs)
        BY <3>3, <3>4, <3>6, AppendProperties
      <4>2. PICK w : w = [wire[c] EXCEPT !.callee = Append(wire[c].callee, row)]
        OBVIOUS
      <4>3. w \in [caller : Seq(Msgs), callee : Seq(Msgs)]
        BY <3>4, <4>1, <4>2
      <4>4. wire' = [wire EXCEPT ![c] = w]
        BY <3>6, <4>2
      <4> QED
        BY <4>3, <4>4 DEF Typed, WireTyped
    <3>7. \/ UNCHANGED wire
          \/ row # NoMsg /\ wire' = [wire EXCEPT ![c].callee = Append(wire[c].callee, row)]
      BY <2>4, <3>2 DEF FirstSent
    <3>8. WireTyped'
      BY <3>5, <3>6, <3>7
    <3>9. CallsTyped'
      BY <1>1, <2>4, <3>1 DEF FirstSent, Typed, CallsTyped, Calls
    <3> QED
      BY <1>2, <2>1, <3>8, <3>9 DEF Typed, Outcome
  <2>5. CASE Kept(c)
    <3>1. CallsTyped' /\ WireTyped'
      BY <1>1, <2>5 DEF Kept, Typed, CallsTyped, WireTyped, Calls
    <3> QED
      BY <1>2, <2>1, <3>1 DEF Typed, Outcome
  <2> QED
    BY <2>2, <2>3, <2>4, <2>5 DEF ConnectStep
<1>4. CASE Kept(c)
  <2>1. call[c].from \in Racks
    BY <1>1, <1>4 DEF Kept
  <2>2. PICK r : r = call[c].from
    OBVIOUS
  <2>3. PICK o : o = [order[r] EXCEPT !.connect_sockfd = Sock(c, "caller")]
    OBVIOUS
  <2>4. OfRack(r, o) /\ order' = [order EXCEPT ![r] = o]
    BY <1>4, <2>1, <2>2, <2>3 DEF Kept, OfRack, IdsOf, OrderRecords, Sockets, Sock, Ends, Typed, OrdersTyped
  <2>5. GoesOn /\ OrdersTyped'
    BY <1>2, <2>1, <2>2, <2>4 DEF GoesOn, OfRack, IdsOf, Typed, OrdersTyped
  <2>6. CallsTyped' /\ WireTyped'
    BY <1>1, <1>4 DEF Kept, Typed, CallsTyped, WireTyped, Calls
  <2> QED
    BY <1>2, <2>5, <2>6 DEF Typed, Outcome
<1> QED
  BY <1>3, <1>4 DEF ConnectStep, Connected, ConnectFailed, FirstSent

(* The reading thread receives a message, or finds the other rack gone. *)
LEMMA ReceivedOutcome ==
  ASSUME Typed, NEW r \in Racks, Receive(r) \/ PeerGone(r)
  PROVE  Typed' /\ Outcome
<1>1. order[r] \in OrderRecords
  BY DEF Typed, OrdersTyped
<1>2. UNCHANGED <<orderLed, wiping, call, answers, request, boardVars>>
  BY DEF Receive, PeerGone
<1>3. CallsTyped' /\ RestTyped' /\ BoardsTypeOK'
  BY <1>2 DEF Typed, CallsTyped, RestTyped, BoardsTypeOK, boardVars
<1>4. CASE Receive(r)
  <2>1. PICK s : s = order[r].connect_sockfd
    OBVIOUS
  <2>2. s \in [conn : Conns, end : Ends]
    BY <1>1, <1>4, <2>1 DEF Receive, OrderRecords, Sockets
  <2>3. wire[s.conn] \in [caller : Seq(Msgs), callee : Seq(Msgs)] /\ s.conn \in Conns /\ s.end \in {"caller", "callee"}
    BY <2>2 DEF Ends, Typed, WireTyped
  <2>4. wire[s.conn][s.end] \in Seq(Msgs) /\ wire[s.conn][s.end] # <<>>
    BY <1>4, <2>1, <2>3 DEF Receive
  <2>5. PICK m : m = Head(wire[s.conn][s.end])
    OBVIOUS
  <2>6. PICK rest : rest = Tail(wire[s.conn][s.end])
    OBVIOUS
  <2>7. m \in Msgs /\ rest \in Seq(Msgs)
    BY <2>4, <2>5, <2>6, HeadTailProperties
  <2>8. PICK o : o = [order[r] EXCEPT !.incoming = m]
    OBVIOUS
  <2>9. OfRack(r, o) /\ order' = [order EXCEPT ![r] = o]
    BY <1>1, <1>4, <2>1, <2>5, <2>7, <2>8 DEF Receive, OfRack, IdsOf, OrderRecords
  <2>10. GoesOn /\ OrdersTyped'
    BY <1>2, <2>9 DEF GoesOn, OfRack, IdsOf, Typed, OrdersTyped
  <2>11. [wire[s.conn] EXCEPT ![s.end] = rest] \in [caller : Seq(Msgs), callee : Seq(Msgs)]
    <3>1. CASE s.end = "caller"
      BY <2>3, <2>7, <3>1
    <3>2. CASE s.end = "callee"
      BY <2>3, <2>7, <3>2
    <3> QED
      BY <2>3, <3>1, <3>2
  <2>12. wire' = [wire EXCEPT ![s.conn][s.end] = rest]
    BY <1>4, <2>1, <2>6 DEF Receive
  <2>13. WireTyped'
    BY <2>3, <2>11, <2>12 DEF Typed, WireTyped
  <2> QED
    BY <1>3, <2>10, <2>13 DEF Typed, Outcome
<1>5. CASE PeerGone(r)
  <2>1. order' = [order EXCEPT ![r].server_sockfd = Nobody] /\ WireTyped'
    BY <1>5 DEF PeerGone, Typed, WireTyped
  <2>2. PICK o : o = [order[r] EXCEPT !.server_sockfd = Nobody]
    OBVIOUS
  <2>3. /\ o \in OrderRecords /\ o.order_host = order[r].order_host /\ o.server_sockfd = Nobody
        /\ o.order_result = order[r].order_result /\ order' = [order EXCEPT ![r] = o]
    BY <1>1, <2>1, <2>2 DEF OrderRecords
  <2>4. Forgets(r) /\ OrdersTyped'
    BY <1>2, <2>3 DEF Forgets, OthersKeep, Typed, OrdersTyped
  <2> QED
    BY <1>3, <2>1, <2>4 DEF Typed, Outcome
<1> QED
  BY <1>4, <1>5

(* The worker moves a label. *)
LEMMA MovedOutcome ==
  ASSUME Typed, NEW r \in Racks, NEW p \in Ports, NEW e \in Labels, Move(r, p, e)
  PROVE  Typed' /\ Outcome
<1>1. UNCHANGED commonVars
  BY DEF Move
<1>2. GoesOn /\ OrdersTyped' /\ WireTyped' /\ CallsTyped' /\ RestTyped'
  BY <1>1 DEF commonVars, GoesOn, IdsOf, Typed, OrdersTyped, WireTyped, CallsTyped, RestTyped
<1>3. /\ armed \in [Racks -> [Ports -> Cmds \cup {NotArmed}]] /\ armed' = armed
      /\ tag \in [Racks -> [Ports -> Labels \cup {NoLabel}]]
      /\ outbox \in [Racks -> Seq(Reports)]
      /\ concluded \in [Racks -> [Ports -> {"open", "good", "bad"}]] /\ concluded' = concluded
      /\ armed[r][p] # NotArmed
  BY DEF Typed, BoardsTypeOK, Move, MoveLabel
<1>4. PICK what \in Movements :
        outbox' = [outbox EXCEPT ![r] = Append(outbox[r],
          [cmd |-> armed[r][p], what |-> what, label |-> IF what = INSERTED THEN e ELSE NoLabel, ok |-> TRUE])]
  BY DEF Move, MoveLabel, Movements
<1>5. PICK rep : rep = [cmd |-> armed[r][p], what |-> what, label |-> IF what = INSERTED THEN e ELSE NoLabel, ok |-> TRUE]
  OBVIOUS
<1>6. armed[r][p] \in Cmds
  BY <1>3
<1>7. rep \in Reports
  BY <1>4, <1>5, <1>6 DEF Reports
<1>8. Append(outbox[r], rep) \in Seq(Reports)
  BY <1>3, <1>7, AppendProperties
<1>9. outbox' \in [Racks -> Seq(Reports)]
  BY <1>3, <1>4, <1>5, <1>8
<1>10. PICK e2 : e2 = IF tag[r][p] # NoLabel THEN NoLabel ELSE e
  OBVIOUS
<1>11. tag' = [tag EXCEPT ![r][p] = e2]
  BY <1>10 DEF Move, MoveLabel
<1>12. tag' \in [Racks -> [Ports -> Labels \cup {NoLabel}]]
  BY <1>3, <1>10, <1>11
<1>13. BoardsTypeOK'
  BY <1>3, <1>9, <1>12 DEF BoardsTypeOK
<1> QED
  BY <1>2, <1>13 DEF Typed, Outcome

(* Every step keeps the variables to their values, with one of the outcomes. *)
LEMMA StepOutcome ==
  ASSUME Typed, [Next]_vars
  PROVE  Typed' /\ Outcome
<1>1. CASE UNCHANGED vars
  BY <1>1 DEF vars, commonVars, boardVars, Typed, OrdersTyped, WireTyped, CallsTyped, RestTyped, BoardsTypeOK,
     Outcome, GoesOn, IdsOf
<1>2. ASSUME NEW r \in Hosts, NEW n \in Orders, Ask(r, n) PROVE Typed' /\ Outcome
  BY <1>2, AskedOutcome, OrderAssumption
<1>3. ASSUME NEW r \in Hosts, NEW n \in Orders, NEW client \in Clients, Refuse(r, n, client) PROVE Typed' /\ Outcome
  BY <1>3, RefusedOutcome, OrderAssumption
<1>4. ASSUME NEW r \in Hosts, Cancel(r) PROVE Typed' /\ Outcome
  <2>1. PICK here \in Ports, there \in Ports, k \in Kinds : TakeCancel(r, k, here, there)
    BY <1>4 DEF Cancel, CancelNew2, CancelDel2, Kinds
  <2> QED
    BY <2>1, CancelledOutcome, OrderAssumption
<1>5. CASE ThreadStep
  BY <1>5, ConnectOutcome, FirstOutcome, ReceivedOutcome DEF ThreadStep
<1>6. ASSUME NEW r \in Racks, RackStep(r) \/ PeerGone(r) PROVE Typed' /\ Outcome
  <2>1. CASE HandleMessage(r) \/ Poll(r)
    BY <2>1, MessageHandled, PollHandled DEF Handled, Outcome
  <2>2. CASE Wipe(r) \/ PeerGone(r)
    BY <2>2, ResetOutcome, ReceivedOutcome
  <2> QED
    BY <1>6, <2>1, <2>2 DEF RackStep
<1>7. ASSUME NEW r \in Resets, Restart(r) PROVE Typed' /\ Outcome
  BY <1>7, ResetOutcome, OrderAssumption
<1>8. CASE WorkerStep
  BY <1>8, MovedOutcome DEF WorkerStep
<1> QED
  BY <1>1, <1>2, <1>3, <1>4, <1>5, <1>6, <1>7, <1>8 DEF Next

-----------------------------------------------------------------------------
(***************************************************************************)
(* The invariant.  A number that is in hand or answered was asked before,  *)
(* and the socket kept with it is its asker's or none; a number that a     *)
(* rack has taken and has in hand is that rack's alone, and unanswered.    *)
(***************************************************************************)
AnswersTyped == answers \in Seq([order : Orders, to : Clients, ok : BOOLEAN])

Asks(req, n, client) == n \in Orders /\ req[n] # NotAsked /\ client = req[n].client

Known(req, n, s) ==
  IF n = NoOrder THEN s = Nobody ELSE req[n] # NotAsked /\ (s = Nobody \/ Asks(req, n, s))

Pending(req, ans, r, n) ==
  n # NoOrder /\ req[n].host # NoRack => req[n].host = r /\ \A i \in DOMAIN ans : ans[i].order # n

AskersKnown == \A r \in Racks : Known(request, order[r].order_result, order[r].server_sockfd)
AnswersAsked == \A i \in DOMAIN answers : Asks(request, answers[i].order, answers[i].to)
TakenPending == \A r \in Racks : Pending(request, answers, r, order[r].order_result)

AnswersInv == AnswersTyped /\ AskersKnown /\ AnswersAsked /\ TakenPending /\ TakenAnsweredOnce

IInv == Typed /\ OrderMeansLamp /\ AnswersInv

(* The parts of what tells whose order it is. *)
LEMMA SameIds ==
  ASSUME NEW o, NEW o2, IdsOf(o) = IdsOf(o2)
  PROVE  o.order_host = o2.order_host /\ o.server_sockfd = o2.server_sockfd /\ o.order_result = o2.order_result
BY DEF IdsOf

(* Each rack's lamp after a step. *)
LEMMA LampStep ==
  ASSUME OrderMeansLamp, Outcome
  PROVE  OrderMeansLamp'
<1>1. ASSUME NEW q \in Racks, order'[q].order_host # "none" PROVE orderLed'[q]
  <2>1. CASE IdsOf(order'[q]) = IdsOf(order[q]) /\ orderLed'[q] = orderLed[q]
    BY <1>1, <2>1, SameIds DEF OrderMeansLamp
  <2>2. CASE IdsOf(order'[q]) = IdsOf(Cleared)
    BY <1>1, <2>2, SameIds, ClearedTyped
  <2>3. CASE order'[q].order_host = order[q].order_host /\ orderLed'[q] = orderLed[q]
    BY <1>1, <2>3 DEF OrderMeansLamp
  <2>4. CASE orderLed'[q] = TRUE \/ order'[q].order_host = "none"
    BY <1>1, <2>4
  <2> QED
    BY <2>1, <2>2, <2>3, <2>4 DEF Outcome, GoesOn, Loses, TakesFar, Forgets, Takes, Refuses, OthersKeep
<1> QED
  BY <1>1 DEF OrderMeansLamp

(* Nothing is asked and nothing answered: an order goes on, with its asker  *)
(* or without, or there is none any more.                                   *)
KeepsOrLoses(q) ==
  \/ order'[q].order_result = NoOrder /\ order'[q].server_sockfd = Nobody
  \/ order'[q].order_result = order[q].order_result /\ order'[q].server_sockfd \in {Nobody, order[q].server_sockfd}

(* Such a step keeps the invariant. *)
LEMMA NothingAnswered ==
  ASSUME AnswersInv, UNCHANGED <<answers, request>>, \A q \in Racks : KeepsOrLoses(q)
  PROVE  AnswersInv'
<1>1. AnswersTyped' /\ AnswersAsked' /\ TakenAnsweredOnce'
  BY DEF AnswersInv, AnswersTyped, AnswersAsked, TakenAnsweredOnce, Asks
<1>2. AskersKnown'
  BY DEF AnswersInv, AskersKnown, Known, Asks, KeepsOrLoses
<1>3. TakenPending'
  BY DEF AnswersInv, TakenPending, Pending, KeepsOrLoses
<1> QED
  BY <1>1, <1>2, <1>3 DEF AnswersInv

(* One answer more: what is among the answers, and where. *)
LEMMA OneMore ==
  ASSUME NEW S, NEW s \in Seq(S), NEW a \in S
  PROVE  /\ Append(s, a) \in Seq(S)
         /\ \A i \in DOMAIN Append(s, a) : IF i \in DOMAIN s THEN Append(s, a)[i] = s[i]
                                           ELSE i = Len(s) + 1 /\ Append(s, a)[i] = a
<1>1. Len(s) \in Nat /\ DOMAIN s = 1..Len(s) /\ DOMAIN Append(s, a) = 1..(Len(s) + 1)
  BY AppendProperties, LenProperties
<1> QED
  BY <1>1, AppendProperties

(* The order of rack r is answered and over. *)
LEMMA OneAnswered ==
  ASSUME Typed, AnswersInv, NEW r \in Racks, Answers(r), UNCHANGED request,
         \A q \in Racks : KeepsOrLoses(q), order'[r].order_result = NoOrder
  PROVE  AnswersInv'
<1>1. PICK n : n = order[r].order_result
  OBVIOUS
<1>2. PICK s : s = order[r].server_sockfd
  OBVIOUS
<1>3. PICK ok \in BOOLEAN : answers' = Append(answers, [order |-> n, to |-> s, ok |-> ok])
  BY <1>1, <1>2 DEF Answers
<1>4. n \in Orders /\ s \in Clients
  BY <1>1, <1>2 DEF Typed, OrdersTyped, OrderRecords, AnswersInv, AskersKnown, Known, Answers
<1>5. n # NoOrder /\ Asks(request, n, s)
  BY <1>1, <1>2, <1>4, CommonAssumption DEF AnswersInv, AskersKnown, Known, Answers
<1>6. PICK a : a = [order |-> n, to |-> s, ok |-> ok]
  OBVIOUS
<1>7. a \in [order : Orders, to : Clients, ok : BOOLEAN] /\ a.order = n /\ a.to = s
  BY <1>4, <1>6
<1>8. /\ AnswersTyped'
      /\ \A i \in DOMAIN answers' : IF i \in DOMAIN answers THEN answers'[i] = answers[i]
                                    ELSE i = Len(answers) + 1 /\ answers'[i] = a
  BY <1>3, <1>6, <1>7, OneMore DEF AnswersInv, AnswersTyped
<1>9. AskersKnown'
  BY DEF AnswersInv, AskersKnown, Known, Asks, KeepsOrLoses
<1>10. AnswersAsked'
  BY <1>5, <1>7, <1>8 DEF AnswersInv, AnswersAsked, Asks
<1>11. Pending(request, answers, r, n)
  BY <1>1 DEF AnswersInv, TakenPending
<1>12. TakenPending'
  <2>1. ASSUME NEW q \in Racks PROVE Pending(request, answers', q, order'[q].order_result)
    <3>1. CASE order'[q].order_result = NoOrder \/ request[order'[q].order_result].host = NoRack
      BY <3>1 DEF Pending
    <3>2. CASE order'[q].order_result # NoOrder /\ request[order'[q].order_result].host # NoRack
      <4>1. order'[q].order_result = order[q].order_result /\ q # r
        BY <3>2 DEF KeepsOrLoses
      <4>2. Pending(request, answers, q, order[q].order_result)
        BY DEF AnswersInv, TakenPending
      <4>3. order[q].order_result # n
        BY <1>5, <1>11, <3>2, <4>1, <4>2 DEF Pending
      <4> QED
        BY <1>7, <1>8, <3>2, <4>1, <4>2, <4>3 DEF Pending
    <3> QED
      BY <3>1, <3>2
  <2> QED
    BY <2>1 DEF TakenPending
<1>13. TakenAnsweredOnce'
  BY <1>5, <1>7, <1>8, <1>11 DEF AnswersInv, TakenAnsweredOnce, Pending
<1> QED
  BY <1>8, <1>9, <1>10, <1>12, <1>13 DEF AnswersInv

(* A number not asked before is neither in hand nor answered. *)
LEMMA NewNumber ==
  ASSUME AnswersInv, NEW n \in Orders, request[n] = NotAsked
  PROVE  /\ \A q \in Racks : order[q].order_result # n
         /\ \A i \in DOMAIN answers : answers[i].order # n
BY CommonAssumption DEF AnswersInv, AskersKnown, Known, AnswersAsked, Asks

(* An order is taken. *)
LEMMA OneTaken ==
  ASSUME Typed, AnswersInv, NEW r \in Racks, NEW n \in Orders, NEW client \in Clients \cup {Nobody}, Takes(r, n, client)
  PROVE  AnswersInv'
<1>1. PICK q \in Requests : q.host = r /\ q.client = client /\ request' = [request EXCEPT ![n] = q]
  BY DEF Takes
<1>2. q # NotAsked
  BY <1>1, CommonAssumption DEF NotAsked
<1>3. request'[n] = q /\ \A k \in Orders \ {n} : request'[k] = request[k]
  BY <1>1 DEF Typed, RestTyped
<1>4. UNCHANGED answers /\ request[n] = NotAsked
  BY DEF Takes
<1>5. \A k \in Racks : order[k].order_result \in Orders \cup {NoOrder}
  BY DEF Typed, OrdersTyped, OrderRecords
<1>6. \A k \in Racks \ {r} : order'[k].order_result = order[k].order_result /\ order'[k].server_sockfd = order[k].server_sockfd
  BY SameIds DEF Takes, OthersKeep
<1>7. order'[r].order_result = n /\ order'[r].server_sockfd = client
  BY DEF Takes
<1>8. AnswersTyped'
  BY <1>4 DEF AnswersInv, AnswersTyped
<1>9. AnswersAsked'
  BY <1>3, <1>4, NewNumber DEF AnswersInv, AnswersAsked, Asks
<1>10. AskersKnown'
  <2>1. ASSUME NEW k \in Racks \ {r}
        PROVE  Known(request', order[k].order_result, order[k].server_sockfd)
    <3>1. Known(request, order[k].order_result, order[k].server_sockfd) /\ order[k].order_result \in Orders \cup {NoOrder}
          /\ order[k].order_result # n
      BY <1>4, <1>5, NewNumber DEF AnswersInv, AskersKnown
    <3> QED
      BY <1>3, <3>1 DEF Known, Asks
  <2>2. Known(request', n, client)
    BY <1>1, <1>2, <1>3, CommonAssumption DEF Known, Asks
  <2> QED
    BY <1>6, <1>7, <2>1, <2>2 DEF AskersKnown
<1>11. TakenPending'
  <2>1. ASSUME NEW k \in Racks \ {r}
        PROVE  Pending(request', answers, k, order[k].order_result)
    <3>1. Pending(request, answers, k, order[k].order_result) /\ order[k].order_result \in Orders \cup {NoOrder}
          /\ order[k].order_result # n
      BY <1>4, <1>5, NewNumber DEF AnswersInv, TakenPending
    <3> QED
      BY <1>3, <3>1 DEF Pending
  <2>2. Pending(request', answers, r, n)
    BY <1>1, <1>3, <1>4, NewNumber DEF Pending
  <2> QED
    BY <1>4, <1>6, <1>7, <2>1, <2>2 DEF TakenPending
<1>12. TakenAnsweredOnce'
  BY <1>3, <1>4, NewNumber DEF AnswersInv, TakenAnsweredOnce, AnswersAsked, Asks
<1> QED
  BY <1>8, <1>9, <1>10, <1>11, <1>12 DEF AnswersInv

(* An order is refused. *)
LEMMA OneRefused ==
  ASSUME Typed, AnswersInv, NEW r \in Racks, NEW n \in Orders, NEW client \in Clients, Refuses(r, n, client)
  PROVE  AnswersInv'
<1>1. PICK q : q = [NotAsked EXCEPT !.client = client]
  OBVIOUS
<1>2. q.host = NoRack /\ q.client = client /\ NotAsked.client = Nobody /\ q # NotAsked
  BY <1>1, CommonAssumption DEF NotAsked
<1>3. request'[n] = q /\ \A k \in Orders \ {n} : request'[k] = request[k]
  BY <1>1 DEF Typed, RestTyped, Refuses
<1>4. request[n] = NotAsked
  BY DEF Refuses
<1>5. \A k \in Racks : order[k].order_result \in Orders \cup {NoOrder}
  BY DEF Typed, OrdersTyped, OrderRecords
<1>6. \A k \in Racks \ {r} : order'[k].order_result = order[k].order_result /\ order'[k].server_sockfd = order[k].server_sockfd
  BY SameIds DEF Refuses, OthersKeep
<1>7. order'[r].order_result = n /\ order'[r].server_sockfd = client
  BY DEF Refuses
<1>8. PICK a : a = [order |-> n, to |-> client, ok |-> FALSE]
  OBVIOUS
<1>9. a \in [order : Orders, to : Clients, ok : BOOLEAN] /\ a.order = n /\ a.to = client
  BY <1>8
<1>10. /\ AnswersTyped'
       /\ \A i \in DOMAIN answers' : IF i \in DOMAIN answers THEN answers'[i] = answers[i]
                                     ELSE i = Len(answers) + 1 /\ answers'[i] = a
  BY <1>8, <1>9, OneMore DEF AnswersInv, AnswersTyped, Refuses
<1>11. Asks(request', n, client)
  BY <1>2, <1>3 DEF Asks
<1>12. AnswersAsked'
  <2> SUFFICES ASSUME NEW i \in DOMAIN answers' PROVE Asks(request', answers'[i].order, answers'[i].to)
    BY DEF AnswersAsked
  <2>1. CASE i \in DOMAIN answers
    BY <1>3, <1>4, <1>10, <2>1, NewNumber DEF AnswersInv, AnswersAsked, Asks
  <2>2. CASE i \notin DOMAIN answers
    BY <1>9, <1>10, <1>11, <2>2 DEF Asks
  <2> QED
    BY <2>1, <2>2
<1>13. AskersKnown'
  <2>1. ASSUME NEW k \in Racks \ {r}
        PROVE  Known(request', order[k].order_result, order[k].server_sockfd)
    <3>1. Known(request, order[k].order_result, order[k].server_sockfd) /\ order[k].order_result \in Orders \cup {NoOrder}
          /\ order[k].order_result # n
      BY <1>4, <1>5, NewNumber DEF AnswersInv, AskersKnown
    <3> QED
      BY <1>3, <3>1 DEF Known, Asks
  <2>2. Known(request', n, client)
    BY <1>2, <1>3, <1>11, CommonAssumption DEF Known, Asks
  <2> QED
    BY <1>6, <1>7, <2>1, <2>2 DEF AskersKnown
<1>14. TakenPending'
  <2>1. ASSUME NEW k \in Racks \ {r}
        PROVE  Pending(request', answers', k, order[k].order_result)
    <3>1. Pending(request, answers, k, order[k].order_result) /\ order[k].order_result \in Orders \cup {NoOrder}
          /\ order[k].order_result # n
      BY <1>4, <1>5, NewNumber DEF AnswersInv, TakenPending
    <3> QED
      BY <1>3, <1>9, <1>10, <3>1 DEF Pending
  <2>2. Pending(request', answers', r, n)
    BY <1>2, <1>3 DEF Pending
  <2> QED
    BY <1>6, <1>7, <2>1, <2>2 DEF TakenPending
<1>15. TakenAnsweredOnce'
  <2> SUFFICES ASSUME NEW i \in DOMAIN answers', NEW j \in DOMAIN answers', answers'[i].order = answers'[j].order,
                      request'[answers'[i].order].host # NoRack
               PROVE  i = j
    BY DEF TakenAnsweredOnce
  <2>1. answers'[i].order # n
    BY <1>2, <1>3
  <2>2. i \in DOMAIN answers /\ j \in DOMAIN answers
    BY <1>9, <1>10, <2>1
  <2>3. answers'[i] = answers[i] /\ answers'[j] = answers[j] /\ answers[i].order \in Orders
    BY <1>10, <2>2 DEF AnswersInv, AnswersAsked, Asks
  <2> QED
    BY <1>3, <2>1, <2>2, <2>3 DEF AnswersInv, TakenAnsweredOnce
<1> QED
  BY <1>10, <1>12, <1>13, <1>14, <1>15 DEF AnswersInv

(* Every outcome keeps the invariant of the answers. *)
LEMMA AnswersStep ==
  ASSUME Typed, AnswersInv, Outcome
  PROVE  AnswersInv'
<1>1. CASE GoesOn
  BY <1>1, SameIds, NothingAnswered DEF GoesOn, KeepsOrLoses
<1>2. ASSUME NEW r \in Racks, Loses(r) PROVE AnswersInv'
  <2>1. /\ order'[r].order_result = NoOrder /\ order'[r].server_sockfd = Nobody
        /\ \A q \in Racks \ {r} : IdsOf(order'[q]) = IdsOf(order[q])
    BY <1>2, SameIds, ClearedTyped DEF Loses, OthersKeep
  <2>2. \A q \in Racks : KeepsOrLoses(q)
    BY <2>1, SameIds DEF KeepsOrLoses
  <2> QED
    BY <1>2, <2>1, <2>2, NothingAnswered, OneAnswered DEF Loses
<1>3. ASSUME NEW r \in Racks, TakesFar(r) \/ Forgets(r) PROVE AnswersInv'
  <2>1. \A q \in Racks : KeepsOrLoses(q)
    BY <1>3, SameIds DEF TakesFar, Forgets, OthersKeep, KeepsOrLoses
  <2> QED
    BY <1>3, <2>1, NothingAnswered DEF TakesFar, Forgets
<1> QED
  BY <1>1, <1>2, <1>3, OneTaken, OneRefused DEF Outcome

(* At first there is no order, no call, no message and no answer. *)
LEMMA InitIInv == Init => IInv
<1> SUFFICES ASSUME Init PROVE IInv
  OBVIOUS
<1>1. OrdersTyped /\ OrderMeansLamp
  BY ClearedTyped DEF Init, CommonInit, OrdersTyped, OrderMeansLamp
<1>2. WireTyped
  <2>1. <<>> \in Seq(Msgs)
    OBVIOUS
  <2> QED
    BY <2>1 DEF Init, CommonInit, WireTyped
<1>3. CallsTyped
  BY DEF Init, CommonInit, CallsTyped, Calls, NoCall
<1>4. RestTyped
  BY DEF Init, CommonInit, RestTyped, Requests, NotAsked
<1>5. BoardsTypeOK
  <2>1. <<>> \in Seq(Reports)
    OBVIOUS
  <2>2. tag \in [Racks -> [Ports -> Labels \cup {NoLabel}]]
    BY BoardsAssumption DEF Init, BoardsInit
  <2> QED
    BY <2>1, <2>2 DEF Init, BoardsInit, BoardsTypeOK
<1>6. answers = <<>> /\ DOMAIN answers = {}
  BY DEF Init, CommonInit
<1>7. AnswersTyped
  BY <1>6 DEF AnswersTyped
<1>8. \A r \in Racks : order[r].order_result = NoOrder /\ order[r].server_sockfd = Nobody
  BY ClearedTyped DEF Init, CommonInit
<1> QED
  BY <1>1, <1>2, <1>3, <1>4, <1>5, <1>6, <1>7, <1>8
     DEF IInv, Typed, AnswersInv, AskersKnown, Known, AnswersAsked, TakenPending, Pending, TakenAnsweredOnce

(* The invariant holds in every state. *)
LEMMA Invariant == Spec => []IInv
<1>1. IInv /\ [Next]_vars => IInv'
  BY StepOutcome, LampStep, AnswersStep DEF IInv
<1> QED
  BY <1>1, InitIInv, PTL DEF Spec

-----------------------------------------------------------------------------
(* Every variable of every rack, connection and order keeps the values it   *)
(* is meant to have, whatever comes in.                                     *)
THEOREM JiajianTypeCorrect == Spec => []TypeOK
<1>1. IInv => TypeOK
  BY DEF IInv, Typed, OrdersTyped, WireTyped, CallsTyped, RestTyped, AnswersInv, AnswersTyped, TypeOK
<1> QED
  BY <1>1, Invariant, PTL

(* A rack with an order in hand has its lamp lit, be it the host of the     *)
(* order or the rack connected to, and however an order before was ended.   *)
THEOREM LampsCorrect == Spec => []OrderMeansLamp
<1>1. IInv => OrderMeansLamp
  BY DEF IInv
<1> QED
  BY <1>1, Invariant, PTL

(* An answer goes to the socket that asked for its order: the socket and    *)
(* the number an answer is built from are always of one order, also when an *)
(* order took the place of another or the other rack went away.             *)
THEOREM AskersCorrect == Spec => []AnswerGoesToAsker
<1>1. IInv => AnswerGoesToAsker
  BY DEF IInv, AnswersInv, AnswersAsked, Asks, AnswerGoesToAsker
<1> QED
  BY <1>1, Invariant, PTL

(* An order a rack has taken is answered at most once: while its number is  *)
(* in hand it is unanswered, and an answer clears the order.                *)
THEOREM AnsweredOnceCorrect == Spec => []TakenAnsweredOnce
<1>1. IInv => TakenAnsweredOnce
  BY DEF IInv, AnswersInv
<1> QED
  BY <1>1, Invariant, PTL
=============================================================================
