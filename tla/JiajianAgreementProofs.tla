----------------------- MODULE JiajianAgreementProofs -----------------------
(***************************************************************************)
(* Inter-rack orders of patient askers, for any number of racks, orders,   *)
(* ports, labels and connections: an order is concluded only when the host *)
(* was told the same of both ends, and answered as done only when both     *)
(* racks have concluded it.                                                *)
(***************************************************************************)
EXTENDS JiajianProofs

-----------------------------------------------------------------------------
(* Who is in an order: its host h and kind k, the connection c it runs      *)
(* over, the port here at the host, and the port there at the other rack,   *)
(* far.  A rack is busy from the request to the end of its order, and while *)
(* a port is armed for it.                                                  *)
Cmd(k, role) == [kind |-> k, role |-> role]

HostArmed(h) == \E p \in Ports : armed[h][p].role = "host"
Busy(h) == HostArmed(h) \/ (order[h].order_result # NoOrder /\ h \notin wiping)

(* Nobody else has an order, and the order is the one asked for. *)
Parties(h, here, far, there) ==
  /\ wiping = {}
  /\ far # h
  /\ \A q \in Racks \ {h} : order[q].order_result = NoOrder
  /\ order[h].order_result # NoOrder =>
       LET q == request[order[h].order_result]
       IN  q.host = h /\ q.here = here /\ q.far = far /\ q.there = there

(* No other port is armed, and boards report of no other order. *)
ReportsOf(s, cmd) ==
  \A i \in 1..Len(s) : s[i].cmd = cmd /\ (s[i].what = INSERTED => s[i].label \in Labels)

Lines(h, k, here, far, there) ==
  /\ \A q \in Racks, p \in Ports :
       armed[q][p] # NotArmed => \/ q = h /\ p = here /\ armed[q][p] = Cmd(k, "host")
                                 \/ q = far /\ p = there /\ armed[q][p] = Cmd(k, "remote")
  /\ ReportsOf(outbox[h], Cmd(k, "host"))
  /\ ReportsOf(outbox[far], Cmd(k, "remote"))
  /\ \A q \in Racks \ {h, far} : outbox[q] = <<>>

(* No other connection is in use. *)
Unaccepted(c) == call[c].at \in {"free", "starting"} \/ call[c].fresh

Connections(h, c, far) ==
  /\ order[h].connect_sockfd \in {NoSock, Sock(c, "caller")}
  /\ order[far].connect_sockfd \in {NoSock, Sock(c, "callee")}
  /\ \A q \in Racks \ {h, far} : order[q].connect_sockfd = NoSock
  /\ \A d \in Conns \ {c} : call[d].at \in {"free", "kept"} /\ (call[d].fresh => wire[d].callee = <<>>)
  /\ call[c].at # "free" => call[c].from = h /\ call[c].up
  /\ call[c].at \notin {"free", "starting"} => call[c].to = far
  /\ call[c].at = "starting" => ~call[c].fresh
  /\ call[c].at = "free" => ~call[c].fresh
  /\ order[h].connect_sockfd # NoSock => call[c].at = "kept"
  /\ order[far].connect_sockfd # NoSock => ~Unaccepted(c)

(* Nobody says anything of another order. *)
FromFar(m, k) == m.cmd = Cmd(k, "host") /\ (m.op = INSERTED => m.label \in Labels)
FromHost(m, k, far, there) == m.cmd = Cmd(k, "remote") /\ (m.op = ARM => m.to = far /\ m.port = there)

Words(h, k, c, far, there) ==
  /\ order[h].row # NoMsg => FromHost(order[h].row, k, far, there)
  /\ \A i \in 1..Len(wire[c].callee) : FromHost(wire[c].callee[i], k, far, there)
  /\ order[far].incoming # NoMsg => FromHost(order[far].incoming, k, far, there)
  /\ \A i \in 1..Len(wire[c].caller) : FromFar(wire[c].caller[i], k)
  /\ order[h].incoming # NoMsg => FromFar(order[h].incoming, k) /\ order[h].connect_sockfd = Sock(c, "caller")
  /\ \A q \in Racks \ {h, far} : order[q].incoming = NoMsg

(* As long as the other rack has not read what the host says first, nothing *)
(* was heard of it and the order has not been concluded.                    *)
EarlyOrder(o) ==
  /\ o.order_result # NoOrder
  /\ o.row # NoMsg
  /\ o.incoming = NoMsg
  /\ o.jiajian_eid = NoLabel
  /\ o.jiajian_stat # EMPTY
  /\ o.local_flag = "none"
  /\ o.jiajian_flag = "none"

Early(h, c, far) ==
  /\ \A p \in Ports : armed[far][p] = NotArmed
  /\ outbox[far] = <<>>
  /\ wire[c].caller = <<>>
  /\ EarlyOrder(order[h])
  /\ \A i \in 1..Len(outbox[h]) : outbox[h][i].what # CONCLUDED

(* What the host has recorded of both ends is what it was told last. *)
AgreedWith(k, o, told) ==
  /\ k = "new" => /\ o.local_eid # NoLabel => told.local = o.local_eid
                  /\ o.jiajian_eid # NoLabel => told.jiajian = o.jiajian_eid
  /\ k = "del" => /\ o.local_stat = EMPTY => told.local = NoLabel
                  /\ o.jiajian_stat = EMPTY => told.jiajian = NoLabel

Agreed(h, k) == AgreedWith(k, order[h], heard[h])

HeardTyped ==
  LET Heard == Labels \cup {NoLabel, "nothing", "some label"}
  IN  heard \in [Racks -> [local : Heard, jiajian : Heard]]

(* A label at the other rack goes in and out by turns: what is on its way   *)
(* from there leads from what the host has recorded to what is in the port. *)
Places == {"in", "out"}

Turn(b, what, b2) ==
  /\ what = INSERTED => b = "out" /\ b2 = "in"
  /\ what = PULLEDBACK => b = "in" /\ b2 = "out"
  /\ what \notin {INSERTED, PULLEDBACK} => b2 = b

Path(n, w, x, y) ==
  \E f \in [0..n -> Places] : f[0] = x /\ f[n] = y /\ \A i \in 1..n : Turn(f[i - 1], w[i], f[i])

Ops(s) == [i \in 1..Len(s) |-> s[i].op]
Whats(s) == [i \in 1..Len(s) |-> s[i].what]

Listens(h, c) == call[c].at \in {"connected", "sent"} \/ order[h].connect_sockfd # NoSock

Stream(h, c, far, there) ==
  \E a, b, x, y \in Places :
    /\ order[h].jiajian_eid # NoLabel => a = "in"
    /\ IF order[h].incoming = NoMsg THEN b = a ELSE Turn(a, order[h].incoming.op, b)
    /\ Path(Len(wire[c].caller), Ops(wire[c].caller), b, x)
    /\ order[far].connect_sockfd # NoSock =>
         /\ Path(Len(outbox[far]), Whats(outbox[far]), x, y)
         /\ armed[far][there] # NotArmed => y = IF tag[far][there] = NoLabel THEN "out" ELSE "in"

(* A conclusion reported as good is of the port the order named, and final. *)
Done(q, p) == concluded[q][p] = "good" /\ armed[q][p] = NotArmed

Conclusions(h, c, here, far, there) ==
  /\ order[h].local_flag = "good" => Done(h, here)
  /\ \A i \in 1..Len(outbox[h]) : outbox[h][i].what = CONCLUDED /\ outbox[h][i].ok => Done(h, here)
  /\ order[h].jiajian_flag = "good" => Done(far, there)
  /\ order[h].incoming # NoMsg /\ order[h].incoming.op = CONCLUDED /\ order[h].incoming.ok => Done(far, there)
  /\ \A i \in 1..Len(wire[c].caller) : wire[c].caller[i].op = CONCLUDED /\ wire[c].caller[i].ok => Done(far, there)
  /\ \A i \in 1..Len(outbox[far]) : outbox[far][i].what = CONCLUDED /\ outbox[far][i].ok => Done(far, there)

Active(h, k, c, here, far, there) ==
  /\ Parties(h, here, far, there)
  /\ Lines(h, k, here, far, there)
  /\ Connections(h, c, far)
  /\ Words(h, k, c, far, there)
  /\ Unaccepted(c) => Early(h, c, far)
  /\ Agreed(h, k)
  /\ k = "new" /\ Listens(h, c) => Stream(h, c, far, there)
  /\ Conclusions(h, c, here, far, there)

OrderInv ==
  \A h \in Racks : Busy(h) =>
    \E k \in Kinds, c \in Conns, here \in Ports, far \in Racks, there \in Ports :
      Active(h, k, c, here, far, there)
-----------------------------------------------------------------------------
(* Paths. *)

(* Nothing on its way leads from a place to itself, and nowhere else. *)
LEMMA PathEmpty ==
  ASSUME NEW w, NEW x \in Places
  PROVE  Path(0, w, x, x)
<1>1. PICK f : f = [i \in 0..0 |-> x]
  OBVIOUS
<1>2. f \in [0..0 -> Places] /\ f[0] = x /\ 1..0 = {}
  BY <1>1
<1> QED
  BY <1>2 DEF Path

(* Without anything on its way there is one place only. *)
LEMMA PathOfNone ==
  ASSUME NEW w, NEW x, NEW y, Path(0, w, x, y)
  PROVE  x = y
BY DEF Path

(* A path goes on with one turn more, *)
LEMMA PathGrows ==
  ASSUME NEW n \in Nat, NEW w, NEW w2, NEW x \in Places, NEW y \in Places, NEW z \in Places,
         Path(n, w, x, y), \A i \in 1..n : w2[i] = w[i], Turn(y, w2[n + 1], z)
  PROVE  Path(n + 1, w2, x, z)
<1>1. PICK f \in [0..n -> Places] : f[0] = x /\ f[n] = y /\ \A i \in 1..n : Turn(f[i - 1], w[i], f[i])
  BY DEF Path
<1>2. PICK g : g = [i \in 0..(n + 1) |-> IF i = n + 1 THEN z ELSE f[i]]
  OBVIOUS
<1>3. g \in [0..(n + 1) -> Places]
  BY <1>1, <1>2
<1>4. g[0] = x /\ g[n + 1] = z /\ g[n] = y /\ \A i \in 0..n : g[i] = f[i]
  BY <1>1, <1>2
<1>5. ASSUME NEW i \in 1..(n + 1) PROVE Turn(g[i - 1], w2[i], g[i])
  <2>1. CASE i = n + 1
    <3>1. g[i - 1] = y /\ g[i] = z
      BY <1>4, <2>1
    <3> QED
      BY <2>1, <3>1
  <2>2. CASE i # n + 1
    <3>1. i \in 1..n /\ i - 1 \in 0..n /\ i \in 0..n
      BY <2>2
    <3>2. g[i - 1] = f[i - 1] /\ g[i] = f[i] /\ w2[i] = w[i]
      BY <1>4, <3>1
    <3> QED
      BY <1>1, <3>1, <3>2
  <2> QED
    BY <2>1, <2>2
<1> QED
  BY <1>3, <1>4, <1>5 DEF Path

(* and may be followed from its first turn on. *)
LEMMA PathFollowed ==
  ASSUME NEW n \in Nat, n # 0, NEW w, NEW w2, NEW x \in Places, NEW y \in Places,
         Path(n, w, x, y), \A i \in 1..(n - 1) : w2[i] = w[i + 1]
  PROVE  \E z \in Places : Turn(x, w[1], z) /\ Path(n - 1, w2, z, y)
<1>1. PICK f \in [0..n -> Places] : f[0] = x /\ f[n] = y /\ \A i \in 1..n : Turn(f[i - 1], w[i], f[i])
  BY DEF Path
<1>2. PICK g : g = [i \in 0..(n - 1) |-> f[i + 1]]
  OBVIOUS
<1>3. g \in [0..(n - 1) -> Places] /\ f[1] \in Places
  <2>1. \A i \in 0..(n - 1) : i + 1 \in 0..n
    OBVIOUS
  <2> QED
    BY <1>1, <1>2, <2>1
<1>4. g[0] = f[1] /\ g[n - 1] = y
  BY <1>1, <1>2
<1>5. ASSUME NEW i \in 1..(n - 1) PROVE Turn(g[i - 1], w2[i], g[i])
  <2>1. g[i - 1] = f[i] /\ g[i] = f[i + 1] /\ i + 1 \in 1..n /\ (i + 1) - 1 = i
    BY <1>2
  <2>2. Turn(f[(i + 1) - 1], w[i + 1], f[i + 1])
    BY <1>1, <2>1
  <2> QED
    BY <2>1, <2>2
<1>6. Turn(x, w[1], f[1])
  <2>1. 1 \in 1..n /\ 1 - 1 = 0
    OBVIOUS
  <2>2. Turn(f[1 - 1], w[1], f[1])
    BY <1>1, <2>1
  <2> QED
    BY <1>1, <2>1, <2>2
<1>7. Path(n - 1, w2, f[1], y)
  BY <1>3, <1>4, <1>5 DEF Path
<1> QED
  BY <1>3, <1>6, <1>7

(* The same of messages, *)
LEMMA MessageAdded ==
  ASSUME NEW s \in Seq(Msgs), NEW m \in Msgs, NEW x \in Places, NEW y \in Places, NEW z \in Places,
         Path(Len(s), Ops(s), x, y), Turn(y, m.op, z)
  PROVE  Path(Len(Append(s, m)), Ops(Append(s, m)), x, z)
<1>1. /\ Len(s) \in Nat /\ Len(Append(s, m)) = Len(s) + 1 /\ Append(s, m)[Len(s) + 1] = m
      /\ \A i \in 1..Len(s) : Append(s, m)[i] = s[i]
  BY LenProperties, AppendProperties
<1>2. PICK w2 : w2 = Ops(Append(s, m))
  OBVIOUS
<1>3. w2[Len(s) + 1] = m.op /\ \A i \in 1..Len(s) : w2[i] = Ops(s)[i]
  BY <1>1, <1>2 DEF Ops
<1>4. PICK w : w = Ops(s)
  OBVIOUS
<1> QED
  BY <1>1, <1>2, <1>3, <1>4, PathGrows

(* and the first message taken is its first turn. *)
LEMMA MessageTaken ==
  ASSUME NEW s \in Seq(Msgs), s # <<>>, NEW x \in Places, NEW y \in Places, Path(Len(s), Ops(s), x, y)
  PROVE  \E z \in Places : Turn(x, Head(s).op, z) /\ Path(Len(Tail(s)), Ops(Tail(s)), z, y)
<1>1. /\ Len(s) \in Nat \ {0} /\ Len(Tail(s)) = Len(s) - 1 /\ Head(s) = s[1]
      /\ \A i \in 1..(Len(s) - 1) : Tail(s)[i] = s[i + 1]
  BY LenProperties, EmptySeq, HeadTailProperties
<1>2. PICK w : w = Ops(s)
  OBVIOUS
<1>3. PICK w2 : w2 = Ops(Tail(s))
  OBVIOUS
<1>4. PICK n \in Nat : n = Len(s) /\ n # 0
  BY <1>1
<1>5. /\ w[1] = Head(s).op /\ Path(n, w, x, y)
      /\ \A i \in 1..(n - 1) : w2[i] = w[i + 1]
  BY <1>1, <1>2, <1>3, <1>4 DEF Ops
<1>6. \E z \in Places : Turn(x, w[1], z) /\ Path(n - 1, w2, z, y)
  BY <1>4, <1>5, PathFollowed
<1> QED
  BY <1>1, <1>3, <1>4, <1>5, <1>6

(* and of reports. *)
LEMMA ReportAdded ==
  ASSUME NEW s \in Seq(Reports), NEW m \in Reports, NEW x \in Places, NEW y \in Places, NEW z \in Places,
         Path(Len(s), Whats(s), x, y), Turn(y, m.what, z)
  PROVE  Path(Len(Append(s, m)), Whats(Append(s, m)), x, z)
<1>1. /\ Len(s) \in Nat /\ Len(Append(s, m)) = Len(s) + 1 /\ Append(s, m)[Len(s) + 1] = m
      /\ \A i \in 1..Len(s) : Append(s, m)[i] = s[i]
  BY LenProperties, AppendProperties
<1>2. PICK w2 : w2 = Whats(Append(s, m))
  OBVIOUS
<1>3. w2[Len(s) + 1] = m.what /\ \A i \in 1..Len(s) : w2[i] = Whats(s)[i]
  BY <1>1, <1>2 DEF Whats
<1>4. PICK w : w = Whats(s)
  OBVIOUS
<1> QED
  BY <1>1, <1>2, <1>3, <1>4, PathGrows

(* The first of them likewise. *)
LEMMA ReportTaken ==
  ASSUME NEW s \in Seq(Reports), s # <<>>, NEW x \in Places, NEW y \in Places, Path(Len(s), Whats(s), x, y)
  PROVE  \E z \in Places : Turn(x, Head(s).what, z) /\ Path(Len(Tail(s)), Whats(Tail(s)), z, y)
<1>1. /\ Len(s) \in Nat \ {0} /\ Len(Tail(s)) = Len(s) - 1 /\ Head(s) = s[1]
      /\ \A i \in 1..(Len(s) - 1) : Tail(s)[i] = s[i + 1]
  BY LenProperties, EmptySeq, HeadTailProperties
<1>2. PICK w : w = Whats(s)
  OBVIOUS
<1>3. PICK w2 : w2 = Whats(Tail(s))
  OBVIOUS
<1>4. PICK n \in Nat : n = Len(s) /\ n # 0
  BY <1>1
<1>5. /\ w[1] = Head(s).what /\ Path(n, w, x, y)
      /\ \A i \in 1..(n - 1) : w2[i] = w[i + 1]
  BY <1>1, <1>2, <1>3, <1>4 DEF Whats
<1>6. \E z \in Places : Turn(x, w[1], z) /\ Path(n - 1, w2, z, y)
  BY <1>4, <1>5, PathFollowed
<1> QED
  BY <1>1, <1>3, <1>4, <1>5, <1>6

-----------------------------------------------------------------------------
(* What a handler does to its own boards: they are left with the reports    *)
(* waiting, perhaps with a port withdrawn, or they conclude a port.         *)
Rests(r, waiting) ==
  /\ outbox' = [outbox EXCEPT ![r] = waiting]
  /\ concluded' = concluded
  /\ \A q \in Racks, p \in Ports : armed'[q][p] \in {armed[q][p], NotArmed}

Concludes(r, p, waiting) ==
  /\ p \in Ports
  /\ armed[r][p] # NotArmed
  /\ \E ok \in BOOLEAN :
       /\ outbox' = [outbox EXCEPT ![r] = Append(waiting,
            [cmd |-> armed[r][p], what |-> CONCLUDED, label |-> NoLabel, ok |-> ok])]
       /\ concluded' = [concluded EXCEPT ![r][p] = IF ok THEN "good" ELSE "bad"]
  /\ armed' = [armed EXCEPT ![r][p] = NotArmed]

LineStep(r, waiting) == tag' = tag /\ (Rests(r, waiting) \/ \E p \in Ports : Concludes(r, p, waiting))

(* That is what any frame but the one that arms does, *)
LEMMA Written ==
  ASSUME Typed, NEW r \in Racks, NEW f, NEW waiting, Write(r, f, waiting), f.op # ARM
  PROVE  LineStep(r, waiting) /\ (f.op # CONFIRM => Rests(r, waiting))
<1>1. armed \in [Racks -> [Ports -> Cmds \cup {NotArmed}]] /\ tag' = tag
  BY DEF Typed, BoardsTypeOK, Write
<1>2. CASE /\ armed' = [armed EXCEPT ![r] = [p \in Ports |-> IF p = f.port THEN NotArmed ELSE @[p]]]
           /\ outbox' = [outbox EXCEPT ![r] = waiting]
           /\ UNCHANGED concluded
  BY <1>1, <1>2 DEF Rests, LineStep
<1>3. ASSUME f.op = CONFIRM, f.port \in Ports, armed[r][f.port] # NotArmed, NEW ok \in Results,
             outbox' = [outbox EXCEPT ![r] = Append(waiting,
                  [cmd |-> armed[r][f.port], what |-> CONCLUDED, label |-> NoLabel, ok |-> ok])],
             concluded' = [concluded EXCEPT ![r][f.port] = IF ok THEN "good" ELSE "bad"],
             armed' = [armed EXCEPT ![r][f.port] = NotArmed]
      PROVE  LineStep(r, waiting)
  <2>1. ok \in BOOLEAN
    BY BoardsAssumption
  <2>2. Concludes(r, f.port, waiting)
    BY <1>3, <2>1 DEF Concludes
  <2> QED
    BY <1>1, <1>3, <2>2 DEF LineStep
<1>4. CASE outbox' = [outbox EXCEPT ![r] = waiting] /\ UNCHANGED <<armed, concluded>>
  BY <1>1, <1>4 DEF Rests, LineStep
<1> QED
  BY <1>2, <1>3, <1>4 DEF Write, ARM, CANCEL, CONFIRM, GUIDE, OUTPUT

(* and no frame. *)
LEMMA Unwritten ==
  ASSUME Typed, NEW r \in Racks, NEW waiting, Silent(r, waiting)
  PROVE  LineStep(r, waiting) /\ Rests(r, waiting)
BY DEF Silent, LineStep, Rests, Typed, BoardsTypeOK

(* Afterwards no other rack has other reports, no port is armed that was    *)
(* not, and what was concluded as good remains so.                          *)
LEMMA LineKeeps ==
  ASSUME Typed, NEW r \in Racks, NEW waiting, LineStep(r, waiting)
  PROVE  /\ \A q \in Racks \ {r} : outbox'[q] = outbox[q]
         /\ \A q \in Racks, p \in Ports : armed'[q][p] \in {armed[q][p], NotArmed}
         /\ \A q \in Racks, p \in Ports : Done(q, p) => Done(q, p)'
         /\ \A q \in Racks \ {r}, p \in Ports : armed'[q][p] = armed[q][p] \/ Rests(r, waiting)
<1>1. /\ armed \in [Racks -> [Ports -> Cmds \cup {NotArmed}]]
      /\ outbox \in [Racks -> Seq(Reports)]
      /\ concluded \in [Racks -> [Ports -> {"open", "good", "bad"}]]
  BY DEF Typed, BoardsTypeOK
<1>2. CASE Rests(r, waiting)
  BY <1>1, <1>2 DEF Rests, Done
<1>3. ASSUME NEW p \in Ports, Concludes(r, p, waiting)
      PROVE  /\ \A q \in Racks \ {r} : outbox'[q] = outbox[q]
             /\ \A q \in Racks, o \in Ports : armed'[q][o] \in {armed[q][o], NotArmed}
             /\ \A q \in Racks, o \in Ports : Done(q, o) => Done(q, o)'
             /\ \A q \in Racks \ {r}, o \in Ports : armed'[q][o] = armed[q][o]
  BY <1>1, <1>3 DEF Concludes, Done
<1> QED
  BY <1>2, <1>3 DEF LineStep

-----------------------------------------------------------------------------
(* What racks say, and where it goes.                                       *)
Said(m, k) == m \in Msgs /\ m.cmd = Cmd(k, "remote") /\ m.op # ARM

(* The host says something, or nothing. *)
HostSaid(k, c) ==
  /\ \A d \in Conns \ {c} : wire'[d] = wire[d]
  /\ wire'[c].caller = wire[c].caller
  /\ \A i \in 1..Len(wire'[c].callee) :
       Said(wire'[c].callee[i], k) \/ \E j \in 1..Len(wire[c].callee) : wire'[c].callee[i] = wire[c].callee[j]

(* The other rack says m, which is heard as long as it is listened to. *)
FarSaid(h, c, far, m) ==
  /\ \A d \in Conns \ {c} : wire'[d] = wire[d]
  /\ wire'[c].callee = wire[c].callee
  /\ wire'[c].caller \in {wire[c].caller, Append(wire[c].caller, m)}
  /\ order[far].connect_sockfd # NoSock /\ Listens(h, c) => wire'[c].caller = Append(wire[c].caller, m)
  /\ order[far].connect_sockfd = NoSock => wire'[c].caller = wire[c].caller

(* The host's words go to the one connection it may have. *)
LEMMA HostWire ==
  ASSUME Typed, NEW h \in Racks, NEW c \in Conns, NEW far \in Racks, NEW k \in Kinds, Connections(h, c, far),
         NEW ms \in Seq(Msgs), \A i \in 1..Len(ms) : Said(ms[i], k),
         wire' = wire \/ wire' = Carried(order[h].connect_sockfd, ms)
  PROVE  HostSaid(k, c)
<1>1. wire \in [Conns -> [caller : Seq(Msgs), callee : Seq(Msgs)]]
  BY DEF Typed, WireTyped
<1>2. CASE wire' = wire
  BY <1>2 DEF HostSaid
<1>3. CASE Delivers(order[h].connect_sockfd) /\ wire' = Carried(order[h].connect_sockfd, ms)
  <2>1. order[h].connect_sockfd = Sock(c, "caller")
    BY <1>3 DEF Delivers, Connections
  <2>2. wire' = [wire EXCEPT ![c]["callee"] = wire[c]["callee"] \o ms]
    BY <1>3, <2>1 DEF Carried, Sock, Other
  <2>3. PICK w \in Seq(Msgs) : w = wire[c].callee
    BY <1>1
  <2>4. wire'[c].caller = wire[c].caller /\ wire'[c].callee = w \o ms /\ \A d \in Conns \ {c} : wire'[d] = wire[d]
    BY <1>1, <2>2, <2>3
  <2>5. /\ Len(w) \in Nat /\ Len(ms) \in Nat /\ Len(w \o ms) = Len(w) + Len(ms)
        /\ \A i \in 1..(Len(w) + Len(ms)) : (w \o ms)[i] = IF i <= Len(w) THEN w[i] ELSE ms[i - Len(w)]
    BY <2>3, ConcatProperties, LenProperties
  <2>6. ASSUME NEW i \in 1..Len(w \o ms)
        PROVE  Said((w \o ms)[i], k) \/ \E j \in 1..Len(w) : (w \o ms)[i] = w[j]
    <3>1. CASE i <= Len(w)
      BY <2>5, <3>1
    <3>2. CASE ~ (i <= Len(w))
      <4>1. i - Len(w) \in 1..Len(ms) /\ (w \o ms)[i] = ms[i - Len(w)]
        BY <2>5, <3>2
      <4> QED
        BY <4>1
    <3> QED
      BY <3>1, <3>2
  <2>7. PICK v : v = w \o ms
    OBVIOUS
  <2>8. \A i \in 1..Len(v) : Said(v[i], k) \/ \E j \in 1..Len(w) : v[i] = w[j]
    BY <2>6, <2>7
  <2>9. w = wire[c].callee /\ v = wire'[c].callee
    BY <2>3, <2>4, <2>7
  <2>10. \A i \in 1..Len(wire'[c].callee) :
           Said(wire'[c].callee[i], k) \/ \E j \in 1..Len(wire[c].callee) : wire'[c].callee[i] = wire[c].callee[j]
    BY <2>8, <2>9, Zenon
  <2> QED
    BY <2>4, <2>10 DEF HostSaid
<1> QED
  BY <1>2, <1>3 DEF Carried

(* So do the other rack's. *)
LEMMA FarWire ==
  ASSUME Typed, NEW h \in Racks, NEW c \in Conns, NEW far \in Racks, Connections(h, c, far), NEW m \in Msgs,
         wire' = Carried(order[far].connect_sockfd, <<m>>)
  PROVE  FarSaid(h, c, far, m)
<1>1. wire \in [Conns -> [caller : Seq(Msgs), callee : Seq(Msgs)]] /\ call \in [Conns -> Calls]
  BY DEF Typed, WireTyped, CallsTyped
<1>2. PICK s : s = order[far].connect_sockfd
  OBVIOUS
<1>3. s \in {NoSock, Sock(c, "callee")}
  BY <1>2 DEF Connections
<1>4. CASE s = NoSock
  BY <1>2, <1>4 DEF Carried, Delivers, FarSaid
<1>5. CASE s = Sock(c, "callee")
  <2>1. Sock(c, "callee") # NoSock /\ Sock(c, "caller") # NoSock
    BY BlankAssumption DEF Sock, Ends
  <2>2. Delivers(s) <=> call[c].up /\ Reads(c, "caller")
    BY <1>5, <2>1 DEF Delivers, Sock, Other
  <2>3. call[c].at # "free" /\ call[c].up /\ call[c].from = h
    BY <1>2, <1>5, <2>1 DEF Connections, Unaccepted
  <2>4. Delivers(s) <=> Listens(h, c)
    BY <2>1, <2>2, <2>3 DEF Reads, Listens, Connections
  <2>5. CASE Delivers(s)
    <3>1. wire' = [wire EXCEPT ![c]["caller"] = wire[c]["caller"] \o <<m>>]
      BY <1>2, <1>5, <2>5 DEF Carried, Sock, Other
    <3>2. PICK w \in Seq(Msgs) : w = wire[c].caller
      BY <1>1
    <3>3. w \o <<m>> = Append(w, m)
      BY <3>2, AppendIsConcat
    <3>4. wire'[c].callee = wire[c].callee /\ wire'[c].caller = w \o <<m>> /\ \A d \in Conns \ {c} : wire'[d] = wire[d]
      BY <1>1, <3>1, <3>2
    <3> QED
      BY <1>2, <1>5, <2>1, <3>2, <3>3, <3>4 DEF FarSaid
  <2>6. CASE ~Delivers(s)
    BY <1>2, <2>4, <2>6 DEF Carried, FarSaid
  <2> QED
    BY <2>5, <2>6
<1> QED
  BY <1>3, <1>4, <1>5

-----------------------------------------------------------------------------
(***************************************************************************)
(* A handler of the host.  o2 is the order as it leaves it, waiting the    *)
(* reports it leaves at its boards.                                        *)
(***************************************************************************)
HostDoes(h, k, c, o2, waiting) ==
  /\ order' = [order EXCEPT ![h] = o2]
  /\ \/ o2 = Cleared
     \/ /\ o2.connect_sockfd = order[h].connect_sockfd
        /\ o2.order_result = order[h].order_result
        /\ o2.row = order[h].row \/ Said(o2.row, k)
  /\ HostSaid(k, c)
  /\ LineStep(h, waiting)
  /\ UNCHANGED <<wiping, call, request>>

Waits(h, waiting) ==
  /\ waiting \in Seq(Reports)
  /\ \A i \in 1..Len(waiting) : \E j \in 1..Len(outbox[h]) : waiting[i] = outbox[h][j]

(* It knows of a label at the other rack only by the message it handled. *)
Follows(o, o2) ==
  \/ o2.incoming = o.incoming /\ (o2.jiajian_eid # NoLabel => o.jiajian_eid # NoLabel)
  \/ /\ o.incoming # NoMsg
     /\ o2.incoming = NoMsg
     /\ o2.jiajian_eid # NoLabel =>
          o.incoming.op = INSERTED \/ (o.incoming.op # PULLEDBACK /\ o.jiajian_eid # NoLabel)
  \/ o2.incoming = NoMsg /\ o2.jiajian_eid = NoLabel

HostEffect(h, k, c, here, far, there, o2, waiting) ==
  /\ HostDoes(h, k, c, o2, waiting)
  /\ Waits(h, waiting)
  /\ Follows(order[h], o2)
  /\ Early(h, c, far) => Rests(h, waiting) /\ EarlyOrder(o2)
  /\ Agreed(h, k)'
  /\ o2.local_flag = "good" => Done(h, here)
  /\ o2.jiajian_flag = "good" => Done(far, there)

(* The reports that wait after a step of the line. *)
LEMMA WaitingReports ==
  ASSUME Typed, NEW h \in Racks, NEW waiting, Waits(h, waiting), LineStep(h, waiting), NEW i \in 1..Len(outbox'[h])
  PROVE  \/ \E j \in 1..Len(outbox[h]) : outbox'[h][i] = outbox[h][j]
         \/ \E p \in Ports : /\ Concludes(h, p, waiting)
                             /\ outbox'[h][i].cmd = armed[h][p] /\ outbox'[h][i].what = CONCLUDED
                             /\ outbox'[h][i].ok => concluded'[h][p] = "good"
<1>1. outbox \in [Racks -> Seq(Reports)] /\ concluded \in [Racks -> [Ports -> {"open", "good", "bad"}]]
  BY DEF Typed, BoardsTypeOK
<1>2. CASE Rests(h, waiting)
  <2>1. outbox'[h] = waiting
    BY <1>1, <1>2 DEF Rests
  <2> QED
    BY <2>1 DEF Waits
<1>3. ASSUME NEW p \in Ports, Concludes(h, p, waiting)
      PROVE  \/ \E j \in 1..Len(outbox[h]) : outbox'[h][i] = outbox[h][j]
             \/ /\ outbox'[h][i].cmd = armed[h][p] /\ outbox'[h][i].what = CONCLUDED
                /\ outbox'[h][i].ok => concluded'[h][p] = "good"
  <2>1. PICK ok \in BOOLEAN :
          /\ outbox' = [outbox EXCEPT ![h] = Append(waiting,
               [cmd |-> armed[h][p], what |-> CONCLUDED, label |-> NoLabel, ok |-> ok])]
          /\ concluded' = [concluded EXCEPT ![h][p] = IF ok THEN "good" ELSE "bad"]
    BY <1>3 DEF Concludes
  <2>2. PICK rep : rep = [cmd |-> armed[h][p], what |-> CONCLUDED, label |-> NoLabel, ok |-> ok]
    OBVIOUS
  <2>3. rep.cmd = armed[h][p] /\ rep.what = CONCLUDED /\ rep.ok = ok
    BY <2>2
  <2>4. outbox'[h] = Append(waiting, rep) /\ (ok => concluded'[h][p] = "good")
    BY <1>1, <2>1, <2>2
  <2>5. waiting \in Seq(Reports) /\ Len(waiting) \in Nat
    BY LenProperties DEF Waits
  <2>6. /\ Len(Append(waiting, rep)) = Len(waiting) + 1
        /\ Append(waiting, rep)[Len(waiting) + 1] = rep
        /\ \A j \in 1..Len(waiting) : Append(waiting, rep)[j] = waiting[j]
    <3>1. waiting \in Seq(Reports \cup {rep}) /\ rep \in Reports \cup {rep}
      BY <2>5, SeqMonotonic
    <3> QED
      BY <3>1, AppendProperties
  <2>7. CASE i = Len(waiting) + 1
    BY <2>3, <2>4, <2>6, <2>7
  <2>8. CASE i # Len(waiting) + 1
    <3>1. i \in 1..Len(waiting) /\ outbox'[h][i] = waiting[i]
      BY <2>4, <2>5, <2>6, <2>8
    <3> QED
      BY <3>1 DEF Waits
  <2> QED
    BY <2>7, <2>8
<1> QED
  BY <1>2, <1>3 DEF LineStep

(* The order goes on between the same racks, *)
LEMMA HostParties ==
  ASSUME Typed, NEW h \in Racks, NEW k \in Kinds, NEW c \in Conns, NEW here \in Ports, NEW far \in Racks,
         NEW there \in Ports, Active(h, k, c, here, far, there), NEW o2, NEW waiting, HostDoes(h, k, c, o2, waiting)
  PROVE  Parties(h, here, far, there)' /\ Connections(h, c, far)'
<1>1. /\ \A q \in Racks \ {h} : order'[q] = order[q]
      /\ order'[h] = o2 /\ far \in Racks \ {h}
      /\ o2.order_result \in {NoOrder, order[h].order_result}
      /\ o2.connect_sockfd \in {NoSock, order[h].connect_sockfd}
  BY ClearedTyped DEF Typed, OrdersTyped, HostDoes, Active, Parties, Cleared
<1>2. Parties(h, here, far, there)'
  BY <1>1 DEF Active, Parties, HostDoes
<1>3. Connections(h, c, far)'
  <2>1. UNCHANGED call /\ \A d \in Conns \ {c} : wire'[d] = wire[d]
    BY DEF HostDoes, HostSaid
  <2>2. Connections(h, c, far)
    BY DEF Active
  <2> QED
    BY <1>1, <2>1, <2>2 DEF Connections, Unaccepted
<1> QED
  BY <1>2, <1>3

(* its boards report of it alone, *)
LEMMA HostLines ==
  ASSUME Typed, NEW h \in Racks, NEW k \in Kinds, NEW c \in Conns, NEW here \in Ports, NEW far \in Racks,
         NEW there \in Ports, Active(h, k, c, here, far, there), NEW waiting,
         Waits(h, waiting), LineStep(h, waiting)
  PROVE  Lines(h, k, here, far, there)'
<1>1. Lines(h, k, here, far, there) /\ far \in Racks \ {h}
  BY DEF Active, Parties
<1>2. /\ \A q \in Racks \ {h} : outbox'[q] = outbox[q]
      /\ \A q \in Racks, p \in Ports : armed'[q][p] \in {armed[q][p], NotArmed}
  BY LineKeeps
<1>3. ASSUME NEW i \in 1..Len(outbox'[h])
      PROVE  outbox'[h][i].cmd = Cmd(k, "host") /\ (outbox'[h][i].what = INSERTED => outbox'[h][i].label \in Labels)
  <2>1. CASE \E j \in 1..Len(outbox[h]) : outbox'[h][i] = outbox[h][j]
    BY <1>1, <2>1 DEF Lines, ReportsOf
  <2>2. ASSUME NEW p \in Ports, Concludes(h, p, waiting),
               outbox'[h][i].cmd = armed[h][p], outbox'[h][i].what = CONCLUDED
        PROVE  outbox'[h][i].cmd = Cmd(k, "host") /\ outbox'[h][i].what # INSERTED
    BY <1>1, <2>2 DEF Concludes, Lines, INSERTED, CONCLUDED
  <2> QED
    BY <2>1, <2>2, WaitingReports
<1>4. ReportsOf(outbox[h], Cmd(k, "host"))'
  BY <1>3 DEF ReportsOf
<1>5. ReportsOf(outbox[far], Cmd(k, "remote"))' /\ \A q \in Racks \ {h, far} : outbox'[q] = <<>>
  BY <1>1, <1>2 DEF Lines, ReportsOf
<1>6. \A q \in Racks, p \in Ports :
        armed'[q][p] # NotArmed => \/ q = h /\ p = here /\ armed'[q][p] = Cmd(k, "host")
                                   \/ q = far /\ p = there /\ armed'[q][p] = Cmd(k, "remote")
  BY <1>1, <1>2 DEF Lines
<1> QED
  BY <1>4, <1>5, <1>6 DEF Lines, Cmd

(* nobody says anything of another, *)
LEMMA HostWords ==
  ASSUME Typed, NEW h \in Racks, NEW k \in Kinds, NEW c \in Conns, NEW here \in Ports, NEW far \in Racks,
         NEW there \in Ports, Active(h, k, c, here, far, there), NEW o2, NEW waiting,
         HostEffect(h, k, c, here, far, there, o2, waiting)
  PROVE  Words(h, k, c, far, there)'
<1>1. /\ \A q \in Racks \ {h} : order'[q] = order[q]
      /\ order'[h] = o2 /\ far \in Racks \ {h}
      /\ o2.row = NoMsg \/ o2.row = order[h].row \/ Said(o2.row, k)
      /\ o2.incoming # NoMsg => o2.incoming = order[h].incoming /\ o2.connect_sockfd = order[h].connect_sockfd
  BY DEF Typed, OrdersTyped, HostEffect, HostDoes, Active, Parties, Cleared, Follows
<1>2. Words(h, k, c, far, there) /\ HostSaid(k, c)
  BY DEF Active, HostEffect, HostDoes
<1>3. \A m : Said(m, k) => FromHost(m, k, far, there)
  BY DEF Said, FromHost
<1>4. order'[h].row # NoMsg => FromHost(order'[h].row, k, far, there)
  BY <1>1, <1>2, <1>3 DEF Words
<1>5. \A i \in 1..Len(wire'[c].callee) : FromHost(wire'[c].callee[i], k, far, there)
  BY <1>2, <1>3 DEF Words, HostSaid
<1>6. \A i \in 1..Len(wire'[c].caller) : FromFar(wire'[c].caller[i], k)
  BY <1>2 DEF Words, HostSaid
<1>7. /\ order'[far].incoming # NoMsg => FromHost(order'[far].incoming, k, far, there)
      /\ \A q \in Racks \ {h, far} : order'[q].incoming = NoMsg
      /\ order'[h].incoming # NoMsg => FromFar(order'[h].incoming, k) /\ order'[h].connect_sockfd = Sock(c, "caller")
  BY <1>1, <1>2 DEF Words
<1> QED
  BY <1>4, <1>5, <1>6, <1>7 DEF Words, FromHost, FromFar, Cmd, Sock

(* what the other rack says is still as it was. *)
LEMMA HostEarly ==
  ASSUME Typed, NEW h \in Racks, NEW k \in Kinds, NEW c \in Conns, NEW here \in Ports, NEW far \in Racks,
         NEW there \in Ports, Active(h, k, c, here, far, there), NEW o2, NEW waiting,
         HostEffect(h, k, c, here, far, there, o2, waiting), Unaccepted(c)'
  PROVE  Early(h, c, far)'
<1>1. UNCHANGED call /\ Early(h, c, far) /\ far \in Racks \ {h} /\ LineStep(h, waiting)
  BY DEF HostEffect, HostDoes, Unaccepted, Active, Parties
<1>2. Rests(h, waiting) /\ EarlyOrder(o2) /\ order'[h] = o2 /\ wire'[c].caller = wire[c].caller
  BY <1>1 DEF HostEffect, HostDoes, HostSaid, Early, Typed, OrdersTyped
<1>3. outbox'[h] = waiting /\ outbox'[far] = outbox[far] /\ \A p \in Ports : armed'[far][p] \in {armed[far][p], NotArmed}
  BY <1>1, <1>2 DEF Rests, Typed, BoardsTypeOK
<1>4. \A i \in 1..Len(waiting) : waiting[i].what # CONCLUDED
  BY <1>1 DEF Early, HostEffect, Waits
<1>5. EarlyOrder(order[h])'
  BY <1>2 DEF EarlyOrder
<1> QED
  BY <1>1, <1>2, <1>3, <1>4, <1>5 DEF Early

(* What the host takes from the path is its first turn, or nothing. *)
LEMMA HostStream ==
  ASSUME Typed, NEW h \in Racks, NEW k \in Kinds, NEW c \in Conns, NEW here \in Ports, NEW far \in Racks,
         NEW there \in Ports, Active(h, k, c, here, far, there), NEW o2, NEW waiting,
         HostEffect(h, k, c, here, far, there, o2, waiting), Listens(h, c)', k = "new"
  PROVE  Stream(h, c, far, there)'
<1>1. far \in Racks \ {h} /\ LineStep(h, waiting) /\ UNCHANGED call
  BY DEF HostEffect, HostDoes, Active, Parties
<1>2. /\ order'[h] = o2 /\ order'[far] = order[far] /\ wire'[c].caller = wire[c].caller
      /\ o2.connect_sockfd \in {NoSock, order[h].connect_sockfd}
  BY <1>1 DEF HostEffect, HostDoes, HostSaid, Typed, OrdersTyped, Cleared
<1>3. outbox'[far] = outbox[far] /\ armed'[far][there] \in {armed[far][there], NotArmed} /\ tag' = tag
  BY <1>1, LineKeeps DEF LineStep
<1>4. Stream(h, c, far, there)
  BY <1>1, <1>2 DEF Listens, Active
<1>5. PICK a \in Places, b \in Places, x \in Places, y \in Places :
        /\ order[h].jiajian_eid # NoLabel => a = "in"
        /\ IF order[h].incoming = NoMsg THEN b = a ELSE Turn(a, order[h].incoming.op, b)
        /\ Path(Len(wire[c].caller), Ops(wire[c].caller), b, x)
        /\ order[far].connect_sockfd # NoSock =>
             /\ Path(Len(outbox[far]), Whats(outbox[far]), x, y)
             /\ armed[far][there] # NotArmed => y = IF tag[far][there] = NoLabel THEN "out" ELSE "in"
  BY <1>4 DEF Stream
<1>6. \E a2 \in Places : /\ o2.jiajian_eid # NoLabel => a2 = "in"
                         /\ IF o2.incoming = NoMsg THEN b = a2 ELSE Turn(a2, o2.incoming.op, b)
  BY <1>5 DEF HostEffect, Follows, Turn, Places
<1>7. PICK a2 \in Places : /\ o2.jiajian_eid # NoLabel => a2 = "in"
                           /\ IF o2.incoming = NoMsg THEN b = a2 ELSE Turn(a2, o2.incoming.op, b)
  BY <1>6
<1>8. Path(Len(wire'[c].caller), Ops(wire'[c].caller), b, x)
  BY <1>2, <1>5 DEF Ops
<1>9. order'[far].connect_sockfd # NoSock =>
        /\ Path(Len(outbox'[far]), Whats(outbox'[far]), x, y)
        /\ armed'[far][there] # NotArmed => y = IF tag'[far][there] = NoLabel THEN "out" ELSE "in"
  BY <1>2, <1>3, <1>5 DEF Whats
<1> QED
  BY <1>2, <1>7, <1>8, <1>9 DEF Stream

(* and a conclusion reported as good is of the order's ports. *)
LEMMA HostConclusions ==
  ASSUME Typed, NEW h \in Racks, NEW k \in Kinds, NEW c \in Conns, NEW here \in Ports, NEW far \in Racks,
         NEW there \in Ports, Active(h, k, c, here, far, there), NEW o2, NEW waiting,
         HostEffect(h, k, c, here, far, there, o2, waiting)
  PROVE  Conclusions(h, c, here, far, there)'
<1>1. Conclusions(h, c, here, far, there) /\ far \in Racks \ {h} /\ LineStep(h, waiting) /\ Waits(h, waiting)
  BY DEF HostEffect, HostDoes, Active, Parties
<1>2. /\ order'[h] = o2 /\ wire'[c].caller = wire[c].caller
      /\ o2.incoming # NoMsg => o2.incoming = order[h].incoming
      /\ o2.local_flag = "good" => Done(h, here)
      /\ o2.jiajian_flag = "good" => Done(far, there)
  BY <1>1 DEF HostEffect, HostDoes, HostSaid, Typed, OrdersTyped, Follows
<1>3. outbox'[far] = outbox[far] /\ (Done(h, here) => Done(h, here)') /\ (Done(far, there) => Done(far, there)')
  BY <1>1, LineKeeps
<1>4. ASSUME NEW i \in 1..Len(outbox'[h]), outbox'[h][i].what = CONCLUDED, outbox'[h][i].ok
      PROVE  Done(h, here)'
  <2>1. CASE \E j \in 1..Len(outbox[h]) : outbox'[h][i] = outbox[h][j]
    BY <1>1, <1>3, <1>4, <2>1 DEF Conclusions
  <2>2. ASSUME NEW p \in Ports, Concludes(h, p, waiting), concluded'[h][p] = "good"
        PROVE  Done(h, here)'
    <3>1. p = here
      BY <2>2 DEF Concludes, Active, Lines, Cmd, Parties
    <3>2. armed'[h][p] = NotArmed
      BY <2>2 DEF Concludes, Typed, BoardsTypeOK
    <3> QED
      BY <2>2, <3>1, <3>2 DEF Done
  <2> QED
    BY <1>1, <1>4, <2>1, <2>2, WaitingReports
<1> QED
  BY <1>1, <1>2, <1>3, <1>4 DEF Conclusions

(* Together: a handler of the host keeps the order. *)
LEMMA HostKeeps ==
  ASSUME Typed, NEW h \in Racks, NEW k \in Kinds, NEW c \in Conns, NEW here \in Ports, NEW far \in Racks,
         NEW there \in Ports, Active(h, k, c, here, far, there), NEW o2, NEW waiting,
         HostEffect(h, k, c, here, far, there, o2, waiting)
  PROVE  Active(h, k, c, here, far, there)'
<1>1. HostDoes(h, k, c, o2, waiting) /\ Waits(h, waiting) /\ LineStep(h, waiting) /\ Agreed(h, k)'
  BY DEF HostEffect, HostDoes
<1>2. Parties(h, here, far, there)' /\ Connections(h, c, far)' /\ Lines(h, k, here, far, there)'
  BY <1>1, HostParties, HostLines
<1>3. Words(h, k, c, far, there)' /\ Conclusions(h, c, here, far, there)'
  BY HostWords, HostConclusions
<1>4. (Unaccepted(c) => Early(h, c, far))' /\ (k = "new" /\ Listens(h, c) => Stream(h, c, far, there))'
  BY HostEarly, HostStream
<1> QED
  BY <1>1, <1>2, <1>3, <1>4 DEF Active

-----------------------------------------------------------------------------
(* What the handlers of the host are built from.  o is the order as the     *)
(* handler has it, before what is said is noted in its row.                 *)
KeptOf(h, o) ==
  /\ o \in OrderRecords
  /\ o.connect_sockfd = order[h].connect_sockfd
  /\ o.order_result = order[h].order_result
  /\ o.row = order[h].row

Sound(h, k, c, here, far, there, o) ==
  /\ Follows(order[h], o)
  /\ Early(h, c, far) => EarlyOrder(o)
  /\ AgreedWith(k, o, heard'[h])
  /\ o.local_flag = "good" => Done(h, here)
  /\ o.jiajian_flag = "good" => Done(far, there)

AgreedNow(h, k) ==
  /\ heard[h].local = heard[h].jiajian
  /\ IF k = "new" THEN heard[h].local \in Labels ELSE heard[h].local = NoLabel

AnsweredWell(h, here, far, there) ==
  \/ answers' = answers
  \/ \E ok \in BOOLEAN, to \in Clients :
       /\ answers' = Append(answers, [order |-> order[h].order_result, to |-> to, ok |-> ok])
       /\ ok => Done(h, here) /\ Done(far, there)

HostResult(h, k, c, here, far, there, waiting) ==
  \E o2 : /\ HostEffect(h, k, c, here, far, there, o2, waiting)
          /\ Rests(h, waiting) \/ AgreedNow(h, k)'
          /\ AnsweredWell(h, here, far, there)

Alike(k, o2, o) ==
  /\ o2.order_result = o.order_result
  /\ o2.row = o.row \/ Said(o2.row, k)
  /\ o2.incoming = o.incoming
  /\ o2.local_eid = o.local_eid
  /\ o2.jiajian_eid = o.jiajian_eid
  /\ o2.local_stat = o.local_stat
  /\ o2.jiajian_stat = o.jiajian_stat
  /\ o2.local_flag = o.local_flag
  /\ o2.jiajian_flag = o.jiajian_flag

(* What the host has to say is of its order, and arms nothing. *)
LEMMA WordsSaid ==
  ASSUME NEW k \in Kinds, NEW p \in Ports \cup {NoPort}, NEW e \in Labels \cup {NoLabel}, NEW rack \in Racks
  PROVE  Said(PortMsg(CONFIRM, k, p), k) /\ Said(PortMsg(OUTPUT, k, p), k) /\ Said(GuideMsg(p, e), "new")
<1>1. PortMsg(CONFIRM, k, p) \in Msgs /\ PortMsg(OUTPUT, k, p) \in Msgs /\ GuideMsg(p, e) \in Msgs
  BY MsgsTyped
<1> QED
  BY <1>1 DEF Said, PortMsg, GuideMsg, Msg, Cmd, CONFIRM, OUTPUT, GUIDE, ARM

(* It does not matter to the order what was said. *)
LEMMA Effected ==
  ASSUME Typed, NEW h \in Racks, NEW k \in Kinds, NEW c \in Conns, NEW here \in Ports, NEW far \in Racks,
         NEW there \in Ports, NEW o, NEW o2, NEW waiting,
         Sound(h, k, c, here, far, there, o), HostDoes(h, k, c, o2, waiting), Alike(k, o2, o), Waits(h, waiting),
         Rests(h, waiting) \/ (AgreedNow(h, k)' /\ ~Early(h, c, far)), AnsweredWell(h, here, far, there)
  PROVE  HostResult(h, k, c, here, far, there, waiting)
<1>1. order'[h] = o2
  BY DEF HostDoes, Typed, OrdersTyped
<1>2. Follows(order[h], o2)
  BY DEF Sound, Follows, Alike
<1>3. Early(h, c, far) => Rests(h, waiting) /\ EarlyOrder(o2)
  <2>1. Said(o2.row, k) => o2.row # NoMsg
    BY BlankAssumption DEF Said
  <2> QED
    BY <2>1 DEF Sound, Alike, EarlyOrder
<1>4. Agreed(h, k)'
  BY <1>1 DEF Agreed, AgreedWith, Sound, Alike
<1>5. (o2.local_flag = "good" => Done(h, here)) /\ (o2.jiajian_flag = "good" => Done(far, there))
  BY DEF Sound, Alike
<1> QED
  BY <1>2, <1>3, <1>4, <1>5 DEF HostEffect, HostResult

(* It says something, and writes a frame or none, *)
LEMMA SaysSoundly ==
  ASSUME Typed, NEW h \in Racks, NEW k \in Kinds, NEW c \in Conns, NEW here \in Ports, NEW far \in Racks,
         NEW there \in Ports, Connections(h, c, far), NEW o, KeptOf(h, o), Sound(h, k, c, here, far, there, o),
         NEW ms \in Seq(Msgs), ms # <<>>, \A i \in 1..Len(ms) : Said(ms[i], k), NEW waiting, Waits(h, waiting),
         Say(h, o, ms), UNCHANGED <<wiping, call, request>>,
         LineStep(h, waiting), Rests(h, waiting) \/ (AgreedNow(h, k)' /\ ~Early(h, c, far))
  PROVE  HostResult(h, k, c, here, far, there, waiting)
<1>1. Said(ms[Len(ms)], k)
  <2>1. Len(ms) \in Nat /\ Len(ms) # 0
    BY EmptySeq, LenProperties
  <2> QED
    BY <2>1
<1>2. PICK o2 : o2 = [o EXCEPT !.row = ms[Len(ms)]]
  OBVIOUS
<1>3. Alike(k, o2, o) /\ o2.connect_sockfd = o.connect_sockfd /\ o2.row = ms[Len(ms)]
  BY <1>1, <1>2 DEF Alike, KeptOf, OrderRecords
<1>4. HostSaid(k, c)
  BY HostWire DEF Say, KeptOf
<1>5. HostDoes(h, k, c, o2, waiting) /\ AnsweredWell(h, here, far, there)
  BY <1>1, <1>2, <1>3, <1>4 DEF HostDoes, Say, KeptOf, Alike, AnsweredWell
<1> QED
  BY <1>3, <1>5, Effected

(* or it says nothing, *)
LEMMA SilentSoundly ==
  ASSUME Typed, NEW h \in Racks, NEW k \in Kinds, NEW c \in Conns, NEW here \in Ports, NEW far \in Racks,
         NEW there \in Ports, NEW o, KeptOf(h, o), Sound(h, k, c, here, far, there, o),
         NEW waiting, Waits(h, waiting), order' = [order EXCEPT ![h] = o],
         UNCHANGED <<wire, answers, wiping, call, request>>, LineStep(h, waiting), Rests(h, waiting)
  PROVE  HostResult(h, k, c, here, far, there, waiting)
<1>1. Alike(k, o, o)
  BY DEF Alike
<1>2. HostSaid(k, c)
  BY DEF HostSaid
<1>3. HostDoes(h, k, c, o, waiting) /\ AnsweredWell(h, here, far, there)
  BY <1>2 DEF HostDoes, KeptOf, AnsweredWell
<1> QED
  BY <1>1, <1>3, Effected

(* or it tells both ends to conclude, of which it was told the same, *)
LEMMA ConfirmsSoundly ==
  ASSUME Typed, NEW h \in Racks, NEW k \in Kinds, NEW c \in Conns, NEW here \in Ports, NEW far \in Racks,
         NEW there \in Ports, Connections(h, c, far), NEW o, KeptOf(h, o), Sound(h, k, c, here, far, there, o),
         NEW waiting, Waits(h, waiting), ConfirmBoth(h, k, o, waiting), UNCHANGED <<wiping, call, request>>,
         AgreedNow(h, k)', ~Early(h, c, far)
  PROVE  HostResult(h, k, c, here, far, there, waiting)
<1>1. PICK m : m = PortMsg(CONFIRM, k, o.jiajian_port)
  OBVIOUS
<1>2. PICK f : f = Frame(CONFIRM, o.local_port, k, "host")
  OBVIOUS
<1>3. Said(m, k) /\ f.op # ARM
  <2>1. o.jiajian_port \in Ports \cup {NoPort} /\ NoLabel \in Labels \cup {NoLabel}
    BY DEF KeptOf, OrderRecords
  <2> QED
    BY <1>1, <1>2, <2>1, WordsSaid DEF Frame, CONFIRM, ARM
<1>4. <<m>> \in Seq(Msgs) /\ <<m>> # <<>> /\ \A i \in 1..Len(<<m>>) : Said(<<m>>[i], k)
  BY <1>3 DEF Said
<1>5. Say(h, o, <<m>>) /\ LineStep(h, waiting)
  BY <1>1, <1>2, <1>3, Written DEF ConfirmBoth, SayAndWrite
<1> QED
  BY <1>4, <1>5, SaysSoundly

(* or it enters a conclusion, with which the order may be over. *)
LEMMA EndsSoundly ==
  ASSUME Typed, NEW h \in Racks, NEW k \in Kinds, NEW c \in Conns, NEW here \in Ports, NEW far \in Racks,
         NEW there \in Ports, Active(h, k, c, here, far, there), NEW o, KeptOf(h, o),
         o.server_sockfd \in Clients \cup {Nobody},
         ~Early(h, c, far), Follows(order[h], o),
         AgreedWith(k, o, heard[h]), o.local_flag = "good" => Done(h, here),
         o.jiajian_flag = "good" => Done(far, there), NEW e, NEW end, Told(h, end, CONCLUDED, e), HeardTyped,
         NEW waiting, Waits(h, waiting), Conclude(h, o, waiting), UNCHANGED <<wiping, call, request>>
  PROVE  HostResult(h, k, c, here, far, there, waiting)
<1>1. LineStep(h, waiting) /\ Rests(h, waiting)
  BY Unwritten DEF Conclude, Note
<1>2. heard' = [heard EXCEPT ![h] = IF order'[h] = Cleared THEN Unheard ELSE @]
  BY DEF Told, CONCLUDED, Movements, INSERTED, PULLED, REINSERTED, PULLEDBACK
<1>3. UNCHANGED wire /\ HostSaid(k, c)
  BY DEF Conclude, Note, HostSaid
<1>4. CASE Clear(h)
  <2>1. order' = [order EXCEPT ![h] = Cleared] /\ order'[h] = Cleared
    BY <1>4 DEF Clear, Typed, OrdersTyped
  <2>2. HostDoes(h, k, c, Cleared, waiting)
    BY <1>1, <1>3, <2>1 DEF HostDoes
  <2>3. Follows(order[h], Cleared) /\ AgreedWith(k, Cleared, heard'[h])
    BY DEF Follows, Cleared, AgreedWith, UNSET, EMPTY
  <2>4. Sound(h, k, c, here, far, there, Cleared) /\ Alike(k, Cleared, Cleared)
    BY <2>3 DEF Sound, Alike, Cleared
  <2>5. AnsweredWell(h, here, far, there)
    <3>1. CASE Note(h, o, waiting)
      BY <3>1 DEF Note, AnsweredWell
    <3>2. CASE Reply(o, o.local_flag = "good" /\ o.jiajian_flag = "good")
      <4>1. PICK ok \in BOOLEAN : ok = (o.local_flag = "good" /\ o.jiajian_flag = "good")
        OBVIOUS
      <4>2. answers' = answers \/ answers' = Append(answers, [order |-> o.order_result, to |-> o.server_sockfd, ok |-> ok])
        BY <3>2, <4>1 DEF Reply
      <4>3. o.server_sockfd = Nobody => answers' = answers
        BY <3>2 DEF Reply
      <4> QED
        BY <4>1, <4>2, <4>3 DEF AnsweredWell, KeptOf
    <3> QED
      BY <3>1, <3>2 DEF Conclude
  <2> QED
    BY <1>1, <2>2, <2>4, <2>5, Effected
<1>5. CASE ~Clear(h)
  <2>1. Note(h, o, waiting)
    BY <1>5 DEF Conclude
  <2>2. order' = [order EXCEPT ![h] = o] /\ order'[h] = o /\ UNCHANGED answers
    BY <2>1 DEF Note, Typed, OrdersTyped
  <2>3. AgreedWith(k, o, heard'[h])
    <3>1. CASE o = Cleared
      BY <3>1 DEF Cleared, AgreedWith, UNSET, EMPTY
    <3>2. CASE o # Cleared
      BY <1>2, <2>2, <3>2 DEF HeardTyped
    <3> QED
      BY <3>1, <3>2
  <2>4. Sound(h, k, c, here, far, there, o)
    BY <2>3 DEF Sound
  <2> QED
    BY <1>1, <1>3, <2>2, <2>4, SilentSoundly
<1> QED
  BY <1>4, <1>5

-----------------------------------------------------------------------------
(* The handlers of the host, one after the other.                           *)

(* What a host is told of one end leaves alone what it knows of the other.  *)
LEMMA ToldEnds ==
  ASSUME HeardTyped, NEW h \in Racks, NEW what \in Movements, NEW e,
         NEW told, told = IF what = INSERTED THEN e ELSE IF what = REINSERTED THEN "some label" ELSE NoLabel
  PROVE  /\ Told(h, "local", what, e) => heard'[h].local = told /\ heard'[h].jiajian = heard[h].jiajian
         /\ Told(h, "jiajian", what, e) => heard'[h].jiajian = told /\ heard'[h].local = heard[h].local
<1>1. ASSUME Told(h, "local", what, e) PROVE heard'[h].local = told /\ heard'[h].jiajian = heard[h].jiajian
  <2>1. heard' = [heard EXCEPT ![h]["local"] = told]
    BY <1>1 DEF Told
  <2> QED
    BY <2>1 DEF HeardTyped
<1>2. ASSUME Told(h, "jiajian", what, e) PROVE heard'[h].jiajian = told /\ heard'[h].local = heard[h].local
  <2>1. heard' = [heard EXCEPT ![h]["jiajian"] = told]
    BY <1>2 DEF Told
  <2> QED
    BY <2>1 DEF HeardTyped
<1> QED
  BY <1>1, <1>2

(* New orders: a label was put in at the host, *)
LEMMA NearInsertedSound ==
  ASSUME Typed, HeardTyped, NEW h \in Racks, NEW c \in Conns, NEW here \in Ports, NEW far \in Racks,
         NEW there \in Ports, Active(h, "new", c, here, far, there), NEW waiting, Waits(h, waiting),
         NEW e \in Labels, NearInserted(h, order[h], e, waiting), Told(h, "local", INSERTED, e),
         UNCHANGED <<wiping, call, request>>
  PROVE  HostResult(h, "new", c, here, far, there, waiting)
<1>1. /\ order[h] \in OrderRecords /\ Connections(h, c, far) /\ "new" \in Kinds
      /\ order[h].local_flag = "good" => Done(h, here)
      /\ order[h].jiajian_flag = "good" => Done(far, there)
      /\ order[h].jiajian_eid # NoLabel => heard[h].jiajian = order[h].jiajian_eid
      /\ Early(h, c, far) => EarlyOrder(order[h])
  BY DEF Typed, OrdersTyped, Active, Kinds, Conclusions, Agreed, AgreedWith, Early
<1>2. heard'[h].local = e /\ heard'[h].jiajian = heard[h].jiajian /\ e # NoLabel
  BY ToldEnds, BoardsAssumption DEF Movements
<1>3. PICK kept : kept = [order[h] EXCEPT !.local_eid = e, !.local_stat = USED]
  OBVIOUS
<1>4. KeptOf(h, kept) /\ Sound(h, "new", c, here, far, there, kept)
  <2>1. KeptOf(h, kept)
    BY <1>1, <1>3 DEF KeptOf, OrderRecords
  <2>2. /\ kept.incoming = order[h].incoming /\ kept.jiajian_eid = order[h].jiajian_eid /\ kept.local_eid = e
        /\ kept.jiajian_stat = order[h].jiajian_stat /\ kept.order_result = order[h].order_result
        /\ kept.local_flag = order[h].local_flag /\ kept.jiajian_flag = order[h].jiajian_flag
    BY <1>1, <1>3 DEF OrderRecords
  <2>3. Follows(order[h], kept) /\ AgreedWith("new", kept, heard'[h])
    BY <1>1, <1>2, <2>2 DEF Follows, AgreedWith
  <2> QED
    BY <1>1, <2>1, <2>2, <2>3 DEF Sound, EarlyOrder, KeptOf
<1>5. CASE JustSay(h, kept, GuideMsg(order[h].jiajian_port, e), waiting)
  <2>1. PICK m : m = GuideMsg(order[h].jiajian_port, e)
    OBVIOUS
  <2>2. Said(m, "new")
    BY <1>1, <2>1, WordsSaid DEF OrderRecords
  <2>3. <<m>> \in Seq(Msgs) /\ <<m>> # <<>> /\ \A i \in 1..Len(<<m>>) : Said(<<m>>[i], "new")
    BY <2>2 DEF Said
  <2>4. Say(h, kept, <<m>>) /\ LineStep(h, waiting) /\ Rests(h, waiting)
    BY <1>5, <2>1, Unwritten DEF JustSay
  <2> QED
    BY <1>1, <1>4, <2>3, <2>4, SaysSoundly
<1>6. CASE order[h].jiajian_eid = e /\ ConfirmBoth(h, "new", kept, waiting)
  <2>1. AgreedNow(h, "new")' /\ ~Early(h, c, far)
    BY <1>1, <1>2, <1>6 DEF AgreedNow, EarlyOrder
  <2> QED
    BY <1>1, <1>4, <1>6, <2>1, ConfirmsSoundly
<1>7. CASE JustWrite(h, [order[h] EXCEPT !.local_eid = NoLabel], Frame(GUIDE, order[h].local_port, "new", "host"), waiting)
  <2>1. PICK o : o = [order[h] EXCEPT !.local_eid = NoLabel]
    OBVIOUS
  <2>2. KeptOf(h, o) /\ Sound(h, "new", c, here, far, there, o)
    BY <1>1, <1>2, <2>1 DEF KeptOf, OrderRecords, Sound, Follows, EarlyOrder, AgreedWith
  <2>3. PICK f : f = Frame(GUIDE, order[h].local_port, "new", "host")
    OBVIOUS
  <2>4. f.op # ARM /\ f.op # CONFIRM
    BY <2>3 DEF Frame, GUIDE, ARM, CONFIRM
  <2>5. /\ LineStep(h, waiting) /\ Rests(h, waiting) /\ order' = [order EXCEPT ![h] = o]
        /\ UNCHANGED <<wire, answers>>
    BY <1>7, <2>1, <2>3, <2>4, Written DEF JustWrite
  <2> QED
    BY <1>1, <2>2, <2>5, SilentSoundly
<1> QED
  BY <1>3, <1>5, <1>6, <1>7 DEF NearInserted

(* or at the other rack. *)
LEMMA FarInsertedSound ==
  ASSUME Typed, HeardTyped, NEW h \in Racks, NEW c \in Conns, NEW here \in Ports, NEW far \in Racks,
         NEW there \in Ports, Active(h, "new", c, here, far, there), NEW waiting, Waits(h, waiting),
         NEW o, o = [order[h] EXCEPT !.incoming = NoMsg], order[h].incoming # NoMsg, order[h].incoming.op = INSERTED,
         NEW e \in Labels, FarInserted(h, o, e, waiting), Told(h, "jiajian", INSERTED, e),
         UNCHANGED <<wiping, call, request>>
  PROVE  HostResult(h, "new", c, here, far, there, waiting)
<1>1. /\ order[h] \in OrderRecords /\ Connections(h, c, far) /\ "new" \in Kinds
      /\ order[h].local_flag = "good" => Done(h, here)
      /\ order[h].jiajian_flag = "good" => Done(far, there)
      /\ order[h].local_eid # NoLabel => heard[h].local = order[h].local_eid
      /\ Early(h, c, far) => EarlyOrder(order[h])
  BY DEF Typed, OrdersTyped, Active, Kinds, Conclusions, Agreed, AgreedWith, Early
<1>2. heard'[h].jiajian = e /\ heard'[h].local = heard[h].local /\ e # NoLabel
  BY ToldEnds, BoardsAssumption DEF Movements
<1>3. order[h].jiajian_eid = NoLabel
  <2>1. Listens(h, c)
    BY BlankAssumption DEF Active, Words, Listens, Sock, Ends
  <2>2. Stream(h, c, far, there)
    BY <2>1 DEF Active
  <2>3. PICK a \in Places, b \in Places : (order[h].jiajian_eid # NoLabel => a = "in") /\ Turn(a, INSERTED, b)
    BY <2>2 DEF Stream
  <2> QED
    BY <2>3 DEF Turn
<1>4. KeptOf(h, o) /\ Sound(h, "new", c, here, far, there, o) /\ ~Early(h, c, far)
  BY <1>1, <1>2, <1>3 DEF KeptOf, OrderRecords, Sound, Follows, EarlyOrder, AgreedWith
<1>5. PICK kept : kept = [o EXCEPT !.jiajian_eid = e, !.jiajian_stat = USED]
  OBVIOUS
<1>6. KeptOf(h, kept) /\ Sound(h, "new", c, here, far, there, kept)
  <2>1. KeptOf(h, kept)
    BY <1>4, <1>5 DEF KeptOf, OrderRecords
  <2>2. /\ kept.incoming = NoMsg /\ kept.jiajian_eid = e /\ kept.local_eid = order[h].local_eid
        /\ kept.local_flag = order[h].local_flag /\ kept.jiajian_flag = order[h].jiajian_flag
    BY <1>1, <1>4, <1>5 DEF OrderRecords, KeptOf
  <2>3. Follows(order[h], kept) /\ AgreedWith("new", kept, heard'[h])
    BY <1>1, <1>2, <2>2 DEF Follows, AgreedWith
  <2> QED
    BY <1>1, <1>4, <2>1, <2>2, <2>3 DEF Sound
<1>7. CASE JustWrite(h, kept, Frame(GUIDE, o.local_port, "new", "host"), waiting)
  <2>1. PICK f : f = Frame(GUIDE, o.local_port, "new", "host")
    OBVIOUS
  <2>2. f.op # ARM /\ f.op # CONFIRM
    BY <2>1 DEF Frame, GUIDE, ARM, CONFIRM
  <2>3. /\ LineStep(h, waiting) /\ Rests(h, waiting) /\ order' = [order EXCEPT ![h] = kept]
        /\ UNCHANGED <<wire, answers>>
    BY <1>7, <2>1, <2>2, Written DEF JustWrite
  <2> QED
    BY <1>1, <1>6, <2>3, SilentSoundly
<1>8. CASE o.local_eid = e /\ ConfirmBoth(h, "new", kept, waiting)
  <2>1. AgreedNow(h, "new")'
    BY <1>1, <1>2, <1>8 DEF AgreedNow, OrderRecords
  <2> QED
    BY <1>1, <1>4, <1>6, <1>8, <2>1, ConfirmsSoundly
<1>9. CASE o.local_eid # NoLabel /\ JustSay(h, o, GuideMsg(o.jiajian_port, o.local_eid), waiting)
  <2>1. PICK m : m = GuideMsg(o.jiajian_port, o.local_eid)
    OBVIOUS
  <2>2. Said(m, "new")
    BY <1>1, <1>4, <2>1, WordsSaid DEF OrderRecords, KeptOf
  <2>3. <<m>> \in Seq(Msgs) /\ <<m>> # <<>> /\ \A i \in 1..Len(<<m>>) : Said(<<m>>[i], "new")
    BY <2>2 DEF Said
  <2>4. Say(h, o, <<m>>) /\ LineStep(h, waiting) /\ Rests(h, waiting)
    BY <1>9, <2>1, Unwritten DEF JustSay
  <2> QED
    BY <1>1, <1>4, <2>3, <2>4, SaysSoundly
<1>10. o.jiajian_eid = NoLabel
  BY <1>1, <1>3 DEF OrderRecords
<1> QED
  BY <1>5, <1>7, <1>8, <1>9, <1>10 DEF FarInserted

(* A handler that only notes something, or drives lamps at both ends. *)
LEMMA NotesSoundly ==
  ASSUME Typed, NEW h \in Racks, NEW k \in Kinds, NEW c \in Conns, NEW here \in Ports, NEW far \in Racks,
         NEW there \in Ports, NEW o, KeptOf(h, o), Sound(h, k, c, here, far, there, o),
         NEW waiting, Waits(h, waiting), Note(h, o, waiting), UNCHANGED <<wiping, call, request>>
  PROVE  HostResult(h, k, c, here, far, there, waiting)
<1>1. LineStep(h, waiting) /\ Rests(h, waiting)
  BY Unwritten DEF Note
<1> QED
  BY <1>1, SilentSoundly DEF Note

(* or it tells both racks that both labels are out. *)
LEMMA OutputsSoundly ==
  ASSUME Typed, NEW h \in Racks, NEW c \in Conns, NEW here \in Ports, NEW far \in Racks,
         NEW there \in Ports, Connections(h, c, far), NEW o, KeptOf(h, o), Sound(h, "new", c, here, far, there, o),
         NEW waiting, Waits(h, waiting), OutputBoth(h, o, waiting), UNCHANGED <<wiping, call, request>>
  PROVE  HostResult(h, "new", c, here, far, there, waiting)
<1>1. PICK m : m = PortMsg(OUTPUT, "new", o.jiajian_port)
  OBVIOUS
<1>2. PICK f : f = Frame(OUTPUT, o.local_port, "new", "host")
  OBVIOUS
<1>3. Said(m, "new") /\ f.op # ARM /\ f.op # CONFIRM /\ "new" \in Kinds
  <2>1. o.jiajian_port \in Ports \cup {NoPort} /\ NoLabel \in Labels \cup {NoLabel} /\ "new" \in Kinds
    BY DEF KeptOf, OrderRecords, Kinds
  <2> QED
    BY <1>1, <1>2, <2>1, WordsSaid DEF Frame, OUTPUT, ARM, CONFIRM
<1>4. <<m>> \in Seq(Msgs) /\ <<m>> # <<>> /\ \A i \in 1..Len(<<m>>) : Said(<<m>>[i], "new")
  BY <1>3 DEF Said
<1>5. Say(h, o, <<m>>) /\ LineStep(h, waiting) /\ Rests(h, waiting)
  BY <1>1, <1>2, <1>3, Written DEF OutputBoth, SayAndWrite
<1> QED
  BY <1>3, <1>4, <1>5, SaysSoundly

(* The record stays an order's when the other rack's part is entered in it. *)
LEMMA KeptWith ==
  ASSUME NEW h, NEW o, KeptOf(h, o)
  PROVE  /\ \A stat \in {EMPTY, USED} : KeptOf(h, [o EXCEPT !.jiajian_stat = stat])
         /\ \A ok \in BOOLEAN : /\ KeptOf(h, [o EXCEPT !.jiajian_flag = Flag(ok)])
                               /\ KeptOf(h, [o EXCEPT !.local_flag = Flag(ok)])
<1>1. \A stat \in {EMPTY, USED} : KeptOf(h, [o EXCEPT !.jiajian_stat = stat])
  BY DEF KeptOf, OrderRecords
<1>2. ASSUME NEW flag \in {"good", "bad"}
      PROVE  KeptOf(h, [o EXCEPT !.jiajian_flag = flag]) /\ KeptOf(h, [o EXCEPT !.local_flag = flag])
  BY DEF KeptOf, OrderRecords
<1>3. \A ok \in BOOLEAN : Flag(ok) \in {"good", "bad"}
  BY DEF Flag
<1> QED
  BY <1>1, <1>2, <1>3

(* What an active order says of the record the host has. *)
LEMMA HostFacts ==
  ASSUME Typed, NEW h \in Racks, NEW k \in Kinds, NEW c \in Conns, NEW here \in Ports, NEW far \in Racks,
         NEW there \in Ports, Active(h, k, c, here, far, there)
  PROVE  /\ order[h] \in OrderRecords /\ Connections(h, c, far)
         /\ order[h].local_flag = "good" => Done(h, here)
         /\ order[h].jiajian_flag = "good" => Done(far, there)
         /\ AgreedWith(k, order[h], heard[h])
         /\ Early(h, c, far) => EarlyOrder(order[h])
BY DEF Typed, OrdersTyped, Active, Conclusions, Agreed, Early

(* New orders: the label was pulled back at the host, *)
LEMMA NearPulledBackSound ==
  ASSUME Typed, HeardTyped, NEW h \in Racks, NEW c \in Conns, NEW here \in Ports, NEW far \in Racks,
         NEW there \in Ports, Active(h, "new", c, here, far, there), NEW waiting, Waits(h, waiting),
         NEW e, NearPulledBack(h, order[h], waiting), Told(h, "local", PULLEDBACK, e),
         UNCHANGED <<wiping, call, request>>
  PROVE  HostResult(h, "new", c, here, far, there, waiting)
<1>1. "new" \in Kinds
  BY DEF Kinds
<1>2. /\ order[h] \in OrderRecords /\ Connections(h, c, far)
      /\ order[h].local_flag = "good" => Done(h, here)
      /\ order[h].jiajian_flag = "good" => Done(far, there)
      /\ order[h].jiajian_eid # NoLabel => heard[h].jiajian = order[h].jiajian_eid
      /\ Early(h, c, far) => EarlyOrder(order[h])
  BY <1>1, HostFacts DEF AgreedWith
<1>3. heard'[h].jiajian = heard[h].jiajian
  BY ToldEnds DEF Movements
<1>4. PICK gone : gone = [order[h] EXCEPT !.local_eid = NoLabel, !.local_stat = EMPTY]
  OBVIOUS
<1>5. KeptOf(h, gone) /\ Sound(h, "new", c, here, far, there, gone)
  <2>1. KeptOf(h, gone)
    BY <1>2, <1>4 DEF KeptOf, OrderRecords
  <2>2. /\ gone.incoming = order[h].incoming /\ gone.jiajian_eid = order[h].jiajian_eid /\ gone.local_eid = NoLabel
        /\ gone.jiajian_stat = order[h].jiajian_stat /\ gone.order_result = order[h].order_result
        /\ gone.local_flag = order[h].local_flag /\ gone.jiajian_flag = order[h].jiajian_flag
    BY <1>2, <1>4 DEF OrderRecords
  <2>3. Follows(order[h], gone) /\ AgreedWith("new", gone, heard'[h])
    BY <1>2, <1>3, <2>2 DEF Follows, AgreedWith
  <2> QED
    BY <1>2, <2>1, <2>2, <2>3 DEF Sound, EarlyOrder, KeptOf
<1>6. CASE order[h].jiajian_stat = EMPTY /\ OutputBoth(h, [gone EXCEPT !.jiajian_eid = NoLabel], waiting)
  <2>1. PICK o : o = [gone EXCEPT !.jiajian_eid = NoLabel]
    OBVIOUS
  <2>2. KeptOf(h, o)
    BY <1>5, <2>1 DEF KeptOf, OrderRecords
  <2>3. /\ o.incoming = order[h].incoming /\ o.jiajian_eid = NoLabel /\ o.local_eid = NoLabel
        /\ o.local_flag = order[h].local_flag /\ o.jiajian_flag = order[h].jiajian_flag
    BY <1>2, <1>4, <2>1 DEF OrderRecords
  <2>4. ~Early(h, c, far)
    BY <1>2, <1>6 DEF EarlyOrder
  <2>5. Sound(h, "new", c, here, far, there, o)
    BY <1>2, <2>3, <2>4 DEF Sound, Follows, AgreedWith
  <2> QED
    BY <1>2, <1>6, <2>1, <2>2, <2>5, OutputsSoundly
<1>7. CASE Note(h, gone, waiting)
  BY <1>1, <1>5, <1>7, NotesSoundly
<1> QED
  BY <1>4, <1>6, <1>7 DEF NearPulledBack

(* or at the other rack. *)
LEMMA FarPulledBackSound ==
  ASSUME Typed, HeardTyped, NEW h \in Racks, NEW c \in Conns, NEW here \in Ports, NEW far \in Racks,
         NEW there \in Ports, Active(h, "new", c, here, far, there), NEW waiting, Waits(h, waiting),
         NEW o, o = [order[h] EXCEPT !.incoming = NoMsg], order[h].incoming # NoMsg,
         NEW e, FarPulledBack(h, o, waiting), Told(h, "jiajian", PULLEDBACK, e),
         UNCHANGED <<wiping, call, request>>
  PROVE  HostResult(h, "new", c, here, far, there, waiting)
<1>1. "new" \in Kinds
  BY DEF Kinds
<1>2. /\ order[h] \in OrderRecords /\ Connections(h, c, far)
      /\ order[h].local_flag = "good" => Done(h, here)
      /\ order[h].jiajian_flag = "good" => Done(far, there)
      /\ order[h].local_eid # NoLabel => heard[h].local = order[h].local_eid
      /\ ~Early(h, c, far)
  BY <1>1, HostFacts DEF AgreedWith, EarlyOrder
<1>3. heard'[h].local = heard[h].local
  BY ToldEnds DEF Movements
<1>4. PICK gone : gone = [o EXCEPT !.jiajian_eid = NoLabel, !.jiajian_stat = EMPTY]
  OBVIOUS
<1>5. KeptOf(h, gone) /\ Sound(h, "new", c, here, far, there, gone)
  <2>1. KeptOf(h, gone)
    BY <1>2, <1>4 DEF KeptOf, OrderRecords
  <2>2. /\ gone.incoming = NoMsg /\ gone.jiajian_eid = NoLabel /\ gone.local_eid = order[h].local_eid
        /\ gone.local_flag = order[h].local_flag /\ gone.jiajian_flag = order[h].jiajian_flag
    BY <1>2, <1>4 DEF OrderRecords
  <2>3. Follows(order[h], gone) /\ AgreedWith("new", gone, heard'[h])
    BY <1>2, <1>3, <2>2 DEF Follows, AgreedWith
  <2> QED
    BY <1>2, <2>1, <2>2, <2>3 DEF Sound
<1>6. CASE OutputBoth(h, [gone EXCEPT !.local_eid = NoLabel], waiting)
  <2>1. PICK o2 : o2 = [gone EXCEPT !.local_eid = NoLabel]
    OBVIOUS
  <2>2. KeptOf(h, o2)
    BY <1>5, <2>1 DEF KeptOf, OrderRecords
  <2>3. /\ o2.incoming = NoMsg /\ o2.jiajian_eid = NoLabel /\ o2.local_eid = NoLabel
        /\ o2.local_flag = order[h].local_flag /\ o2.jiajian_flag = order[h].jiajian_flag
    BY <1>2, <1>4, <2>1 DEF OrderRecords
  <2>4. Sound(h, "new", c, here, far, there, o2)
    BY <1>2, <2>3 DEF Sound, Follows, AgreedWith
  <2> QED
    BY <1>2, <1>6, <2>1, <2>2, <2>4, OutputsSoundly
<1>7. CASE Note(h, gone, waiting)
  BY <1>1, <1>5, <1>7, NotesSoundly
<1> QED
  BY <1>4, <1>6, <1>7 DEF FarPulledBack

(* Orders that remove labels: one was pulled or put back at the host, *)
LEMMA NearPulledSound ==
  ASSUME Typed, HeardTyped, NEW h \in Racks, NEW c \in Conns, NEW here \in Ports, NEW far \in Racks,
         NEW there \in Ports, Active(h, "del", c, here, far, there), NEW waiting, Waits(h, waiting),
         NEW e, \/ NearPulled(h, order[h], waiting) /\ Told(h, "local", PULLED, e)
                \/ NearReinserted(h, order[h], waiting) /\ Told(h, "local", REINSERTED, e),
         UNCHANGED <<wiping, call, request>>
  PROVE  HostResult(h, "del", c, here, far, there, waiting)
<1>1. "del" \in Kinds
  BY DEF Kinds
<1>2. /\ order[h] \in OrderRecords /\ Connections(h, c, far)
      /\ order[h].local_flag = "good" => Done(h, here)
      /\ order[h].jiajian_flag = "good" => Done(far, there)
      /\ order[h].jiajian_stat = EMPTY => heard[h].jiajian = NoLabel
      /\ Early(h, c, far) => EarlyOrder(order[h])
  BY <1>1, HostFacts DEF AgreedWith
<1>3. ASSUME NEW stat \in {EMPTY, USED}, NEW o, o = [order[h] EXCEPT !.local_stat = stat],
             heard'[h].jiajian = heard[h].jiajian, stat = EMPTY => heard'[h].local = NoLabel
      PROVE  KeptOf(h, o) /\ Sound(h, "del", c, here, far, there, o)
  <2>1. KeptOf(h, o)
    BY <1>2, <1>3 DEF KeptOf, OrderRecords
  <2>2. /\ o.incoming = order[h].incoming /\ o.jiajian_eid = order[h].jiajian_eid /\ o.local_stat = stat
        /\ o.jiajian_stat = order[h].jiajian_stat /\ o.order_result = order[h].order_result
        /\ o.local_flag = order[h].local_flag /\ o.jiajian_flag = order[h].jiajian_flag
    BY <1>2, <1>3 DEF OrderRecords
  <2>3. Follows(order[h], o) /\ AgreedWith("del", o, heard'[h])
    BY <1>2, <1>3, <2>2 DEF Follows, AgreedWith
  <2> QED
    BY <1>2, <2>1, <2>2, <2>3 DEF Sound, EarlyOrder, KeptOf
<1>4. CASE NearPulled(h, order[h], waiting) /\ Told(h, "local", PULLED, e)
  <2>1. heard'[h].local = NoLabel /\ heard'[h].jiajian = heard[h].jiajian
    BY <1>4, ToldEnds DEF Movements, PULLED, INSERTED, REINSERTED
  <2>2. PICK gone : gone = [order[h] EXCEPT !.local_stat = EMPTY]
    OBVIOUS
  <2>3. KeptOf(h, gone) /\ Sound(h, "del", c, here, far, there, gone)
    BY <1>3, <2>1, <2>2
  <2>4. CASE order[h].jiajian_stat = EMPTY /\ ConfirmBoth(h, "del", gone, waiting)
    <3>1. AgreedNow(h, "del")' /\ ~Early(h, c, far)
      BY <1>2, <2>1, <2>4 DEF AgreedNow, EarlyOrder
    <3> QED
      BY <1>1, <1>2, <2>3, <2>4, <3>1, ConfirmsSoundly
  <2>5. CASE Note(h, gone, waiting)
    BY <1>1, <2>3, <2>5, NotesSoundly
  <2> QED
    BY <1>4, <2>2, <2>4, <2>5 DEF NearPulled
<1>5. CASE NearReinserted(h, order[h], waiting) /\ Told(h, "local", REINSERTED, e)
  <2>1. heard'[h].jiajian = heard[h].jiajian
    BY <1>5, ToldEnds DEF Movements
  <2>2. PICK o : o = [order[h] EXCEPT !.local_stat = USED]
    OBVIOUS
  <2>3. KeptOf(h, o) /\ Sound(h, "del", c, here, far, there, o)
    BY <1>3, <2>1, <2>2 DEF USED, EMPTY
  <2> QED
    BY <1>1, <1>5, <2>2, <2>3, NotesSoundly DEF NearReinserted
<1> QED
  BY <1>4, <1>5

(* or at the other rack. *)
LEMMA FarPulledSound ==
  ASSUME Typed, HeardTyped, NEW h \in Racks, NEW c \in Conns, NEW here \in Ports, NEW far \in Racks,
         NEW there \in Ports, Active(h, "del", c, here, far, there), NEW waiting, Waits(h, waiting),
         NEW o, o = [order[h] EXCEPT !.incoming = NoMsg], order[h].incoming # NoMsg,
         order[h].incoming.op # PULLEDBACK,
         NEW e, \/ FarPulled(h, o, waiting) /\ Told(h, "jiajian", PULLED, e)
                \/ FarReinserted(h, o, waiting) /\ Told(h, "jiajian", REINSERTED, e),
         UNCHANGED <<wiping, call, request>>
  PROVE  HostResult(h, "del", c, here, far, there, waiting)
<1>1. "del" \in Kinds
  BY DEF Kinds
<1>2. /\ order[h] \in OrderRecords /\ Connections(h, c, far)
      /\ order[h].local_flag = "good" => Done(h, here)
      /\ order[h].jiajian_flag = "good" => Done(far, there)
      /\ order[h].local_stat = EMPTY => heard[h].local = NoLabel
      /\ ~Early(h, c, far)
      /\ KeptOf(h, o)
  <2>1. KeptOf(h, o)
    BY <1>1, HostFacts DEF KeptOf, OrderRecords
  <2> QED
    BY <1>1, <2>1, HostFacts DEF AgreedWith, EarlyOrder
<1>3. ASSUME NEW stat \in {EMPTY, USED}, NEW o2, o2 = [o EXCEPT !.jiajian_stat = stat],
             heard'[h].local = heard[h].local, stat = EMPTY => heard'[h].jiajian = NoLabel
      PROVE  KeptOf(h, o2) /\ Sound(h, "del", c, here, far, there, o2)
  <2>1. KeptOf(h, o2)
    BY <1>2, <1>3, KeptWith
  <2>2. /\ o2.incoming = NoMsg /\ o2.jiajian_eid = order[h].jiajian_eid /\ o2.local_stat = order[h].local_stat
        /\ o2.jiajian_stat = stat
        /\ o2.local_flag = order[h].local_flag /\ o2.jiajian_flag = order[h].jiajian_flag
    BY <1>2, <1>3 DEF OrderRecords
  <2>3. Follows(order[h], o2) /\ AgreedWith("del", o2, heard'[h])
    BY <1>2, <1>3, <2>2 DEF Follows, AgreedWith
  <2> QED
    BY <1>2, <2>1, <2>2, <2>3 DEF Sound
<1>4. CASE FarPulled(h, o, waiting) /\ Told(h, "jiajian", PULLED, e)
  <2>1. heard'[h].jiajian = NoLabel /\ heard'[h].local = heard[h].local
    <3>1. PULLED \in Movements /\ NoLabel = IF PULLED = INSERTED THEN e ELSE IF PULLED = REINSERTED THEN "some label" ELSE NoLabel
      BY DEF Movements, PULLED, INSERTED, REINSERTED
    <3> QED
      BY <1>4, <3>1, ToldEnds
  <2>2. PICK gone : gone = [o EXCEPT !.jiajian_stat = EMPTY]
    OBVIOUS
  <2>3. KeptOf(h, gone) /\ Sound(h, "del", c, here, far, there, gone) /\ o.local_stat = order[h].local_stat
    BY <1>2, <1>3, <2>1, <2>2 DEF OrderRecords
  <2>4. CASE o.local_stat = EMPTY /\ ConfirmBoth(h, "del", gone, waiting)
    <3>1. AgreedNow(h, "del")'
      BY <1>2, <2>1, <2>3, <2>4 DEF AgreedNow
    <3> QED
      BY <1>1, <1>2, <2>3, <2>4, <3>1, ConfirmsSoundly
  <2>5. CASE Note(h, gone, waiting)
    BY <1>1, <2>3, <2>5, NotesSoundly
  <2> QED
    BY <1>4, <2>2, <2>4, <2>5 DEF FarPulled
<1>5. CASE FarReinserted(h, o, waiting) /\ Told(h, "jiajian", REINSERTED, e)
  <2>1. heard'[h].local = heard[h].local
    BY <1>5, ToldEnds DEF Movements
  <2>2. PICK o2 : o2 = [o EXCEPT !.jiajian_stat = USED]
    OBVIOUS
  <2>3. KeptOf(h, o2) /\ Sound(h, "del", c, here, far, there, o2)
    BY <1>3, <2>1, <2>2 DEF USED, EMPTY
  <2> QED
    BY <1>1, <1>5, <2>2, <2>3, NotesSoundly DEF FarReinserted
<1> QED
  BY <1>4, <1>5

(* A port was concluded, at the host or at the other rack. *)
LEMMA NearConcludedSound ==
  ASSUME Typed, HeardTyped, NEW h \in Racks, NEW k \in Kinds, NEW c \in Conns, NEW here \in Ports, NEW far \in Racks,
         NEW there \in Ports, Active(h, k, c, here, far, there), NEW waiting, Waits(h, waiting),
         NEW ok \in BOOLEAN, ok => Done(h, here), ~Early(h, c, far),
         NEW e, NearConcluded(h, order[h], ok, waiting), Told(h, "local", CONCLUDED, e),
         UNCHANGED <<wiping, call, request>>
  PROVE  HostResult(h, k, c, here, far, there, waiting)
<1>1. /\ order[h] \in OrderRecords
      /\ order[h].jiajian_flag = "good" => Done(far, there)
      /\ AgreedWith(k, order[h], heard[h])
  BY HostFacts
<1>2. PICK o : o = [order[h] EXCEPT !.local_flag = Flag(ok)]
  OBVIOUS
<1>3. KeptOf(h, o) /\ o.server_sockfd \in Clients \cup {Nobody}
  BY <1>1, <1>2 DEF KeptOf, OrderRecords, Flag
<1>4. /\ o.incoming = order[h].incoming /\ o.jiajian_eid = order[h].jiajian_eid /\ o.local_eid = order[h].local_eid
      /\ o.local_stat = order[h].local_stat /\ o.jiajian_stat = order[h].jiajian_stat
      /\ o.local_flag = Flag(ok) /\ o.jiajian_flag = order[h].jiajian_flag
  BY <1>1, <1>2 DEF OrderRecords
<1>5. Follows(order[h], o) /\ AgreedWith(k, o, heard[h])
  BY <1>1, <1>4 DEF Follows, AgreedWith
<1>6. (o.local_flag = "good" => Done(h, here)) /\ (o.jiajian_flag = "good" => Done(far, there))
  BY <1>1, <1>4 DEF Flag
<1>7. Conclude(h, o, waiting)
  BY <1>2 DEF NearConcluded
<1> QED
  BY <1>3, <1>5, <1>6, <1>7, EndsSoundly

(* or the other rack's has concluded. *)
LEMMA FarConcludedSound ==
  ASSUME Typed, HeardTyped, NEW h \in Racks, NEW k \in Kinds, NEW c \in Conns, NEW here \in Ports, NEW far \in Racks,
         NEW there \in Ports, Active(h, k, c, here, far, there), NEW waiting, Waits(h, waiting),
         NEW before, before = [order[h] EXCEPT !.incoming = NoMsg], order[h].incoming # NoMsg,
         order[h].incoming.op = CONCLUDED,
         NEW ok \in BOOLEAN, ok => Done(far, there),
         NEW e, FarConcluded(h, before, ok, waiting), Told(h, "jiajian", CONCLUDED, e),
         UNCHANGED <<wiping, call, request>>
  PROVE  HostResult(h, k, c, here, far, there, waiting)
<1>1. /\ order[h] \in OrderRecords
      /\ order[h].local_flag = "good" => Done(h, here)
      /\ AgreedWith(k, order[h], heard[h])
      /\ ~Early(h, c, far)
      /\ KeptOf(h, before)
  <2>1. KeptOf(h, before)
    BY HostFacts DEF KeptOf, OrderRecords
  <2> QED
    BY <2>1, HostFacts DEF EarlyOrder
<1>2. PICK o : o = [before EXCEPT !.jiajian_flag = Flag(ok)]
  OBVIOUS
<1>3. KeptOf(h, o) /\ o.server_sockfd \in Clients \cup {Nobody}
  <2>1. KeptOf(h, o)
    BY <1>1, <1>2, KeptWith
  <2> QED
    BY <2>1 DEF KeptOf, OrderRecords
<1>4. /\ o.incoming = NoMsg /\ o.jiajian_eid = order[h].jiajian_eid /\ o.local_eid = order[h].local_eid
      /\ o.local_stat = order[h].local_stat /\ o.jiajian_stat = order[h].jiajian_stat
      /\ o.jiajian_flag = Flag(ok) /\ o.local_flag = order[h].local_flag
  BY <1>1, <1>2 DEF OrderRecords
<1>5. Follows(order[h], o) /\ AgreedWith(k, o, heard[h])
  BY <1>1, <1>4 DEF Follows, AgreedWith, CONCLUDED, PULLEDBACK
<1>6. (o.local_flag = "good" => Done(h, here)) /\ (o.jiajian_flag = "good" => Done(far, there))
  BY <1>1, <1>4 DEF Flag
<1>7. Conclude(h, o, waiting)
  BY <1>2 DEF FarConcluded
<1> QED
  BY <1>1, <1>3, <1>5, <1>6, <1>7, EndsSoundly

-----------------------------------------------------------------------------
(* A message handled at the host, *)
LEMMA HostMessage ==
  ASSUME Typed, HeardTyped, NEW h \in Racks, NEW k \in Kinds, NEW c \in Conns, NEW here \in Ports, NEW far \in Racks,
         NEW there \in Ports, Active(h, k, c, here, far, there), HandleMessage(h)
  PROVE  HostResult(h, k, c, here, far, there, outbox[h])
<1>1. PICK m : m = order[h].incoming
  OBVIOUS
<1>2. PICK o : o = [order[h] EXCEPT !.incoming = NoMsg]
  OBVIOUS
<1>3. PICK waiting : waiting = outbox[h]
  OBVIOUS
<1>4. Waits(h, waiting)
  BY <1>3 DEF Waits, Typed, BoardsTypeOK
<1>5. /\ m # NoMsg /\ m.cmd = Cmd(k, "host")
      /\ m.op = INSERTED => m.label \in Labels
      /\ m.op = CONCLUDED /\ m.ok => Done(far, there)
  BY <1>1 DEF HandleMessage, Active, Words, FromFar, Conclusions
<1>6. PICK ok \in BOOLEAN : ok = m.ok
  BY <1>1, <1>5 DEF Typed, OrdersTyped, OrderRecords, Msgs
<1>7. PICK e : e = m.label
  OBVIOUS
<1>8. UNCHANGED <<wiping, call, request>>
  BY DEF HandleMessage
<1>9. m.cmd.kind = k /\ m.cmd.role = "host"
  BY <1>5 DEF Cmd
<1>10. Told(h, "jiajian", m.op, e)
  BY <1>1, <1>7, <1>9 DEF HandleMessage
<1>11. CASE k = "new"
  <2>1. MasterPart2New2(h, o, m)
    <3>1. m.cmd = [kind |-> "new", role |-> "host"]
      BY <1>5, <1>11 DEF Cmd
    <3>2. /\ m.cmd # [kind |-> "del", role |-> "host"] /\ m.cmd # [kind |-> "new", role |-> "remote"]
          /\ m.cmd # [kind |-> "del", role |-> "remote"]
      BY <3>1
    <3> QED
      BY <1>1, <1>2, <3>1, <3>2 DEF HandleMessage
  <2>2. CASE m.op = INSERTED /\ FarInserted(h, o, e, waiting)
    BY <1>1, <1>2, <1>4, <1>5, <1>7, <1>8, <1>10, <1>11, <2>2, <1>3, FarInsertedSound
  <2>3. CASE m.op = PULLEDBACK /\ FarPulledBack(h, o, waiting)
    BY <1>1, <1>2, <1>4, <1>5, <1>8, <1>10, <1>11, <2>3, <1>3, FarPulledBackSound
  <2>4. CASE m.op = CONCLUDED /\ FarConcluded(h, o, ok, waiting)
    BY <1>1, <1>2, <1>4, <1>5, <1>6, <1>8, <1>10, <2>4, <1>3, FarConcludedSound
  <2> QED
    BY <1>3, <1>6, <1>7, <2>1, <2>2, <2>3, <2>4 DEF MasterPart2New2
<1>12. CASE k = "del"
  <2>1. MasterPart2Del2(h, o, m)
    <3>1. m.cmd = [kind |-> "del", role |-> "host"]
      BY <1>5, <1>12 DEF Cmd
    <3>2. /\ m.cmd # [kind |-> "new", role |-> "host"] /\ m.cmd # [kind |-> "new", role |-> "remote"]
          /\ m.cmd # [kind |-> "del", role |-> "remote"]
      BY <3>1
    <3> QED
      BY <1>1, <1>2, <3>1, <3>2 DEF HandleMessage
  <2>2. CASE \/ m.op = PULLED /\ FarPulled(h, o, waiting)
             \/ m.op = REINSERTED /\ FarReinserted(h, o, waiting)
    <3>1. m.op # PULLEDBACK
      BY <2>2 DEF PULLED, REINSERTED, PULLEDBACK
    <3> QED
      BY <1>1, <1>2, <1>4, <1>5, <1>8, <1>10, <1>12, <2>2, <3>1, <1>3, FarPulledSound
  <2>3. CASE m.op = CONCLUDED /\ FarConcluded(h, o, ok, waiting)
    BY <1>1, <1>2, <1>4, <1>5, <1>6, <1>8, <1>10, <2>3, <1>3, FarConcludedSound
  <2> QED
    BY <1>3, <1>6, <2>1, <2>2, <2>3 DEF MasterPart2Del2
<1> QED
  BY <1>11, <1>12 DEF Kinds

(* and a report. *)
LEMMA HostReport ==
  ASSUME Typed, HeardTyped, NEW h \in Racks, NEW k \in Kinds, NEW c \in Conns, NEW here \in Ports, NEW far \in Racks,
         NEW there \in Ports, Active(h, k, c, here, far, there), Poll(h)
  PROVE  HostResult(h, k, c, here, far, there, Tail(outbox[h]))
<1>1. outbox[h] \in Seq(Reports) /\ outbox[h] # <<>>
  BY DEF Typed, BoardsTypeOK, Poll
<1>2. PICK rep : rep = Head(outbox[h])
  OBVIOUS
<1>3. PICK waiting : waiting = Tail(outbox[h])
  OBVIOUS
<1>4. /\ Len(outbox[h]) \in Nat \ {0} /\ waiting \in Seq(Reports) /\ Len(waiting) = Len(outbox[h]) - 1
      /\ rep = outbox[h][1] /\ rep \in Reports
      /\ \A i \in 1..Len(waiting) : waiting[i] = outbox[h][i + 1]
  BY <1>1, <1>2, <1>3, LenProperties, EmptySeq, HeadTailProperties
<1>5. Waits(h, waiting)
  BY <1>4 DEF Waits
<1>6. 1 \in 1..Len(outbox[h])
  BY <1>4
<1>7. /\ rep.cmd = Cmd(k, "host")
      /\ rep.what = INSERTED => rep.label \in Labels
      /\ rep.what = CONCLUDED /\ rep.ok => Done(h, here)
      /\ rep.what = CONCLUDED => ~Early(h, c, far)
  BY <1>4, <1>6 DEF Active, Lines, ReportsOf, Conclusions, Early
<1>8. PICK ok \in BOOLEAN : ok = rep.ok
  BY <1>4 DEF Reports
<1>9. PICK e : e = rep.label
  OBVIOUS
<1>10. UNCHANGED <<wiping, call, request>>
  BY DEF Poll
<1>11. rep.cmd.kind = k /\ rep.cmd.role = "host"
  BY <1>7 DEF Cmd
<1>12. Told(h, "local", rep.what, e)
  BY <1>2, <1>9, <1>11 DEF Poll
<1>13. CASE k = "new"
  <2>1. MasterPart3New2(h, order[h], rep, waiting)
    <3>1. rep.cmd = [kind |-> "new", role |-> "host"]
      BY <1>7, <1>13 DEF Cmd
    <3>2. /\ rep.cmd # [kind |-> "del", role |-> "host"] /\ rep.cmd # [kind |-> "new", role |-> "remote"]
          /\ rep.cmd # [kind |-> "del", role |-> "remote"]
      BY <3>1
    <3> QED
      BY <1>2, <1>3, <3>1, <3>2 DEF Poll
  <2>2. CASE rep.what = INSERTED /\ NearInserted(h, order[h], e, waiting)
    BY <1>3, <1>5, <1>7, <1>9, <1>10, <1>12, <1>13, <2>2, NearInsertedSound
  <2>3. CASE rep.what = PULLEDBACK /\ NearPulledBack(h, order[h], waiting)
    BY <1>3, <1>5, <1>10, <1>12, <1>13, <2>3, NearPulledBackSound
  <2>4. CASE rep.what = CONCLUDED /\ NearConcluded(h, order[h], ok, waiting)
    BY <1>3, <1>5, <1>7, <1>8, <1>10, <1>12, <2>4, NearConcludedSound
  <2> QED
    BY <1>8, <1>9, <2>1, <2>2, <2>3, <2>4 DEF MasterPart3New2
<1>14. CASE k = "del"
  <2>1. MasterPart3Del2(h, order[h], rep, waiting)
    <3>1. rep.cmd = [kind |-> "del", role |-> "host"]
      BY <1>7, <1>14 DEF Cmd
    <3>2. /\ rep.cmd # [kind |-> "new", role |-> "host"] /\ rep.cmd # [kind |-> "new", role |-> "remote"]
          /\ rep.cmd # [kind |-> "del", role |-> "remote"]
      BY <3>1
    <3> QED
      BY <1>2, <1>3, <3>1, <3>2 DEF Poll
  <2>2. CASE \/ rep.what = PULLED /\ NearPulled(h, order[h], waiting)
             \/ rep.what = REINSERTED /\ NearReinserted(h, order[h], waiting)
    BY <1>3, <1>5, <1>10, <1>12, <1>14, <2>2, NearPulledSound
  <2>3. CASE rep.what = CONCLUDED /\ NearConcluded(h, order[h], ok, waiting)
    BY <1>3, <1>5, <1>7, <1>8, <1>10, <1>12, <2>3, NearConcludedSound
  <2> QED
    BY <1>8, <2>1, <2>2, <2>3 DEF MasterPart3Del2
<1> QED
  BY <1>13, <1>14 DEF Kinds

(* Either keeps the order; boards are told to conclude when both ends agree, *)
(* and the asker that it was done when both are done.                        *)
LEMMA HostHandles ==
  ASSUME Typed, HeardTyped, NEW h \in Racks, NEW k \in Kinds, NEW c \in Conns, NEW here \in Ports, NEW far \in Racks,
         NEW there \in Ports, Active(h, k, c, here, far, there), HandleMessage(h) \/ Poll(h)
  PROVE  /\ Active(h, k, c, here, far, there)'
         /\ concluded' # concluded => AgreedNow(h, k)'
         /\ AnsweredWell(h, here, far, there)
<1>1. PICK waiting : HostResult(h, k, c, here, far, there, waiting)
  BY HostMessage, HostReport
<1>2. PICK o2 : /\ HostEffect(h, k, c, here, far, there, o2, waiting)
                /\ Rests(h, waiting) \/ AgreedNow(h, k)'
                /\ AnsweredWell(h, here, far, there)
  BY <1>1 DEF HostResult
<1>3. concluded' # concluded => AgreedNow(h, k)'
  BY <1>2 DEF Rests
<1> QED
  BY <1>2, <1>3, HostKeeps

-----------------------------------------------------------------------------
(***************************************************************************)
(* A handler of the other rack.  It says nothing and handles a message, or *)
(* passes on the oldest report of its boards as m.                         *)
(***************************************************************************)
FarDoes(far, o2, waiting) ==
  /\ order' = [order EXCEPT ![far] = o2]
  /\ \/ o2 = Cleared
     \/ /\ o2.connect_sockfd = order[far].connect_sockfd
        /\ o2.order_result = order[far].order_result
        /\ o2.incoming \in {NoMsg, order[far].incoming}
  /\ Waits(far, waiting)
  /\ LineStep(far, waiting)
  /\ UNCHANGED <<wiping, call, request, heard>>

PassesOn(h, k, c, far, there, m) ==
  /\ m \in Msgs
  /\ m.cmd = Cmd(k, "host")
  /\ m.op = INSERTED => m.label \in Labels
  /\ m.op = CONCLUDED /\ m.ok => Done(far, there)
  /\ m.op = Head(outbox[far]).what
  /\ outbox[far] # <<>>
  /\ FarSaid(h, c, far, m)

FarEffect(h, k, c, far, there, o2, waiting) ==
  /\ FarDoes(far, o2, waiting)
  /\ \/ wire' = wire /\ waiting = outbox[far]
     \/ /\ Rests(far, waiting)
        /\ waiting = Tail(outbox[far])
        /\ \E m : PassesOn(h, k, c, far, there, m)

(* The order goes on between the same racks, over the same connection, *)
LEMMA FarParties ==
  ASSUME Typed, NEW h \in Racks, NEW k \in Kinds, NEW c \in Conns, NEW here \in Ports, NEW far \in Racks,
         NEW there \in Ports, Active(h, k, c, here, far, there), NEW o2, NEW waiting,
         FarEffect(h, k, c, far, there, o2, waiting)
  PROVE  Parties(h, here, far, there)' /\ Connections(h, c, far)'
<1>1. FarDoes(far, o2, waiting) /\ Parties(h, here, far, there) /\ Connections(h, c, far)
  BY DEF FarEffect, Active
<1>2. /\ \A q \in Racks \ {far} : order'[q] = order[q]
      /\ order'[far] = o2 /\ h \in Racks \ {far}
      /\ o2.order_result \in {NoOrder, order[far].order_result}
      /\ o2.connect_sockfd \in {NoSock, order[far].connect_sockfd}
      /\ UNCHANGED <<wiping, call, request>>
  BY <1>1, ClearedTyped DEF Typed, OrdersTyped, FarDoes, Parties, Cleared
<1>3. Parties(h, here, far, there)'
  BY <1>1, <1>2 DEF Parties
<1>4. \A d \in Conns \ {c} : wire'[d] = wire[d]
  BY DEF FarEffect, PassesOn, FarSaid
<1>5. Connections(h, c, far)'
  BY <1>1, <1>2, <1>4 DEF Connections, Unaccepted
<1> QED
  BY <1>3, <1>5

(* its boards report of it alone, *)
LEMMA FarLines ==
  ASSUME Typed, NEW h \in Racks, NEW k \in Kinds, NEW c \in Conns, NEW here \in Ports, NEW far \in Racks,
         NEW there \in Ports, Active(h, k, c, here, far, there), NEW waiting,
         Waits(far, waiting), LineStep(far, waiting)
  PROVE  Lines(h, k, here, far, there)'
<1>1. Lines(h, k, here, far, there) /\ h \in Racks \ {far}
  BY DEF Active, Parties
<1>2. /\ \A q \in Racks \ {far} : outbox'[q] = outbox[q]
      /\ \A q \in Racks, p \in Ports : armed'[q][p] \in {armed[q][p], NotArmed}
  BY LineKeeps
<1>3. ASSUME NEW i \in 1..Len(outbox'[far])
      PROVE  outbox'[far][i].cmd = Cmd(k, "remote") /\ (outbox'[far][i].what = INSERTED => outbox'[far][i].label \in Labels)
  <2>1. CASE \E j \in 1..Len(outbox[far]) : outbox'[far][i] = outbox[far][j]
    BY <1>1, <2>1 DEF Lines, ReportsOf
  <2>2. ASSUME NEW p \in Ports, Concludes(far, p, waiting),
               outbox'[far][i].cmd = armed[far][p], outbox'[far][i].what = CONCLUDED
        PROVE  outbox'[far][i].cmd = Cmd(k, "remote") /\ outbox'[far][i].what # INSERTED
    BY <1>1, <2>2 DEF Concludes, Lines, INSERTED, CONCLUDED
  <2> QED
    BY <2>1, <2>2, WaitingReports
<1>4. ReportsOf(outbox[far], Cmd(k, "remote"))'
  BY <1>3 DEF ReportsOf
<1>5. ReportsOf(outbox[h], Cmd(k, "host"))' /\ \A q \in Racks \ {h, far} : outbox'[q] = <<>>
  BY <1>1, <1>2 DEF Lines, ReportsOf
<1>6. \A q \in Racks, p \in Ports :
        armed'[q][p] # NotArmed => \/ q = h /\ p = here /\ armed'[q][p] = Cmd(k, "host")
                                   \/ q = far /\ p = there /\ armed'[q][p] = Cmd(k, "remote")
  BY <1>1, <1>2 DEF Lines
<1> QED
  BY <1>4, <1>5, <1>6 DEF Lines, Cmd

(* The messages on their way to the host, when m is said. *)
LEMMA CallerMessages ==
  ASSUME Typed, NEW h \in Racks, NEW k \in Kinds, NEW c \in Conns, NEW far \in Racks, NEW there \in Ports,
         NEW o2, NEW waiting, FarEffect(h, k, c, far, there, o2, waiting), NEW i \in 1..Len(wire'[c].caller)
  PROVE  \/ \E j \in 1..Len(wire[c].caller) : wire'[c].caller[i] = wire[c].caller[j]
         \/ PassesOn(h, k, c, far, there, wire'[c].caller[i])
<1>1. CASE wire'[c].caller = wire[c].caller
  BY <1>1
<1>2. ASSUME NEW m, PassesOn(h, k, c, far, there, m), wire'[c].caller = Append(wire[c].caller, m)
      PROVE  \/ \E j \in 1..Len(wire[c].caller) : wire'[c].caller[i] = wire[c].caller[j]
             \/ wire'[c].caller[i] = m
  <2>1. wire[c].caller \in Seq(Msgs) /\ m \in Msgs
    BY <1>2 DEF Typed, WireTyped, PassesOn
  <2>2. PICK w \in Seq(Msgs) : w = wire[c].caller
    BY <2>1
  <2>3. /\ Len(w) \in Nat /\ Len(Append(w, m)) = Len(w) + 1 /\ Append(w, m)[Len(w) + 1] = m
        /\ \A j \in 1..Len(w) : Append(w, m)[j] = w[j]
    BY <2>1, <2>2, LenProperties, AppendProperties
  <2> QED
    BY <1>2, <2>2, <2>3
<1> QED
  BY <1>1, <1>2 DEF FarEffect, PassesOn, FarSaid

(* nobody says anything of another, *)
LEMMA FarWords ==
  ASSUME Typed, NEW h \in Racks, NEW k \in Kinds, NEW c \in Conns, NEW here \in Ports, NEW far \in Racks,
         NEW there \in Ports, Active(h, k, c, here, far, there), NEW o2, NEW waiting,
         FarEffect(h, k, c, far, there, o2, waiting)
  PROVE  Words(h, k, c, far, there)'
<1>1. Words(h, k, c, far, there) /\ h \in Racks \ {far}
  BY DEF Active, Parties
<1>2. /\ \A q \in Racks \ {far} : order'[q] = order[q]
      /\ order'[far] = o2
      /\ o2.incoming \in {NoMsg, order[far].incoming}
  BY <1>1 DEF FarEffect, FarDoes, Typed, OrdersTyped, Cleared
<1>3. wire'[c].callee = wire[c].callee
  BY DEF FarEffect, PassesOn, FarSaid
<1>4. \A i \in 1..Len(wire'[c].caller) : FromFar(wire'[c].caller[i], k)
  <2>1. \A m : PassesOn(h, k, c, far, there, m) => FromFar(m, k)
    BY DEF PassesOn, FromFar
  <2> QED
    BY <1>1, <2>1, CallerMessages DEF Words
<1>5. /\ order'[h].row # NoMsg => FromHost(order'[h].row, k, far, there)
      /\ \A i \in 1..Len(wire'[c].callee) : FromHost(wire'[c].callee[i], k, far, there)
      /\ order'[far].incoming # NoMsg => FromHost(order'[far].incoming, k, far, there)
      /\ \A q \in Racks \ {h, far} : order'[q].incoming = NoMsg
      /\ order'[h].incoming # NoMsg => FromFar(order'[h].incoming, k) /\ order'[h].connect_sockfd = Sock(c, "caller")
  BY <1>1, <1>2, <1>3 DEF Words
<1> QED
  BY <1>4, <1>5 DEF Words, FromHost, FromFar, Cmd, Sock

(* there is nothing to handle at first, *)
LEMMA FarEarly ==
  ASSUME Typed, NEW h \in Racks, NEW k \in Kinds, NEW c \in Conns, NEW here \in Ports, NEW far \in Racks,
         NEW there \in Ports, Active(h, k, c, here, far, there), NEW o2, NEW waiting,
         FarEffect(h, k, c, far, there, o2, waiting), Unaccepted(c)'
  PROVE  Early(h, c, far)'
<1>1. UNCHANGED call /\ Early(h, c, far) /\ h \in Racks \ {far} /\ LineStep(far, waiting)
  BY DEF FarEffect, FarDoes, Unaccepted, Active, Parties
<1>2. wire' = wire /\ waiting = <<>>
  BY <1>1 DEF FarEffect, PassesOn, Early
<1>3. Rests(far, waiting)
  BY <1>1 DEF LineStep, Concludes, Early
<1>4. outbox'[far] = <<>> /\ outbox'[h] = outbox[h] /\ \A p \in Ports : armed'[far][p] \in {armed[far][p], NotArmed}
  BY <1>1, <1>2, <1>3 DEF Rests, Typed, BoardsTypeOK
<1>5. order'[h] = order[h]
  BY <1>1 DEF FarEffect, FarDoes, Typed, OrdersTyped
<1>6. EarlyOrder(order[h])'
  BY <1>1, <1>5 DEF Early, EarlyOrder
<1> QED
  BY <1>1, <1>2, <1>4, <1>6 DEF Early

(* what is on its way still leads to what is in the port, *)
LEMMA FarStream ==
  ASSUME Typed, NEW h \in Racks, NEW k \in Kinds, NEW c \in Conns, NEW here \in Ports, NEW far \in Racks,
         NEW there \in Ports, Active(h, k, c, here, far, there), NEW o2, NEW waiting,
         FarEffect(h, k, c, far, there, o2, waiting), Listens(h, c)', k = "new"
  PROVE  Stream(h, c, far, there)'
<1>1. h \in Racks \ {far} /\ LineStep(far, waiting) /\ UNCHANGED call
  BY DEF FarEffect, FarDoes, Active, Parties
<1>2. /\ order'[far] = o2 /\ order'[h] = order[h]
      /\ o2.connect_sockfd \in {NoSock, order[far].connect_sockfd}
  BY <1>1 DEF FarEffect, FarDoes, Typed, OrdersTyped, Cleared
<1>3. armed'[far][there] \in {armed[far][there], NotArmed} /\ tag' = tag
  BY <1>1, LineKeeps DEF LineStep
<1>4. Stream(h, c, far, there) /\ Listens(h, c)
  BY <1>1, <1>2 DEF Listens, Active
<1>5. PICK a \in Places, b \in Places, x \in Places, y \in Places :
        /\ order[h].jiajian_eid # NoLabel => a = "in"
        /\ IF order[h].incoming = NoMsg THEN b = a ELSE Turn(a, order[h].incoming.op, b)
        /\ Path(Len(wire[c].caller), Ops(wire[c].caller), b, x)
        /\ order[far].connect_sockfd # NoSock =>
             /\ Path(Len(outbox[far]), Whats(outbox[far]), x, y)
             /\ armed[far][there] # NotArmed => y = IF tag[far][there] = NoLabel THEN "out" ELSE "in"
  BY <1>4 DEF Stream
<1>6. wire[c].caller \in Seq(Msgs) /\ outbox[far] \in Seq(Reports) /\ armed \in [Racks -> [Ports -> Cmds \cup {NotArmed}]]
  BY DEF Typed, WireTyped, BoardsTypeOK
<1>7. CASE order[far].connect_sockfd = NoSock
  <2>1. wire'[c].caller = wire[c].caller
    BY <1>7 DEF FarEffect, PassesOn, FarSaid
  <2>2. order'[far].connect_sockfd = NoSock
    BY <1>2, <1>7
  <2>3. Path(Len(wire'[c].caller), Ops(wire'[c].caller), b, x)
    BY <1>5, <2>1 DEF Ops
  <2> QED
    BY <1>2, <1>5, <2>2, <2>3 DEF Stream
<1>8. CASE order[far].connect_sockfd # NoSock /\ wire' = wire /\ waiting = outbox[far]
  <2>1. Path(Len(outbox'[far]), Whats(outbox'[far]), x, y)
    <3>1. CASE Rests(far, waiting)
      <4>1. outbox'[far] = outbox[far]
        BY <1>8, <3>1 DEF Rests, Typed, BoardsTypeOK
      <4> QED
        BY <1>5, <1>8, <4>1 DEF Whats
    <3>2. ASSUME NEW p \in Ports, Concludes(far, p, waiting)
          PROVE  Path(Len(outbox'[far]), Whats(outbox'[far]), x, y)
      <4>1. PICK ok \in BOOLEAN :
              outbox' = [outbox EXCEPT ![far] = Append(waiting,
                [cmd |-> armed[far][p], what |-> CONCLUDED, label |-> NoLabel, ok |-> ok])]
        BY <3>2 DEF Concludes
      <4>2. PICK rep : rep = [cmd |-> armed[far][p], what |-> CONCLUDED, label |-> NoLabel, ok |-> ok]
        OBVIOUS
      <4>3. armed[far][p] \in Cmds
        BY <1>6, <3>2 DEF Concludes
      <4>4. rep \in Reports /\ rep.what = CONCLUDED
        BY <4>2, <4>3 DEF Reports
      <4>5. outbox'[far] = Append(outbox[far], rep)
        BY <1>8, <4>1, <4>2 DEF Typed, BoardsTypeOK
      <4>6. Turn(y, rep.what, y)
        BY <4>4 DEF Turn, CONCLUDED, INSERTED, PULLEDBACK
      <4>7. PICK s \in Seq(Reports) : s = outbox[far]
        BY <1>6
      <4>8. Path(Len(Append(s, rep)), Whats(Append(s, rep)), x, y)
        BY <1>5, <1>8, <4>4, <4>6, <4>7, ReportAdded
      <4> QED
        BY <4>5, <4>7, <4>8 DEF Whats
    <3> QED
      BY <1>1, <3>1, <3>2 DEF LineStep
  <2>2. Path(Len(wire'[c].caller), Ops(wire'[c].caller), b, x)
    BY <1>5, <1>8 DEF Ops
  <2>3. armed'[far][there] # NotArmed => y = IF tag'[far][there] = NoLabel THEN "out" ELSE "in"
    BY <1>3, <1>5, <1>8
  <2> QED
    BY <1>2, <1>5, <2>1, <2>2, <2>3 DEF Stream
<1>9. ASSUME order[far].connect_sockfd # NoSock, Rests(far, waiting), waiting = Tail(outbox[far]),
             NEW m, PassesOn(h, k, c, far, there, m)
      PROVE  Stream(h, c, far, there)'
  <2>1. wire'[c].caller = Append(wire[c].caller, m) /\ m \in Msgs /\ outbox[far] # <<>> /\ m.op = Head(outbox[far]).what
    BY <1>4, <1>9 DEF PassesOn, FarSaid
  <2>2. outbox'[far] = Tail(outbox[far])
    BY <1>9 DEF Rests, Typed, BoardsTypeOK
  <2>3. PICK s \in Seq(Reports) : s = outbox[far]
    BY <1>6
  <2>4. PICK w \in Seq(Msgs) : w = wire[c].caller
    BY <1>6
  <2>5. PICK z \in Places : Turn(x, Head(s).what, z) /\ Path(Len(Tail(s)), Whats(Tail(s)), z, y)
    BY <1>5, <1>9, <2>1, <2>3, ReportTaken
  <2>6. Path(Len(Append(w, m)), Ops(Append(w, m)), b, z)
    BY <1>5, <2>1, <2>3, <2>4, <2>5, MessageAdded
  <2>7. Path(Len(wire'[c].caller), Ops(wire'[c].caller), b, z)
    BY <2>1, <2>4, <2>6 DEF Ops
  <2>8. Path(Len(outbox'[far]), Whats(outbox'[far]), z, y)
    BY <2>2, <2>3, <2>5 DEF Whats
  <2>9. armed'[far][there] # NotArmed => y = IF tag'[far][there] = NoLabel THEN "out" ELSE "in"
    BY <1>3, <1>5, <1>9
  <2> QED
    BY <1>2, <1>5, <2>5, <2>7, <2>8, <2>9 DEF Stream
<1> QED
  BY <1>7, <1>8, <1>9 DEF FarEffect

(* and a conclusion reported as good is of the order's ports. *)
LEMMA FarConclusions ==
  ASSUME Typed, NEW h \in Racks, NEW k \in Kinds, NEW c \in Conns, NEW here \in Ports, NEW far \in Racks,
         NEW there \in Ports, Active(h, k, c, here, far, there), NEW o2, NEW waiting,
         FarEffect(h, k, c, far, there, o2, waiting)
  PROVE  Conclusions(h, c, here, far, there)'
<1>1. Conclusions(h, c, here, far, there) /\ h \in Racks \ {far} /\ LineStep(far, waiting) /\ Waits(far, waiting)
  BY DEF FarEffect, FarDoes, Active, Parties
<1>2. order'[h] = order[h] /\ outbox'[h] = outbox[h]
  BY <1>1, LineKeeps DEF FarEffect, FarDoes, Typed, OrdersTyped
<1>3. (Done(h, here) => Done(h, here)') /\ (Done(far, there) => Done(far, there)')
  BY <1>1, LineKeeps
<1>4. ASSUME NEW i \in 1..Len(outbox'[far]), outbox'[far][i].what = CONCLUDED, outbox'[far][i].ok
      PROVE  Done(far, there)'
  <2>1. CASE \E j \in 1..Len(outbox[far]) : outbox'[far][i] = outbox[far][j]
    BY <1>1, <1>3, <1>4, <2>1 DEF Conclusions
  <2>2. ASSUME NEW p \in Ports, Concludes(far, p, waiting), concluded'[far][p] = "good"
        PROVE  Done(far, there)'
    <3>1. p = there
      BY <2>2 DEF Concludes, Active, Lines, Cmd, Parties
    <3>2. armed'[far][p] = NotArmed
      BY <2>2 DEF Concludes, Typed, BoardsTypeOK
    <3> QED
      BY <2>2, <3>1, <3>2 DEF Done
  <2> QED
    BY <1>1, <1>4, <2>1, <2>2, WaitingReports
<1>5. ASSUME NEW i \in 1..Len(wire'[c].caller), wire'[c].caller[i].op = CONCLUDED, wire'[c].caller[i].ok
      PROVE  Done(far, there)'
  <2>1. CASE \E j \in 1..Len(wire[c].caller) : wire'[c].caller[i] = wire[c].caller[j]
    BY <1>1, <1>3, <1>5, <2>1 DEF Conclusions
  <2>2. CASE PassesOn(h, k, c, far, there, wire'[c].caller[i])
    BY <1>3, <1>5, <2>2 DEF PassesOn
  <2> QED
    BY <2>1, <2>2, CallerMessages
<1> QED
  BY <1>1, <1>2, <1>3, <1>4, <1>5 DEF Conclusions

(* Together: a handler of the other rack keeps the order. *)
LEMMA FarKeeps ==
  ASSUME Typed, NEW h \in Racks, NEW k \in Kinds, NEW c \in Conns, NEW here \in Ports, NEW far \in Racks,
         NEW there \in Ports, Active(h, k, c, here, far, there), NEW o2, NEW waiting,
         FarEffect(h, k, c, far, there, o2, waiting)
  PROVE  Active(h, k, c, here, far, there)'
<1>1. FarDoes(far, o2, waiting) /\ Waits(far, waiting) /\ LineStep(far, waiting)
  BY DEF FarEffect, FarDoes
<1>2. Parties(h, here, far, there)' /\ Connections(h, c, far)' /\ Lines(h, k, here, far, there)'
  BY <1>1, FarParties, FarLines
<1>3. Words(h, k, c, far, there)' /\ Conclusions(h, c, here, far, there)'
  BY FarWords, FarConclusions
<1>4. (Unaccepted(c) => Early(h, c, far))' /\ (k = "new" /\ Listens(h, c) => Stream(h, c, far, there))'
  BY FarEarly, FarStream
<1>5. Agreed(h, k)'
  <2>1. order'[h] = order[h] /\ heard' = heard
    BY <1>1 DEF FarDoes, Typed, OrdersTyped, Active, Parties
  <2> QED
    BY <2>1 DEF Active, Agreed
<1> QED
  BY <1>2, <1>3, <1>4, <1>5 DEF Active

(* It does what the host says, *)
LEMMA FarMessage ==
  ASSUME Typed, NEW h \in Racks, NEW k \in Kinds, NEW c \in Conns, NEW here \in Ports, NEW far \in Racks,
         NEW there \in Ports, Active(h, k, c, here, far, there), HandleMessage(far)
  PROVE  Active(h, k, c, here, far, there)'
<1>1. PICK m : m = order[far].incoming
  OBVIOUS
<1>2. PICK o : o = [order[far] EXCEPT !.incoming = NoMsg]
  OBVIOUS
<1>3. PICK waiting : waiting = outbox[far]
  OBVIOUS
<1>4. Waits(far, waiting)
  BY <1>3 DEF Waits, Typed, BoardsTypeOK
<1>5. order[far] \in OrderRecords /\ m \in Msgs /\ m.cmd = Cmd(k, "remote")
  BY <1>1 DEF HandleMessage, Active, Words, FromHost, Typed, OrdersTyped, OrderRecords
<1>6. o.connect_sockfd = order[far].connect_sockfd /\ o.order_result = order[far].order_result /\ o.incoming = NoMsg
  BY <1>2, <1>5 DEF OrderRecords
<1>7. UNCHANGED <<wiping, call, request, heard>>
  BY <1>1, <1>5 DEF HandleMessage, Cmd
<1>8. SlavePart2New2(far, o, m) \/ SlavePart2Del2(far, o, m)
  <2>1. m.cmd # [kind |-> "new", role |-> "host"] /\ m.cmd # [kind |-> "del", role |-> "host"]
    BY <1>5 DEF Cmd
  <2>2. \/ m.cmd = [kind |-> "new", role |-> "remote"] /\ m.cmd # [kind |-> "del", role |-> "remote"]
        \/ m.cmd = [kind |-> "del", role |-> "remote"] /\ m.cmd # [kind |-> "new", role |-> "remote"]
    BY <1>5 DEF Cmd, Kinds
  <2> QED
    BY <1>1, <1>2, <2>1, <2>2 DEF HandleMessage
<1>9. ASSUME NEW op \in {GUIDE, OUTPUT, CONFIRM}, NEW kind,
             JustWrite(far, o, Frame(op, m.port, kind, "remote"), waiting)
      PROVE  FarEffect(h, k, c, far, there, o, waiting)
  <2>1. PICK f : f = Frame(op, m.port, kind, "remote")
    OBVIOUS
  <2>2. f.op # ARM
    BY <2>1 DEF Frame, GUIDE, OUTPUT, CONFIRM, ARM
  <2>3. LineStep(far, waiting) /\ order' = [order EXCEPT ![far] = o] /\ wire' = wire
    BY <1>9, <2>1, <2>2, Written DEF JustWrite
  <2> QED
    BY <1>3, <1>4, <1>6, <1>7, <2>3 DEF FarEffect, FarDoes
<1>10. CASE Withdrawn(far, m)
  <2>1. PICK f : f = Frame(CANCEL, CancelledPort(m), m.cmd.kind, "remote")
    OBVIOUS
  <2>2. f.op # ARM
    BY <2>1 DEF Frame, CANCEL, ARM
  <2>3. LineStep(far, waiting) /\ order' = [order EXCEPT ![far] = Cleared] /\ wire' = wire
    BY <1>3, <1>10, <2>1, <2>2, Written DEF Withdrawn, Clear
  <2>4. FarEffect(h, k, c, far, there, Cleared, waiting)
    BY <1>3, <1>4, <1>7, <2>3 DEF FarEffect, FarDoes
  <2> QED
    BY <2>4, FarKeeps
<1> QED
  BY <1>3, <1>8, <1>9, <1>10, FarKeeps DEF SlavePart2New2, SlavePart2Del2

(* and passes on what its boards report. *)
LEMMA FarReport ==
  ASSUME Typed, NEW h \in Racks, NEW k \in Kinds, NEW c \in Conns, NEW here \in Ports, NEW far \in Racks,
         NEW there \in Ports, Active(h, k, c, here, far, there), Poll(far)
  PROVE  Active(h, k, c, here, far, there)'
<1>1. outbox[far] \in Seq(Reports) /\ outbox[far] # <<>> /\ order[far] \in OrderRecords
  BY DEF Typed, OrdersTyped, BoardsTypeOK, Poll
<1>2. PICK rep : rep = Head(outbox[far])
  OBVIOUS
<1>3. PICK waiting : waiting = Tail(outbox[far])
  OBVIOUS
<1>4. /\ Len(outbox[far]) \in Nat \ {0} /\ waiting \in Seq(Reports) /\ Len(waiting) = Len(outbox[far]) - 1
      /\ rep = outbox[far][1] /\ rep \in Reports
      /\ \A i \in 1..Len(waiting) : waiting[i] = outbox[far][i + 1]
  BY <1>1, <1>2, <1>3, LenProperties, EmptySeq, HeadTailProperties
<1>5. Waits(far, waiting)
  BY <1>4 DEF Waits
<1>6. 1 \in 1..Len(outbox[far])
  BY <1>4
<1>7. /\ rep.cmd = Cmd(k, "remote")
      /\ rep.what = INSERTED => rep.label \in Labels
      /\ rep.what = CONCLUDED /\ rep.ok => Done(far, there)
  BY <1>4, <1>6 DEF Active, Lines, ReportsOf, Conclusions
<1>8. rep.label \in Labels \cup {NoLabel} /\ rep.ok \in BOOLEAN
  BY <1>4 DEF Reports
<1>9. UNCHANGED <<wiping, call, request, heard>>
  BY <1>2, <1>7 DEF Poll, Cmd
<1>10. \/ k = "new" /\ SlavePart3New2(far, order[far], rep, waiting)
       \/ k = "del" /\ SlavePart3Del2(far, order[far], rep, waiting)
  <2>1. rep.cmd # [kind |-> "new", role |-> "host"] /\ rep.cmd # [kind |-> "del", role |-> "host"]
    BY <1>7 DEF Cmd
  <2>2. \/ k = "new" /\ rep.cmd = [kind |-> "new", role |-> "remote"] /\ rep.cmd # [kind |-> "del", role |-> "remote"]
        \/ k = "del" /\ rep.cmd = [kind |-> "del", role |-> "remote"] /\ rep.cmd # [kind |-> "new", role |-> "remote"]
    BY <1>7 DEF Cmd, Kinds
  <2> QED
    BY <1>2, <1>3, <2>1, <2>2 DEF Poll
<1>11. ASSUME NEW m \in Msgs, m.cmd = Cmd(k, "host"), m.op = rep.what,
              m.op = INSERTED => m.label \in Labels, m.op = CONCLUDED /\ m.ok => Done(far, there),
              wire' = Carried(order[far].connect_sockfd, <<m>>),
              NEW o2, \/ o2 = Cleared
                      \/ /\ o2.connect_sockfd = order[far].connect_sockfd
                         /\ o2.order_result = order[far].order_result
                         /\ o2.incoming = order[far].incoming,
              order' = [order EXCEPT ![far] = o2], Silent(far, waiting)
       PROVE  Active(h, k, c, here, far, there)'
  <2>1. FarSaid(h, c, far, m)
    BY <1>11, FarWire DEF Active
  <2>2. PassesOn(h, k, c, far, there, m)
    BY <1>1, <1>2, <1>11, <2>1 DEF PassesOn
  <2>3. LineStep(far, waiting) /\ Rests(far, waiting)
    BY <1>11, Unwritten
  <2>4. FarEffect(h, k, c, far, there, o2, waiting)
    BY <1>3, <1>5, <1>9, <1>11, <2>2, <2>3 DEF FarEffect, FarDoes
  <2> QED
    BY <2>4, FarKeeps
<1>12. ASSUME NEW e \in Labels \cup {NoLabel}, rep.what \in Movements, rep.what = INSERTED => e \in Labels,
              PassOn(far, order[far], MoveMsg(rep.what, k, e), waiting)
       PROVE  Active(h, k, c, here, far, there)'
  <2>1. PICK m : m = MoveMsg(rep.what, k, e)
    OBVIOUS
  <2>2. m \in Msgs /\ m.cmd = Cmd(k, "host") /\ m.op = rep.what /\ m.label = e
    <3>1. m \in Msgs
      BY <1>12, <2>1, MsgsTyped
    <3> QED
      BY <2>1, <3>1 DEF MoveMsg, Msg, Cmd
  <2>3. m.op # CONCLUDED
    BY <1>12, <2>2 DEF Movements, INSERTED, PULLED, REINSERTED, PULLEDBACK, CONCLUDED
  <2>4. PICK o2 : o2 = [order[far] EXCEPT !.row = m]
    OBVIOUS
  <2>5. /\ o2.connect_sockfd = order[far].connect_sockfd /\ o2.order_result = order[far].order_result
        /\ o2.incoming = order[far].incoming
    BY <1>1, <2>4 DEF OrderRecords
  <2>6. <<m>>[Len(<<m>>)] = m
    OBVIOUS
  <2>7. /\ order' = [order EXCEPT ![far] = o2] /\ Silent(far, waiting)
        /\ wire' = Carried(order[far].connect_sockfd, <<m>>)
    BY <1>12, <2>1, <2>4, <2>6 DEF PassOn, JustSay, Say
  <2> QED
    BY <1>11, <1>12, <2>2, <2>3, <2>5, <2>7
<1>13. CASE rep.what = CONCLUDED /\ PassOnResult(far, order[far], k, rep.ok, waiting)
  <2>1. PICK ok \in BOOLEAN : ok = rep.ok
    BY <1>8
  <2>2. PICK m : m = ResultMsg(k, ok)
    OBVIOUS
  <2>3. m \in Msgs /\ m.cmd = Cmd(k, "host") /\ m.op = CONCLUDED /\ m.ok = ok
    <3>1. m \in Msgs
      <4>1. NoPort \in Ports \cup {NoPort} /\ NoLabel \in Labels \cup {NoLabel}
        OBVIOUS
      <4> QED
        BY <2>2, <4>1, MsgsTyped
    <3> QED
      BY <2>2, <3>1 DEF ResultMsg, Msg, Cmd
  <2>4. /\ order' = [order EXCEPT ![far] = Cleared] /\ Silent(far, waiting)
        /\ wire' = Carried(order[far].connect_sockfd, <<m>>)
    BY <1>13, <2>1, <2>2 DEF PassOnResult, Clear
  <2>5. m.op # INSERTED
    BY <2>3 DEF INSERTED, CONCLUDED
  <2> QED
    BY <1>7, <1>11, <1>13, <2>1, <2>3, <2>4, <2>5
<1>14. CASE k = "new" /\ SlavePart3New2(far, order[far], rep, waiting)
  <2>1. CASE rep.what \in {INSERTED, PULLEDBACK} /\ PassOn(far, order[far], MoveMsg(rep.what, k, rep.label), waiting)
    BY <1>7, <1>8, <1>12, <2>1 DEF Movements
  <2> QED
    BY <1>13, <1>14, <2>1 DEF SlavePart3New2
<1>15. CASE k = "del" /\ SlavePart3Del2(far, order[far], rep, waiting)
  <2>1. CASE rep.what \in {PULLED, REINSERTED} /\ PassOn(far, order[far], MoveMsg(rep.what, k, NoLabel), waiting)
    <3>1. rep.what # INSERTED /\ rep.what \in Movements /\ NoLabel \in Labels \cup {NoLabel}
      BY <2>1 DEF Movements, INSERTED, PULLED, REINSERTED
    <3> QED
      BY <1>12, <2>1, <3>1
  <2> QED
    BY <1>13, <1>15, <2>1 DEF SlavePart3Del2
<1> QED
  BY <1>10, <1>14, <1>15

-----------------------------------------------------------------------------
(* Whatever a handler of a rack does, its own line takes the step of one.   *)
Frugal(r) == \E waiting : LineStep(r, waiting)

(* A frame that does not arm, *)
LEMMA SayFrugal ==
  ASSUME Typed, NEW r \in Racks, NEW o, NEW ms, NEW op, op # ARM, NEW p, NEW k, NEW role, NEW waiting,
         SayAndWrite(r, o, ms, Frame(op, p, k, role), waiting) \/ JustWrite(r, o, Frame(op, p, k, role), waiting)
  PROVE  Frugal(r)
<1>1. PICK f : f = Frame(op, p, k, role)
  OBVIOUS
<1>2. f.op # ARM
  BY <1>1 DEF Frame
<1>3. Write(r, f, waiting)
  BY <1>1 DEF SayAndWrite, JustWrite
<1> QED
  BY <1>2, <1>3, Written DEF Frugal

(* no frame, *)
LEMMA SilentFrugal ==
  ASSUME Typed, NEW r \in Racks, NEW waiting, Silent(r, waiting)
  PROVE  Frugal(r)
BY Unwritten DEF Frugal

(* the frames to both ends, *)
LEMMA BothFrugal ==
  ASSUME Typed, NEW r \in Racks, NEW o, NEW k, NEW waiting, ConfirmBoth(r, k, o, waiting) \/ OutputBoth(r, o, waiting)
  PROVE  Frugal(r)
<1>1. CONFIRM # ARM /\ OUTPUT # ARM
  BY DEF CONFIRM, OUTPUT, ARM
<1>2. CASE ConfirmBoth(r, k, o, waiting)
  BY <1>1, <1>2, SayFrugal DEF ConfirmBoth
<1>3. CASE OutputBoth(r, o, waiting)
  BY <1>1, <1>3, SayFrugal DEF OutputBoth
<1> QED
  BY <1>2, <1>3

(* the host's handlers of new orders, *)
LEMMA NewFrugal ==
  ASSUME Typed, NEW r \in Racks, NEW o, NEW e, NEW waiting,
         \/ FarInserted(r, o, e, waiting) \/ NearInserted(r, o, e, waiting)
         \/ FarPulledBack(r, o, waiting) \/ NearPulledBack(r, o, waiting)
  PROVE  Frugal(r)
<1>1. GUIDE # ARM /\ CONFIRM # ARM
  BY DEF GUIDE, CONFIRM, ARM
<1>2. CASE FarInserted(r, o, e, waiting)
  <2>1. PICK kept : kept = [o EXCEPT !.jiajian_eid = e, !.jiajian_stat = USED]
    OBVIOUS
  <2>2. CASE JustWrite(r, kept, Frame(GUIDE, o.local_port, "new", "host"), waiting)
    BY <1>1, <2>2, SayFrugal
  <2>3. CASE ConfirmBoth(r, "new", kept, waiting)
    BY <2>3, BothFrugal
  <2>4. ASSUME NEW ms, SayAndWrite(r, o, ms, Frame(CONFIRM, o.local_port, "new", "host"), waiting)
        PROVE  Frugal(r)
    BY <1>1, <2>4, SayFrugal
  <2>5. ASSUME NEW m, JustSay(r, o, m, waiting) PROVE Frugal(r)
    BY <2>5, SilentFrugal DEF JustSay
  <2> QED
    BY <1>2, <2>1, <2>2, <2>3, <2>4, <2>5 DEF FarInserted
<1>3. CASE NearInserted(r, o, e, waiting)
  <2>1. PICK kept : kept = [o EXCEPT !.local_eid = e, !.local_stat = USED]
    OBVIOUS
  <2>2. ASSUME NEW o2, JustWrite(r, o2, Frame(GUIDE, o.local_port, "new", "host"), waiting) PROVE Frugal(r)
    BY <1>1, <2>2, SayFrugal
  <2>3. CASE ConfirmBoth(r, "new", kept, waiting)
    BY <2>3, BothFrugal
  <2>4. ASSUME NEW m, JustSay(r, kept, m, waiting) PROVE Frugal(r)
    BY <2>4, SilentFrugal DEF JustSay
  <2> QED
    BY <1>3, <2>1, <2>2, <2>3, <2>4 DEF NearInserted
<1>4. CASE FarPulledBack(r, o, waiting) \/ NearPulledBack(r, o, waiting)
  <2>1. ASSUME NEW o2, OutputBoth(r, o2, waiting) \/ Note(r, o2, waiting) PROVE Frugal(r)
    BY <2>1, BothFrugal, SilentFrugal DEF Note
  <2>2. \E o2 : OutputBoth(r, o2, waiting) \/ Note(r, o2, waiting)
    BY <1>4 DEF FarPulledBack, NearPulledBack
  <2> QED
    BY <2>1, <2>2
<1> QED
  BY <1>2, <1>3, <1>4

(* of removals, *)
LEMMA DelFrugal ==
  ASSUME Typed, NEW r \in Racks, NEW o, NEW ok, NEW waiting,
         \/ FarPulled(r, o, waiting) \/ NearPulled(r, o, waiting)
         \/ FarReinserted(r, o, waiting) \/ NearReinserted(r, o, waiting)
         \/ FarConcluded(r, o, ok, waiting) \/ NearConcluded(r, o, ok, waiting)
  PROVE  Frugal(r)
<1>1. ASSUME NEW o2, ConfirmBoth(r, "del", o2, waiting) \/ Note(r, o2, waiting) \/ Conclude(r, o2, waiting)
      PROVE  Frugal(r)
  BY <1>1, BothFrugal, SilentFrugal DEF Note, Conclude
<1>2. \E o2 : ConfirmBoth(r, "del", o2, waiting) \/ Note(r, o2, waiting) \/ Conclude(r, o2, waiting)
  BY DEF FarPulled, NearPulled, FarReinserted, NearReinserted, FarConcluded, NearConcluded
<1> QED
  BY <1>1, <1>2

(* and those of the other rack. *)
LEMMA FarFrugal ==
  ASSUME Typed, NEW r \in Racks, NEW o, NEW m, NEW rep, NEW waiting,
         \/ SlavePart2New2(r, o, m) \/ SlavePart2Del2(r, o, m)
         \/ SlavePart3New2(r, o, rep, waiting) \/ SlavePart3Del2(r, o, rep, waiting)
  PROVE  Frugal(r)
<1>1. GUIDE # ARM /\ CONFIRM # ARM /\ OUTPUT # ARM /\ CANCEL # ARM
  BY DEF GUIDE, CONFIRM, OUTPUT, CANCEL, ARM
<1>2. CASE SlavePart2New2(r, o, m) \/ SlavePart2Del2(r, o, m)
  <2>1. ASSUME NEW op \in {GUIDE, OUTPUT, CONFIRM}, NEW k,
               JustWrite(r, o, Frame(op, m.port, k, "remote"), outbox[r])
        PROVE  Frugal(r)
    <3>1. op # ARM
      BY <1>1
    <3> QED
      BY <2>1, <3>1, SayFrugal
  <2>2. CASE Withdrawn(r, m)
    <3>1. PICK f : f = Frame(CANCEL, CancelledPort(m), m.cmd.kind, "remote")
      OBVIOUS
    <3>2. f.op # ARM /\ Write(r, f, outbox[r])
      BY <1>1, <2>2, <3>1 DEF Frame, Withdrawn
    <3> QED
      BY <3>2, Written DEF Frugal
  <2> QED
    BY <1>2, <2>1, <2>2 DEF SlavePart2New2, SlavePart2Del2
<1>3. CASE SlavePart3New2(r, o, rep, waiting) \/ SlavePart3Del2(r, o, rep, waiting)
  BY <1>3, SilentFrugal DEF SlavePart3New2, SlavePart3Del2, PassOn, PassOnResult, JustSay
<1> QED
  BY <1>2, <1>3

(* So does every handler. *)
LEMMA Frugality ==
  ASSUME Typed, NEW r \in Racks, HandleMessage(r) \/ Poll(r)
  PROVE  Frugal(r)
<1>1. CASE HandleMessage(r)
  <2>1. PICK m : m = order[r].incoming
    OBVIOUS
  <2>2. PICK o : o = [order[r] EXCEPT !.incoming = NoMsg]
    OBVIOUS
  <2>3. m.cmd \in Cmds
    BY <1>1, <2>1 DEF HandleMessage, Typed, OrdersTyped, OrderRecords, Msgs
  <2>4. \/ MasterPart2New2(r, o, m) \/ MasterPart2Del2(r, o, m)
        \/ SlavePart2New2(r, o, m) \/ SlavePart2Del2(r, o, m)
    BY <1>1, <2>1, <2>2, <2>3 DEF HandleMessage, Cmds, Kinds, Roles
  <2>5. CASE MasterPart2New2(r, o, m)
    BY <2>5, NewFrugal, DelFrugal DEF MasterPart2New2
  <2>6. CASE MasterPart2Del2(r, o, m)
    BY <2>6, DelFrugal DEF MasterPart2Del2
  <2> QED
    BY <2>4, <2>5, <2>6, FarFrugal
<1>2. CASE Poll(r)
  <2>1. PICK rep : rep = Head(outbox[r])
    OBVIOUS
  <2>2. PICK waiting : waiting = Tail(outbox[r])
    OBVIOUS
  <2>3. rep.cmd \in Cmds
    <3>1. outbox[r] \in Seq(Reports) /\ outbox[r] # <<>>
      BY <1>2 DEF Typed, BoardsTypeOK, Poll
    <3>2. rep \in Reports
      BY <2>1, <3>1, HeadTailProperties
    <3> QED
      BY <3>2 DEF Reports
  <2>4. PICK o : o = order[r]
    OBVIOUS
  <2>5. \/ MasterPart3New2(r, o, rep, waiting) \/ MasterPart3Del2(r, o, rep, waiting)
        \/ SlavePart3New2(r, o, rep, waiting) \/ SlavePart3Del2(r, o, rep, waiting)
    BY <1>2, <2>1, <2>2, <2>3, <2>4 DEF Poll, Cmds, Kinds, Roles
  <2>6. CASE MasterPart3New2(r, o, rep, waiting)
    BY <2>6, NewFrugal, DelFrugal DEF MasterPart3New2
  <2>7. CASE MasterPart3Del2(r, o, rep, waiting)
    BY <2>7, DelFrugal DEF MasterPart3Del2
  <2> QED
    BY <2>5, <2>6, <2>7, FarFrugal
<1> QED
  BY <1>1, <1>2

-----------------------------------------------------------------------------
(* The connection.  There is one, and while the host's first message is not *)
(* read, it names the other rack.                                           *)
(***************************************************************************)
(* The connect thread reads the row of the order; what else the order has  *)
(* stays, and so does what boards and the other rack said.                 *)
(***************************************************************************)
Connecting(h, k, c, far, there) ==
  /\ order' \in {order, [order EXCEPT ![h].connect_sockfd = Sock(c, "caller")]}
  /\ \A d \in Conns \ {c} : wire'[d] = wire[d] /\ call'[d] = call[d]
  /\ wire'[c].caller = wire[c].caller
  /\ \A i \in 1..Len(wire'[c].callee) : FromHost(wire'[c].callee[i], k, far, there)
  /\ UNCHANGED <<wiping, request, heard, boardVars>>

(* They keep the order going. *)
LEMMA ConnectingKeeps ==
  ASSUME Typed, NEW h \in Racks, NEW k \in Kinds, NEW c \in Conns, NEW here \in Ports, NEW far \in Racks,
         NEW there \in Ports, Active(h, k, c, here, far, there), Connecting(h, k, c, far, there),
         Connections(h, c, far)', Unaccepted(c)' => Unaccepted(c),
         Listens(h, c)' => Listens(h, c) \/ (Unaccepted(c) /\ order'[far].connect_sockfd = NoSock)
  PROVE  Active(h, k, c, here, far, there)'
<1>1. far \in Racks \ {h} /\ order[h] \in OrderRecords
  BY DEF Active, Parties, Typed, OrdersTyped
<1>2. PICK o : o = order'[h]
  OBVIOUS
<1>3. /\ o.order_result = order[h].order_result /\ o.row = order[h].row /\ o.incoming = order[h].incoming
      /\ o.local_eid = order[h].local_eid /\ o.jiajian_eid = order[h].jiajian_eid
      /\ o.local_stat = order[h].local_stat /\ o.jiajian_stat = order[h].jiajian_stat
      /\ o.local_flag = order[h].local_flag /\ o.jiajian_flag = order[h].jiajian_flag
      /\ o.connect_sockfd \in {order[h].connect_sockfd, Sock(c, "caller")}
      /\ \A q \in Racks \ {h} : order'[q] = order[q]
  BY <1>1, <1>2 DEF Connecting, Typed, OrdersTyped, OrderRecords
<1>4. UNCHANGED <<wiping, request, heard, armed, tag, outbox, concluded>> /\ wire'[c].caller = wire[c].caller
  BY DEF Connecting, boardVars
<1>5. Parties(h, here, far, there)'
  BY <1>2, <1>3, <1>4 DEF Active, Parties
<1>6. Lines(h, k, here, far, there)'
  BY <1>4 DEF Active, Lines, ReportsOf
<1>7. Words(h, k, c, far, there)'
  <2>1. Words(h, k, c, far, there)
    BY DEF Active
  <2>2. \A i \in 1..Len(wire'[c].callee) : FromHost(wire'[c].callee[i], k, far, there)
    BY DEF Connecting
  <2>3. \A i \in 1..Len(wire'[c].caller) : FromFar(wire'[c].caller[i], k)
    BY <1>4, <2>1 DEF Words
  <2>4. /\ o.row # NoMsg => FromHost(o.row, k, far, there)
        /\ order'[far].incoming # NoMsg => FromHost(order'[far].incoming, k, far, there)
        /\ o.incoming # NoMsg => FromFar(o.incoming, k) /\ o.connect_sockfd = Sock(c, "caller")
        /\ \A q \in Racks \ {h, far} : order'[q].incoming = NoMsg
    BY <1>1, <1>3, <2>1 DEF Words
  <2> QED
    BY <1>2, <2>2, <2>3, <2>4 DEF Words, FromHost, FromFar, Cmd, Sock
<1>8. (Unaccepted(c) => Early(h, c, far))'
  <2>1. ASSUME Unaccepted(c)' PROVE Early(h, c, far)'
    <3>1. Early(h, c, far)
      BY <2>1 DEF Active
    <3>2. EarlyOrder(order[h])'
      BY <1>2, <1>3, <3>1 DEF Early, EarlyOrder
    <3> QED
      BY <1>4, <3>1, <3>2 DEF Early
  <2> QED
    BY <2>1
<1>9. Agreed(h, k)'
  BY <1>2, <1>3, <1>4 DEF Active, Agreed, AgreedWith
<1>10. Conclusions(h, c, here, far, there)'
  BY <1>2, <1>3, <1>4 DEF Active, Conclusions, Done
<1>11. ASSUME k = "new", Listens(h, c) PROVE Stream(h, c, far, there)'
  <2>1. PICK a \in Places, b \in Places, x \in Places, y \in Places :
        /\ order[h].jiajian_eid # NoLabel => a = "in"
        /\ IF order[h].incoming = NoMsg THEN b = a ELSE Turn(a, order[h].incoming.op, b)
        /\ Path(Len(wire[c].caller), Ops(wire[c].caller), b, x)
        /\ order[far].connect_sockfd # NoSock =>
             /\ Path(Len(outbox[far]), Whats(outbox[far]), x, y)
             /\ armed[far][there] # NotArmed => y = IF tag[far][there] = NoLabel THEN "out" ELSE "in"
    BY <1>11 DEF Active, Stream
  <2>2. Path(Len(wire'[c].caller), Ops(wire'[c].caller), b, x)
    BY <1>4, <2>1 DEF Ops
  <2>3. order'[far].connect_sockfd # NoSock =>
             /\ Path(Len(outbox'[far]), Whats(outbox'[far]), x, y)
             /\ armed'[far][there] # NotArmed => y = IF tag'[far][there] = NoLabel THEN "out" ELSE "in"
    BY <1>1, <1>3, <1>4, <2>1 DEF Whats
  <2>4. /\ order'[h].jiajian_eid # NoLabel => a = "in"
        /\ IF order'[h].incoming = NoMsg THEN b = a ELSE Turn(a, order'[h].incoming.op, b)
    BY <1>2, <1>3, <2>1
  <2> QED
    BY <2>2, <2>3, <2>4 DEF Stream
<1>12. ASSUME Unaccepted(c), order'[far].connect_sockfd = NoSock PROVE Stream(h, c, far, there)'
  <2>1. wire'[c].caller = <<>> /\ order'[h].jiajian_eid = NoLabel /\ order'[h].incoming = NoMsg
    BY <1>2, <1>3, <1>4, <1>12 DEF Active, Early, EarlyOrder
  <2>2. "in" \in Places
    BY DEF Places
  <2>3. Len(wire'[c].caller) = 0
    BY <2>1
  <2>4. Path(Len(wire'[c].caller), Ops(wire'[c].caller), "in", "in")
    BY <2>2, <2>3, PathEmpty
  <2> QED
    BY <1>12, <2>1, <2>2, <2>4 DEF Stream
<1> QED
  BY <1>5, <1>6, <1>7, <1>8, <1>9, <1>10, <1>11, <1>12 DEF Active

(* That is so of each step of the connect thread. *)
LEMMA ConnectKeeps ==
  ASSUME Typed, NEW h \in Racks, NEW k \in Kinds, NEW c \in Conns, NEW here \in Ports, NEW far \in Racks,
         NEW there \in Ports, Active(h, k, c, here, far, there), NEW d \in Conns, ConnectStep(d)
  PROVE  Active(h, k, c, here, far, there)'
<1>1. /\ Connections(h, c, far) /\ Words(h, k, c, far, there) /\ far \in Racks \ {h}
      /\ call \in [Conns -> Calls] /\ order \in [Racks -> OrderRecords] /\ call[c] \in Calls
      /\ wire \in [Conns -> [caller : Seq(Msgs), callee : Seq(Msgs)]]
  BY DEF Active, Parties, Typed, CallsTyped, OrdersTyped, WireTyped
<1>2. UNCHANGED <<wiping, request, heard, boardVars>>
  BY DEF ConnectStep
<1>3. d = c
  BY <1>1 DEF ConnectStep, Connected, ConnectFailed, FirstSent, Kept, Connections
<1>4. call[c].at # "free" /\ call[c].from = h /\ call[c].up
  BY <1>1, <1>3 DEF ConnectStep, Connected, ConnectFailed, FirstSent, Kept, Connections
<1>5. \A i \in 1..Len(wire[c].callee) : FromHost(wire[c].callee[i], k, far, there)
  BY <1>1 DEF Words
<1>6. CASE Connected(c)
  <2>1. call[c].at = "starting" /\ Unaccepted(c) /\ Early(h, c, far)
    BY <1>6 DEF Connected, Unaccepted, Active
  <2>2. order[h].row # NoMsg /\ FromHost(order[h].row, k, far, there)
    BY <1>1, <2>1 DEF Early, EarlyOrder, Words
  <2>3. Dialled(h) = far
    BY <1>4, <1>6, <2>2 DEF Connected, Dialled, FromHost
  <2>4. call' = [call EXCEPT ![c].at = "connected", ![c].to = far, ![c].fresh = TRUE] /\ UNCHANGED <<order, wire>>
    BY <1>4, <1>6, <2>3 DEF Connected
  <2>5. call'[c].at = "connected" /\ call'[c].to = far /\ call'[c].fresh /\ call'[c].from = h /\ call'[c].up
    BY <1>1, <1>4, <2>4 DEF Calls
  <2>6. \A e \in Conns \ {c} : call'[e] = call[e] /\ wire'[e] = wire[e]
    BY <1>1, <2>4
  <2>7. order[h].connect_sockfd = NoSock /\ order[far].connect_sockfd = NoSock
    BY <1>1, <2>1 DEF Connections
  <2>8. Connections(h, c, far)'
    BY <1>1, <2>4, <2>5, <2>6, <2>7 DEF Connections
  <2>9. Connecting(h, k, c, far, there)
    BY <1>2, <1>5, <2>4, <2>6 DEF Connecting
  <2> QED
    BY <2>1, <2>4, <2>7, <2>8, <2>9, ConnectingKeeps
<1>7. CASE ConnectFailed(c)
  <2>1. call[c].at = "starting" /\ Unaccepted(c)
    BY <1>7 DEF ConnectFailed, Unaccepted
  <2>2. call' = [call EXCEPT ![c] = NoCall] /\ UNCHANGED <<order, wire>>
    BY <1>7 DEF ConnectFailed
  <2>3. call'[c].at = "free" /\ ~call'[c].fresh
    BY <1>1, <2>2 DEF NoCall
  <2>4. \A e \in Conns \ {c} : call'[e] = call[e] /\ wire'[e] = wire[e]
    BY <1>1, <2>2
  <2>5. order[h].connect_sockfd = NoSock /\ order[far].connect_sockfd = NoSock
    BY <1>1, <2>1 DEF Connections
  <2>6. Connections(h, c, far)'
    BY <1>1, <2>2, <2>3, <2>4, <2>5 DEF Connections
  <2>7. Connecting(h, k, c, far, there) /\ ~Listens(h, c)'
    BY <1>2, <1>5, <2>2, <2>3, <2>4, <2>5 DEF Connecting, Listens
  <2> QED
    BY <2>1, <2>6, <2>7, ConnectingKeeps
<1>8. CASE FirstSent(c)
  <2>1. PICK row : row = order[h].row
    OBVIOUS
  <2>2. /\ call[c].at = "connected" /\ call' = [call EXCEPT ![c].at = "sent"] /\ UNCHANGED order
        /\ wire' = IF row = NoMsg \/ ~call[c].up THEN wire ELSE [wire EXCEPT ![c].callee = Append(wire[c].callee, row)]
    BY <1>4, <1>8, <2>1 DEF FirstSent
  <2>3. call'[c].at = "sent" /\ call'[c].to = call[c].to /\ call'[c].fresh = call[c].fresh /\ call'[c].from = h /\ call'[c].up
    BY <1>1, <1>4, <2>2 DEF Calls
  <2>4. \A e \in Conns \ {c} : call'[e] = call[e] /\ wire'[e] = wire[e]
    BY <1>1, <2>2
  <2>5. order[h].connect_sockfd = NoSock
    BY <1>1, <2>2 DEF Connections
  <2>6. Connections(h, c, far)'
    BY <1>1, <2>2, <2>3, <2>4, <2>5 DEF Connections, Unaccepted
  <2>7. wire'[c].caller = wire[c].caller
    BY <1>1, <2>2
  <2>8. \A i \in 1..Len(wire'[c].callee) : FromHost(wire'[c].callee[i], k, far, there)
    <3>1. CASE wire' = wire
      BY <1>5, <3>1
    <3>2. CASE row # NoMsg /\ wire' = [wire EXCEPT ![c].callee = Append(wire[c].callee, row)]
      <4>1. row \in Msgs /\ FromHost(row, k, far, there)
        BY <1>1, <2>1, <3>2 DEF OrderRecords, Words
      <4>2. PICK w \in Seq(Msgs) : w = wire[c].callee
        BY <1>1
      <4>3. /\ Len(w) \in Nat /\ Len(Append(w, row)) = Len(w) + 1 /\ Append(w, row)[Len(w) + 1] = row
            /\ \A i \in 1..Len(w) : Append(w, row)[i] = w[i]
        BY <4>1, <4>2, LenProperties, AppendProperties
      <4>4. wire'[c].callee = Append(w, row)
        BY <1>1, <3>2, <4>2
      <4> QED
        BY <1>5, <4>1, <4>2, <4>3, <4>4
    <3> QED
      BY <2>2, <3>1, <3>2
  <2>9. Connecting(h, k, c, far, there)
    BY <1>2, <2>2, <2>4, <2>7, <2>8 DEF Connecting
  <2> QED
    BY <2>2, <2>3, <2>6, <2>9, ConnectingKeeps DEF Unaccepted, Listens
<1>9. CASE Kept(c)
  <2>1. /\ call[c].at = "sent" /\ call' = [call EXCEPT ![c].at = "kept"] /\ UNCHANGED wire
        /\ order' = [order EXCEPT ![h].connect_sockfd = Sock(c, "caller")]
    BY <1>4, <1>9 DEF Kept
  <2>2. call'[c].at = "kept" /\ call'[c].to = call[c].to /\ call'[c].fresh = call[c].fresh /\ call'[c].from = h /\ call'[c].up
    BY <1>1, <1>4, <2>1 DEF Calls
  <2>3. \A e \in Conns \ {c} : call'[e] = call[e] /\ wire'[e] = wire[e]
    BY <1>1, <2>1
  <2>4. order'[h].connect_sockfd = Sock(c, "caller") /\ \A q \in Racks \ {h} : order'[q] = order[q]
    BY <1>1, <2>1 DEF OrderRecords
  <2>5. Connections(h, c, far)'
    BY <1>1, <2>1, <2>2, <2>3, <2>4 DEF Connections, Unaccepted, Sock
  <2>6. Connecting(h, k, c, far, there)
    BY <1>2, <1>5, <2>1, <2>3 DEF Connecting
  <2> QED
    BY <2>1, <2>2, <2>5, <2>6, ConnectingKeeps DEF Unaccepted, Listens
<1> QED
  BY <1>3, <1>6, <1>7, <1>8, <1>9 DEF ConnectStep

(* The other rack takes the order, or it does not. *)
LEMMA FirstKeeps ==
  ASSUME Typed, NEW h \in Racks, NEW k \in Kinds, NEW c \in Conns, NEW here \in Ports, NEW far \in Racks,
         NEW there \in Ports, Active(h, k, c, here, far, there), NEW d \in Conns, FirstMessage(d)
  PROVE  Active(h, k, c, here, far, there)'
<1>1. /\ Connections(h, c, far) /\ Words(h, k, c, far, there) /\ Lines(h, k, here, far, there)
      /\ Parties(h, here, far, there) /\ Conclusions(h, c, here, far, there) /\ Agreed(h, k)
      /\ far \in Racks \ {h} /\ h \in Racks \ {far}
      /\ call \in [Conns -> Calls] /\ order \in [Racks -> OrderRecords] /\ call[c] \in Calls
      /\ wire \in [Conns -> [caller : Seq(Msgs), callee : Seq(Msgs)]]
      /\ armed \in [Racks -> [Ports -> Cmds \cup {NotArmed}]] /\ outbox \in [Racks -> Seq(Reports)]
      /\ concluded \in [Racks -> [Ports -> {"open", "good", "bad"}]]
  BY DEF Active, Parties, Typed, CallsTyped, OrdersTyped, WireTyped, BoardsTypeOK
<1>2. d = c
  BY <1>1 DEF FirstMessage, Connections
<1>3. /\ call[c].fresh /\ call[c].to = far /\ call[c].at \notin {"free", "starting"} /\ wire[c].callee # <<>>
      /\ Unaccepted(c) /\ Early(h, c, far)
  BY <1>1, <1>2 DEF FirstMessage, Connections, Unaccepted, Active
<1>4. PICK m : m = Head(wire[c].callee)
  OBVIOUS
<1>5. PICK w \in Seq(Msgs) : w = wire[c].callee
  BY <1>1
<1>6. /\ Len(w) \in Nat \ {0} /\ Len(Tail(w)) = Len(w) - 1 /\ Head(w) = w[1]
      /\ \A i \in 1..(Len(w) - 1) : Tail(w)[i] = w[i + 1]
  BY <1>3, <1>5, LenProperties, EmptySeq, HeadTailProperties
<1>7. FromHost(m, k, far, there)
  <2>1. 1 \in 1..Len(wire[c].callee) /\ m = wire[c].callee[1]
    BY <1>4, <1>5, <1>6
  <2> QED
    BY <1>1, <2>1 DEF Words
<1>8. /\ call' = [call EXCEPT ![c].fresh = FALSE]
      /\ wire' = [wire EXCEPT ![c].callee = Tail(wire[c].callee)]
      /\ heard' = [heard EXCEPT ![far] = Unheard]
      /\ UNCHANGED <<wiping, answers, request>>
      /\ Accepted(far, c, m) \/ NotForUs(far, m) \/ CancelledByNet(far, m)
  BY <1>2, <1>3, <1>4 DEF FirstMessage
<1>9. /\ ~call'[c].fresh /\ call'[c].at = call[c].at /\ call'[c].from = call[c].from /\ call'[c].to = call[c].to
      /\ call'[c].up = call[c].up /\ \A e \in Conns \ {c} : call'[e] = call[e]
  BY <1>1, <1>8 DEF Calls
<1>10. wire'[c].callee = Tail(w) /\ wire'[c].caller = <<>> /\ \A e \in Conns \ {c} : wire'[e] = wire[e]
  BY <1>1, <1>3, <1>5, <1>8 DEF Early
<1>11. PICK o : o = order'[far]
  OBVIOUS
<1>12. /\ o.order_result = NoOrder /\ o.incoming = NoMsg
       /\ o.connect_sockfd \in {NoSock, Sock(c, "callee")}
       /\ \A q \in Racks \ {far} : order'[q] = order[q]
  <2>1. CASE Accepted(far, c, m)
    BY <1>1, <1>11, <2>1 DEF Accepted, Cleared
  <2>2. CASE NotForUs(far, m) \/ CancelledByNet(far, m)
    BY <1>1, <1>11, <2>2 DEF NotForUs, CancelledByNet, Clear, Cleared
  <2> QED
    BY <1>8, <2>1, <2>2
<1>13. /\ outbox' = outbox /\ tag' = tag
       /\ \A p \in Ports : concluded'[h][p] = concluded[h][p]
       /\ \A q \in Racks, p \in Ports :
            \/ armed'[q][p] \in {armed[q][p], NotArmed}
            \/ q = far /\ p = there /\ armed'[q][p] = Cmd(k, "remote")
       /\ armed'[h] = armed[h]
  <2>1. outbox[far] = <<>> /\ [outbox EXCEPT ![far] = outbox[far]] = outbox
    BY <1>1, <1>3 DEF Early
  <2>2. CASE Accepted(far, c, m)
    <3>1. PICK f : f = Frame(ARM, m.port, m.cmd.kind, "remote")
      OBVIOUS
    <3>2. f.op = ARM /\ f.port = there /\ f.cmd = Cmd(k, "remote")
      BY <1>7, <2>2, <3>1 DEF Frame, Accepted, FromHost, Cmd
    <3>3. Write(far, f, outbox[far])
      BY <2>2, <3>1 DEF Accepted
    <3>4. /\ armed' = [armed EXCEPT ![far][there] = Cmd(k, "remote")]
          /\ concluded' = [concluded EXCEPT ![far][there] = "open"]
          /\ outbox' = [outbox EXCEPT ![far] = outbox[far]]
          /\ tag' = tag
      BY <3>2, <3>3 DEF Write, ARM, CANCEL, CONFIRM, GUIDE, OUTPUT
    <3> QED
      BY <1>1, <2>1, <3>4
  <2>3. CASE NotForUs(far, m)
    BY <2>3 DEF NotForUs, boardVars
  <2>4. CASE CancelledByNet(far, m)
    <3>1. PICK f : f = Frame(CANCEL, CancelledPort(m), m.cmd.kind, "remote")
      OBVIOUS
    <3>2. f.op # ARM /\ f.op # CONFIRM /\ Write(far, f, outbox[far])
      BY <2>4, <3>1 DEF Frame, CancelledByNet, CANCEL, ARM, CONFIRM
    <3>3. f.op = CANCEL
      BY <3>1 DEF Frame
    <3>4. /\ armed' = [armed EXCEPT ![far] = [p \in Ports |-> IF p = f.port THEN NotArmed ELSE @[p]]]
          /\ outbox' = [outbox EXCEPT ![far] = outbox[far]]
          /\ UNCHANGED <<concluded, tag>>
      BY <3>2, <3>3 DEF Write, ARM, CANCEL, CONFIRM, GUIDE, OUTPUT
    <3> QED
      BY <1>1, <2>1, <3>4
  <2> QED
    BY <1>8, <2>2, <2>3, <2>4
<1>14. Parties(h, here, far, there)'
  BY <1>1, <1>8, <1>11, <1>12 DEF Parties
<1>15. Lines(h, k, here, far, there)'
  <2>1. \A q \in Racks, p \in Ports :
          armed'[q][p] # NotArmed => \/ q = h /\ p = here /\ armed'[q][p] = Cmd(k, "host")
                                     \/ q = far /\ p = there /\ armed'[q][p] = Cmd(k, "remote")
    BY <1>1, <1>13 DEF Lines
  <2> QED
    BY <1>1, <1>13, <2>1 DEF Lines, ReportsOf, Cmd
<1>16. ~Unaccepted(c)'
  BY <1>3, <1>9 DEF Unaccepted
<1>17. Connections(h, c, far)'
  BY <1>1, <1>3, <1>9, <1>10, <1>11, <1>12, <1>16 DEF Connections, Sock
<1>18. Words(h, k, c, far, there)'
  <2>1. ASSUME NEW i \in 1..Len(Tail(w)) PROVE FromHost(Tail(w)[i], k, far, there)
    <3>1. i + 1 \in 1..Len(w) /\ Tail(w)[i] = w[i + 1]
      BY <1>6
    <3> QED
      BY <1>1, <1>5, <3>1 DEF Words
  <2>2. \A i \in 1..Len(wire'[c].callee) : FromHost(wire'[c].callee[i], k, far, there)
    BY <1>10, <2>1
  <2>3. Len(wire'[c].caller) = 0
    BY <1>10
  <2> QED
    BY <1>1, <1>11, <1>12, <2>2, <2>3 DEF Words, FromHost, FromFar, Cmd, Sock
<1>19. order'[h] = order[h] /\ heard'[h] = heard[h]
  <2>1. heard'[h] = heard[h]
    BY <1>1, <1>8
  <2> QED
    BY <1>1, <1>12, <2>1
<1>20. Agreed(h, k)'
  BY <1>1, <1>19 DEF Agreed
<1>21. Conclusions(h, c, here, far, there)'
  <2>1. /\ order'[h].local_flag = "none" /\ order'[h].jiajian_flag = "none" /\ order'[h].incoming = NoMsg
        /\ Len(wire'[c].caller) = 0 /\ Len(outbox'[far]) = 0
        /\ \A i \in 1..Len(outbox'[h]) : outbox'[h][i].what # CONCLUDED
    BY <1>3, <1>10, <1>13, <1>19 DEF Early, EarlyOrder
  <2> QED
    BY <2>1 DEF Conclusions
<1>22. Stream(h, c, far, there)'
  <2>1. PICK y \in Places : y = IF tag'[far][there] = NoLabel THEN "out" ELSE "in"
    BY DEF Places
  <2>2. order'[h].jiajian_eid = NoLabel /\ order'[h].incoming = NoMsg /\ Len(wire'[c].caller) = 0 /\ Len(outbox'[far]) = 0
    BY <1>3, <1>10, <1>13, <1>19 DEF Early, EarlyOrder
  <2>3. Path(Len(wire'[c].caller), Ops(wire'[c].caller), y, y)
    BY <2>2, PathEmpty
  <2>4. Path(Len(outbox'[far]), Whats(outbox'[far]), y, y)
    BY <2>2, PathEmpty
  <2> QED
    BY <2>1, <2>2, <2>3, <2>4 DEF Stream
<1> QED
  BY <1>14, <1>15, <1>16, <1>17, <1>18, <1>20, <1>21, <1>22 DEF Active

(* A message is read at the host, *)
LEMMA HostReceives ==
  ASSUME Typed, NEW h \in Racks, NEW k \in Kinds, NEW c \in Conns, NEW here \in Ports, NEW far \in Racks,
         NEW there \in Ports, Active(h, k, c, here, far, there), Receive(h)
  PROVE  Active(h, k, c, here, far, there)'
<1>1. /\ Connections(h, c, far) /\ Words(h, k, c, far, there) /\ Lines(h, k, here, far, there)
      /\ Parties(h, here, far, there) /\ Conclusions(h, c, here, far, there) /\ Agreed(h, k)
      /\ far \in Racks \ {h}
      /\ order \in [Racks -> OrderRecords] /\ order[h] \in OrderRecords
      /\ wire \in [Conns -> [caller : Seq(Msgs), callee : Seq(Msgs)]]
  BY DEF Active, Parties, Typed, OrdersTyped, WireTyped
<1>2. order[h].connect_sockfd = Sock(c, "caller") /\ order[h].incoming = NoMsg
  BY <1>1 DEF Receive, Connections
<1>3. PICK w \in Seq(Msgs) : w = wire[c].caller
  BY <1>1
<1>4. PICK m : m = Head(w)
  OBVIOUS
<1>5. /\ w # <<>> /\ order' = [order EXCEPT ![h].incoming = m]
      /\ wire' = [wire EXCEPT ![c]["caller"] = Tail(w)]
      /\ UNCHANGED <<wiping, call, request, heard, boardVars>>
  BY <1>2, <1>3, <1>4 DEF Receive, Sock
<1>6. /\ Len(w) \in Nat \ {0} /\ Tail(w) \in Seq(Msgs) /\ Len(Tail(w)) = Len(w) - 1 /\ m = w[1] /\ m \in Msgs
      /\ \A i \in 1..(Len(w) - 1) : Tail(w)[i] = w[i + 1]
  BY <1>4, <1>5, LenProperties, EmptySeq, HeadTailProperties
<1>7. 1 \in 1..Len(wire[c].caller) /\ m = wire[c].caller[1] /\ m # NoMsg
  BY <1>3, <1>6, BlankAssumption
<1>8. FromFar(m, k) /\ (m.op = CONCLUDED /\ m.ok => Done(far, there))
  BY <1>1, <1>7 DEF Words, Conclusions
<1>9. wire'[c].callee = wire[c].callee /\ wire'[c].caller = Tail(w) /\ \A d \in Conns \ {c} : wire'[d] = wire[d]
  BY <1>1, <1>5
<1>10. PICK o : o = order'[h]
  OBVIOUS
<1>11. /\ o.order_result = order[h].order_result /\ o.row = order[h].row /\ o.incoming = m
       /\ o.local_eid = order[h].local_eid /\ o.jiajian_eid = order[h].jiajian_eid
       /\ o.local_stat = order[h].local_stat /\ o.jiajian_stat = order[h].jiajian_stat
       /\ o.local_flag = order[h].local_flag /\ o.jiajian_flag = order[h].jiajian_flag
       /\ o.connect_sockfd = order[h].connect_sockfd
       /\ \A q \in Racks \ {h} : order'[q] = order[q]
  BY <1>1, <1>5, <1>10 DEF OrderRecords
<1>12. UNCHANGED <<armed, tag, outbox, concluded, wiping, call, request, heard>>
  BY <1>5 DEF boardVars
<1>13. \A i \in 1..Len(Tail(w)) : i + 1 \in 1..Len(wire[c].caller) /\ Tail(w)[i] = wire[c].caller[i + 1]
  BY <1>3, <1>6
<1>14. Parties(h, here, far, there)'
  BY <1>1, <1>10, <1>11, <1>12 DEF Parties
<1>15. Lines(h, k, here, far, there)'
  BY <1>1, <1>12 DEF Lines, ReportsOf
<1>16. Connections(h, c, far)'
  BY <1>1, <1>9, <1>10, <1>11, <1>12 DEF Connections, Unaccepted
<1>17. ~Unaccepted(c)'
  BY <1>3, <1>5, <1>12 DEF Active, Unaccepted, Early
<1>18. Words(h, k, c, far, there)'
  <2>1. \A i \in 1..Len(wire'[c].caller) : FromFar(wire'[c].caller[i], k)
    BY <1>1, <1>9, <1>13 DEF Words
  <2>2. \A i \in 1..Len(wire'[c].callee) : FromHost(wire'[c].callee[i], k, far, there)
    BY <1>1, <1>9 DEF Words
  <2>3. /\ o.row # NoMsg => FromHost(o.row, k, far, there)
        /\ order'[far].incoming # NoMsg => FromHost(order'[far].incoming, k, far, there)
        /\ o.incoming # NoMsg => FromFar(o.incoming, k) /\ o.connect_sockfd = Sock(c, "caller")
        /\ \A q \in Racks \ {h, far} : order'[q].incoming = NoMsg
    BY <1>1, <1>2, <1>8, <1>11 DEF Words
  <2> QED
    BY <1>10, <2>1, <2>2, <2>3 DEF Words, FromHost, FromFar, Cmd, Sock
<1>19. Agreed(h, k)'
  BY <1>1, <1>10, <1>11, <1>12 DEF Agreed, AgreedWith
<1>20. Conclusions(h, c, here, far, there)'
  <2>1. \A i \in 1..Len(wire'[c].caller) : wire'[c].caller[i].op = CONCLUDED /\ wire'[c].caller[i].ok => Done(far, there)
    <3>1. ASSUME NEW i \in 1..Len(Tail(w)), Tail(w)[i].op = CONCLUDED, Tail(w)[i].ok PROVE Done(far, there)
      <4>1. PICK j \in 1..Len(wire[c].caller) : Tail(w)[i] = wire[c].caller[j]
        BY <1>13
      <4> QED
        BY <1>1, <3>1, <4>1 DEF Conclusions
    <3> QED
      BY <1>9, <3>1
  <2> QED
    BY <1>1, <1>8, <1>10, <1>11, <1>12, <2>1 DEF Conclusions, Done
<1>21. ASSUME k = "new" PROVE Stream(h, c, far, there)'
  <2>1. Listens(h, c)
    BY <1>2, BlankAssumption DEF Listens, Sock, Ends
  <2>2. PICK a \in Places, b \in Places, x \in Places, y \in Places :
          /\ order[h].jiajian_eid # NoLabel => a = "in"
          /\ b = a
          /\ Path(Len(wire[c].caller), Ops(wire[c].caller), b, x)
          /\ order[far].connect_sockfd # NoSock =>
               /\ Path(Len(outbox[far]), Whats(outbox[far]), x, y)
               /\ armed[far][there] # NotArmed => y = IF tag[far][there] = NoLabel THEN "out" ELSE "in"
    BY <1>2, <1>21, <2>1 DEF Active, Stream
  <2>3. Path(Len(w), Ops(w), b, x)
    BY <1>3, <2>2
  <2>4. PICK z \in Places : Turn(b, m.op, z) /\ Path(Len(Tail(w)), Ops(Tail(w)), z, x)
    BY <1>4, <1>5, <2>2, <2>3, MessageTaken
  <2>5. Path(Len(wire'[c].caller), Ops(wire'[c].caller), z, x)
    BY <1>9, <2>4 DEF Ops
  <2>6. /\ order'[h].jiajian_eid # NoLabel => a = "in"
        /\ IF order'[h].incoming = NoMsg THEN z = a ELSE Turn(a, order'[h].incoming.op, z)
    BY <1>7, <1>10, <1>11, <2>2, <2>4
  <2>7. order'[far].connect_sockfd # NoSock =>
             /\ Path(Len(outbox'[far]), Whats(outbox'[far]), x, y)
             /\ armed'[far][there] # NotArmed => y = IF tag'[far][there] = NoLabel THEN "out" ELSE "in"
    BY <1>1, <1>11, <1>12, <2>2 DEF Whats
  <2> QED
    BY <2>2, <2>4, <2>5, <2>6, <2>7 DEF Stream
<1> QED
  BY <1>14, <1>15, <1>16, <1>17, <1>18, <1>19, <1>20, <1>21 DEF Active

(* or at the other rack. *)
LEMMA FarReceives ==
  ASSUME Typed, NEW h \in Racks, NEW k \in Kinds, NEW c \in Conns, NEW here \in Ports, NEW far \in Racks,
         NEW there \in Ports, Active(h, k, c, here, far, there), Receive(far)
  PROVE  Active(h, k, c, here, far, there)'
<1>1. /\ Connections(h, c, far) /\ Words(h, k, c, far, there) /\ Lines(h, k, here, far, there)
      /\ Parties(h, here, far, there) /\ Conclusions(h, c, here, far, there) /\ Agreed(h, k)
      /\ far \in Racks \ {h} /\ h \in Racks \ {far}
      /\ order \in [Racks -> OrderRecords] /\ order[far] \in OrderRecords
      /\ wire \in [Conns -> [caller : Seq(Msgs), callee : Seq(Msgs)]]
  BY DEF Active, Parties, Typed, OrdersTyped, WireTyped
<1>2. order[far].connect_sockfd = Sock(c, "callee") /\ ~Unaccepted(c)
  BY <1>1 DEF Receive, Connections
<1>3. PICK w \in Seq(Msgs) : w = wire[c].callee
  BY <1>1
<1>4. PICK m : m = Head(w)
  OBVIOUS
<1>5. /\ w # <<>> /\ order' = [order EXCEPT ![far].incoming = m]
      /\ wire' = [wire EXCEPT ![c]["callee"] = Tail(w)]
      /\ UNCHANGED <<wiping, call, request, heard, boardVars>>
  BY <1>2, <1>3, <1>4 DEF Receive, Sock
<1>6. /\ Len(w) \in Nat \ {0} /\ Len(Tail(w)) = Len(w) - 1 /\ m = w[1]
      /\ \A i \in 1..(Len(w) - 1) : Tail(w)[i] = w[i + 1]
  BY <1>4, <1>5, LenProperties, EmptySeq, HeadTailProperties
<1>7. 1 \in 1..Len(wire[c].callee) /\ m = wire[c].callee[1]
  BY <1>3, <1>6
<1>8. FromHost(m, k, far, there)
  BY <1>1, <1>7 DEF Words
<1>9. wire'[c].caller = wire[c].caller /\ wire'[c].callee = Tail(w) /\ \A d \in Conns \ {c} : wire'[d] = wire[d]
  BY <1>1, <1>5
<1>10. /\ order'[far].order_result = order[far].order_result /\ order'[far].incoming = m
       /\ order'[far].connect_sockfd = order[far].connect_sockfd
       /\ \A q \in Racks \ {far} : order'[q] = order[q]
  BY <1>1, <1>5 DEF OrderRecords
<1>11. UNCHANGED <<armed, tag, outbox, concluded, wiping, call, request, heard>>
  BY <1>5 DEF boardVars
<1>12. \A i \in 1..Len(Tail(w)) : i + 1 \in 1..Len(wire[c].callee) /\ Tail(w)[i] = wire[c].callee[i + 1]
  BY <1>3, <1>6
<1>13. Parties(h, here, far, there)'
  BY <1>1, <1>10, <1>11 DEF Parties
<1>14. Lines(h, k, here, far, there)'
  BY <1>1, <1>11 DEF Lines, ReportsOf
<1>15. Connections(h, c, far)' /\ ~Unaccepted(c)'
  BY <1>1, <1>2, <1>9, <1>10, <1>11 DEF Connections, Unaccepted
<1>16. Words(h, k, c, far, there)'
  <2>1. \A i \in 1..Len(wire'[c].callee) : FromHost(wire'[c].callee[i], k, far, there)
    BY <1>1, <1>9, <1>12 DEF Words
  <2>2. \A i \in 1..Len(wire'[c].caller) : FromFar(wire'[c].caller[i], k)
    BY <1>1, <1>9 DEF Words
  <2>3. /\ order'[h].row # NoMsg => FromHost(order'[h].row, k, far, there)
        /\ order'[far].incoming # NoMsg => FromHost(order'[far].incoming, k, far, there)
        /\ order'[h].incoming # NoMsg => FromFar(order'[h].incoming, k) /\ order'[h].connect_sockfd = Sock(c, "caller")
        /\ \A q \in Racks \ {h, far} : order'[q].incoming = NoMsg
    BY <1>1, <1>8, <1>10 DEF Words
  <2> QED
    BY <2>1, <2>2, <2>3 DEF Words, FromHost, FromFar, Cmd, Sock
<1>17. Agreed(h, k)' /\ Conclusions(h, c, here, far, there)'
  BY <1>1, <1>9, <1>10, <1>11 DEF Agreed, AgreedWith, Conclusions, Done
<1>18. ASSUME k = "new", Listens(h, c)' PROVE Stream(h, c, far, there)'
  <2>1. Listens(h, c)
    BY <1>1, <1>10, <1>11, <1>18 DEF Listens
  <2>2. Stream(h, c, far, there)
    BY <1>18, <2>1 DEF Active
  <2>3. PICK a \in Places, b \in Places, x \in Places, y \in Places :
          /\ order[h].jiajian_eid # NoLabel => a = "in"
          /\ IF order[h].incoming = NoMsg THEN b = a ELSE Turn(a, order[h].incoming.op, b)
          /\ Path(Len(wire[c].caller), Ops(wire[c].caller), b, x)
          /\ order[far].connect_sockfd # NoSock =>
               /\ Path(Len(outbox[far]), Whats(outbox[far]), x, y)
               /\ armed[far][there] # NotArmed => y = IF tag[far][there] = NoLabel THEN "out" ELSE "in"
    BY <2>2 DEF Stream
  <2>4. Path(Len(wire'[c].caller), Ops(wire'[c].caller), b, x)
    BY <1>9, <2>3 DEF Ops
  <2>5. order'[h] = order[h]
    BY <1>1, <1>10
  <2>6. order'[far].connect_sockfd # NoSock =>
             /\ Path(Len(outbox'[far]), Whats(outbox'[far]), x, y)
             /\ armed'[far][there] # NotArmed => y = IF tag'[far][there] = NoLabel THEN "out" ELSE "in"
    BY <1>10, <1>11, <2>3 DEF Whats
  <2> QED
    BY <2>3, <2>4, <2>5, <2>6 DEF Stream
<1> QED
  BY <1>13, <1>14, <1>15, <1>16, <1>17, <1>18 DEF Active

(* The worker moves a label at a port of the order. *)
LEMMA MoveKeeps ==
  ASSUME Typed, NEW h \in Racks, NEW k \in Kinds, NEW c \in Conns, NEW here \in Ports, NEW far \in Racks,
         NEW there \in Ports, Active(h, k, c, here, far, there),
         NEW r \in Racks, NEW p \in Ports, NEW e \in Labels, Move(r, p, e)
  PROVE  Active(h, k, c, here, far, there)'
<1>1. /\ Connections(h, c, far) /\ Words(h, k, c, far, there) /\ Lines(h, k, here, far, there)
      /\ Parties(h, here, far, there) /\ Conclusions(h, c, here, far, there) /\ Agreed(h, k)
      /\ far \in Racks \ {h} /\ h \in Racks \ {far}
      /\ armed \in [Racks -> [Ports -> Cmds \cup {NotArmed}]] /\ outbox \in [Racks -> Seq(Reports)]
      /\ tag \in [Racks -> [Ports -> Labels \cup {NoLabel}]]
  BY DEF Active, Parties, Typed, BoardsTypeOK
<1>2. UNCHANGED <<order, wiping, call, wire, request, heard, armed, concluded>> /\ armed[r][p] # NotArmed
  BY DEF Move, MoveLabel, commonVars
<1>3. PICK what : what = IF armed[r][p].kind = "new" THEN (IF tag[r][p] # NoLabel THEN PULLEDBACK ELSE INSERTED)
                         ELSE (IF tag[r][p] # NoLabel THEN PULLED ELSE REINSERTED)
  OBVIOUS
<1>4. PICK rep : rep = [cmd |-> armed[r][p], what |-> what, label |-> IF what = INSERTED THEN e ELSE NoLabel, ok |-> TRUE]
  OBVIOUS
<1>5. outbox' = [outbox EXCEPT ![r] = Append(outbox[r], rep)]
  BY <1>3, <1>4 DEF Move, MoveLabel
<1>6. /\ rep.cmd = armed[r][p] /\ rep.what = what /\ what \in Movements /\ what # CONCLUDED
      /\ rep.what = INSERTED => rep.label \in Labels
      /\ rep \in Reports
  BY <1>1, <1>2, <1>3, <1>4 DEF Movements, CONCLUDED, INSERTED, PULLED, REINSERTED, PULLEDBACK, Reports
<1>7. PICK s \in Seq(Reports) : s = outbox[r]
  BY <1>1
<1>8. /\ Len(s) \in Nat /\ Len(Append(s, rep)) = Len(s) + 1 /\ Append(s, rep)[Len(s) + 1] = rep
      /\ \A i \in 1..Len(s) : Append(s, rep)[i] = s[i]
  BY <1>6, <1>7, LenProperties, AppendProperties
<1>9. outbox'[r] = Append(s, rep) /\ \A q \in Racks \ {r} : outbox'[q] = outbox[q]
  BY <1>1, <1>5, <1>7
<1>10. \A i \in 1..Len(outbox'[r]) : outbox'[r][i] = rep \/ \E j \in 1..Len(outbox[r]) : outbox'[r][i] = outbox[r][j]
  BY <1>7, <1>8, <1>9
<1>11. \/ r = h /\ p = here /\ armed[r][p] = Cmd(k, "host")
       \/ r = far /\ p = there /\ armed[r][p] = Cmd(k, "remote")
  BY <1>1, <1>2 DEF Lines
<1>12. ReportsOf(outbox'[h], Cmd(k, "host")) /\ ReportsOf(outbox'[far], Cmd(k, "remote"))
  <2>1. ASSUME NEW cmd, ReportsOf(outbox[r], cmd), armed[r][p] = cmd PROVE ReportsOf(outbox'[r], cmd)
    <3>1. ASSUME NEW i \in 1..Len(outbox'[r])
          PROVE  outbox'[r][i].cmd = cmd /\ (outbox'[r][i].what = INSERTED => outbox'[r][i].label \in Labels)
      <4>1. CASE outbox'[r][i] = rep
        BY <1>6, <2>1, <4>1
      <4>2. ASSUME NEW j \in 1..Len(outbox[r]), outbox'[r][i] = outbox[r][j]
            PROVE  outbox'[r][i].cmd = cmd /\ (outbox'[r][i].what = INSERTED => outbox'[r][i].label \in Labels)
        BY <2>1, <4>2 DEF ReportsOf
      <4> QED
        BY <1>10, <4>1, <4>2
    <3> QED
      BY <3>1 DEF ReportsOf
  <2>2. ReportsOf(outbox[h], Cmd(k, "host")) /\ ReportsOf(outbox[far], Cmd(k, "remote"))
    BY <1>1 DEF Lines
  <2>3. CASE r = h /\ armed[r][p] = Cmd(k, "host")
    <3>1. ReportsOf(outbox'[h], Cmd(k, "host"))
      BY <2>1, <2>2, <2>3
    <3>2. outbox'[far] = outbox[far]
      BY <1>1, <1>9, <2>3
    <3> QED
      BY <2>2, <3>1, <3>2 DEF ReportsOf
  <2>4. CASE r = far /\ armed[r][p] = Cmd(k, "remote")
    <3>1. ReportsOf(outbox'[far], Cmd(k, "remote"))
      BY <2>1, <2>2, <2>4
    <3>2. outbox'[h] = outbox[h]
      BY <1>1, <1>9, <2>4
    <3> QED
      BY <2>2, <3>1, <3>2 DEF ReportsOf
  <2> QED
    BY <1>11, <2>3, <2>4
<1>13. Lines(h, k, here, far, there)'
  <2>1. \A q \in Racks \ {h, far} : outbox'[q] = <<>>
    BY <1>1, <1>9, <1>11 DEF Lines
  <2>2. \A q \in Racks, o \in Ports :
          armed'[q][o] # NotArmed => \/ q = h /\ o = here /\ armed'[q][o] = Cmd(k, "host")
                                     \/ q = far /\ o = there /\ armed'[q][o] = Cmd(k, "remote")
    BY <1>1, <1>2 DEF Lines
  <2> QED
    BY <1>12, <2>1, <2>2 DEF Lines, ReportsOf, Cmd
<1>14. Parties(h, here, far, there)' /\ Connections(h, c, far)' /\ Words(h, k, c, far, there)' /\ Agreed(h, k)'
  <2>1. Parties(h, here, far, there)' /\ Connections(h, c, far)'
    BY <1>1, <1>2 DEF Parties, Connections, Unaccepted
  <2>2. Words(h, k, c, far, there)'
    BY <1>1, <1>2 DEF Words, FromHost, FromFar
  <2>3. Agreed(h, k)'
    BY <1>1, <1>2 DEF Agreed, AgreedWith
  <2> QED
    BY <2>1, <2>2, <2>3
<1>15. ASSUME Unaccepted(c)' PROVE Early(h, c, far)'
  <2>1. Early(h, c, far)
    BY <1>2, <1>15 DEF Unaccepted, Active
  <2>2. r = h
    BY <1>2, <1>11, <2>1 DEF Early
  <2>3. \A i \in 1..Len(outbox'[h]) : outbox'[h][i].what # CONCLUDED
    BY <1>6, <1>10, <2>1, <2>2 DEF Early
  <2>4. outbox'[far] = <<>>
    BY <1>1, <1>9, <2>1, <2>2 DEF Early
  <2> QED
    BY <1>2, <2>1, <2>3, <2>4 DEF Early, EarlyOrder
<1>16. Conclusions(h, c, here, far, there)'
  <2>1. /\ \A i \in 1..Len(outbox'[h]) : outbox'[h][i].what = CONCLUDED /\ outbox'[h][i].ok => Done(h, here)
        /\ \A i \in 1..Len(outbox'[far]) : outbox'[far][i].what = CONCLUDED /\ outbox'[far][i].ok => Done(far, there)
    <3>1. ASSUME NEW i \in 1..Len(outbox'[r]), outbox'[r][i].what = CONCLUDED
          PROVE  \E j \in 1..Len(outbox[r]) : outbox'[r][i] = outbox[r][j]
      BY <1>6, <1>10, <3>1
    <3>2. CASE r = h
      <4>1. ASSUME NEW i \in 1..Len(outbox'[h]), outbox'[h][i].what = CONCLUDED, outbox'[h][i].ok
            PROVE  Done(h, here)
        <5>1. PICK j \in 1..Len(outbox[h]) : outbox'[h][i] = outbox[h][j]
          BY <3>1, <3>2, <4>1
        <5> QED
          BY <1>1, <4>1, <5>1 DEF Conclusions
      <4>2. outbox'[far] = outbox[far]
        BY <1>1, <1>9, <3>2
      <4> QED
        BY <1>1, <4>1, <4>2 DEF Conclusions
    <3>3. CASE r = far
      <4>1. ASSUME NEW i \in 1..Len(outbox'[far]), outbox'[far][i].what = CONCLUDED, outbox'[far][i].ok
            PROVE  Done(far, there)
        <5>1. PICK j \in 1..Len(outbox[far]) : outbox'[far][i] = outbox[far][j]
          BY <3>1, <3>3, <4>1
        <5> QED
          BY <1>1, <4>1, <5>1 DEF Conclusions
      <4>2. outbox'[h] = outbox[h]
        BY <1>1, <1>9, <3>3
      <4> QED
        BY <1>1, <4>1, <4>2 DEF Conclusions
    <3> QED
      BY <1>11, <3>2, <3>3
  <2> QED
    BY <1>1, <1>2, <2>1 DEF Conclusions, Done
<1>17. ASSUME k = "new", Listens(h, c)' PROVE Stream(h, c, far, there)'
  <2>1. Listens(h, c)
    BY <1>2, <1>17 DEF Listens
  <2>2. PICK a \in Places, b \in Places, x \in Places, y \in Places :
          /\ order[h].jiajian_eid # NoLabel => a = "in"
          /\ IF order[h].incoming = NoMsg THEN b = a ELSE Turn(a, order[h].incoming.op, b)
          /\ Path(Len(wire[c].caller), Ops(wire[c].caller), b, x)
          /\ order[far].connect_sockfd # NoSock =>
               /\ Path(Len(outbox[far]), Whats(outbox[far]), x, y)
               /\ armed[far][there] # NotArmed => y = IF tag[far][there] = NoLabel THEN "out" ELSE "in"
    BY <1>17, <2>1 DEF Active, Stream
  <2>3. \E y2 \in Places :
          order[far].connect_sockfd # NoSock =>
               /\ Path(Len(outbox'[far]), Whats(outbox'[far]), x, y2)
               /\ armed'[far][there] # NotArmed => y2 = IF tag'[far][there] = NoLabel THEN "out" ELSE "in"
    <3>1. tag' = [tag EXCEPT ![r][p] = IF tag[r][p] # NoLabel THEN NoLabel ELSE e]
      BY DEF Move, MoveLabel
    <3>2. CASE r = h
      <4>1. tag'[far] = tag[far] /\ outbox'[far] = outbox[far]
        BY <1>1, <1>9, <3>1, <3>2
      <4> QED
        BY <1>2, <2>2, <4>1 DEF Whats
    <3>3. CASE r = far /\ p = there /\ armed[r][p] = Cmd(k, "remote")
      <4>1. CASE order[far].connect_sockfd = NoSock
        BY <4>1 DEF Places
      <4>2. CASE order[far].connect_sockfd # NoSock
        <5>1. PICK y2 \in Places : y2 = IF tag'[far][there] = NoLabel THEN "out" ELSE "in"
          BY DEF Places
        <5>2. tag'[far][there] = IF tag[far][there] # NoLabel THEN NoLabel ELSE e
          BY <1>1, <3>1, <3>3
        <5>3. e # NoLabel
          BY BoardsAssumption
        <5>4. what = IF tag[far][there] # NoLabel THEN PULLEDBACK ELSE INSERTED
          BY <1>3, <1>17, <3>3 DEF Cmd
        <5>5. y = IF tag[far][there] = NoLabel THEN "out" ELSE "in"
          BY <1>2, <2>2, <3>3, <4>2
        <5>6. Turn(y, what, y2)
          BY <5>1, <5>2, <5>3, <5>4, <5>5 DEF Turn, INSERTED, PULLEDBACK
        <5>7. Path(Len(s), Whats(s), x, y)
          BY <1>7, <2>2, <3>3, <4>2
        <5>8. Path(Len(Append(s, rep)), Whats(Append(s, rep)), x, y2)
          BY <1>6, <2>2, <5>1, <5>6, <5>7, ReportAdded
        <5>9. Path(Len(outbox'[far]), Whats(outbox'[far]), x, y2)
          BY <1>9, <3>3, <5>8 DEF Whats
        <5> QED
          BY <5>1, <5>9
      <4> QED
        BY <4>1, <4>2
    <3> QED
      BY <1>11, <3>2, <3>3
  <2>4. PICK y2 \in Places :
          order[far].connect_sockfd # NoSock =>
               /\ Path(Len(outbox'[far]), Whats(outbox'[far]), x, y2)
               /\ armed'[far][there] # NotArmed => y2 = IF tag'[far][there] = NoLabel THEN "out" ELSE "in"
    BY <2>3
  <2>5. Path(Len(wire'[c].caller), Ops(wire'[c].caller), b, x)
    BY <1>2, <2>2 DEF Ops
  <2> QED
    BY <1>2, <2>2, <2>4, <2>5 DEF Stream
<1> QED
  BY <1>13, <1>14, <1>15, <1>16, <1>17 DEF Active

-----------------------------------------------------------------------------
(* Every step but a request and a cancel.                                   *)
RunStep == ThreadStep \/ (\E r \in Racks : RackStep(r)) \/ WorkerStep

(* It keeps the order going. *)
LEMMA RunKeeps ==
  ASSUME Typed, HeardTyped, NEW h \in Racks, NEW k \in Kinds, NEW c \in Conns, NEW here \in Ports, NEW far \in Racks,
         NEW there \in Ports, Active(h, k, c, here, far, there), RunStep
  PROVE  Active(h, k, c, here, far, there)'
<1>1. /\ wiping = {}
      /\ \A q \in Racks \ {h, far} : order[q].connect_sockfd = NoSock /\ order[q].incoming = NoMsg /\ outbox[q] = <<>>
  BY DEF Active, Parties, Lines, Connections, Words
<1>2. ASSUME NEW r \in Racks, RackStep(r) PROVE Active(h, k, c, here, far, there)'
  <2>1. r \in {h, far}
    BY <1>1, <1>2 DEF RackStep, Wipe, HandleMessage, Poll
  <2>2. HandleMessage(r) \/ Poll(r)
    BY <1>1, <1>2 DEF RackStep, Wipe
  <2> QED
    BY <2>1, <2>2, HostHandles, FarMessage, FarReport
<1>3. ASSUME NEW r \in Racks, Receive(r) PROVE Active(h, k, c, here, far, there)'
  <2>1. r \in {h, far}
    BY <1>1, <1>3 DEF Receive
  <2> QED
    BY <1>3, <2>1, HostReceives, FarReceives
<1>4. CASE ThreadStep
  BY <1>3, <1>4, ConnectKeeps, FirstKeeps DEF ThreadStep
<1>5. CASE WorkerStep
  BY <1>5, MoveKeeps DEF WorkerStep
<1> QED
  BY <1>2, <1>4, <1>5 DEF RunStep

(* It makes no rack busy that was not: only a request gives a rack an order *)
(* of an asker, and arms a port for the host.                               *)
LEMMA FirstArms ==
  ASSUME Typed, NEW d \in Conns, FirstMessage(d)
  PROVE  /\ \A q \in Racks, p \in Ports :
              armed'[q][p] \in {armed[q][p], NotArmed} \/ armed'[q][p].role = "remote"
         /\ \A q \in Racks, p \in Ports : concluded'[q][p] \in {concluded[q][p], "open"}
<1>1. PICK r : r = call[d].to
  OBVIOUS
<1>2. PICK m : m = Head(wire[d].callee)
  OBVIOUS
<1>3. r \in Racks /\ (Accepted(r, d, m) \/ NotForUs(r, m) \/ CancelledByNet(r, m))
  BY <1>1, <1>2 DEF FirstMessage, Typed, CallsTyped
<1>4. /\ armed \in [Racks -> [Ports -> Cmds \cup {NotArmed}]]
      /\ concluded \in [Racks -> [Ports -> {"open", "good", "bad"}]]
  BY DEF Typed, BoardsTypeOK
<1>5. CASE Accepted(r, d, m)
  <2>1. PICK f : f = Frame(ARM, m.port, m.cmd.kind, "remote")
    OBVIOUS
  <2>2. f.op = ARM /\ f.cmd.role = "remote" /\ Write(r, f, outbox[r])
    BY <1>5, <2>1 DEF Frame, Accepted
  <2>3. /\ armed' = [armed EXCEPT ![r][f.port] = f.cmd]
        /\ concluded' = [concluded EXCEPT ![r][f.port] = "open"]
    BY <2>2 DEF Write, ARM, CANCEL, CONFIRM, GUIDE, OUTPUT
  <2> QED
    BY <1>3, <1>4, <2>2, <2>3
<1>6. CASE NotForUs(r, m)
  BY <1>6 DEF NotForUs, boardVars
<1>7. CASE CancelledByNet(r, m)
  <2>1. PICK f : f = Frame(CANCEL, CancelledPort(m), m.cmd.kind, "remote")
    OBVIOUS
  <2>2. f.op = CANCEL /\ Write(r, f, outbox[r])
    BY <1>7, <2>1 DEF Frame, CancelledByNet
  <2>3. /\ armed' = [armed EXCEPT ![r] = [p \in Ports |-> IF p = f.port THEN NotArmed ELSE @[p]]]
        /\ UNCHANGED concluded
    BY <2>2 DEF Write, ARM, CANCEL, CONFIRM, GUIDE, OUTPUT
  <2> QED
    BY <1>3, <1>4, <2>3
<1> QED
  BY <1>3, <1>5, <1>6, <1>7

(* Nor does any other of these steps arm a port for a host, *)
LEMMA RunArms ==
  ASSUME Typed, RunStep
  PROVE  \A q \in Racks, p \in Ports :
           armed'[q][p] \in {armed[q][p], NotArmed} \/ armed'[q][p].role = "remote"
<1>1. ASSUME NEW r \in Racks, HandleMessage(r) \/ Poll(r)
      PROVE  \A q \in Racks, p \in Ports : armed'[q][p] \in {armed[q][p], NotArmed}
  BY <1>1, Frugality, LineKeeps DEF Frugal
<1>2. ASSUME NEW r \in Racks, Wipe(r) \/ Receive(r) PROVE armed' = armed
  BY <1>2 DEF Wipe, Receive, boardVars
<1>3. ASSUME NEW d \in Conns, ConnectStep(d) PROVE armed' = armed
  BY <1>3 DEF ConnectStep, boardVars
<1>4. CASE WorkerStep
  BY <1>4 DEF WorkerStep, Move, MoveLabel
<1> QED
  BY <1>1, <1>2, <1>3, <1>4, FirstArms DEF RunStep, ThreadStep, RackStep

(* or take an order from an asker. *)
LEMMA RunResults ==
  ASSUME Typed, RunStep, NEW h \in Racks, order'[h].order_result # NoOrder, h \notin wiping'
  PROVE  order[h].order_result # NoOrder /\ h \notin wiping
<1>1. ASSUME NEW r \in Racks, HandleMessage(r) \/ Poll(r) PROVE order[h].order_result # NoOrder /\ h \notin wiping
  <2>1. UNCHANGED wiping /\ (GoesOn \/ Loses(r))
    BY <1>1, MessageHandled, PollHandled DEF Handled, HandleMessage, Poll
  <2>2. IdsOf(order'[h]) = IdsOf(order[h]) \/ IdsOf(order'[h]) = IdsOf(Cleared)
    BY <2>1 DEF GoesOn, Loses, OthersKeep
  <2> QED
    BY <2>1, <2>2, SameIds, ClearedTyped
<1>2. ASSUME NEW r \in Racks, Wipe(r) PROVE order[h].order_result # NoOrder /\ h \notin wiping
  BY <1>2, ClearedTyped DEF Wipe, Clear, Typed, OrdersTyped
<1>3. ASSUME NEW r \in Racks, Receive(r) PROVE order[h].order_result # NoOrder /\ h \notin wiping
  BY <1>3 DEF Receive, Typed, OrdersTyped, OrderRecords
<1>4. ASSUME NEW d \in Conns, ConnectStep(d) PROVE order[h].order_result # NoOrder /\ h \notin wiping
  BY <1>4 DEF ConnectStep, Connected, ConnectFailed, FirstSent, Kept, Typed, OrdersTyped, OrderRecords
<1>5. ASSUME NEW d \in Conns, FirstMessage(d) PROVE order[h].order_result # NoOrder /\ h \notin wiping
  <2>1. UNCHANGED wiping /\ call[d].to \in Racks
    BY <1>5 DEF FirstMessage, Typed, CallsTyped
  <2>2. order'[h].order_result \in {order[h].order_result, NoOrder}
    <3>1. PICK r : r = call[d].to
      OBVIOUS
    <3>2. PICK m : m = Head(wire[d].callee)
      OBVIOUS
    <3>3. Accepted(r, d, m) \/ NotForUs(r, m) \/ CancelledByNet(r, m)
      BY <1>5, <3>1, <3>2 DEF FirstMessage
    <3>4. CASE Accepted(r, d, m)
      BY <2>1, <3>1, <3>4 DEF Accepted, Cleared, Typed, OrdersTyped
    <3>5. CASE NotForUs(r, m) \/ CancelledByNet(r, m)
      BY <2>1, <3>1, <3>5 DEF NotForUs, CancelledByNet, Clear, Cleared, Typed, OrdersTyped
    <3> QED
      BY <3>3, <3>4, <3>5
  <2> QED
    BY <2>1, <2>2
<1>6. CASE WorkerStep
  BY <1>6 DEF WorkerStep, Move, commonVars
<1> QED
  BY <1>1, <1>2, <1>3, <1>4, <1>5, <1>6 DEF RunStep, ThreadStep, RackStep

(* So a rack that is busy was so before. *)
LEMMA StillBusy ==
  ASSUME Typed, RunStep, NEW h \in Racks, Busy(h)'
  PROVE  Busy(h)
<1>1. CASE HostArmed(h)'
  <2>1. PICK p \in Ports : armed'[h][p].role = "host"
    BY <1>1 DEF HostArmed
  <2>2. armed[h][p].role = "host"
    BY <2>1, RunArms DEF NotArmed
  <2> QED
    BY <2>2 DEF Busy, HostArmed
<1>2. CASE order'[h].order_result # NoOrder /\ h \notin wiping'
  BY <1>2, RunResults DEF Busy
<1> QED
  BY <1>1, <1>2 DEF Busy

-----------------------------------------------------------------------------
(* A request, when nothing is left of the order before, is of the only      *)
(* order there is.                                                          *)
LEMMA TakenActive ==
  ASSUME Typed, Quiet, NEW r \in Racks, NEW n \in Orders, NEW k \in Kinds, NEW client \in Clients \cup {Nobody},
         NEW end, NEW here \in Ports, NEW there \in Ports, NEW far \in Racks \ {r},
         TakeOrder(r, k, n, client, end, here, far, there)
  PROVE  /\ \E c \in Conns : Active(r, k, c, here, far, there)'
         /\ \A q \in Racks : Busy(q)' => q = r
         /\ \A q \in Racks, p \in Ports : concluded'[q][p] \in {"open", concluded[q][p]}
         /\ UNCHANGED answers
<1>1. /\ order \in [Racks -> OrderRecords] /\ call \in [Conns -> Calls]
      /\ wire \in [Conns -> [caller : Seq(Msgs), callee : Seq(Msgs)]]
      /\ armed \in [Racks -> [Ports -> Cmds \cup {NotArmed}]] /\ outbox \in [Racks -> Seq(Reports)]
      /\ concluded \in [Racks -> [Ports -> {"open", "good", "bad"}]]
      /\ request \in [Orders -> Requests]
      /\ wiping = {} /\ \A q \in Racks : order[q] = Cleared /\ outbox[q] = <<>>
      /\ \A q \in Racks, p \in Ports : armed[q][p] = NotArmed
      /\ \A d \in Conns : call[d].at \in {"free", "kept"} /\ (call[d].fresh => wire[d].callee = <<>>)
  BY DEF Typed, OrdersTyped, CallsTyped, WireTyped, RestTyped, BoardsTypeOK, Quiet
<1>2. PICK m : m = ArmMsg(k, far, there)
  OBVIOUS
<1>3. m \in Msgs /\ m # NoMsg
  <2>1. there \in Ports \cup {NoPort} /\ NoLabel \in Labels \cup {NoLabel} /\ TRUE \in BOOLEAN
    OBVIOUS
  <2> QED
    BY <1>2, <2>1, MsgsTyped, BlankAssumption
<1>4. m.cmd = Cmd(k, "remote") /\ m.to = far /\ m.port = there
  BY <1>2 DEF ArmMsg, Msg, Cmd
<1>5. PICK o : o = [Cleared EXCEPT
       !.order_host = "this", !.server_sockfd = client, !.order_result = n, !.row = m,
       !.local_port = IF end = "A" THEN here ELSE there,
       !.jiajian_port = IF end = "A" THEN there ELSE here]
  OBVIOUS
<1>6. /\ o.order_result = n /\ o.row = m /\ o.incoming = NoMsg /\ o.connect_sockfd = NoSock
      /\ o.local_eid = NoLabel /\ o.jiajian_eid = NoLabel /\ o.local_stat = UNSET /\ o.jiajian_stat = UNSET
      /\ o.local_flag = "none" /\ o.jiajian_flag = "none"
  BY <1>5 DEF Cleared
<1>7. n # NoOrder /\ UNSET # EMPTY
  BY CommonAssumption DEF UNSET, EMPTY
<1>8. order'[r] = o /\ \A q \in Racks \ {r} : order'[q] = Cleared
  BY <1>1, <1>2, <1>5 DEF TakeOrder
<1>9. PICK f : f = Frame(ARM, here, k, "host")
  OBVIOUS
<1>10. f.op = ARM /\ f.port = here /\ f.cmd = Cmd(k, "host") /\ Write(r, f, outbox[r])
  BY <1>9 DEF TakeOrder, SendRoutine, Frame, Cmd
<1>11. /\ armed' = [armed EXCEPT ![r][here] = Cmd(k, "host")]
       /\ concluded' = [concluded EXCEPT ![r][here] = "open"]
       /\ outbox' = [outbox EXCEPT ![r] = outbox[r]]
  BY <1>10 DEF Write, ARM, CANCEL, CONFIRM, GUIDE, OUTPUT
<1>12. /\ \A q \in Racks : outbox'[q] = <<>>
       /\ \A q \in Racks, p \in Ports : armed'[q][p] = IF q = r /\ p = here THEN Cmd(k, "host") ELSE NotArmed
       /\ \A q \in Racks, p \in Ports : concluded'[q][p] \in {"open", concluded[q][p]}
  BY <1>1, <1>11
<1>13. PICK c \in Conns :
         /\ call' = [call EXCEPT ![c] = [at |-> "starting", from |-> r, to |-> r, fresh |-> FALSE, up |-> TRUE]]
         /\ wire' = [wire EXCEPT ![c] = [caller |-> <<>>, callee |-> <<>>]]
  BY DEF TakeOrder, SendRoutine, StartCall
<1>14. /\ call'[c].at = "starting" /\ call'[c].from = r /\ call'[c].up /\ ~call'[c].fresh
       /\ wire'[c].caller = <<>> /\ wire'[c].callee = <<>>
       /\ Len(wire'[c].caller) = 0 /\ Len(wire'[c].callee) = 0
       /\ \A d \in Conns \ {c} : call'[d] = call[d] /\ wire'[d] = wire[d]
  BY <1>1, <1>13
<1>15. \A q \in Racks : Len(outbox'[q]) = 0
  BY <1>12
<1>16. UNCHANGED <<wiping, answers>> /\ request' = [request EXCEPT ![n] =
         [host |-> r, here |-> here, far |-> far, there |-> there, client |-> client]]
  BY DEF TakeOrder
<1>17. \A q \in Racks \ {r} : order'[q].order_result = NoOrder /\ order'[q].connect_sockfd = NoSock /\ order'[q].incoming = NoMsg
  BY <1>8 DEF Cleared
<1>18. Parties(r, here, far, there)'
  BY <1>1, <1>6, <1>8, <1>16, <1>17 DEF Parties
<1>19. Lines(r, k, here, far, there)'
  BY <1>12, <1>15 DEF Lines, ReportsOf, Cmd
<1>20. Connections(r, c, far)'
  BY <1>1, <1>6, <1>8, <1>14, <1>17 DEF Connections
<1>21. Words(r, k, c, far, there)'
  BY <1>4, <1>6, <1>8, <1>14, <1>17 DEF Words, FromHost, FromFar, Cmd
<1>22. Early(r, c, far)'
  BY <1>3, <1>6, <1>7, <1>8, <1>12, <1>14, <1>15 DEF Early, EarlyOrder
<1>23. Agreed(r, k)'
  BY <1>6, <1>7, <1>8 DEF Agreed, AgreedWith
<1>24. ~Listens(r, c)'
  BY <1>6, <1>8, <1>14 DEF Listens
<1>25. Conclusions(r, c, here, far, there)'
  BY <1>6, <1>8, <1>14, <1>15 DEF Conclusions
<1>26. Active(r, k, c, here, far, there)'
  BY <1>18, <1>19, <1>20, <1>21, <1>22, <1>23, <1>24, <1>25 DEF Active
<1>27. \A q \in Racks : Busy(q)' => q = r
  BY <1>12, <1>17 DEF Busy, HostArmed, NotArmed
<1> QED
  BY <1>12, <1>16, <1>26, <1>27

(* A cancel by the asker of the order leaves no rack busy. *)
LEMMA CancelEnds ==
  ASSUME Typed, NEW r \in Racks, NEW k \in Kinds, NEW c \in Conns, NEW here \in Ports, NEW far \in Racks,
         NEW there \in Ports, Active(r, k, c, here, far, there), NEW k2 \in Kinds, TakeCancel(r, k2, here, there)
  PROVE  /\ \A q \in Racks : ~Busy(q)'
         /\ UNCHANGED <<concluded, answers, request, heard>>
<1>1. /\ order \in [Racks -> OrderRecords] /\ armed \in [Racks -> [Ports -> Cmds \cup {NotArmed}]]
      /\ Parties(r, here, far, there) /\ Lines(r, k, here, far, there)
  BY DEF Typed, OrdersTyped, BoardsTypeOK, Active
<1>2. PICK f : f = Frame(CANCEL, here, k2, "host")
  OBVIOUS
<1>3. f.op = CANCEL /\ f.port = here /\ Write(r, f, outbox[r])
  BY <1>2 DEF TakeCancel, SendRoutine, Frame
<1>4. /\ armed' = [armed EXCEPT ![r] = [p \in Ports |-> IF p = f.port THEN NotArmed ELSE @[p]]]
      /\ UNCHANGED concluded
  BY <1>3 DEF Write, ARM, CANCEL, CONFIRM, GUIDE, OUTPUT
<1>5. /\ armed'[r][here] = NotArmed /\ \A p \in Ports \ {here} : armed'[r][p] = armed[r][p]
      /\ \A q \in Racks \ {r} : armed'[q] = armed[q]
  BY <1>1, <1>3, <1>4
<1>6. \A q \in Racks, p \in Ports : armed'[q][p].role # "host"
  BY <1>1, <1>5 DEF Lines, Cmd, NotArmed
<1>7. r \in wiping' /\ \A q \in Racks \ {r} : order'[q].order_result = NoOrder
  BY <1>1 DEF TakeCancel, Parties
<1> QED
  BY <1>4, <1>6, <1>7 DEF Busy, HostArmed, TakeCancel

-----------------------------------------------------------------------------
(* What a host was told of, and who has asked for an order.                 *)
HostsKnown == \A n \in Orders : request[n] # NotAsked => request[n].host \in Racks

PatientInv == IInv /\ HeardTyped /\ HostsKnown /\ OrderInv

(* What a patient asker does. *)
PatientAsk(r, n, k, client, end, here, far, there) ==
  Quiet /\ TakeOrder(r, k, n, client, end, here, far, there)

PatientCancel(r, k, k2, c, here, far, there) ==
  Active(r, k, c, here, far, there) /\ TakeCancel(r, k2, here, there)

(* These are all there are. *)
LEMMA PatientSteps ==
  ASSUME PatientInv, PatientNext
  PROVE  \/ RunStep
         \/ \E r \in Racks, n \in Orders, k \in Kinds, client \in Clients \cup {Nobody}, end \in OwnEnds,
               here \in Ports, there \in Ports : \E far \in Racks \ {r} :
              PatientAsk(r, n, k, client, end, here, far, there)
         \/ \E r \in Racks, k \in Kinds, k2 \in Kinds, c \in Conns, here \in Ports, far \in Racks, there \in Ports :
              PatientCancel(r, k, k2, c, here, far, there)
<1>1. ASSUME NEW r \in Hosts, NEW n \in Orders, Quiet, Ask(r, n)
      PROVE  r \in Racks /\ \E k \in Kinds, client \in Clients \cup {Nobody}, end \in OwnEnds,
               here \in Ports, there \in Ports : \E far \in Racks \ {r} :
                 PatientAsk(r, n, k, client, end, here, far, there)
  <2>1. PICK client \in Askers, end \in OwnEnds, here \in Ports, there \in Ports, far \in Racks \ {r}, k \in Kinds :
          TakeOrder(r, k, n, client, end, here, far, there)
    BY <1>1 DEF Ask, RequestNew2, RequestDel2, Kinds
  <2> QED
    BY <1>1, <2>1, OrderAssumption DEF PatientAsk
<1>2. ASSUME NEW n \in Orders, InHand(n), NEW k2 \in Kinds,
             TakeCancel(request[n].host, k2, request[n].here, request[n].there)
      PROVE  \E r \in Racks, k \in Kinds, c \in Conns, here \in Ports, far \in Racks, there \in Ports :
               PatientCancel(r, k, k2, c, here, far, there)
  <2>1. PICK r : r = request[n].host
    OBVIOUS
  <2>2. r \in Racks /\ order[r].order_result = n /\ n # NoOrder /\ r \notin wiping
    BY <1>2, <2>1, CommonAssumption DEF PatientInv, HostsKnown, InHand, TakeCancel
  <2>3. PICK k \in Kinds, c \in Conns, here \in Ports, far \in Racks, there \in Ports :
          Active(r, k, c, here, far, there)
    BY <2>2 DEF PatientInv, OrderInv, Busy
  <2>4. request[n].here = here /\ request[n].there = there
    BY <2>2, <2>3 DEF Active, Parties
  <2> QED
    BY <1>2, <2>1, <2>2, <2>3, <2>4 DEF PatientCancel
<1>3. "new" \in Kinds /\ "del" \in Kinds
  BY DEF Kinds
<1>4. CASE \E n \in Orders : InHand(n) /\ LET q == request[n] IN
             \/ armed[q.host][q.here].kind = "new" /\ CancelNew2(q.host, q.here, q.there)
             \/ armed[q.host][q.here].kind = "del" /\ CancelDel2(q.host, q.here, q.there)
  <2>1. PICK n \in Orders, k2 \in Kinds :
          InHand(n) /\ TakeCancel(request[n].host, k2, request[n].here, request[n].there)
    BY <1>3, <1>4 DEF CancelNew2, CancelDel2
  <2> QED
    BY <1>2, <2>1
<1> QED
  BY <1>1, <1>4 DEF PatientNext, RunStep

(* A host is told what boards and racks can report. *)
LEMMA ToldTyped ==
  ASSUME HeardTyped, NEW r \in Racks, NEW end \in {"local", "jiajian"}, NEW what, NEW e \in Labels \cup {NoLabel},
         Told(r, end, what, e)
  PROVE  HeardTyped'
<1>1. PICK H : H = Labels \cup {NoLabel, "nothing", "some label"}
  OBVIOUS
<1>2. heard \in [Racks -> [local : H, jiajian : H]]
  BY <1>1 DEF HeardTyped
<1>3. Unheard \in [local : H, jiajian : H]
  BY <1>1 DEF Unheard
<1>4. CASE what \notin Movements
  <2>1. heard' = [heard EXCEPT ![r] = Unheard] \/ heard' = heard
    BY <1>2, <1>4 DEF Told
  <2> QED
    BY <1>1, <1>2, <1>3, <2>1 DEF HeardTyped
<1>5. CASE what \in Movements
  <2>1. PICK v : v = IF what = INSERTED THEN e ELSE IF what = REINSERTED THEN "some label" ELSE NoLabel
    OBVIOUS
  <2>2. v \in H
    BY <1>1, <2>1
  <2>3. heard' = [heard EXCEPT ![r][end] = v]
    BY <1>5, <2>1 DEF Told
  <2>4. CASE end = "local"
    <3>1. PICK t : t = [heard[r] EXCEPT !["local"] = v]
      OBVIOUS
    <3>2. t \in [local : H, jiajian : H]
      BY <1>2, <2>2, <3>1
    <3>3. heard' = [heard EXCEPT ![r] = t]
      BY <2>3, <2>4, <3>1
    <3> QED
      BY <1>1, <1>2, <3>2, <3>3 DEF HeardTyped
  <2>5. CASE end = "jiajian"
    <3>1. PICK t : t = [heard[r] EXCEPT !["jiajian"] = v]
      OBVIOUS
    <3>2. t \in [local : H, jiajian : H]
      BY <1>2, <2>2, <3>1
    <3>3. heard' = [heard EXCEPT ![r] = t]
      BY <2>3, <2>5, <3>1
    <3> QED
      BY <1>1, <1>2, <3>2, <3>3 DEF HeardTyped
  <2> QED
    BY <2>4, <2>5
<1> QED
  BY <1>4, <1>5

(* So it is after each handler, *)
LEMMA HandlerHeard ==
  ASSUME Typed, HeardTyped, NEW r \in Racks, HandleMessage(r) \/ Poll(r)
  PROVE  HeardTyped'
<1>1. "local" \in {"local", "jiajian"} /\ "jiajian" \in {"local", "jiajian"}
  OBVIOUS
<1>2. CASE HandleMessage(r)
  <2>1. PICK m : m = order[r].incoming
    OBVIOUS
  <2>2. m \in Msgs
    BY <1>2, <2>1 DEF HandleMessage, Typed, OrdersTyped, OrderRecords
  <2>3. PICK e \in Labels \cup {NoLabel} : e = m.label
    BY <2>2 DEF Msgs
  <2>4. Told(r, "jiajian", m.op, e) \/ heard' = heard
    BY <1>2, <2>1, <2>3 DEF HandleMessage
  <2> QED
    BY <1>1, <2>4, ToldTyped DEF HeardTyped
<1>3. CASE Poll(r)
  <2>1. PICK rep : rep = Head(outbox[r])
    OBVIOUS
  <2>2. rep \in Reports
    BY <1>3, <2>1, HeadTailProperties DEF Poll, Typed, BoardsTypeOK
  <2>3. PICK e \in Labels \cup {NoLabel} : e = rep.label
    BY <2>2 DEF Reports
  <2>4. Told(r, "local", rep.what, e) \/ heard' = heard
    BY <1>3, <2>1, <2>3 DEF Poll
  <2> QED
    BY <1>1, <2>4, ToldTyped DEF HeardTyped
<1> QED
  BY <1>2, <1>3

(* and after each of these steps. *)
LEMMA RunHeard ==
  ASSUME Typed, HeardTyped, RunStep
  PROVE  HeardTyped' /\ request' = request
<1>1. ASSUME NEW r, heard' = [heard EXCEPT ![r] = Unheard] \/ heard' = heard PROVE HeardTyped'
  <2>1. PICK H : H = [local : Labels \cup {NoLabel, "nothing", "some label"},
                      jiajian : Labels \cup {NoLabel, "nothing", "some label"}]
    OBVIOUS
  <2>2. heard \in [Racks -> H] /\ Unheard \in H
    BY <2>1 DEF HeardTyped, Unheard
  <2>3. heard' \in [Racks -> H]
    BY <1>1, <2>2
  <2> QED
    BY <2>1, <2>3 DEF HeardTyped
<1>2. ASSUME NEW r \in Racks, RackStep(r) PROVE HeardTyped' /\ request' = request
  <2>1. CASE Wipe(r)
    BY <1>1, <2>1 DEF Wipe
  <2>2. CASE HandleMessage(r) \/ Poll(r)
    BY <2>2, HandlerHeard DEF HandleMessage, Poll
  <2> QED
    BY <1>2, <2>1, <2>2 DEF RackStep
<1>3. CASE WorkerStep
  BY <1>1, <1>3 DEF WorkerStep, Move, commonVars
<1>4. CASE ThreadStep
  <2>1. ASSUME NEW d \in Conns, FirstMessage(d) PROVE HeardTyped' /\ request' = request
    BY <1>1, <2>1 DEF FirstMessage
  <2>2. ASSUME NEW d \in Conns, ConnectStep(d) PROVE heard' = heard /\ request' = request
    BY <2>2 DEF ConnectStep
  <2>3. ASSUME NEW r \in Racks, Receive(r) PROVE heard' = heard /\ request' = request
    BY <2>3 DEF Receive
  <2> QED
    BY <1>1, <1>4, <2>1, <2>2, <2>3 DEF ThreadStep
<1> QED
  BY <1>2, <1>3, <1>4 DEF RunStep

(* The values and the outcome of a step in between. *)
LEMMA RunOutcome ==
  ASSUME Typed, RunStep
  PROVE  Typed' /\ Outcome
BY StepOutcome DEF RunStep, Next

(* Every step of patient askers, racks, boards and workers keeps all of it. *)
LEMMA PatientKeeps ==
  ASSUME PatientInv, [PatientNext]_vars
  PROVE  PatientInv'
<1>1. Typed /\ HeardTyped
  BY DEF PatientInv, IInv
<1>2. ASSUME Typed' /\ Outcome PROVE IInv'
  BY <1>2, LampStep, AnswersStep DEF PatientInv, IInv
<1>3. CASE RunStep
  <2>1. IInv'
    BY <1>1, <1>2, <1>3, RunOutcome
  <2>2. HeardTyped' /\ HostsKnown'
    BY <1>1, <1>3, RunHeard DEF PatientInv, HostsKnown
  <2>3. ASSUME NEW h \in Racks, Busy(h)'
        PROVE  \E k \in Kinds, c \in Conns, here \in Ports, far \in Racks, there \in Ports :
                 Active(h, k, c, here, far, there)'
    <3>1. Busy(h)
      BY <1>1, <1>3, <2>3, StillBusy
    <3>2. PICK k \in Kinds, c \in Conns, here \in Ports, far \in Racks, there \in Ports :
            Active(h, k, c, here, far, there)
      BY <3>1 DEF PatientInv, OrderInv
    <3> QED
      BY <1>1, <1>3, <3>2, RunKeeps
  <2> QED
    BY <2>1, <2>2, <2>3 DEF PatientInv, OrderInv
<1>4. ASSUME NEW r \in Racks, NEW n \in Orders, NEW k \in Kinds, NEW client \in Clients \cup {Nobody}, NEW end \in OwnEnds,
             NEW here \in Ports, NEW there \in Ports, NEW far \in Racks \ {r},
             PatientAsk(r, n, k, client, end, here, far, there)
      PROVE  PatientInv'
  <2>1. Quiet /\ TakeOrder(r, k, n, client, end, here, far, there)
    BY <1>4 DEF PatientAsk
  <2>2. IInv'
    BY <1>1, <1>2, <2>1, TakenOutcome DEF Outcome
  <2>3. HeardTyped'
    <3>1. heard' = [heard EXCEPT ![r] = Unheard]
      BY <2>1 DEF TakeOrder
    <3> QED
      BY <1>1, <3>1 DEF HeardTyped, Unheard
  <2>4. HostsKnown'
    <3>1. request' = [request EXCEPT ![n] =
            [host |-> r, here |-> here, far |-> far, there |-> there, client |-> client]]
      BY <2>1 DEF TakeOrder
    <3> QED
      BY <1>1, <3>1 DEF PatientInv, HostsKnown, Typed, RestTyped
  <2>5. PICK c \in Conns : Active(r, k, c, here, far, there)'
    BY <1>1, <2>1, TakenActive
  <2>6. \A q \in Racks : Busy(q)' => q = r
    BY <1>1, <2>1, TakenActive
  <2>7. OrderInv'
    BY <2>5, <2>6 DEF OrderInv
  <2> QED
    BY <2>2, <2>3, <2>4, <2>7 DEF PatientInv
<1>5. ASSUME NEW r \in Racks, NEW k \in Kinds, NEW k2 \in Kinds, NEW c \in Conns, NEW here \in Ports, NEW far \in Racks,
             NEW there \in Ports, PatientCancel(r, k, k2, c, here, far, there)
      PROVE  PatientInv'
  <2>1. Active(r, k, c, here, far, there) /\ TakeCancel(r, k2, here, there)
    BY <1>5 DEF PatientCancel
  <2>2. IInv'
    BY <1>1, <1>2, <2>1, CancelledOutcome
  <2>3. (\A q \in Racks : ~Busy(q)') /\ UNCHANGED <<request, heard>>
    BY <1>1, <2>1, CancelEnds
  <2> QED
    BY <1>1, <2>2, <2>3 DEF PatientInv, HeardTyped, HostsKnown, OrderInv
<1>6. CASE UNCHANGED vars
  <2>1. UNCHANGED <<order, orderLed, wiping, call, wire, answers, request, heard, armed, tag, outbox, concluded>>
    BY <1>6 DEF vars, commonVars, boardVars
  <2>2. IInv'
    BY <1>1, <1>2, <1>6, StepOutcome
  <2>3. HeardTyped' /\ HostsKnown'
    BY <1>1, <2>1 DEF PatientInv, HeardTyped, HostsKnown
  <2>4. ASSUME NEW h \in Racks, Busy(h)'
        PROVE  \E k \in Kinds, c \in Conns, here \in Ports, far \in Racks, there \in Ports :
                 Active(h, k, c, here, far, there)'
    <3>1. Busy(h)
      BY <2>1, <2>4 DEF Busy, HostArmed
    <3>2. PICK k \in Kinds, c \in Conns, here \in Ports, far \in Racks, there \in Ports :
            Active(h, k, c, here, far, there)
      BY <3>1 DEF PatientInv, OrderInv
    <3>3. Active(h, k, c, here, far, there)'
      BY <2>1, <3>2 DEF Active, Parties, Lines, Connections, Words, Unaccepted, Early, Agreed, Listens, Stream,
         Conclusions, Done
    <3> QED
      BY <3>3
  <2> QED
    BY <2>2, <2>3, <2>4 DEF PatientInv, OrderInv
<1> QED
  BY <1>3, <1>4, <1>5, <1>6, PatientSteps

(* At first no rack is busy. *)
LEMMA PatientStarts == Init => PatientInv
<1> SUFFICES ASSUME Init PROVE PatientInv
  OBVIOUS
<1>1. HeardTyped /\ HostsKnown
  BY DEF Init, CommonInit, HeardTyped, Unheard, HostsKnown
<1>2. \A h \in Racks : order[h].order_result = NoOrder /\ \A p \in Ports : armed[h][p].role = "none"
  BY ClearedTyped DEF Init, CommonInit, BoardsInit, NotArmed
<1>3. OrderInv
  BY <1>2 DEF OrderInv, Busy, HostArmed
<1> QED
  BY <1>1, <1>3, InitIInv DEF PatientInv

(* The invariant holds in every state. *)
LEMMA PatientInvariant == PatientSpec => []PatientInv
<1>1. PatientInv /\ [PatientNext]_vars => PatientInv'
  BY PatientKeeps
<1> QED
  BY <1>1, PatientStarts, PTL DEF PatientSpec

-----------------------------------------------------------------------------
(* Boards conclude nothing in any other step, and nothing is answered.      *)
LEMMA OnlyHandlersConclude ==
  ASSUME PatientInv, PatientNext, NEW h \in Racks, NEW p \in Ports, concluded'[h][p] \notin {"open", concluded[h][p]}
  PROVE  HandleMessage(h) \/ Poll(h)
<1>1. Typed
  BY DEF PatientInv, IInv
<1>2. concluded \in [Racks -> [Ports -> {"open", "good", "bad"}]]
  BY <1>1 DEF Typed, BoardsTypeOK
<1>3. ASSUME NEW r \in Racks, HandleMessage(r) \/ Poll(r) PROVE r = h
  <2>1. PICK waiting : LineStep(r, waiting)
    BY <1>1, <1>3, Frugality DEF Frugal
  <2>2. PICK o \in Ports : Concludes(r, o, waiting)
    BY <2>1 DEF LineStep, Rests
  <2>3. PICK how : concluded' = [concluded EXCEPT ![r][o] = how]
    BY <2>2 DEF Concludes
  <2> QED
    BY <1>2, <2>3
<1>4. ASSUME NEW r \in Racks, Wipe(r) \/ Receive(r) PROVE FALSE
  BY <1>4 DEF Wipe, Receive, boardVars
<1>5. ASSUME NEW d \in Conns, ConnectStep(d) \/ FirstMessage(d) PROVE FALSE
  BY <1>1, <1>5, FirstArms DEF ConnectStep, boardVars
<1>6. CASE WorkerStep
  BY <1>6 DEF WorkerStep, Move, MoveLabel
<1>7. CASE RunStep
  BY <1>3, <1>4, <1>5, <1>6, <1>7 DEF RunStep, ThreadStep, RackStep
<1>8. ASSUME NEW r \in Racks, NEW n \in Orders, NEW k \in Kinds, NEW client \in Clients \cup {Nobody}, NEW end \in OwnEnds,
             NEW here \in Ports, NEW there \in Ports, NEW far \in Racks \ {r},
             PatientAsk(r, n, k, client, end, here, far, there)
      PROVE  FALSE
  BY <1>1, <1>8, TakenActive DEF PatientAsk
<1>9. ASSUME NEW r \in Racks, NEW k \in Kinds, NEW k2 \in Kinds, NEW c \in Conns, NEW here \in Ports, NEW far \in Racks,
             NEW there \in Ports, PatientCancel(r, k, k2, c, here, far, there)
      PROVE  FALSE
  BY <1>1, <1>9, CancelEnds DEF PatientCancel
<1> QED
  BY <1>7, <1>8, <1>9, PatientSteps

(* An answer comes from a handler of a rack with an order in hand. *)
LEMMA OnlyHandlersAnswer ==
  ASSUME PatientInv, PatientNext, answers' # answers
  PROVE  \E r \in Racks : (HandleMessage(r) \/ Poll(r)) /\ order[r].order_result # NoOrder /\ r \notin wiping
<1>1. Typed /\ AskersKnown
  BY DEF PatientInv, IInv, AnswersInv
<1>2. ASSUME NEW r \in Racks, HandleMessage(r) \/ Poll(r)
      PROVE  order[r].order_result # NoOrder /\ r \notin wiping
  <2>1. Answers(r) \/ GoesOn
    BY <1>1, <1>2, MessageHandled, PollHandled DEF Handled, Loses
  <2>2. order[r].server_sockfd # Nobody
    BY <2>1 DEF Answers, GoesOn
  <2> QED
    BY <1>1, <1>2, <2>2 DEF AskersKnown, Known, HandleMessage, Poll
<1>3. ASSUME NEW r \in Racks, Wipe(r) \/ Receive(r) PROVE FALSE
  BY <1>3 DEF Wipe, Receive
<1>4. ASSUME NEW d \in Conns, ConnectStep(d) \/ FirstMessage(d) PROVE FALSE
  BY <1>4 DEF ConnectStep, FirstMessage
<1>5. CASE WorkerStep
  BY <1>5 DEF WorkerStep, Move, commonVars
<1>6. CASE RunStep
  BY <1>2, <1>3, <1>4, <1>5, <1>6 DEF RunStep, ThreadStep, RackStep
<1>7. ASSUME NEW r \in Racks, NEW n \in Orders, NEW k \in Kinds, NEW client \in Clients \cup {Nobody}, NEW end \in OwnEnds,
             NEW here \in Ports, NEW there \in Ports, NEW far \in Racks \ {r},
             PatientAsk(r, n, k, client, end, here, far, there)
      PROVE  FALSE
  BY <1>1, <1>7, TakenActive DEF PatientAsk
<1>8. ASSUME NEW r \in Racks, NEW k \in Kinds, NEW k2 \in Kinds, NEW c \in Conns, NEW here \in Ports, NEW far \in Racks,
             NEW there \in Ports, PatientCancel(r, k, k2, c, here, far, there)
      PROVE  FALSE
  BY <1>1, <1>8, CancelEnds DEF PatientCancel
<1> QED
  BY <1>6, <1>7, <1>8, PatientSteps

(* The host's boards are told to conclude an order only while the last      *)
(* movements the host was told of both ends agree: messages and reports may *)
(* be late, but what it has recorded of either end is what it was told last.*)
THEOREM AgreementCorrect == PatientSpec => ConcludedOnAgreement
<1>1. ASSUME PatientInv, [PatientNext]_vars, NEW h \in Racks, NEW p \in Ports,
             concluded'[h][p] \notin {"open", concluded[h][p]}, armed[h][p].role = "host"
      PROVE  /\ heard'[h].local = heard'[h].jiajian
             /\ IF armed[h][p].kind = "new" THEN heard'[h].local \in Labels ELSE heard'[h].local = NoLabel
  <2>1. PatientNext
    BY <1>1 DEF vars, boardVars
  <2>2. HandleMessage(h) \/ Poll(h)
    BY <1>1, <2>1, OnlyHandlersConclude
  <2>3. PICK k \in Kinds, c \in Conns, here \in Ports, far \in Racks, there \in Ports :
          Active(h, k, c, here, far, there)
    BY <1>1 DEF PatientInv, OrderInv, Busy, HostArmed
  <2>4. armed[h][p].kind = k
    BY <1>1, <2>3 DEF Active, Lines, Cmd, NotArmed
  <2>5. concluded' # concluded
    BY <1>1
  <2>6. AgreedNow(h, k)'
    BY <1>1, <2>2, <2>3, <2>5, HostHandles DEF PatientInv, IInv
  <2> QED
    BY <2>4, <2>6 DEF AgreedNow
<1>2. PatientInv /\ [PatientNext]_vars =>
        [ \A r \in Racks, p \in Ports :
            concluded'[r][p] \notin {"open", concluded[r][p]} /\ armed[r][p].role = "host"
            => /\ heard'[r].local = heard'[r].jiajian
               /\ IF armed[r][p].kind = "new" THEN heard'[r].local \in Labels
                  ELSE heard'[r].local = NoLabel ]_vars
  BY <1>1
<1> QED
  BY <1>2, PatientInvariant, PTL DEF PatientSpec, ConcludedOnAgreement

(* An order is answered as done only when the boards of both racks have     *)
(* concluded the very ports it named, over one connection and through late  *)
(* messages: the second rack's conclusion is its own board's report.        *)
THEOREM SuccessCorrect == PatientSpec => SuccessMeansBoth
<1>1. ASSUME PatientInv, [PatientNext]_vars, NEW i \in DOMAIN answers' \ DOMAIN answers, answers'[i].ok
      PROVE  LET q == request[answers'[i].order]
             IN  concluded[q.host][q.here] = "good" /\ concluded[q.far][q.there] = "good"
  <2>1. answers' # answers /\ PatientNext
    BY <1>1 DEF vars, commonVars
  <2>2. PICK h \in Racks : (HandleMessage(h) \/ Poll(h)) /\ order[h].order_result # NoOrder /\ h \notin wiping
    BY <1>1, <2>1, OnlyHandlersAnswer
  <2>3. PICK k \in Kinds, c \in Conns, here \in Ports, far \in Racks, there \in Ports :
          Active(h, k, c, here, far, there)
    BY <1>1, <2>2 DEF PatientInv, OrderInv, Busy
  <2>4. AnsweredWell(h, here, far, there)
    BY <1>1, <2>2, <2>3, HostHandles DEF PatientInv, IInv
  <2>5. PICK n : n = order[h].order_result
    OBVIOUS
  <2>6. PICK ok \in BOOLEAN, to \in Clients :
          /\ answers' = Append(answers, [order |-> n, to |-> to, ok |-> ok])
          /\ ok => Done(h, here) /\ Done(far, there)
    BY <2>1, <2>4, <2>5 DEF AnsweredWell
  <2>7. n \in Orders
    BY <1>1, <2>2, <2>5 DEF PatientInv, IInv, Typed, OrdersTyped, OrderRecords
  <2>8. PICK a : a = [order |-> n, to |-> to, ok |-> ok]
    OBVIOUS
  <2>9. a \in [order : Orders, to : Clients, ok : BOOLEAN] /\ a.order = n /\ a.ok = ok
    BY <2>6, <2>7, <2>8
  <2>10. answers'[i] = a
    BY <1>1, <2>6, <2>8, <2>9, OneMore DEF PatientInv, IInv, AnswersInv, AnswersTyped
  <2>11. Done(h, here) /\ Done(far, there)
    BY <1>1, <2>6, <2>9, <2>10
  <2>12. request[n].host = h /\ request[n].here = here /\ request[n].far = far /\ request[n].there = there
    BY <2>2, <2>3, <2>5 DEF Active, Parties
  <2> QED
    BY <2>9, <2>10, <2>11, <2>12 DEF Done
<1>2. PatientInv /\ [PatientNext]_vars =>
        [ \A i \in DOMAIN answers' \ DOMAIN answers :
            answers'[i].ok => LET q == request[answers'[i].order]
                              IN  concluded[q.host][q.here] = "good" /\ concluded[q.far][q.there] = "good" ]_vars
  BY <1>1
<1> QED
  BY <1>2, PatientInvariant, PTL DEF PatientSpec, SuccessMeansBoth
=============================================================================
