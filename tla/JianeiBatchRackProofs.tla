----------------------- MODULE JianeiBatchRackProofs -----------------------
(***************************************************************************)
(* Batch orders with boards and worker, for any rack, any layouts and any  *)
(* number of batches one after the other: pairs are answered once, and     *)
(* with agreeing labels.                                                   *)
(***************************************************************************)
EXTENDS JianeiBatchProofs, JianeiBatchRack

(* What the boards know. *)
BoardsTyped ==
  /\ watched \in [Ports -> 0..MaxEntries]
  /\ due \subseteq Pairs \X Ports

EndPorts(i) == {ends["ydk"][i].port, ends["ddk"][i].port}

(* A port of the batch in hand is watched for a pair it is an end of, and   *)
(* a label is recorded only for the pair its port is or was watched for.   *)
WatchedInPlace ==
  \A s \in Sides, j \in Pairs :
    LET p == ends[s][j].port
    IN  /\ p # NoPort /\ watched[p] # 0 => p \in EndPorts(watched[p])
        /\ ends[s][j].eid # NoEid => p # NoPort /\ watched[p] \in {0, j}

(* A board that holds a result for a port watches it no more; its end has a *)
(* label, and no result yet.                                               *)
DueInPlace ==
  \A i \in Pairs, p \in Ports : <<i, p>> \in due =>
    /\ watched[p] = 0
    /\ ends = NoEnds \/ \E s \in EndsAt(i, p) : ends[s][i].eid # NoEid /\ ends[s][i].stat # CONCLUDED

(* An end with its result has a label, and neither is asked for nor due.    *)
DoneInPlace ==
  \A s \in Sides, i \in Pairs : ends[s][i].stat = CONCLUDED =>
    /\ ends[s][i].eid # NoEid
    /\ ends[s][i].port \in Ports
    /\ watched[ends[s][i].port] = 0
    /\ <<i, ends[s][i].port>> \notin due

(* A pair that was answered has both results. *)
AnsweredInPlace ==
  /\ batch.number \in used \cup {NoNumber}
  /\ \A k \in DOMAIN results :
       /\ results[k].number \in used
       /\ results[k].number = batch.number =>
            \A s \in Sides : ends[s][results[k].pair].stat = CONCLUDED

RackInv == BoardsTyped /\ WatchedInPlace /\ DueInPlace /\ DoneInPlace
FullInv == IInv /\ RackInv /\ AnsweredInPlace /\ PairAnsweredOnce

-----------------------------------------------------------------------------
(* The table of ends, and the frames of a step. *)

(* The types of the ends and the pairs of the batch. *)
LEMMA EndTyped ==
  ASSUME BatchTypeOK, NEW s \in Sides, NEW j \in Pairs
  PROVE  /\ ends[s][j] \in Ends
         /\ ends[s][j].port \in Ports \cup {NoPort}
         /\ j # 0
BY BoundAssumption DEF BatchTypeOK, Ends, Pairs

(* An empty table has neither ports nor labels nor results. *)
LEMMA NoEndsEmpty ==
  ASSUME NEW s \in Sides, NEW j \in Pairs
  PROVE  NoEnds[s][j].port = NoPort /\ NoEnds[s][j].eid = NoEid /\ NoEnds[s][j].stat = OFFLINE
BY DEF NoEnds, NoEnd

(* An end found at a port has that port; an end's port is found. *)
LEMMA EndsFound ==
  ASSUME NEW i \in Pairs, NEW p \in Ports
  PROVE  /\ EndsAt(i, p) \subseteq Sides
         /\ \A s \in EndsAt(i, p) : ends[s][i].port = p
         /\ \A s \in Sides : ends[s][i].port = p => EndsAt(i, p) # {}
BY DEF EndsAt, Sides

(* A request or a cancel sends frames of its own operation only. *)
LEMMA StagedFrames ==
  ASSUME NEW op, NEW l, NEW ok, Transmit(StageAll(op, l), ok)
  PROVE  \A f \in sent'.frames : f.op = op
BY DEF Transmit, Staged, StageAll, Frame

(* The pair a board is told for a port of a layout. *)
LEMMA IndexTyped ==
  ASSUME NEW l \in Layouts
  PROVE  /\ IndexIn(l) \in [Ports -> 0..MaxEntries]
         /\ \A p \in PortsOf(l) \cap Ports : /\ IndexIn(l)[p] \in DOMAIN l
                               /\ p \in {l[IndexIn(l)[p]].ydk, l[IndexIn(l)[p]].ddk}
<1>1. Len(l) \in 1..MaxEntries /\ DOMAIN l = 1..Len(l)
  BY LayoutAssumption
<1>2. DOMAIN l \subseteq 0..MaxEntries
  BY <1>1, BoundAssumption
<1>3. \A p \in PortsOf(l) : \E i \in DOMAIN l : p \in {l[i].ydk, l[i].ddk}
  BY DEF PortsOf
<1>4. \A p \in PortsOf(l) : /\ (CHOOSE i \in DOMAIN l : p \in {l[i].ydk, l[i].ddk}) \in DOMAIN l
                            /\ p \in {l[CHOOSE i \in DOMAIN l : p \in {l[i].ydk, l[i].ddk}].ydk,
                                      l[CHOOSE i \in DOMAIN l : p \in {l[i].ydk, l[i].ddk}].ddk}
  BY <1>3
<1>5. 0 \in 0..MaxEntries
  BY BoundAssumption
<1> QED
  BY <1>2, <1>4, <1>5 DEF IndexIn

(* A port of an acknowledged request is in a frame sent. *)
LEMMA StartedPorts ==
  ASSUME NEW l \in Layouts, NEW ok \in BOOLEAN, Transmit(StageAll(START, l), ok), NEW p \in PortsOf(l)
  PROVE  p \in Ports /\ p \in Told(sent'.frames, START)
<1>1. p \in Ports
  BY LayoutPorts DEF PortsOf
<1> DEFINE s == BoardOf[p] - 1
           mine == {q \in PortsOf(l) : BoardOf[q] = s + 1}
<1>2. BoardOf[p] \in 1..MaxBoard
  BY <1>1, RackAssumption
<1>3. s \in Slots /\ s + 1 = BoardOf[p]
  BY <1>2, BoundAssumption DEF Slots
<1>4. p \in mine
  BY <1>3
<1>5. StageAll(START, l)[s] = Frame(START, mine)
  BY <1>3, <1>4 DEF StageAll
<1>6. Frame(START, mine) \in Frames
  <2>1. PortsOf(l) \subseteq Ports
    BY LayoutPorts DEF PortsOf
  <2> QED
    BY <2>1, FrameType
<1>7. Frame(START, mine) \in sent'.frames
  BY <1>3, <1>5, <1>6, FrameAssumption DEF Transmit, Staged
<1>8. Frame(START, mine).op = START /\ p \in Frame(START, mine).ports
  BY <1>4 DEF Frame
<1> QED
  BY <1>1, <1>7, <1>8 DEF Told

-----------------------------------------------------------------------------
(* Fresh: what a request, a cancel or a reboot leaves at the boards.        *)

(* A table without labels and results keeps what is said of those. *)
LEMMA EmptyRack ==
  ASSUME BatchTypeOK', BoardsTyped', due' = {} \/ ends' = NoEnds,
         \A i \in Pairs, p \in Ports : <<i, p>> \in due' => watched'[p] = 0,
         \A s \in Sides, j \in Pairs : ends'[s][j].eid = NoEid /\ ends'[s][j].stat = OFFLINE,
         \A s \in Sides, j \in Pairs :
           ends'[s][j].port # NoPort /\ watched'[ends'[s][j].port] # 0
             => ends'[s][j].port \in {ends'["ydk"][watched'[ends'[s][j].port]].port,
                                      ends'["ddk"][watched'[ends'[s][j].port]].port}
  PROVE  RackInv'
<1>1. WatchedInPlace'
  BY DEF WatchedInPlace, EndPorts
<1>2. DueInPlace'
  BY DEF DueInPlace
<1>3. DoneInPlace'
  BY DEF DoneInPlace, OFFLINE, CONCLUDED
<1> QED
  BY <1>1, <1>2, <1>3 DEF RackInv

(* What the boards make of the frames of a request or a cancel. *)
LEMMA AskedBoards ==
  ASSUME BoardsTyped, NEW l \in Layouts, Boards(IndexIn(l)),
         \A f \in sent'.frames : f.op \in {START, WITHDRAW}
  PROVE  /\ BoardsTyped' /\ due' = due
         /\ \A p \in Ports : watched[p] = 0 /\ watched'[p] # 0 => p \in Told(sent'.frames, START)
         /\ sent'.acked => \A p \in Ports \cap Told(sent'.frames, START) : watched'[p] = IndexIn(l)[p]
<1>1. PICK heard \in SUBSET sent'.frames :
        /\ Hears(heard)
        /\ watched' = [p \in Ports |->
                     IF p \in Told(heard, START) THEN IndexIn(l)[p]
                     ELSE IF p \in Told(heard, WITHDRAW) \cup Told(heard, CONFIRM) THEN 0
                     ELSE watched[p]]
        /\ due' = due \cup {<<watched[p], p>> :
                          p \in {q \in Told(heard, CONFIRM) : watched[q] # 0}}
  BY DEF Boards
<1>2. Told(heard, CONFIRM) = {}
  BY <1>1 DEF Told, START, WITHDRAW, CONFIRM
<1>3. due' = due
  BY <1>1, <1>2
<1>4. watched' \in [Ports -> 0..MaxEntries]
  BY <1>1, IndexTyped, BoundAssumption DEF BoardsTyped
<1>5. Told(heard, START) \subseteq Told(sent'.frames, START)
  BY <1>1 DEF Told
<1>6. sent'.acked => heard = sent'.frames
  BY <1>1 DEF Hears
<1> QED
  BY <1>1, <1>3, <1>4, <1>5, <1>6 DEF BoardsTyped

(* A request, made when no board holds a result. *)
LEMMA RequestRack ==
  ASSUME IInv, FullInv, NEW n \in Numbers, NEW to \in Fds \cup {MOBILE}, NEW l \in Layouts,
         NEW mine \in BOOLEAN, Request(n, to, l, mine), Boards(IndexIn(l)), due = {}, IInv'
  PROVE  RackInv' /\ AnsweredInPlace' /\ PairAnsweredOnce'
<1>1. /\ n \notin used /\ used' = used \cup {n} /\ results' = results /\ batch'.number = n
  BY DEF Request
<1>2. AnsweredInPlace' /\ PairAnsweredOnce'
  BY <1>1 DEF FullInv, AnsweredInPlace, PairAnsweredOnce
<1>3. BatchTypeOK' /\ BoardsTyped
  BY DEF IInv, TypeOK, FullInv, RackInv
<1>4. CASE ~mine
  <2>1. ends' = NoEnds /\ sent' = Silence
    BY <1>4 DEF Request
  <2>2. \A f \in sent'.frames : f.op \in {START, WITHDRAW}
    BY <2>1 DEF Silence
  <2>3. BoardsTyped' /\ due' = {}
    BY <1>3, <2>2, AskedBoards
  <2>4. RackInv'
    BY <1>3, <2>1, <2>3, NoEndsEmpty, EmptyRack
  <2> QED
    BY <1>2, <2>4
<1>5. CASE mine
  <2>1. PICK ok \in BOOLEAN : /\ Transmit(StageAll(START, l), ok)
                              /\ ends' = IF ok THEN Recorded(l) ELSE NoEnds
    BY <1>5 DEF Request
  <2>2. \A f \in sent'.frames : f.op = START
    BY <2>1, StagedFrames
  <2>3. BoardsTyped' /\ due' = {}
    BY <1>3, <2>2, AskedBoards
  <2>4. CASE ~ok
    BY <1>2, <1>3, <2>1, <2>3, <2>4, NoEndsEmpty, EmptyRack
  <2>5. CASE ok
    <3>1. sent'.acked /\ ends' = Recorded(l)
      BY <2>1, <2>5 DEF Transmit
    <3>2. \A p \in PortsOf(l) : p \in Ports /\ watched'[p] = IndexIn(l)[p]
      BY <1>3, <2>1, <2>2, <3>1, StartedPorts, AskedBoards
    <3>3. \A s \in Sides, j \in Pairs : ends'[s][j] = IF j \in DOMAIN l THEN [NoEnd EXCEPT !.port = l[j][s]] ELSE NoEnd
      BY <3>1 DEF Recorded
    <3>4. \A s \in Sides, j \in Pairs :
            /\ ends'[s][j].eid = NoEid /\ ends'[s][j].stat = OFFLINE
            /\ ends'[s][j].port = IF j \in DOMAIN l THEN l[j][s] ELSE NoPort
      <4> SUFFICES ASSUME NEW s \in Sides, NEW j \in Pairs
                   PROVE  /\ ends'[s][j].eid = NoEid /\ ends'[s][j].stat = OFFLINE
                          /\ ends'[s][j].port = IF j \in DOMAIN l THEN l[j][s] ELSE NoPort
        OBVIOUS
      <4>1. CASE j \in DOMAIN l
        <5>1. ends'[s][j] = [port |-> l[j][s], eid |-> NoEid, stat |-> OFFLINE]
          BY <3>3, <4>1 DEF NoEnd
        <5> QED
          BY <4>1, <5>1
      <4>2. CASE ~ (j \in DOMAIN l)
        <5>1. ends'[s][j] = NoEnd
          BY <3>3, <4>2
        <5> QED
          BY <4>2, <5>1 DEF NoEnd
      <4> QED
        BY <4>1, <4>2
    <3>5. ASSUME NEW s \in Sides, NEW j \in Pairs, ends'[s][j].port # NoPort
          PROVE  ends'[s][j].port \in {ends'["ydk"][watched'[ends'[s][j].port]].port,
                                       ends'["ddk"][watched'[ends'[s][j].port]].port}
      <4>1. j \in DOMAIN l /\ ends'[s][j].port = l[j][s]
        BY <3>4, <3>5
      <4>2. PICK p : p = l[j][s]
        OBVIOUS
      <4>3. p \in PortsOf(l)
        BY <4>1, <4>2 DEF PortsOf, Sides
      <4>4. PICK i \in DOMAIN l : i = IndexIn(l)[p] /\ p \in {l[i].ydk, l[i].ddk}
        BY <4>3, <3>2, IndexTyped
      <4>5. i \in Pairs
        <5>1. Len(l) \in 1..MaxEntries /\ DOMAIN l = 1..Len(l)
          BY LayoutAssumption
        <5> QED
          BY <4>4, <5>1, BoundAssumption DEF Pairs
      <4>6. ends'["ydk"][i].port = p \/ ends'["ddk"][i].port = p
        BY <3>4, <4>4, <4>5 DEF Sides
      <4>7. watched'[p] = i
        BY <3>2, <4>3, <4>4
      <4> QED
        BY <4>1, <4>2, <4>6, <4>7
    <3>6. RackInv'
      BY <1>3, <2>3, <3>4, <3>5, EmptyRack
    <3> QED
      BY <1>2, <3>6
  <2> QED
    BY <2>4, <2>5
<1> QED
  BY <1>4, <1>5

(* A cleared batch: results may be due still. *)
LEMMA ClearedRack ==
  ASSUME FullInv, ClearBatch, UNCHANGED <<results, used>>, BoardsTyped', due' = due, BatchTypeOK',
         \A p \in Ports : watched[p] = 0 => watched'[p] = 0
  PROVE  RackInv' /\ AnsweredInPlace' /\ PairAnsweredOnce'
<1>1. ends' = NoEnds /\ batch'.number = NoNumber
  BY DEF ClearBatch
<1>2. \A i \in Pairs, p \in Ports : <<i, p>> \in due' => watched'[p] = 0
  BY DEF FullInv, RackInv, DueInPlace
<1>3. RackInv'
  BY <1>1, <1>2, NoEndsEmpty, EmptyRack
<1>4. \A k \in DOMAIN results : results[k].number # NoNumber
  <2> DEFINE R == [number : Numbers, pair : Pairs, reader : Numbers \cup {NoNumber, Elsewhere, MOBILE}]
  <2>1. results \in Seq(R)
    BY DEF FullInv, IInv, TypeOK, RestTypeOK
  <2>2. \A k \in DOMAIN results : results[k] \in R
    <3> HIDE DEF R
    <3> QED
      BY <2>1
  <2> QED
    BY <2>2, AskerAssumption
<1>5. AnsweredInPlace'
  BY <1>1, <1>4 DEF AnsweredInPlace, FullInv
<1> QED
  BY <1>3, <1>5 DEF FullInv, PairAnsweredOnce

(* A cancel withdraws the boards it names, and no batch is left. *)
LEMMA CancelRack ==
  ASSUME FullInv, NEW to \in Fds \cup {MOBILE}, NEW l \in Layouts, Cancel(to, l), Boards(IndexIn(l)), IInv'
  PROVE  RackInv' /\ AnsweredInPlace' /\ PairAnsweredOnce'
<1>1. ClearBatch /\ UNCHANGED <<results, used>>
  BY DEF Cancel
<1>2. \A f \in sent'.frames : f.op = WITHDRAW
  BY StagedFrames DEF Cancel
<1>3. BoardsTyped' /\ due' = due
  BY <1>2, AskedBoards DEF FullInv, RackInv
<1>4. Told(sent'.frames, START) = {}
  BY <1>2 DEF Told, START, WITHDRAW
<1>5. \A p \in Ports : watched[p] = 0 => watched'[p] = 0
  BY <1>2, <1>4, AskedBoards DEF FullInv, RackInv
<1> QED
  BY <1>1, <1>3, <1>5, ClearedRack DEF IInv, TypeOK

(* A reset leaves no batch either, and the boards as they are. *)
LEMMA RebootRack ==
  ASSUME FullInv, Reboot, IInv'
  PROVE  RackInv' /\ AnsweredInPlace' /\ PairAnsweredOnce'
<1>1. ClearBatch /\ UNCHANGED <<results, used, watched, due>>
  BY DEF Reboot, Restart
<1>2. BoardsTyped'
  BY <1>1 DEF FullInv, RackInv, BoardsTyped
<1> QED
  BY <1>1, <1>2, ClearedRack DEF IInv, TypeOK

-----------------------------------------------------------------------------
(* Labels put in and pulled out.                                            *)

(* What the boards make of the frames of a move: the ports told to conclude *)
(* are among C, and all of them have their labels.                         *)
LEMMA MovedBoards ==
  ASSUME BoardsTyped, Boards(watched), NEW C \in SUBSET Ports,
         \A f \in sent'.frames : f.op \in {GUIDE, REDIRECT, OUTPUT} \/ (f.op = CONFIRM /\ f.ports \subseteq C)
  PROVE  /\ BoardsTyped'
         /\ \A p \in Ports : watched'[p] \in {0, watched[p]}
         /\ \A k, p : <<k, p>> \in due' => <<k, p>> \in due \/ (p \in C /\ k = watched[p] /\ k # 0 /\ watched'[p] = 0)
<1>1. PICK heard \in SUBSET sent'.frames :
        /\ watched' = [p \in Ports |->
                     IF p \in Told(heard, START) THEN watched[p]
                     ELSE IF p \in Told(heard, WITHDRAW) \cup Told(heard, CONFIRM) THEN 0
                     ELSE watched[p]]
        /\ due' = due \cup {<<watched[p], p>> :
                          p \in {q \in Told(heard, CONFIRM) : watched[q] # 0}}
  BY DEF Boards
<1>2. Told(heard, CONFIRM) \subseteq C /\ Told(heard, START) = {} /\ Told(heard, WITHDRAW) = {}
  BY <1>1 DEF Told, START, WITHDRAW, CONFIRM, GUIDE, REDIRECT, OUTPUT
<1>3. watched' \in [Ports -> 0..MaxEntries] /\ \A p \in Ports : watched'[p] \in {0, watched[p]}
  BY <1>1, BoundAssumption DEF BoardsTyped
<1>4. ASSUME NEW k, NEW p, <<k, p>> \in due', <<k, p>> \notin due
      PROVE  p \in C /\ k = watched[p] /\ k # 0 /\ watched'[p] = 0
  <2>1. PICK q \in {x \in Told(heard, CONFIRM) : watched[x] # 0} : <<k, p>> = <<watched[q], q>>
    BY <1>1, <1>4
  <2>2. q = p /\ k = watched[p] /\ p \in Told(heard, CONFIRM) /\ k # 0
    BY <2>1
  <2> QED
    BY <1>1, <1>2, <2>2
<1>5. due' \subseteq Pairs \X Ports
  <2> SUFFICES ASSUME NEW x \in due' PROVE x \in Pairs \X Ports
    OBVIOUS
  <2>1. CASE x \in due
    BY <2>1 DEF BoardsTyped
  <2>2. CASE x \notin due
    <3>1. PICK q \in {y \in Told(heard, CONFIRM) : watched[y] # 0} : x = <<watched[q], q>>
      BY <1>1, <2>2
    <3>2. q \in Ports /\ watched[q] \in 0..MaxEntries /\ watched[q] # 0
      BY <1>2, <3>1 DEF BoardsTyped
    <3>3. watched[q] \in Pairs
      BY <3>2, BoundAssumption DEF Pairs
    <3> QED
      BY <3>1, <3>2, <3>3
  <2> QED
    BY <2>1, <2>2
<1> QED
  BY <1>3, <1>4, <1>5 DEF BoardsTyped

(* The table after a move at port p of pair i: one end at most has changed. *)
MovedEnds(i, p) ==
  \A s \in Sides, j \in Pairs :
    /\ ends'[s][j].port = ends[s][j].port
    /\ \/ ends'[s][j] = ends[s][j]
       \/ /\ j = i /\ ends[s][j].port = p
          /\ ends'[s][j].stat # CONCLUDED

(* A move keeps boards, labels and results in step. *)
LEMMA MoveRack ==
  ASSUME FullInv, NEW p \in Ports, watched[p] # 0, NEW i \in Pairs, i = watched[p], MovedEnds(i, p),
         BatchTypeOK', UNCHANGED <<batch, results, used>>, Boards(watched), NEW C \in SUBSET EndPorts(i),
         \A f \in sent'.frames : f.op \in {GUIDE, REDIRECT, OUTPUT} \/ (f.op = CONFIRM /\ f.ports \subseteq C),
         C # {} => \A s \in Sides : ends'[s][i].eid # NoEid
  PROVE  RackInv' /\ AnsweredInPlace' /\ PairAnsweredOnce'
<1>1. /\ BoardsTyped /\ WatchedInPlace /\ DueInPlace /\ DoneInPlace /\ AnsweredInPlace /\ BatchTypeOK
      /\ PairAnsweredOnce
  BY DEF FullInv, RackInv, IInv, TypeOK
<1>2. \A s \in Sides, j \in Pairs : ends'[s][j].eid # NoEid => ends[s][j].port \in Ports /\ watched[ends[s][j].port] \in {0, j}
  <2> SUFFICES ASSUME NEW s \in Sides, NEW j \in Pairs, ends'[s][j].eid # NoEid
               PROVE  ends[s][j].port \in Ports /\ watched[ends[s][j].port] \in {0, j}
    OBVIOUS
  <2>1. ends[s][j].port \in Ports \cup {NoPort}
    BY <1>1, EndTyped
  <2>2. CASE ends'[s][j] = ends[s][j]
    BY <1>1, <2>1, <2>2 DEF WatchedInPlace
  <2>3. CASE j = i /\ ends[s][j].port = p
    BY <2>3
  <2> QED
    BY <2>2, <2>3 DEF MovedEnds
<1>3. C \subseteq Ports
  <2> SUFFICES ASSUME NEW c \in C PROVE c \in Ports
    OBVIOUS
  <2>1. PICK s \in Sides : c = ends[s][i].port
    BY DEF EndPorts, Sides
  <2>2. ends'[s][i].eid # NoEid
    OBVIOUS
  <2> QED
    BY <1>2, <2>1, <2>2
<1>4. /\ BoardsTyped'
      /\ \A q \in Ports : watched'[q] \in {0, watched[q]}
      /\ \A k, q : <<k, q>> \in due' => <<k, q>> \in due \/ (q \in C /\ k = watched[q] /\ k # 0 /\ watched'[q] = 0)
  BY <1>1, <1>3, MovedBoards
<1>5. EndPorts(i)' = EndPorts(i) /\ \A j \in Pairs : {ends'["ydk"][j].port, ends'["ddk"][j].port} = EndPorts(j)
  BY DEF EndPorts, MovedEnds, Sides
<1>6. WatchedInPlace'
  <2> SUFFICES ASSUME NEW s \in Sides, NEW j \in Pairs
               PROVE  /\ ends'[s][j].port # NoPort /\ watched'[ends'[s][j].port] # 0
                           => ends'[s][j].port \in {ends'["ydk"][watched'[ends'[s][j].port]].port,
                                                   ends'["ddk"][watched'[ends'[s][j].port]].port}
                      /\ ends'[s][j].eid # NoEid
                           => ends'[s][j].port # NoPort /\ watched'[ends'[s][j].port] \in {0, j}
    BY DEF WatchedInPlace, EndPorts
  <2>1. PICK q : q = ends[s][j].port
    OBVIOUS
  <2>2. ends'[s][j].port = q /\ q \in Ports \cup {NoPort}
    BY <1>1, <2>1, EndTyped DEF MovedEnds
  <2>3. CASE q = NoPort
    BY <1>2, <2>1, <2>2, <2>3, RackAssumption
  <2>4. CASE q \in Ports
    <3>1. watched'[q] \in {0, watched[q]} /\ watched[q] \in 0..MaxEntries
      BY <1>1, <1>4, <2>4 DEF BoardsTyped
    <3>2. ASSUME watched'[q] # 0
          PROVE  q \in {ends'["ydk"][watched'[q]].port, ends'["ddk"][watched'[q]].port}
      <4>1. watched'[q] = watched[q] /\ watched[q] \in Pairs
        BY <3>1, <3>2, BoundAssumption DEF Pairs
      <4>2. q \in EndPorts(watched[q])
        BY <1>1, <2>1, <2>4, <3>2, <4>1, RackAssumption DEF WatchedInPlace
      <4> QED
        BY <1>5, <4>1, <4>2
    <3> QED
      BY <1>2, <2>1, <2>2, <2>4, <3>1, <3>2, RackAssumption
  <2> QED
    BY <2>2, <2>3, <2>4
<1>7. ASSUME NEW s \in Sides, NEW j \in Pairs, ends'[s][j].stat = CONCLUDED
      PROVE  /\ ends'[s][j] = ends[s][j] /\ ends[s][j].stat = CONCLUDED
             /\ ends[s][j].port \in Ports /\ watched[ends[s][j].port] = 0
             /\ ends[s][j].eid # NoEid /\ <<j, ends[s][j].port>> \notin due
  BY <1>1, <1>7 DEF MovedEnds, DoneInPlace
<1>8. DoneInPlace'
  <2> SUFFICES ASSUME NEW s \in Sides, NEW j \in Pairs, ends'[s][j].stat = CONCLUDED
               PROVE  /\ ends'[s][j].eid # NoEid /\ ends'[s][j].port \in Ports
                      /\ watched'[ends'[s][j].port] = 0 /\ <<j, ends'[s][j].port>> \notin due'
    BY DEF DoneInPlace
  <2>1. PICK q : q = ends[s][j].port
    OBVIOUS
  <2>2. ends'[s][j].port = q /\ q \in Ports /\ watched[q] = 0 /\ ends'[s][j].eid # NoEid /\ <<j, q>> \notin due
    BY <1>7, <2>1
  <2>3. watched'[q] = 0
    BY <1>4, <2>2
  <2>4. <<j, q>> \notin due'
    BY <1>4, <2>2, EndTyped, <1>1
  <2> QED
    BY <2>2, <2>3, <2>4
<1>9. DueInPlace'
  <2> SUFFICES ASSUME NEW k \in Pairs, NEW q \in Ports, <<k, q>> \in due'
               PROVE  /\ watched'[q] = 0
                      /\ ends' = NoEnds \/ \E s \in EndsAt(k, q)' : ends'[s][k].eid # NoEid /\ ends'[s][k].stat # CONCLUDED
    BY DEF DueInPlace
  <2>1. EndsAt(k, q)' = EndsAt(k, q)
    BY DEF EndsAt, MovedEnds, Sides
  <2>2. CASE <<k, q>> \in due
    <3>1. watched[q] = 0 /\ q # p
      BY <1>1, <2>2 DEF DueInPlace
    <3>2. watched'[q] = 0
      BY <1>4, <3>1
    <3>3. CASE ends = NoEnds
      <4>1. \A s \in Sides, j \in Pairs : ends'[s][j] = ends[s][j]
        BY <3>3, NoEndsEmpty, RackAssumption DEF MovedEnds
      <4>2. ends' = ends
        BY <1>1, <4>1 DEF BatchTypeOK
      <4> QED
        BY <3>2, <3>3, <4>2
    <3>4. CASE \E s \in EndsAt(k, q) : ends[s][k].eid # NoEid /\ ends[s][k].stat # CONCLUDED
      <4>1. PICK s \in EndsAt(k, q) : ends[s][k].eid # NoEid /\ ends[s][k].stat # CONCLUDED
        BY <3>4
      <4>2. s \in Sides /\ ends[s][k].port = q
        BY <4>1, EndsFound
      <4>3. ends'[s][k] = ends[s][k]
        BY <3>1, <4>2 DEF MovedEnds
      <4> QED
        BY <2>1, <3>2, <4>1, <4>3
    <3> QED
      BY <1>1, <2>2, <3>3, <3>4 DEF DueInPlace
  <2>3. CASE q \in C /\ k = watched[q] /\ k # 0 /\ watched'[q] = 0
    <3>1. PICK t \in Sides : q = ends[t][i].port
      BY <2>3 DEF EndPorts, Sides
    <3>2. \A s \in Sides : ends'[s][i].eid # NoEid
      BY <2>3
    <3>3. k = i
      BY <1>2, <2>3, <3>1, <3>2
    <3>4. PICK s \in EndsAt(i, q) : TRUE
      BY <3>1, EndsFound
    <3>5. s \in Sides /\ ends[s][i].port = q
      BY <3>4, EndsFound
    <3>6. ends'[s][i].stat # CONCLUDED
      BY <1>7, <2>3, <3>5
    <3> QED
      BY <2>1, <2>3, <3>2, <3>3, <3>4, <3>5, <3>6
  <2> QED
    BY <1>4, <2>2, <2>3
<1>10. AnsweredInPlace' /\ PairAnsweredOnce'
  <2>1. PairAnsweredOnce'
    BY <1>1 DEF PairAnsweredOnce
  <2>2. \A k \in DOMAIN results : results[k].pair \in Pairs
    <3> DEFINE R == [number : Numbers, pair : Pairs, reader : Numbers \cup {NoNumber, Elsewhere, MOBILE}]
    <3>1. results \in Seq(R)
      BY DEF FullInv, IInv, TypeOK, RestTypeOK
    <3>2. \A k \in DOMAIN results : results[k] \in R
      <4> HIDE DEF R
      <4> QED
        BY <3>1
    <3> QED
      BY <3>2
  <2>3. \A s \in Sides, j \in Pairs : ends[s][j].stat = CONCLUDED => ends'[s][j] = ends[s][j]
    <3> SUFFICES ASSUME NEW s \in Sides, NEW j \in Pairs, ends[s][j].stat = CONCLUDED
                 PROVE  ends'[s][j] = ends[s][j]
      OBVIOUS
    <3>1. watched[ends[s][j].port] = 0
      BY <1>1 DEF DoneInPlace
    <3>2. ends[s][j].port # p
      BY <3>1
    <3> QED
      BY <3>2 DEF MovedEnds
  <2> QED
    BY <1>1, <2>1, <2>2, <2>3 DEF AnsweredInPlace
<1> QED
  BY <1>4, <1>6, <1>8, <1>9, <1>10 DEF RackInv

(* Watched ports have a pair. *)
LEMMA WatchedPair ==
  ASSUME BoardsTyped, NEW p \in Ports, watched[p] # 0
  PROVE  watched[p] \in Pairs
BY BoundAssumption DEF BoardsTyped, Pairs

(* The frames staged for a label put in; confirms go to both ends of a pair *)
(* whose labels agree.                                                     *)
LEMMA InsertedFrames ==
  ASSUME NEW i \in Pairs, NEW p \in Ports, NEW e \in Eids, Inserted(i, p, e),
         NEW C, C = IF ~Misplaced(i, e) /\ PairAgrees(AfterInsert(i, p, e), i) THEN EndPorts(i) ELSE {}
  PROVE  \A f \in sent'.frames : f.op \in {GUIDE, REDIRECT, OUTPUT} \/ (f.op = CONFIRM /\ f.ports \subseteq C)
<1>1. CASE Misplaced(i, e)
  <2>1. PICK ok \in BOOLEAN : Transmit(GuideStage(i, p, e), ok)
    BY <1>1 DEF Inserted, TransmitOrFail
  <2>2. \A s \in Slots : GuideStage(i, p, e)[s] = NoFrame \/ GuideStage(i, p, e)[s].op = GUIDE
    BY DEF GuideStage, Stage, NoFrames, Frame
  <2> QED
    BY <2>1, <2>2 DEF Transmit, Staged
<1> DEFINE tx == RedirectStage(i, p, e)
<1>2. DOMAIN tx = Slots /\ \A s \in Slots : tx[s] = NoFrame \/ tx[s].op = REDIRECT
  BY DEF RedirectStage, Frame
<1>3. CASE ~Misplaced(i, e) /\ ~PairAgrees(AfterInsert(i, p, e), i)
  <2>1. PICK ok \in BOOLEAN : Transmit(tx, ok)
    BY <1>3 DEF Inserted, TransmitOrFail
  <2> HIDE DEF tx
  <2> QED
    BY <1>2, <2>1 DEF Transmit, Staged
<1>4. CASE ~Misplaced(i, e) /\ PairAgrees(AfterInsert(i, p, e), i)
  <2>1. PICK ok \in BOOLEAN : Transmit(ConfirmStage(tx, i), ok)
    BY <1>4 DEF Inserted, TransmitOrFail
  <2> HIDE DEF tx
  <2>2. \A s \in Slots : \/ ConfirmStage(tx, i)[s] = tx[s]
                         \/ /\ ConfirmStage(tx, i)[s].op = CONFIRM
                            /\ ConfirmStage(tx, i)[s].ports \subseteq EndPorts(i)
    BY <1>2 DEF ConfirmStage, Stage, Frame, EndPorts
  <2> QED
    BY <1>2, <1>4, <2>1, <2>2 DEF Transmit, Staged
<1> QED
  BY <1>1, <1>3, <1>4

(* The worker puts a label in at a port that is watched, *)
LEMMA PutInRack ==
  ASSUME FullInv, NEW p \in Ports, NEW e \in Eids, PutIn(p, e), IInv'
  PROVE  RackInv' /\ AnsweredInPlace' /\ PairAnsweredOnce'
<1>1. /\ watched[p] # 0 /\ Inserted(watched[p], p, e) /\ Boards(watched)
      /\ BoardsTyped /\ BatchTypeOK /\ BatchTypeOK'
  BY DEF PutIn, FullInv, RackInv, IInv, TypeOK
<1>2. PICK i \in Pairs : i = watched[p]
  BY <1>1, WatchedPair
<1>3. UNCHANGED <<batch, results, used>>
  BY <1>1 DEF Inserted
<1>8. PICK C : C = IF ~Misplaced(i, e) /\ PairAgrees(AfterInsert(i, p, e), i) THEN EndPorts(i) ELSE {}
  OBVIOUS
<1>4. MovedEnds(i, p)
  <2>1. CASE ends' = ends
    BY <2>1 DEF MovedEnds
  <2>2. CASE ends' = AfterInsert(i, p, e)
    <3> SUFFICES ASSUME NEW s \in Sides, NEW j \in Pairs
                 PROVE  /\ ends'[s][j].port = ends[s][j].port
                        /\ \/ ends'[s][j] = ends[s][j]
                           \/ j = i /\ ends[s][j].port = p /\ ends'[s][j].stat # CONCLUDED
      BY DEF MovedEnds
    <3>1. CASE s \in EndsAt(i, p) /\ Kept(s, i, e)
      <4>1. ends'[s] = [ends[s] EXCEPT ![i] = [@ EXCEPT !.eid = e, !.stat = ONLINE]]
        BY <2>2, <3>1 DEF AfterInsert
      <4>2. ends[s] \in [Pairs -> Ends] /\ ends[s][i] \in Ends
        BY <1>1 DEF BatchTypeOK
      <4>3. ends'[s][j] = IF j = i THEN [ends[s][i] EXCEPT !.eid = e, !.stat = ONLINE] ELSE ends[s][j]
        BY <4>1, <4>2
      <4>4. LET r == [ends[s][i] EXCEPT !.eid = e, !.stat = ONLINE]
            IN  r.port = ends[s][i].port /\ r.stat = ONLINE
        BY <4>2 DEF Ends
      <4>5. ends[s][i].port = p
        BY <3>1, EndsFound
      <4> QED
        BY <4>3, <4>4, <4>5 DEF ONLINE, CONCLUDED
    <3>2. CASE ~(s \in EndsAt(i, p) /\ Kept(s, i, e))
      BY <2>2, <3>2 DEF AfterInsert
    <3> QED
      BY <3>1, <3>2
  <2> QED
    BY <1>1, <1>2, <2>1, <2>2 DEF Inserted
<1>5. \A f \in sent'.frames : f.op \in {GUIDE, REDIRECT, OUTPUT} \/ (f.op = CONFIRM /\ f.ports \subseteq C)
  BY <1>1, <1>2, <1>8, InsertedFrames
<1>6. C # {} => \A s \in Sides : ends'[s][i].eid # NoEid
  <2> SUFFICES ASSUME C # {} PROVE \A s \in Sides : ends'[s][i].eid # NoEid
    OBVIOUS
  <2>1. ends' = AfterInsert(i, p, e) /\ PairAgrees(ends', i)
    BY <1>1, <1>2, <1>8 DEF Inserted
  <2>2. ends'["ydk"][i].eid \in Eids /\ Checked[ends'["ydk"][i].eid] = Checked[ends'["ddk"][i].eid]
    BY <1>1, <2>1 DEF PairAgrees, BatchTypeOK, Ends, Sides
  <2>3. ends'["ddk"][i].eid # NoEid
    BY <2>2, LabelAssumption
  <2> QED
    BY <2>2, <2>3, LabelAssumption DEF Sides
<1>7. C \in SUBSET EndPorts(i)
  BY <1>8
<1> QED
  BY <1>1, <1>2, <1>3, <1>4, <1>5, <1>6, <1>7, MoveRack

(* or takes one out. *)
LEMMA TakeOutRack ==
  ASSUME FullInv, NEW p \in Ports, TakeOut(p), IInv'
  PROVE  RackInv' /\ AnsweredInPlace' /\ PairAnsweredOnce'
<1>1. /\ watched[p] # 0 /\ PulledBack(watched[p], p) /\ Boards(watched)
      /\ BoardsTyped /\ BatchTypeOK /\ BatchTypeOK'
  BY DEF TakeOut, FullInv, RackInv, IInv, TypeOK
<1>2. PICK i \in Pairs : i = watched[p]
  BY <1>1, WatchedPair
<1>3. UNCHANGED <<batch, results, used>> /\ ends' = AfterPull(i, p)
  BY <1>1, <1>2 DEF PulledBack
<1>4. MovedEnds(i, p)
  <2> SUFFICES ASSUME NEW s \in Sides, NEW j \in Pairs
               PROVE  /\ ends'[s][j].port = ends[s][j].port
                      /\ \/ ends'[s][j] = ends[s][j]
                         \/ j = i /\ ends[s][j].port = p /\ ends'[s][j].stat # CONCLUDED
    BY DEF MovedEnds
  <2>1. CASE s \in EndsAt(i, p)
    <3>1. ends'[s] = [ends[s] EXCEPT ![i] = [@ EXCEPT !.eid = NoEid, !.stat = OFFLINE]]
      BY <1>3, <2>1 DEF AfterPull
    <3>2. ends[s] \in [Pairs -> Ends] /\ ends[s][i] \in Ends
      BY <1>1 DEF BatchTypeOK
    <3>3. ends'[s][j] = IF j = i THEN [ends[s][i] EXCEPT !.eid = NoEid, !.stat = OFFLINE] ELSE ends[s][j]
      BY <3>1, <3>2
    <3>4. LET r == [ends[s][i] EXCEPT !.eid = NoEid, !.stat = OFFLINE]
          IN  r.port = ends[s][i].port /\ r.stat = OFFLINE
      BY <3>2 DEF Ends
    <3>5. ends[s][i].port = p
      BY <2>1, EndsFound
    <3> QED
      BY <3>3, <3>4, <3>5 DEF OFFLINE, CONCLUDED
  <2>2. CASE s \notin EndsAt(i, p)
    BY <1>3, <2>2 DEF AfterPull
  <2> QED
    BY <2>1, <2>2
<1>6. PICK C \in SUBSET EndPorts(i) : C = {}
  <2>1. {} \in SUBSET EndPorts(i)
    OBVIOUS
  <2> QED
    BY <2>1
<1>5. \A f \in sent'.frames : f.op \in {GUIDE, REDIRECT, OUTPUT} \/ (f.op = CONFIRM /\ f.ports \subseteq C)
  <2>1. CASE sent' = Silence
    BY <2>1 DEF Silence
  <2>2. CASE TransmitOrFail(OutputStage(i))
    <3>1. PICK ok \in BOOLEAN : Transmit(OutputStage(i), ok)
      BY <2>2 DEF TransmitOrFail
    <3>2. \A s \in Slots : OutputStage(i)[s] = NoFrame \/ OutputStage(i)[s].op = OUTPUT
      BY DEF OutputStage, Stage, NoFrames, Frame
    <3> QED
      BY <3>1, <3>2 DEF Transmit, Staged
  <2> QED
    BY <1>1, <1>2, <2>1, <2>2 DEF PulledBack
<1> QED
  BY <1>1, <1>2, <1>3, <1>4, <1>5, <1>6, MoveRack

-----------------------------------------------------------------------------
(* The results of the boards.                                               *)

(* A report changes the status of the end at its port alone. *)
LEMMA ReportedEnds ==
  ASSUME BatchTypeOK, NEW i \in Pairs, NEW p \in Ports, NEW good \in BOOLEAN
  PROVE  /\ \A s \in Sides, j \in Pairs :
              /\ AfterConclude(i, p, good)[s][j].port = ends[s][j].port
              /\ AfterConclude(i, p, good)[s][j].eid = ends[s][j].eid
              /\ \/ AfterConclude(i, p, good)[s][j] = ends[s][j]
                 \/ j = i /\ s \in EndsAt(i, p)
         /\ EndsAt(i, p) = {} => AfterConclude(i, p, good) = ends
<1> DEFINE en == AfterConclude(i, p, good)
           stat == IF good THEN CONCLUDED ELSE FAILED
<1>1. ASSUME NEW s \in Sides, NEW j \in Pairs
      PROVE  /\ en[s][j].port = ends[s][j].port
             /\ en[s][j].eid = ends[s][j].eid
             /\ en[s][j] = ends[s][j] \/ (j = i /\ s \in EndsAt(i, p))
  <2>1. CASE s \in EndsAt(i, p)
    <3>1. en[s] = [ends[s] EXCEPT ![i].stat = stat]
      BY <2>1 DEF AfterConclude
    <3>2. ends[s] \in [Pairs -> Ends] /\ ends[s][i] \in Ends
      BY DEF BatchTypeOK
    <3>3. en[s][j] = IF j = i THEN [ends[s][i] EXCEPT !.stat = stat] ELSE ends[s][j]
      BY <3>1, <3>2
    <3>4. LET r == [ends[s][i] EXCEPT !.stat = stat]
          IN  r.port = ends[s][i].port /\ r.eid = ends[s][i].eid
      BY <3>2 DEF Ends
    <3> QED
      BY <2>1, <3>3, <3>4
  <2>2. CASE s \notin EndsAt(i, p)
    BY <2>2 DEF AfterConclude
  <2> QED
    BY <2>1, <2>2
<1>2. ASSUME EndsAt(i, p) = {} PROVE en = ends
  BY <1>2 DEF AfterConclude, BatchTypeOK
<1> QED
  BY <1>1, <1>2

(* A board only reports an end that has a label; one end at most is found. *)
LEMMA ReportDue ==
  ASSUME FullInv, NEW i \in Pairs, NEW p \in Ports, <<i, p>> \in due
  PROVE  /\ watched[p] = 0
         /\ ends = NoEnds => EndsAt(i, p) = {}
         /\ \A s \in EndsAt(i, p) : ends[s][i].eid # NoEid /\ ends[s][i].stat # CONCLUDED
         /\ \E s \in Sides : ends[s][i].stat # CONCLUDED
<1>1. DueInPlace
  BY DEF FullInv, RackInv
<1>2. ASSUME ends = NoEnds PROVE EndsAt(i, p) = {}
  BY <1>2, NoEndsEmpty, RackAssumption, EndsFound
<1>3. \A s, t \in EndsAt(i, p) : s = t
  BY DEF EndsAt
<1>4. ASSUME ends = NoEnds PROVE \E s \in Sides : ends[s][i].stat # CONCLUDED
  BY <1>4, NoEndsEmpty DEF Sides, OFFLINE, CONCLUDED
<1> QED
  BY <1>1, <1>2, <1>3, <1>4, EndsFound DEF DueInPlace

(* Boards and labels stay in step when a result is taken from a board. *)
LEMMA ReportedRack ==
  ASSUME FullInv, NEW i \in Pairs, NEW p \in Ports, <<i, p>> \in due, NEW good \in BOOLEAN,
         due' = due \ {<<i, p>>}, watched' = watched,
         ends' = ends \/ ends' = AfterConclude(i, p, good)
  PROVE  RackInv'
<1>1. BoardsTyped /\ WatchedInPlace /\ DueInPlace /\ DoneInPlace /\ BatchTypeOK
  BY DEF FullInv, RackInv, IInv, TypeOK
<1>2. /\ watched[p] = 0
      /\ ends = NoEnds => EndsAt(i, p) = {}
      /\ \A s \in EndsAt(i, p) : ends[s][i].eid # NoEid
  BY ReportDue
<1>3. \A s \in Sides, j \in Pairs :
        /\ ends'[s][j].port = ends[s][j].port /\ ends'[s][j].eid = ends[s][j].eid
        /\ ends'[s][j] = ends[s][j] \/ (j = i /\ s \in EndsAt(i, p))
  BY <1>1, ReportedEnds
<1>4. ends = NoEnds => ends' = NoEnds
  BY <1>1, <1>2, ReportedEnds
<1>5. BoardsTyped'
  BY <1>1 DEF BoardsTyped
<1>6. WatchedInPlace'
  <2> SUFFICES ASSUME NEW s \in Sides, NEW j \in Pairs
               PROVE  LET q == ends[s][j].port
                      IN  /\ q # NoPort /\ watched[q] # 0
                               => q \in {ends'["ydk"][watched[q]].port, ends'["ddk"][watched[q]].port}
                          /\ ends[s][j].eid # NoEid => q # NoPort /\ watched[q] \in {0, j}
    BY <1>3 DEF WatchedInPlace, EndPorts
  <2>1. PICK q : q = ends[s][j].port
    OBVIOUS
  <2>2. q \in Ports \cup {NoPort}
    BY <1>1, <2>1, EndTyped
  <2>3. ASSUME q # NoPort, watched[q] # 0
        PROVE  q \in {ends'["ydk"][watched[q]].port, ends'["ddk"][watched[q]].port}
    <3>1. watched[q] \in Pairs
      BY <1>1, <2>2, <2>3, WatchedPair
    <3>2. PICK j0 \in Pairs : j0 = watched[q]
      BY <3>1
    <3>3. q \in {ends["ydk"][j0].port, ends["ddk"][j0].port}
      BY <1>1, <2>1, <2>3, <3>2 DEF WatchedInPlace, EndPorts
    <3>4. ends'["ydk"][j0].port = ends["ydk"][j0].port /\ ends'["ddk"][j0].port = ends["ddk"][j0].port
      BY <1>3 DEF Sides
    <3> QED
      BY <3>2, <3>3, <3>4
  <2> QED
    BY <1>1, <2>1, <2>3 DEF WatchedInPlace
<1>7. DueInPlace'
  <2> SUFFICES ASSUME NEW k \in Pairs, NEW q \in Ports, <<k, q>> \in due'
               PROVE  /\ watched[q] = 0
                      /\ ends' = NoEnds \/ \E s \in EndsAt(k, q)' : ends'[s][k].eid # NoEid /\ ends'[s][k].stat # CONCLUDED
    BY DEF DueInPlace
  <2>1. <<k, q>> \in due /\ <<k, q>> # <<i, p>>
    OBVIOUS
  <2>2. EndsAt(k, q)' = EndsAt(k, q)
    BY <1>3 DEF EndsAt, Sides
  <2>3. ASSUME NEW s \in EndsAt(k, q), ends[s][k].eid # NoEid, ends[s][k].stat # CONCLUDED
        PROVE  ends'[s][k] = ends[s][k]
    <3>1. s \in Sides /\ ends[s][k].port = q
      BY EndsFound
    <3>2. k = i => s \notin EndsAt(i, p)
      BY <2>1, <3>1, EndsFound
    <3> QED
      BY <1>3, <3>1, <3>2
  <2> QED
    BY <1>1, <1>4, <2>1, <2>2, <2>3 DEF DueInPlace
<1>8. DoneInPlace'
  <2> SUFFICES ASSUME NEW s \in Sides, NEW j \in Pairs, ends'[s][j].stat = CONCLUDED
               PROVE  /\ ends[s][j].eid # NoEid /\ ends[s][j].port \in Ports
                      /\ watched[ends[s][j].port] = 0 /\ <<j, ends[s][j].port>> \notin due'
    BY <1>3 DEF DoneInPlace
  <2>1. CASE ends'[s][j] = ends[s][j]
    BY <1>1, <2>1 DEF DoneInPlace
  <2>2. CASE j = i /\ s \in EndsAt(i, p)
    BY <1>2, <2>2, EndsFound
  <2> QED
    BY <1>3, <2>1, <2>2
<1> QED
  BY <1>5, <1>6, <1>7, <1>8 DEF RackInv

(* An answered pair is done, and a pair with a result due is not. *)
LEMMA NotAnswered ==
  ASSUME FullInv, NEW i \in Pairs, NEW p \in Ports, <<i, p>> \in due,
         NEW k \in DOMAIN results, results[k].number = batch.number
  PROVE  results[k].pair # i
BY ReportDue DEF FullInv, AnsweredInPlace

(* The answer to a pair is added once. *)
LEMMA ReportAnswers ==
  ASSUME FullInv, NEW i \in Pairs, NEW p \in Ports, Report(i, p), IInv'
  PROVE  AnsweredInPlace' /\ PairAnsweredOnce'
<1>1. PICK good \in BOOLEAN : Concluded(i, p, good)
  BY DEF Report
<1> DEFINE en == AfterConclude(i, p, good)
<1>2. /\ <<i, p>> \in due /\ used' = used
      /\ AnsweredInPlace /\ PairAnsweredOnce /\ BatchTypeOK
  BY <1>1 DEF Report, Concluded, FullInv, IInv, TypeOK
<1>3. \A s \in Sides, j \in Pairs : ends[s][j].stat = CONCLUDED /\ j # i => en[s][j].stat = CONCLUDED
  BY <1>2, ReportedEnds
<1>4. \A k \in DOMAIN results : results[k].number = batch.number => results[k].pair # i
  BY <1>2, NotAnswered
<1> DEFINE R == [number : Numbers, pair : Pairs, reader : Numbers \cup {NoNumber, Elsewhere, MOBILE}]
<1>5. results \in Seq(R) /\ results' \in Seq(R)
  BY DEF FullInv, IInv, TypeOK, RestTypeOK
<1>6. /\ \A k \in DOMAIN results : results[k].pair \in Pairs /\ results[k].number # NoNumber
      /\ \A k \in DOMAIN results' : results'[k].number # NoNumber
  <2>1. /\ \A k \in DOMAIN results : results[k] \in R
        /\ \A k \in DOMAIN results' : results'[k] \in R
    <3> HIDE DEF R
    <3> QED
      BY <1>5
  <2> QED
    BY <2>1, AskerAssumption
<1>7. CASE results' = results /\ batch' = batch /\ (ends' = ends \/ ends' = en)
  BY <1>2, <1>3, <1>4, <1>6, <1>7 DEF AnsweredInPlace, PairAnsweredOnce
<1>8. CASE results' = results /\ batch'.number = NoNumber
  BY <1>2, <1>6, <1>8 DEF AnsweredInPlace, PairAnsweredOnce
<1>9. CASE /\ results' = Append(results, Result(i))
           /\ batch.number # NoNumber
           /\ {en[s][i].stat : s \in Sides} = {CONCLUDED}
           /\ (batch' = batch /\ ends' = en) \/ batch'.number = NoNumber
  <2>1. Result(i).number = batch.number /\ Result(i).pair = i
    BY DEF Result
  <2>2. /\ DOMAIN results' = 1..(Len(results) + 1)
        /\ DOMAIN results = 1..Len(results)
        /\ \A k \in DOMAIN results : results'[k] = results[k]
        /\ results'[Len(results) + 1] = Result(i)
        /\ Len(results) \in Nat
    <3> HIDE DEF R
    <3> QED
      BY <1>5, <1>9
  <2>3. \A k \in DOMAIN results' : k \in DOMAIN results \/ k = Len(results) + 1
    BY <2>2
  <2>4. PairAnsweredOnce'
    BY <1>2, <1>4, <2>1, <2>2, <2>3 DEF PairAnsweredOnce
  <2>5. \A s \in Sides : en[s][i].stat = CONCLUDED
    BY <1>9
  <2>6. \A k \in DOMAIN results' : results'[k].number \in used
    BY <1>2, <1>9, <2>1, <2>2, <2>3 DEF AnsweredInPlace
  <2>7. ASSUME NEW k \in DOMAIN results', results'[k].number = batch'.number, NEW s \in Sides
        PROVE  ends'[s][results'[k].pair].stat = CONCLUDED
    <3>1. batch' = batch /\ ends' = en
      BY <1>6, <1>9, <2>7
    <3>2. CASE k \in DOMAIN results
      <4>1. results'[k] = results[k] /\ ends[s][results[k].pair].stat = CONCLUDED
        BY <1>2, <2>2, <2>7, <3>1, <3>2 DEF AnsweredInPlace
      <4>2. results[k].pair \in Pairs /\ results[k].pair # i
        BY <1>4, <1>6, <2>7, <3>1, <3>2, <4>1
      <4> QED
        BY <1>3, <3>1, <4>1, <4>2
    <3>3. CASE k = Len(results) + 1
      BY <2>1, <2>2, <2>5, <3>1, <3>3
    <3> QED
      BY <2>3, <3>2, <3>3
  <2>8. batch'.number \in used \cup {NoNumber}
    BY <1>2, <1>9 DEF AnsweredInPlace
  <2> QED
    BY <1>2, <2>4, <2>6, <2>7, <2>8 DEF AnsweredInPlace
<1>10. CASE {en[s][i].stat : s \in Sides} = {CONCLUDED} /\ batch.number # NoNumber /\ Success(i, en)
  <2>1. results' = Append(results, Result(i)) \/ results' = results
    BY <1>10 DEF Success, Answer
  <2>2. (batch' = batch /\ ends' = en) \/ batch'.number = NoNumber
    BY <1>10 DEF Success, Count, ClearBatch
  <2> QED
    BY <1>7, <1>8, <1>9, <1>10, <2>1, <2>2
<1>11. CASE Crash
  BY <1>7, <1>11 DEF Crash, batchVars
<1>12. CASE ends' = en /\ UNCHANGED <<batch, results>>
  BY <1>7, <1>12
<1> QED
  BY <1>1, <1>10, <1>11, <1>12 DEF Concluded

(* Boards and labels stay in step when the batch goes on, or ends. *)
LEMMA ReportRack ==
  ASSUME FullInv, NEW i \in Pairs, NEW p \in Ports, Report(i, p), IInv'
  PROVE  RackInv'
<1>1. PICK good \in BOOLEAN : Concluded(i, p, good)
  BY DEF Report
<1>2. /\ <<i, p>> \in due /\ due' = due \ {<<i, p>>} /\ watched' = watched
      /\ BoardsTyped /\ DueInPlace /\ BatchTypeOK'
  BY DEF Report, FullInv, RackInv, IInv, TypeOK
<1>3. CASE ends' = ends \/ ends' = AfterConclude(i, p, good)
  BY <1>2, <1>3, ReportedRack
<1>4. CASE ClearBatch
  <2>1. ends' = NoEnds
    BY <1>4 DEF ClearBatch
  <2>2. BoardsTyped'
    BY <1>2 DEF BoardsTyped
  <2>3. \A j \in Pairs, q \in Ports : <<j, q>> \in due' => watched'[q] = 0
    BY <1>2 DEF DueInPlace
  <2>4. \A s \in Sides, j \in Pairs : /\ ends'[s][j].port = NoPort /\ ends'[s][j].eid = NoEid
                                      /\ ends'[s][j].stat = OFFLINE
    BY <2>1, NoEndsEmpty
  <2> QED
    BY <1>2, <2>1, <2>2, <2>3, <2>4, EmptyRack
<1>5. ends' = ends \/ ends' = AfterConclude(i, p, good) \/ ClearBatch
  BY <1>1 DEF Concluded, Success, Count, Crash, batchVars
<1> QED
  BY <1>3, <1>4, <1>5

(* A result is written when both ends have their labels, and they agree. *)
LEMMA ReportLabels ==
  ASSUME FullInv, NEW i \in Pairs, NEW p \in Ports, Report(i, p), results' # results
  PROVE  SameLabels(results'[Len(results')].pair)
<1>1. PICK good \in BOOLEAN : Concluded(i, p, good)
  BY DEF Report
<1> DEFINE en == AfterConclude(i, p, good)
<1>2. <<i, p>> \in due /\ DoneInPlace /\ BatchTypeOK /\ EndsAgree
  BY DEF Report, FullInv, RackInv, IInv, TypeOK, Labels
<1>3. {en[s][i].stat : s \in Sides} = {CONCLUDED} /\ Success(i, en)
  BY <1>1 DEF Concluded, Crash
<1>4. results' = Append(results, Result(i))
  BY <1>3 DEF Success, Answer
<1>5. results'[Len(results')].pair = i
  <2> DEFINE R == [number : Numbers, pair : Pairs, reader : Numbers \cup {NoNumber, Elsewhere, MOBILE}]
  <2>1. results \in Seq(R)
    BY DEF FullInv, IInv, TypeOK, RestTypeOK
  <2>2. results'[Len(results')] = Result(i)
    <3> HIDE DEF R
    <3> QED
      BY <1>4, <2>1
  <2> QED
    BY <2>2 DEF Result
<1>6. \A s \in Sides : ends[s][i].eid # NoEid
  <2> SUFFICES ASSUME NEW s \in Sides PROVE ends[s][i].eid # NoEid
    OBVIOUS
  <2>1. CASE s \in EndsAt(i, p)
    BY <1>2, <2>1, ReportDue
  <2>2. CASE s \notin EndsAt(i, p)
    <3>1. en[s][i] = ends[s][i]
      BY <1>2, <2>2, ReportedEnds
    <3>2. en[s][i].stat = CONCLUDED
      BY <1>3
    <3> QED
      BY <1>2, <3>1, <3>2 DEF DoneInPlace
  <2> QED
    BY <2>1, <2>2
<1> QED
  BY <1>2, <1>5, <1>6 DEF SameLabels, EndsAgree, PairAgrees, Sides

-----------------------------------------------------------------------------
(* Every step of a patient asker keeps the invariant.                       *)

(* What looks at nothing but the batch and the boards is kept with them. *)
LEMMA IdleRack ==
  ASSUME FullInv, UNCHANGED <<batch, ends, results, used, watched, due>>
  PROVE  RackInv' /\ AnsweredInPlace' /\ PairAnsweredOnce'
BY DEF FullInv, RackInv, BoardsTyped, WatchedInPlace, EndPorts, DueInPlace, EndsAt, DoneInPlace,
       AnsweredInPlace, PairAnsweredOnce

(* A step with boards and worker is a step of the batch. *)
LEMMA RackStep ==
  ASSUME BoardsTyped, RackNext
  PROVE  [Next]_vars
<1>1. CASE alive /\ AskRack
  BY <1>1 DEF AskRack, Next, Ask
<1>2. CASE alive /\ \E p \in Ports, e \in Eids : PutIn(p, e)
  BY <1>2, WatchedPair DEF PutIn, Next
<1>3. CASE alive /\ \E p \in Ports : TakeOut(p)
  BY <1>3, WatchedPair DEF TakeOut, Next
<1>4. CASE \E p \in Ports : TakeOutUnseen(p)
  BY <1>4 DEF TakeOutUnseen
<1>5. CASE alive /\ \E p \in Ports, i \in Pairs : Report(i, p)
  BY <1>5 DEF Report, Next
<1>6. CASE alive /\ (SingleOrder \/ \E fd \in Fds : OtherClient(fd))
  BY <1>6 DEF Next
<1>7. CASE Reboot
  BY <1>7 DEF Reboot, Next
<1> QED
  BY <1>1, <1>2, <1>3, <1>4, <1>5, <1>6, <1>7 DEF RackNext

(* Every step of rack, boards, worker and asker keeps the invariant. *)
LEMMA RackKeeps ==
  ASSUME FullInv, [PatientNext]_rackVars
  PROVE  FullInv'
<1>1. IInv'
  <2>1. [Next]_vars
    BY RackStep DEF PatientNext, rackVars, FullInv, RackInv
  <2> QED
    BY <2>1, StepKeeps DEF FullInv
<1> SUFFICES RackInv' /\ AnsweredInPlace' /\ PairAnsweredOnce'
  BY <1>1 DEF FullInv
<1>2. CASE AskRack /\ (used' # used => due = {})
  <2>1. PICK to \in Fds \cup {MOBILE}, l \in Layouts :
          /\ \/ \E n \in Numbers, mine \in BOOLEAN : Request(n, to, l, mine)
             \/ Cancel(to, l)
          /\ Boards(IndexIn(l))
    BY <1>2 DEF AskRack
  <2>2. ASSUME NEW n \in Numbers, NEW mine \in BOOLEAN, Request(n, to, l, mine)
        PROVE  RackInv' /\ AnsweredInPlace' /\ PairAnsweredOnce'
    <3>1. due = {}
      BY <1>2, <2>2 DEF Request
    <3> QED
      BY <1>1, <2>1, <2>2, <3>1, RequestRack DEF FullInv
  <2>3. ASSUME Cancel(to, l)
        PROVE  RackInv' /\ AnsweredInPlace' /\ PairAnsweredOnce'
    BY <1>1, <2>1, <2>3, CancelRack
  <2> QED
    BY <2>1, <2>2, <2>3
<1>3. CASE \E p \in Ports, e \in Eids : PutIn(p, e)
  BY <1>1, <1>3, PutInRack
<1>4. CASE \E p \in Ports : TakeOut(p)
  BY <1>1, <1>4, TakeOutRack
<1>5. CASE \E p \in Ports : TakeOutUnseen(p)
  BY <1>5, IdleRack DEF TakeOutUnseen, vars
<1>6. CASE \E p \in Ports, i \in Pairs : Report(i, p)
  BY <1>1, <1>6, ReportRack, ReportAnswers
<1>7. CASE /\ SingleOrder \/ \E fd \in Fds : OtherClient(fd)
           /\ UNCHANGED <<watched, plugged, due>>
  BY <1>7, IdleRack DEF SingleOrder, OtherClient, batchVars
<1>8. CASE Reboot
  BY <1>1, <1>8, RebootRack
<1>9. CASE UNCHANGED rackVars
  BY <1>9, IdleRack DEF rackVars, vars
<1> QED
  BY <1>2, <1>3, <1>4, <1>5, <1>6, <1>7, <1>8, <1>9 DEF PatientNext, RackNext

(* At first no port is watched and nothing is due. *)
LEMMA RackStarts ==
  ASSUME RackInit
  PROVE  FullInv
<1>1. IInv /\ BatchTypeOK
  BY InitKeeps DEF RackInit, IInv, TypeOK
<1>2. /\ ends = NoEnds /\ results = <<>> /\ batch.number = NoNumber
      /\ watched = [p \in Ports |-> 0] /\ due = {}
  BY DEF RackInit, Init
<1>3. BoardsTyped
  BY <1>2, BoundAssumption DEF BoardsTyped
<1>4. WatchedInPlace /\ DueInPlace /\ DoneInPlace
  BY <1>2, NoEndsEmpty DEF WatchedInPlace, DueInPlace, DoneInPlace, OFFLINE, CONCLUDED
<1>5. AnsweredInPlace /\ PairAnsweredOnce
  BY <1>2 DEF AnsweredInPlace, PairAnsweredOnce
<1> QED
  BY <1>1, <1>3, <1>4, <1>5 DEF FullInv, RackInv

(* The invariant holds in every state. *)
LEMMA FullCorrect == PatientSpec => []FullInv
BY RackStarts, RackKeeps, PTL DEF PatientSpec

(* No pair of a batch is answered twice, so the counter that closes the     *)
(* batch counts pairs, whatever is lost, pulled, cancelled or rebooted.    *)
THEOREM PairAnsweredCorrect == PatientSpec => []PairAnsweredOnce
<1>1. FullInv => PairAnsweredOnce
  BY DEF FullInv
<1> QED
  BY <1>1, FullCorrect, PTL

(* A result is written for a pair whose labels are in place and agree. *)
THEOREM AnsweredLabelsCorrect == PatientSpec => AnsweredPairHasLabels
<1>1. ASSUME FullInv, [PatientNext]_rackVars, results' # results
      PROVE  SameLabels(results'[Len(results')].pair)
  <2>1. \/ AskRack \/ Reboot \/ SingleOrder \/ (\E fd \in Fds : OtherClient(fd)) \/ UNCHANGED vars
        \/ \E p \in Ports : (\E e \in Eids : PutIn(p, e)) \/ TakeOut(p) \/ TakeOutUnseen(p)
        \/ \E p \in Ports, i \in Pairs : Report(i, p)
    BY <1>1 DEF PatientNext, RackNext, rackVars
  <2>2. CASE \E p \in Ports, i \in Pairs : Report(i, p)
    BY <1>1, <2>2, ReportLabels
  <2>3. \/ AskRack \/ Reboot \/ SingleOrder \/ (\E fd \in Fds : OtherClient(fd)) \/ UNCHANGED vars
        \/ \E p \in Ports : (\E e \in Eids : PutIn(p, e)) \/ TakeOut(p) \/ TakeOutUnseen(p)
        => results' = results
    BY DEF AskRack, Request, Cancel, Reboot, Restart, SingleOrder, OtherClient, vars,
           PutIn, Inserted, TakeOut, PulledBack, TakeOutUnseen
  <2> QED
    BY <1>1, <2>1, <2>2, <2>3
<1>2. FullInv /\ [PatientNext]_rackVars
        => [results' # results => SameLabels(results'[Len(results')].pair)]_rackVars
  BY <1>1
<1> QED
  BY <1>2, FullCorrect, PTL DEF PatientSpec, AnsweredPairHasLabels
=============================================================================
