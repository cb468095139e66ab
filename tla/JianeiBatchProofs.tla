------------------------- MODULE JianeiBatchProofs -------------------------
(***************************************************************************)
(* Batch orders, for any rack, any layouts and any reports of the boards:  *)
(* the types, and what is recorded of labels, results and lamp.            *)
(***************************************************************************)
EXTENDS JianeiBatch, TLAPS

Lines == [Slots -> Frames \cup {NoFrame}]
Table == [Sides -> [Pairs -> Ends]]

-----------------------------------------------------------------------------
(* What is staged is a frame in each slot, or none. *)

(* Ports make a frame of any operation. *)
LEMMA FrameType ==
  ASSUME NEW op \in {START, REDIRECT, CONFIRM, GUIDE, OUTPUT, WITHDRAW},
         NEW S \in SUBSET (Ports \cup {NoPort})
  PROVE  Frame(op, S) \in Frames
BY DEF Frame, Frames

(* Stage writes one slot, or none when the row is not there. *)
LEMMA StageType ==
  ASSUME NEW tx \in Lines, NEW s, NEW fr \in Frames
  PROVE  Stage(tx, s, fr) \in Lines
BY DEF Stage, Lines

(* All slots are empty when a handler starts. *)
LEMMA EmptyType == NoFrames \in Lines
BY DEF NoFrames, Lines

(* A layout gives real ports to both ends of its pairs. *)
LEMMA LayoutPorts ==
  ASSUME NEW l \in Layouts, NEW i \in DOMAIN l
  PROVE  l[i].ydk \in Ports /\ l[i].ddk \in Ports
<1> DEFINE R == [ydk : Ports, ddk : Ports]
<1>1. l \in Seq(R)
  BY LayoutAssumption
<1>2. l[i] \in R
  <2> HIDE DEF R
  <2> QED
    BY <1>1
<1> QED
  BY <1>2

(* The frames of a request or a cancel. *)
LEMMA StageAllType ==
  ASSUME NEW op \in {START, WITHDRAW}, NEW l \in Layouts
  PROVE  StageAll(op, l) \in Lines
<1>1. PortsOf(l) \subseteq Ports
  BY LayoutPorts DEF PortsOf
<1>2. \A s \in Slots : Frame(op, {p \in PortsOf(l) : BoardOf[p] = s + 1}) \in Frames
  BY <1>1, FrameType
<1> QED
  BY <1>2 DEF StageAll, Lines

(* The frames of a misplaced label. *)
LEMMA GuideType ==
  ASSUME BatchTypeOK, NEW i \in Pairs, NEW p \in Ports, NEW e \in Eids,
         FoundPair(e) \in Pairs
  PROVE  GuideStage(i, p, e) \in Lines
<1> DEFINE far == Other(FoundSide(e))
           right == {ends[far][FoundPair(e)].port}
           row == BoardNo(ends[far][i].port)
<1>1. far \in Sides
  BY DEF Other, FoundSide, Sides
<1>2. right \subseteq Ports \cup {NoPort}
  BY <1>1 DEF BatchTypeOK, Ends
<1>3. /\ Frame(GUIDE, right \cup {p}) \in Frames
      /\ Frame(GUIDE, right) \in Frames
      /\ Frame(GUIDE, {p}) \in Frames
  BY <1>2, FrameType
<1>4. /\ Stage(NoFrames, row, Frame(GUIDE, right \cup {p})) \in Lines
      /\ Stage(NoFrames, row, Frame(GUIDE, right)) \in Lines
  BY <1>3, EmptyType, StageType
<1>5. Stage(Stage(NoFrames, row, Frame(GUIDE, right)), BoardOf[p], Frame(GUIDE, {p})) \in Lines
  BY <1>3, <1>4, StageType
<1> QED
  BY <1>4, <1>5 DEF GuideStage

(* The frame that redirects a label. *)
LEMMA RedirectType ==
  ASSUME BatchTypeOK, NEW i \in Pairs, NEW p \in Ports, NEW e \in Eids
  PROVE  RedirectStage(i, p, e) \in Lines
<1> DEFINE open == {s \in EndsAt(i, p) : ends[s][i].eid = NoEid}
           first == {s \in open : ends[Other(s)][i].eid = NoEid}
           wrong == {s \in open \ first : ~Kept(s, i, e)}
           to == {ends[Other(s)][i].port : s \in first} \cup {p : s \in wrong}
<1>1. first \subseteq Sides
  BY DEF EndsAt, Sides
<1>2. to \subseteq Ports \cup {NoPort}
  BY <1>1 DEF BatchTypeOK, Ends, Other, Sides
<1>3. Frame(REDIRECT, to) \in Frames
  BY <1>2, FrameType
<1> QED
  BY <1>3 DEF RedirectStage, Lines

(* The frames that confirm a pair. *)
LEMMA ConfirmType ==
  ASSUME BatchTypeOK, NEW tx \in Lines, NEW i \in Pairs
  PROVE  ConfirmStage(tx, i) \in Lines
<1> DEFINE y == ends["ydk"][i].port
           d == ends["ddk"][i].port
           row == BoardNo(y) - 1
<1>1. y \in Ports \cup {NoPort} /\ d \in Ports \cup {NoPort}
  BY DEF BatchTypeOK, Ends, Sides
<1>2. /\ Frame(CONFIRM, {y, d}) \in Frames
      /\ Frame(CONFIRM, {y}) \in Frames
      /\ Frame(CONFIRM, {d}) \in Frames
  BY <1>1, FrameType
<1>3. /\ Stage(tx, row, Frame(CONFIRM, {y, d})) \in Lines
      /\ Stage(tx, row, Frame(CONFIRM, {y})) \in Lines
  BY <1>2, StageType
<1>4. Stage(Stage(tx, row, Frame(CONFIRM, {y})), row, Frame(CONFIRM, {d})) \in Lines
  BY <1>2, <1>3, StageType
<1> QED
  BY <1>3, <1>4 DEF ConfirmStage

(* The frames that report a pair pulled out. *)
LEMMA OutputType ==
  ASSUME BatchTypeOK, NEW i \in Pairs
  PROVE  OutputStage(i) \in Lines
<1> DEFINE y == ends["ydk"][i].port
           d == ends["ddk"][i].port
<1>1. y \in Ports \cup {NoPort} /\ d \in Ports \cup {NoPort}
  BY DEF BatchTypeOK, Ends, Sides
<1>2. /\ Frame(OUTPUT, {y, d}) \in Frames
      /\ Frame(OUTPUT, {y}) \in Frames
      /\ Frame(OUTPUT, {d}) \in Frames
  BY <1>1, FrameType
<1>3. /\ Stage(NoFrames, BoardNo(y), Frame(OUTPUT, {y, d})) \in Lines
      /\ Stage(NoFrames, BoardNo(y), Frame(OUTPUT, {y})) \in Lines
  BY <1>2, EmptyType, StageType
<1>4. Stage(Stage(NoFrames, BoardNo(y), Frame(OUTPUT, {y})), BoardNo(d),
            Frame(OUTPUT, {d})) \in Lines
  BY <1>2, <1>3, StageType
<1> QED
  BY <1>3, <1>4 DEF OutputStage

(* What is transmitted is a set of frames. *)
LEMMA TransmitType ==
  ASSUME NEW tx \in Lines, NEW ok \in BOOLEAN, Transmit(tx, ok)
  PROVE  sent' \in [frames : SUBSET Frames, acked : BOOLEAN]
BY DEF Transmit, Staged, Lines

(* A handler that sends nothing. *)
LEMMA SilenceType ==
  ASSUME sent' = Silence
  PROVE  sent' \in [frames : SUBSET Frames, acked : BOOLEAN]
BY DEF Silence

(* Transmission, and what its failure does to lamp and single order. *)
LEMMA TransmitOrFailType ==
  ASSUME RestTypeOK, NEW tx \in Lines, TransmitOrFail(tx)
  PROVE  /\ sent' \in [frames : SUBSET Frames, acked : BOOLEAN]
         /\ orderLed' \in BOOLEAN
         /\ single' \in BOOLEAN
BY TransmitType DEF TransmitOrFail, Failure, RestTypeOK

-----------------------------------------------------------------------------
(* The table of ends *)

(* A table of empty ends. *)
LEMMA NoEndsType == NoEnds \in Table
BY DEF NoEnds, NoEnd, Table, Ends

(* The ports of a request, with no label yet. *)
LEMMA RecordedType ==
  ASSUME NEW l \in Layouts
  PROVE  Recorded(l) \in Table
<1>1. \A i \in DOMAIN l, s \in Sides : l[i][s] \in Ports
  BY LayoutPorts DEF Sides
<1>2. NoEnd \in Ends
  BY DEF NoEnd, Ends
<1>3. \A i \in DOMAIN l, s \in Sides : [NoEnd EXCEPT !.port = l[i][s]] \in Ends
  BY <1>1 DEF NoEnd, Ends
<1> QED
  BY <1>2, <1>3 DEF Recorded, Table

(* A label put in is entered in one end at most. *)
LEMMA AfterInsertType ==
  ASSUME BatchTypeOK, NEW i \in Pairs, NEW p \in Ports, NEW e \in Eids
  PROVE  AfterInsert(i, p, e) \in Table
<1>1. \A s \in Sides : ends[s] \in [Pairs -> Ends] /\ ends[s][i] \in Ends
  BY DEF BatchTypeOK
<1>2. \A s \in Sides : [ends[s][i] EXCEPT !.eid = e, !.stat = ONLINE] \in Ends
  BY <1>1 DEF Ends
<1> QED
  BY <1>1, <1>2 DEF AfterInsert, Table

(* A label pulled out is taken from one end at most. *)
LEMMA AfterPullType ==
  ASSUME BatchTypeOK, NEW i \in Pairs, NEW p \in Ports
  PROVE  /\ AfterPull(i, p) \in Table
         /\ \A s \in Sides, k \in Pairs :
              AfterPull(i, p)[s][k].eid \in {ends[s][k].eid, NoEid}
<1>1. \A s \in Sides : ends[s] \in [Pairs -> Ends] /\ ends[s][i] \in Ends
  BY DEF BatchTypeOK
<1>2. \A s \in Sides :
        LET r == [ends[s][i] EXCEPT !.eid = NoEid, !.stat = OFFLINE]
        IN  r \in Ends /\ r.eid = NoEid
  BY <1>1 DEF Ends
<1> QED
  BY <1>1, <1>2 DEF AfterPull, Table

(* The result of a confirm is entered in one end at most, its label stays. *)
LEMMA AfterConcludeType ==
  ASSUME BatchTypeOK, NEW i \in Pairs, NEW p \in Ports, NEW good \in BOOLEAN
  PROVE  /\ AfterConclude(i, p, good) \in Table
         /\ \A s \in Sides, k \in Pairs :
              AfterConclude(i, p, good)[s][k].eid = ends[s][k].eid
<1>1. \A s \in Sides : ends[s] \in [Pairs -> Ends] /\ ends[s][i] \in Ends
  BY DEF BatchTypeOK
<1>2. \A s \in Sides :
        LET r == [ends[s][i] EXCEPT !.stat = IF good THEN CONCLUDED ELSE FAILED]
        IN  r \in Ends /\ r.eid = ends[s][i].eid
  BY <1>1 DEF Ends
<1> QED
  BY <1>1, <1>2 DEF AfterConclude, Table

(* The memset leaves an empty batch. *)
LEMMA ClearType ==
  ASSUME ClearBatch
  PROVE  BatchTypeOK'
BY NoEndsType, BoundAssumption DEF ClearBatch, BatchTypeOK, Table

-----------------------------------------------------------------------------
(* The labels recorded *)

Labels == OneLabelOnePair /\ EndsAgree

(* A label that is known is known at one pair, the one Preparing_cmd88     *)
(* finds: what it overlooks behind the first match does not exist.         *)
LEMMA FoundOnly ==
  ASSUME BatchTypeOK, OneLabelOnePair, NEW e \in Eids, Known(e)
  PROVE  /\ FoundPair(e) \in Pairs
         /\ \A s \in Sides, k \in Pairs :
              Checked[ends[s][k].eid] = Checked[e] => k = FoundPair(e)
<1> DEFINE S == KnownAt(e, FoundSide(e))
<1>1. FoundSide(e) \in Sides /\ S # {}
  BY DEF Known, FoundSide, Sides
<1>2. PICK k0 \in S : TRUE
  BY <1>1
<1>3. k0 \in Pairs /\ Checked[ends[FoundSide(e)][k0].eid] = Checked[e]
  BY <1>2 DEF KnownAt
<1>4. \A s \in Sides, k \in Pairs : Checked[ends[s][k].eid] = Checked[e]
                                  => ends[s][k].eid # NoEid
  BY LabelAssumption
<1>5. \A s \in Sides, k \in Pairs : Checked[ends[s][k].eid] = Checked[e] => k = k0
  BY <1>1, <1>3, <1>4 DEF OneLabelOnePair
<1>6. S = {k0}
  BY <1>1, <1>2, <1>5 DEF KnownAt
<1>7. k0 <= k0
  BY <1>3, BoundAssumption DEF Pairs
<1>8. FirstOf(S) = k0
  BY <1>6, <1>7 DEF FirstOf
<1>9. FoundPair(e) = k0
  BY <1>8 DEF FoundPair
<1> QED
  BY <1>3, <1>5, <1>9

(* A table whose labels are among those recorded before is as good. *)
LEMMA FewerLabels ==
  ASSUME BatchTypeOK, Labels,
         \A s \in Sides, i \in Pairs : ends'[s][i].eid \in {ends[s][i].eid, NoEid}
  PROVE  Labels'
<1>1. \A s, t \in Sides, i, j \in Pairs :
        /\ ends'[s][i].eid # NoEid
        /\ Checked[ends'[s][i].eid] = Checked[ends'[t][j].eid]
        => ends'[s][i].eid = ends[s][i].eid /\ ends'[t][j].eid = ends[t][j].eid
  <2> SUFFICES ASSUME NEW s \in Sides, NEW t \in Sides, NEW i \in Pairs, NEW j \in Pairs,
                      ends'[s][i].eid # NoEid,
                      Checked[ends'[s][i].eid] = Checked[ends'[t][j].eid]
               PROVE  ends'[s][i].eid = ends[s][i].eid /\ ends'[t][j].eid = ends[t][j].eid
    OBVIOUS
  <2>1. ends'[s][i].eid = ends[s][i].eid
    OBVIOUS
  <2>2. ends[s][i].eid \in Eids
    BY <2>1 DEF BatchTypeOK, Ends
  <2>3. ends'[t][j].eid # NoEid
    BY <2>1, <2>2, LabelAssumption
  <2> QED
    BY <2>1, <2>3
<1>2. OneLabelOnePair'
  BY <1>1 DEF Labels, OneLabelOnePair
<1>3. EndsAgree'
  <2> SUFFICES ASSUME NEW i \in Pairs,
                      ends'["ydk"][i].eid # NoEid, ends'["ddk"][i].eid # NoEid
               PROVE  PairAgrees(ends', i)
    BY DEF EndsAgree
  <2>1. /\ ends'["ydk"][i].eid = ends["ydk"][i].eid
        /\ ends'["ddk"][i].eid = ends["ddk"][i].eid
    BY DEF Sides
  <2> QED
    BY <2>1 DEF Labels, EndsAgree, PairAgrees
<1> QED
  BY <1>2, <1>3 DEF Labels

(* A label put in is kept only where it is the only pair with it. *)
LEMMA InsertLabels ==
  ASSUME BatchTypeOK, Labels, NEW i \in Pairs, NEW p \in Ports, NEW e \in Eids,
         ~Misplaced(i, e), ends' = AfterInsert(i, p, e)
  PROVE  Labels'
<1>1. \A s \in Sides, k \in Pairs : Checked[ends[s][k].eid] = Checked[e] => k = i
  <2>1. CASE Known(e)
    BY <2>1, FoundOnly DEF Misplaced, Labels
  <2>2. CASE ~Known(e)
    BY <2>2 DEF Known, KnownAt, Sides
  <2> QED
    BY <2>1, <2>2
<1>2. CASE \A s \in EndsAt(i, p) : ~Kept(s, i, e)
  <2>1. ends' = ends
    BY <1>2 DEF AfterInsert, BatchTypeOK
  <2> QED
    BY <2>1, FewerLabels
<1>3. CASE \E s \in EndsAt(i, p) : Kept(s, i, e)
  <2>1. PICK s \in EndsAt(i, p) : Kept(s, i, e)
    BY <1>3
  <2>2. s \in Sides /\ EndsAt(i, p) = {s}
    BY <2>1 DEF EndsAt, Sides
  <2>3. /\ ends'[s][i].eid = e
        /\ \A k \in Pairs \ {i} : ends'[s][k].eid = ends[s][k].eid
        /\ \A t \in Sides \ {s}, k \in Pairs : ends'[t][k].eid = ends[t][k].eid
    <3>1. ends[s] \in [Pairs -> Ends] /\ ends[s][i] \in Ends
      BY <2>2 DEF BatchTypeOK
    <3>2. ends'[s] = [ends[s] EXCEPT ![i] = [@ EXCEPT !.eid = e, !.stat = ONLINE]]
      BY <2>1, <2>2 DEF AfterInsert
    <3>3. \A t \in Sides \ {s} : ends'[t] = ends[t]
      BY <2>2 DEF AfterInsert
    <3>4. [ends[s][i] EXCEPT !.eid = e, !.stat = ONLINE].eid = e
      BY <3>1 DEF Ends
    <3> QED
      BY <3>1, <3>2, <3>3, <3>4
  <2>4. e # NoEid /\ Checked[e] # Blank
    BY LabelAssumption
  <2>5. OneLabelOnePair'
    BY <1>1, <2>2, <2>3, <2>4 DEF Labels, OneLabelOnePair
  <2>6. EndsAgree'
    <3> SUFFICES ASSUME NEW k \in Pairs,
                        ends'["ydk"][k].eid # NoEid, ends'["ddk"][k].eid # NoEid
                 PROVE  PairAgrees(ends', k)
      BY DEF EndsAgree
    <3>1. CASE k # i
      <4>1. /\ ends'["ydk"][k].eid = ends["ydk"][k].eid
            /\ ends'["ddk"][k].eid = ends["ddk"][k].eid
        BY <2>2, <2>3, <3>1 DEF Sides
      <4> QED
        BY <4>1 DEF Labels, EndsAgree, PairAgrees
    <3>2. CASE k = i
      <4>1. Other(s) \in Sides \ {s}
        BY <2>2 DEF Other, Sides
      <4>2. ends'[Other(s)][i].eid = ends[Other(s)][i].eid
        BY <2>3, <4>1
      <4>3. Checked[ends'[s][i].eid] = Checked[ends'[Other(s)][i].eid]
        BY <2>1, <2>2, <2>3, <3>2, <4>2 DEF Kept, Other, Sides
      <4> QED
        BY <2>2, <3>2, <4>3 DEF PairAgrees, Other, Sides
    <3> QED
      BY <3>1, <3>2
  <2> QED
    BY <2>5, <2>6 DEF Labels
<1> QED
  BY <1>2, <1>3

-----------------------------------------------------------------------------
(* The inductive invariant.  No part needs another but the types; the      *)
(* types of GuideStage need OneLabelOnePair, which makes FoundPair a pair. *)
IInv == TypeOK /\ Labels /\ BatchCanClose /\ LampMeansSomeOrder

(* Failure, as TransmitOrFail runs it, at most puts out the lamp and drops *)
(* the single order with it.                                               *)
LEMMA LampAfterTransmit ==
  ASSUME NEW tx, TransmitOrFail(tx), LampMeansSomeOrder, UNCHANGED batch
  PROVE  LampMeansSomeOrder'
BY DEF TransmitOrFail, Failure, LampMeansSomeOrder

(* A cleared batch has no labels and no results to wait for. *)
LEMMA ClearLabels ==
  ASSUME ends' = NoEnds
  PROVE  Labels'
BY LabelAssumption DEF NoEnds, NoEnd, Labels, OneLabelOnePair, EndsAgree, Sides

(* Nor has one just asked for any labels. *)
LEMMA RecordedLabels ==
  ASSUME NEW l \in Layouts, ends' = Recorded(l)
  PROVE  Labels'
<1>1. \A s \in Sides, i \in Pairs : ends'[s][i].eid = NoEid
  BY DEF Recorded, NoEnd
<1> QED
  BY <1>1 DEF Labels, OneLabelOnePair, EndsAgree, Sides

(* A request *)
LEMMA RequestKeeps ==
  ASSUME IInv, NEW n \in Numbers, NEW to \in Fds \cup {MOBILE}, NEW l \in Layouts,
         NEW mine \in BOOLEAN, Request(n, to, l, mine)
  PROVE  IInv'
<1>1. Len(l) \in 1..MaxEntries
  BY LayoutAssumption
<1>2. holder' \in [Fds -> Numbers \cup {NoNumber, Elsewhere}]
  BY DEF Request, Arrive, IInv, TypeOK, RestTypeOK
<1>3. used' \subseteq Numbers /\ UNCHANGED <<alive, results>> /\ uploads' = 0
  BY DEF Request, IInv, TypeOK, RestTypeOK
<1>4. n # NoNumber
  BY AskerAssumption
<1>5. CASE ~mine
  <2>1. /\ batch' = [number |-> n, to |-> MOBILE]
        /\ entires' = 0 /\ ends' = NoEnds /\ sent' = Silence /\ Failure
    BY <1>5 DEF Request
  <2>2. TypeOK'
    <3>1. BatchTypeOK'
      BY <1>3, <2>1, NoEndsType, BoundAssumption DEF BatchTypeOK, Table
    <3>2. sent' \in [frames : SUBSET Frames, acked : BOOLEAN]
      BY <2>1, SilenceType
    <3> QED
      BY <1>2, <1>3, <2>1, <3>1, <3>2 DEF IInv, TypeOK, RestTypeOK, Failure
  <2>3. Labels'
    BY <2>1, ClearLabels
  <2>4. BatchCanClose' /\ LampMeansSomeOrder'
    BY <2>1 DEF BatchCanClose, LampMeansSomeOrder, Failure
  <2> QED
    BY <2>2, <2>3, <2>4 DEF IInv
<1>6. CASE mine
  <2>1. PICK ok \in BOOLEAN :
          /\ Transmit(StageAll(START, l), ok)
          /\ ends' = IF ok THEN Recorded(l) ELSE NoEnds
          /\ IF ok THEN orderLed' = TRUE /\ UNCHANGED single ELSE Failure
    BY <1>6 DEF Request
  <2>2. batch' = [number |-> n, to |-> to] /\ entires' = Len(l)
    BY <1>6 DEF Request
  <2>3. ends' \in Table
    BY <2>1, RecordedType, NoEndsType
  <2>4. sent' \in [frames : SUBSET Frames, acked : BOOLEAN]
    BY <2>1, StageAllType, TransmitType
  <2>5. TypeOK'
    <3>1. BatchTypeOK'
      BY <1>1, <1>3, <2>2, <2>3 DEF BatchTypeOK, Table
    <3>2. orderLed' \in BOOLEAN /\ single' \in BOOLEAN
      BY <2>1 DEF Failure, IInv, TypeOK, RestTypeOK
    <3> QED
      BY <1>2, <1>3, <2>4, <3>1, <3>2 DEF IInv, TypeOK, RestTypeOK
  <2>6. Labels'
    BY <2>1, ClearLabels, RecordedLabels
  <2>7. BatchCanClose' /\ LampMeansSomeOrder'
    BY <1>1, <1>3, <1>4, <2>1, <2>2 DEF BatchCanClose, LampMeansSomeOrder, Failure
  <2> QED
    BY <2>5, <2>6, <2>7 DEF IInv
<1> QED
  BY <1>5, <1>6

(* A cancel *)
LEMMA CancelKeeps ==
  ASSUME IInv, NEW to \in Fds \cup {MOBILE}, NEW l \in Layouts, Cancel(to, l)
  PROVE  IInv'
<1>1. /\ ClearBatch /\ orderLed' = FALSE
      /\ UNCHANGED <<single, alive, results, used>>
  BY DEF Cancel
<1>2. holder' \in [Fds -> Numbers \cup {NoNumber, Elsewhere}]
  BY DEF Cancel, Arrive, IInv, TypeOK, RestTypeOK
<1>3. sent' \in [frames : SUBSET Frames, acked : BOOLEAN]
  BY StageAllType, TransmitType DEF Cancel
<1>4. TypeOK'
  BY <1>1, <1>2, <1>3, ClearType DEF IInv, TypeOK, RestTypeOK
<1>5. Labels'
  BY <1>1, ClearLabels DEF ClearBatch
<1> QED
  BY <1>1, <1>4, <1>5 DEF IInv, ClearBatch, BatchCanClose, LampMeansSomeOrder

(* A label put in *)
LEMMA InsertedKeeps ==
  ASSUME IInv, NEW i \in Pairs, NEW p \in Ports, NEW e \in Eids, Inserted(i, p, e)
  PROVE  IInv'
<1>1. UNCHANGED <<batch, entires, uploads, alive, holder, results, used>>
  BY DEF Inserted
<1>2. BatchTypeOK /\ RestTypeOK /\ Labels /\ OneLabelOnePair
  BY DEF IInv, TypeOK, Labels
<1>3. PICK tx \in Lines : TransmitOrFail(tx)
  <2>1. CASE Misplaced(i, e)
    <3>1. FoundPair(e) \in Pairs
      BY <1>2, <2>1, FoundOnly DEF Misplaced
    <3> QED
      BY <1>2, <2>1, <3>1, GuideType DEF Inserted
  <2>2. CASE ~Misplaced(i, e)
    <3>1. RedirectStage(i, p, e) \in Lines
      BY <1>2, RedirectType
    <3>2. ConfirmStage(RedirectStage(i, p, e), i) \in Lines
      BY <1>2, <3>1, ConfirmType
    <3> QED
      BY <2>2, <3>1, <3>2 DEF Inserted
  <2> QED
    BY <2>1, <2>2
<1>4. ends' \in Table /\ Labels'
  <2>1. CASE Misplaced(i, e)
    <3>1. ends' = ends
      BY <2>1 DEF Inserted
    <3> QED
      BY <1>2, <3>1, FewerLabels DEF BatchTypeOK, Table
  <2>2. CASE ~Misplaced(i, e)
    <3>1. ends' = AfterInsert(i, p, e)
      BY <2>2 DEF Inserted
    <3> QED
      BY <1>2, <2>2, <3>1, InsertLabels, AfterInsertType
  <2> QED
    BY <2>1, <2>2
<1>5. TypeOK'
  BY <1>1, <1>2, <1>3, <1>4, TransmitOrFailType DEF TypeOK, BatchTypeOK, RestTypeOK, Table
<1>6. LampMeansSomeOrder'
  BY <1>1, <1>3, LampAfterTransmit DEF IInv
<1> QED
  BY <1>1, <1>4, <1>5, <1>6 DEF IInv, BatchCanClose

(* A label pulled out again *)
LEMMA PulledKeeps ==
  ASSUME IInv, NEW i \in Pairs, NEW p \in Ports, PulledBack(i, p)
  PROVE  IInv'
<1>1. /\ ends' = AfterPull(i, p)
      /\ UNCHANGED <<batch, entires, uploads, alive, holder, results, used>>
  BY DEF PulledBack
<1>2. BatchTypeOK /\ RestTypeOK /\ Labels
  BY DEF IInv, TypeOK
<1>3. \/ TransmitOrFail(OutputStage(i))
      \/ sent' = Silence /\ UNCHANGED <<orderLed, single>>
  BY DEF PulledBack
<1>4. ends' \in Table
  BY <1>1, <1>2, AfterPullType
<1>5. Labels'
  BY <1>1, <1>2, AfterPullType, FewerLabels
<1>6. /\ sent' \in [frames : SUBSET Frames, acked : BOOLEAN]
      /\ orderLed' \in BOOLEAN /\ single' \in BOOLEAN
  BY <1>2, <1>3, OutputType, TransmitOrFailType, SilenceType DEF RestTypeOK
<1>7. TypeOK'
  BY <1>1, <1>2, <1>4, <1>6 DEF TypeOK, BatchTypeOK, RestTypeOK, Table
<1>8. LampMeansSomeOrder'
  BY <1>1, <1>3, LampAfterTransmit DEF IInv, LampMeansSomeOrder
<1> QED
  BY <1>1, <1>5, <1>7, <1>8 DEF IInv, BatchCanClose

(* The result of a pair written: one more is counted, or the batch ends. *)
LEMMA SuccessKeeps ==
  ASSUME IInv, NEW i \in Pairs, NEW en \in Table, batch.number # NoNumber, Success(i, en),
         \A s \in Sides, k \in Pairs : en[s][k].eid = ends[s][k].eid,
         sent' = Silence, UNCHANGED used
  PROVE  IInv'
<1>1. BatchTypeOK /\ RestTypeOK /\ Labels /\ BatchCanClose /\ LampMeansSomeOrder
  BY DEF IInv, TypeOK
<1>2. PICK delivered \in BOOLEAN :
        /\ batch.to \in Fds \/ delivered
        /\ results' = IF delivered THEN Append(results, Result(i)) ELSE results
        /\ holder' = IF delivered THEN holder ELSE [holder EXCEPT ![batch.to] = NoNumber]
  BY DEF Success, Answer, Count
<1>3. holder' \in [Fds -> Numbers \cup {NoNumber, Elsewhere}]
  BY <1>1, <1>2 DEF RestTypeOK
<1>4. results' \in Seq([number : Numbers, pair : Pairs,
                        reader : Numbers \cup {NoNumber, Elsewhere, MOBILE}])
  <2> DEFINE R == [number : Numbers, pair : Pairs,
                   reader : Numbers \cup {NoNumber, Elsewhere, MOBILE}]
  <2>1. results \in Seq(R)
    BY <1>1 DEF RestTypeOK
  <2>2. batch.number \in Numbers
    BY <1>1 DEF BatchTypeOK
  <2>3. Result(i) \in R
    BY <1>1, <2>2 DEF Result, RestTypeOK
  <2> HIDE DEF R
  <2>4. Append(results, Result(i)) \in Seq(R)
    BY <2>1, <2>3
  <2>5. results' \in Seq(R)
    BY <1>2, <2>1, <2>4
  <2> QED
    BY <2>5 DEF R
<1>5. sent' \in [frames : SUBSET Frames, acked : BOOLEAN]
  BY SilenceType
<1>6. UNCHANGED <<alive, single, used>>
  BY DEF Success, Answer, Count
<1>7. CASE uploads + 1 = entires
  <2>1. ClearBatch /\ orderLed' = FALSE
    BY <1>7 DEF Success, Answer, Count
  <2>2. TypeOK'
    BY <1>1, <1>3, <1>4, <1>5, <1>6, <2>1, ClearType DEF TypeOK, RestTypeOK
  <2>3. Labels'
    BY <2>1, ClearLabels DEF ClearBatch
  <2> QED
    BY <2>1, <2>2, <2>3 DEF IInv, ClearBatch, BatchCanClose, LampMeansSomeOrder
<1>8. CASE uploads + 1 # entires
  <2>1. /\ uploads' = uploads + 1 /\ ends' = en
        /\ UNCHANGED <<batch, entires, orderLed>>
    BY <1>8 DEF Success, Answer, Count
  <2>2. BatchTypeOK'
    BY <1>1, <2>1 DEF BatchTypeOK, Table
  <2>3. RestTypeOK'
    BY <1>1, <1>3, <1>4, <1>5, <1>6, <2>1 DEF RestTypeOK
  <2>4. Labels'
    BY <1>1, <2>1, FewerLabels
  <2>5. BatchCanClose'
    BY <1>1, <1>8, <2>1, BoundAssumption DEF BatchCanClose, BatchTypeOK
  <2>6. LampMeansSomeOrder'
    BY <1>1, <1>6, <2>1 DEF LampMeansSomeOrder
  <2> QED
    BY <2>2, <2>3, <2>4, <2>5, <2>6 DEF IInv, TypeOK
<1> QED
  BY <1>7, <1>8

(* A result of a confirm *)
LEMMA ConcludedKeeps ==
  ASSUME IInv, NEW i \in Pairs, NEW p \in Ports, NEW good \in BOOLEAN,
         Concluded(i, p, good)
  PROVE  IInv'
<1> DEFINE en == AfterConclude(i, p, good)
           stats == {en[s][i].stat : s \in Sides}
<1>1. BatchTypeOK /\ RestTypeOK /\ Labels
  BY DEF IInv, TypeOK
<1>2. en \in Table
  BY <1>1, AfterConcludeType
<1>3. \A s \in Sides, k \in Pairs : en[s][k].eid = ends[s][k].eid
  BY <1>1, AfterConcludeType
<1>4. sent' = Silence /\ UNCHANGED used
  BY DEF Concluded
<1>5. CASE batch.number # NoNumber /\ Success(i, en)
  BY <1>2, <1>3, <1>4, <1>5, SuccessKeeps
<1>6. CASE Crash
  <2>1. TypeOK'
    BY <1>1, <1>4, <1>6, SilenceType
       DEF Crash, batchVars, TypeOK, BatchTypeOK, RestTypeOK
  <2>2. Labels'
    BY <1>1, <1>6 DEF Crash, batchVars, Labels, OneLabelOnePair, EndsAgree, PairAgrees
  <2> QED
    BY <1>6, <2>1, <2>2
       DEF IInv, Crash, batchVars, BatchCanClose, LampMeansSomeOrder
<1>7. CASE /\ ends' = en
           /\ UNCHANGED <<batch, entires, uploads, single, orderLed, alive, holder, results>>
  <2>1. TypeOK'
    BY <1>1, <1>2, <1>4, <1>7, SilenceType DEF TypeOK, BatchTypeOK, RestTypeOK, Table
  <2>2. Labels'
    BY <1>1, <1>3, <1>7, FewerLabels
  <2> QED
    BY <1>7, <2>1, <2>2 DEF IInv, BatchCanClose, LampMeansSomeOrder
<1> QED
  BY <1>5, <1>6, <1>7 DEF Concluded

-----------------------------------------------------------------------------
(* The invariant holds initially. *)
LEMMA InitKeeps ==
  ASSUME Init
  PROVE  IInv
<1>1. BatchTypeOK
  BY NoEndsType, BoundAssumption DEF Init, BatchTypeOK, Table
<1>2. RestTypeOK
  <2> DEFINE R == [number : Numbers, pair : Pairs,
                   reader : Numbers \cup {NoNumber, Elsewhere, MOBILE}]
  <2>1. results \in Seq(R)
    <3> HIDE DEF R
    <3> QED
      BY DEF Init
  <2> QED
    BY <2>1 DEF Init, RestTypeOK, Silence
<1>3. Labels
  BY LabelAssumption DEF Init, NoEnds, NoEnd, Labels, OneLabelOnePair, EndsAgree, Sides
<1> QED
  BY <1>1, <1>2, <1>3 DEF Init, IInv, TypeOK, BatchCanClose, LampMeansSomeOrder

(* The lamp and the descriptors change hands; the rack reboots. *)
LEMMA OthersKeep ==
  ASSUME IInv, SingleOrder \/ (\E fd \in Fds : OtherClient(fd)) \/ UNCHANGED vars
  PROVE  IInv'
<1>1. UNCHANGED batchVars /\ UNCHANGED <<alive, results, used>>
  BY DEF SingleOrder, OtherClient, vars, batchVars
<1>2. BatchTypeOK' /\ Labels' /\ BatchCanClose'
  BY <1>1 DEF IInv, TypeOK, batchVars, BatchTypeOK, Labels, OneLabelOnePair, EndsAgree,
              PairAgrees, BatchCanClose
<1>3. RestTypeOK' /\ LampMeansSomeOrder'
  <2>1. CASE SingleOrder
    BY <1>1, <2>1, SilenceType
       DEF SingleOrder, IInv, TypeOK, RestTypeOK, LampMeansSomeOrder
  <2>2. CASE \E fd \in Fds : OtherClient(fd)
    BY <1>1, <2>2
       DEF OtherClient, IInv, TypeOK, RestTypeOK, LampMeansSomeOrder, batchVars
  <2>3. CASE UNCHANGED vars
    BY <2>3 DEF vars, IInv, TypeOK, RestTypeOK, LampMeansSomeOrder
  <2> QED
    BY <2>1, <2>2, <2>3
<1> QED
  BY <1>2, <1>3 DEF IInv, TypeOK

(* A restart leaves no batch. *)
LEMMA RestartKeeps ==
  ASSUME IInv, Restart
  PROVE  IInv'
<1>1. ClearBatch /\ UNCHANGED <<results, used>>
  BY DEF Restart
<1>2. TypeOK'
  BY <1>1, ClearType, SilenceType DEF Restart, IInv, TypeOK, RestTypeOK
<1>3. Labels'
  BY <1>1, ClearLabels DEF ClearBatch
<1> QED
  BY <1>2, <1>3 DEF Restart, ClearBatch, IInv, BatchCanClose, LampMeansSomeOrder

(* Every step keeps the invariant. *)
LEMMA StepKeeps ==
  ASSUME IInv, [Next]_vars
  PROVE  IInv'
<1>1. CASE Ask
  BY <1>1, RequestKeeps, CancelKeeps DEF Ask
<1>2. CASE \E i \in Pairs, p \in Ports : \E e \in Eids : Inserted(i, p, e)
  BY <1>2, InsertedKeeps
<1>3. CASE \E i \in Pairs, p \in Ports : PulledBack(i, p)
  BY <1>3, PulledKeeps
<1>4. CASE \E i \in Pairs, p \in Ports : \E good \in BOOLEAN : Concluded(i, p, good)
  BY <1>4, ConcludedKeeps
<1>5. CASE SingleOrder \/ (\E fd \in Fds : OtherClient(fd)) \/ UNCHANGED vars
  BY <1>5, OthersKeep
<1>6. CASE Restart
  BY <1>6, RestartKeeps
<1> QED
  BY <1>1, <1>2, <1>3, <1>4, <1>5, <1>6 DEF Next

(* The invariant holds in every state. *)
LEMMA IInvCorrect == Spec => []IInv
BY InitKeeps, StepKeeps, PTL DEF Spec

(* Every variable of a batch keeps to its values under any reports. *)
THEOREM BatchTypeCorrect == Spec => []TypeOK
BY IInvCorrect, PTL DEF IInv

(* No label is ever recorded for two pairs of a batch. *)
THEOREM OneLabelCorrect == Spec => []OneLabelOnePair
<1>1. IInv => OneLabelOnePair
  BY DEF IInv, Labels
<1> QED
  BY <1>1, IInvCorrect, PTL

(* The two labels recorded for a pair always agree. *)
THEOREM EndsAgreeCorrect == Spec => []EndsAgree
<1>1. IInv => EndsAgree
  BY DEF IInv, Labels
<1> QED
  BY <1>1, IInvCorrect, PTL

(* The count of results never passes the number of pairs. *)
THEOREM CanCloseCorrect == Spec => []BatchCanClose
BY IInvCorrect, PTL DEF IInv

(* The shared lamp never burns with neither a single order nor a batch. *)
THEOREM SomeOrderCorrect == Spec => []LampMeansSomeOrder
BY IInvCorrect, PTL DEF IInv
=============================================================================
