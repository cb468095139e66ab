---------------------------- MODULE JianeiBatch ----------------------------
(***************************************************************************)
(* Batch orders (Jianei_Order_new_5_ports.c): up to MaxEntries pairs of    *)
(* ports are labelled under one order number.  The labels of a pair must   *)
(* agree, a label belongs to one pair, each pair has a result of its own,  *)
(* and the batch ends when as many results were written as it has pairs.   *)
(*                                                                         *)
(* Handlers run under mobile_mutex, so one handler is one step.  The       *)
(* slots are empty when one starts, but for an output notice that a single *)
(* order may leave (OnlyOutputLingers of JianeiOrder): such a notice can   *)
(* only make a transmission fail, which Transmit allows in any case.       *)
(***************************************************************************)
EXTENDS Naturals, Sequences

CONSTANTS
  MaxBoard,     \* highest board number (MAX146)
  MaxEntries,   \* pairs a batch may have (MAX_ENTIRES)
  Ports,        \* ports of the rack
  BoardOf,      \* number of the board a port sits on (byte 0 of its address)
  Eids,         \* label contents
  Checked,      \* bytes 5..20 of a label; Blank for no label
  Numbers,      \* order numbers, none of them blank
  Layouts,      \* sequences of [ydk, ddk] pairs of ports that requests name
  Fds,          \* socket descriptors accept() may hand out
  MOBILE,       \* the handheld on uart1
  Elsewhere,    \* whoever holds a descriptor without having asked for a batch
  NoPort, NoEid, NoNumber, NoFrame, Blank   \* the all-zero values

ASSUME BoundAssumption == MaxBoard \in Nat \ {0} /\ MaxEntries \in Nat \ {0}
ASSUME RackAssumption == BoardOf \in [Ports -> 1..MaxBoard] /\ NoPort \notin Ports
(* bytes 5..20 of a real label are not all zero *)
ASSUME LabelAssumption ==
  /\ NoEid \notin Eids
  /\ DOMAIN Checked = Eids \cup {NoEid}
  /\ Checked[NoEid] = Blank
  /\ \A e \in Eids : Checked[e] # Blank
ASSUME LayoutAssumption ==
  \A l \in Layouts : /\ l \in Seq([ydk : Ports, ddk : Ports])
                     /\ Len(l) \in 1..MaxEntries
ASSUME AskerAssumption == NoNumber \notin Numbers /\ MOBILE \notin Fds

VARIABLES
  batch,       \* ord_number and ord_type/ord_fd of Jianei_Batch
  ends,        \* [ydk or ddk][pair]: address, label and status of an end
  entires,     \* batchs_entires, pairs of the batch
  uploads,     \* upload_entires, results written for the batch
  single,      \* whether Jianei_Order, the single order, has a number
  orderLed,    \* the order lamp, shared with the single orders
  sent,        \* frames the last handler transmitted, and whether all were taken
  alive,       \* FALSE once the process has died
  holder,      \* for each descriptor, the number its holder asked for
  results,     \* the results written: number, pair and who got it
  used         \* numbers requested so far

batchVars == <<batch, ends, entires, uploads>>
vars == <<batch, ends, entires, uploads, single, orderLed, sent, alive, holder,
          results, used>>

Pairs == 1..MaxEntries
Sides == {"ydk", "ddk"}
Other(side) == IF side = "ydk" THEN "ddk" ELSE "ydk"

(* DYB_PORT_STAT_MARK_*, and the results 0a and 0e in the same byte *)
OFFLINE == "00"
ONLINE == "44"
CONCLUDED == "0a"
FAILED == "0e"

(* command bytes of frames to the boards *)
START == "07"
REDIRECT == "41"
CONFIRM == "0a"
GUIDE == "88"
OUTPUT == "8c"
WITHDRAW == "a2"

Frame(op, ports) == [op |-> op, ports |-> ports]
Frames == [op : {START, REDIRECT, CONFIRM, GUIDE, OUTPUT, WITHDRAW},
           ports : SUBSET (Ports \cup {NoPort})]
ASSUME FrameAssumption == NoFrame \notin Frames

Ends == [port : Ports \cup {NoPort}, eid : Eids \cup {NoEid},
         stat : {OFFLINE, ONLINE, CONCLUDED, FAILED}]
NoEnd == [port |-> NoPort, eid |-> NoEid, stat |-> OFFLINE]
NoEnds == [s \in Sides |-> [i \in Pairs |-> NoEnd]]

(* byte 0 of an address; 0 for the all-zero address *)
BoardNo(p) == IF p = NoPort THEN 0 ELSE BoardOf[p]

(***************************************************************************)
(* Slots are numbered as in uart0.txBuf: Stage(tx, s, f) is the memset and *)
(* memcpy of row s.  The confirm, the redirect and the requests use row    *)
(* board - 1; the guidance and the output command use row board.           *)
(***************************************************************************)
Slots == 0..MaxBoard
NoFrames == [s \in Slots |-> NoFrame]
Stage(tx, s, fr) == [tx EXCEPT ![s] = fr]
Staged(tx) == {tx[s] : s \in Slots} \ {NoFrame}

(***************************************************************************)
(* module_order_tasks_to_sim3u1xx_board on the rows staged.  A frame goes  *)
(* to the boards of the ports it names: the line is shared, the row only   *)
(* keeps the frame until it is sent.                                       *)
(***************************************************************************)
Transmit(tx, ok) ==
  /\ Staged(tx) = {} => ok
  /\ sent' = [frames |-> Staged(tx), acked |-> ok]

Silence == [frames |-> {}, acked |-> TRUE]

(* mutant: the lamp stays lit *)
FailureLampOn == single' = FALSE /\ UNCHANGED orderLed

(***************************************************************************)
(* orderoperations_failure_and_reply_to_mobile, as the batch calls it: the *)
(* lamp goes out and Jianei_Order, the single order, is cleared.           *)
(* Jianei_Batch is not.                                                    *)
(***************************************************************************)
Failure == orderLed' = FALSE /\ single' = FALSE

(* transmit; when a board does not answer, the failure routine *)
TransmitOrFail(tx) ==
  \E ok \in BOOLEAN :
    /\ Transmit(tx, ok)
    /\ IF ok THEN UNCHANGED <<orderLed, single>> ELSE Failure

(* The memset of Jianei_Batch *)
ClearBatch ==
  /\ batch' = [number |-> NoNumber, to |-> MOBILE]
  /\ ends' = NoEnds
  /\ entires' = 0
  /\ uploads' = 0

-----------------------------------------------------------------------------
(* Preparing_cmd0d and Preparing_cmdA2: one frame per board with its ports *)
PortsOf(l) == UNION {{l[i].ydk, l[i].ddk} : i \in DOMAIN l}
StageAll(op, l) ==
  [s \in Slots |-> LET mine == {p \in PortsOf(l) : BoardOf[p] = s + 1}
                   IN  IF mine = {} THEN NoFrame ELSE Frame(op, mine)]

(* Preparing_record_5_ports_relationship *)
Recorded(l) ==
  [s \in Sides |-> [i \in Pairs |->
     IF i \in DOMAIN l THEN [NoEnd EXCEPT !.port = l[i][s]] ELSE NoEnd]]

(* a request comes from the handheld, or on a descriptor just accepted *)
Arrive(who, to) ==
  /\ to \in Fds => holder[to] = NoNumber
  /\ holder' = IF to \in Fds THEN [holder EXCEPT ![to] = who] ELSE holder

(***************************************************************************)
(* A request.  mine: it names this rack.  Otherwise, the batch keeps its   *)
(* number, with neither asker nor ports; when a board does not answer, it  *)
(* keeps the asker and the number of pairs too.                            *)
(***************************************************************************)
Request(n, to, l, mine) ==
  /\ n \notin used
  /\ used' = used \cup {n}
  /\ Arrive(n, to)
  /\ uploads' = 0
  /\ UNCHANGED <<alive, results>>
  /\ \/ /\ ~mine
        /\ batch' = [number |-> n, to |-> MOBILE]
        /\ entires' = 0
        /\ ends' = NoEnds
        /\ sent' = Silence
        /\ Failure
     \/ /\ mine
        /\ batch' = [number |-> n, to |-> to]
        /\ entires' = Len(l)
        /\ \E ok \in BOOLEAN :
             /\ Transmit(StageAll(START, l), ok)
             /\ ends' = IF ok THEN Recorded(l) ELSE NoEnds
             /\ IF ok THEN orderLed' = TRUE /\ UNCHANGED single ELSE Failure

(* A cancel ends the batch in hand, whatever ports it names; its own       *)
(* transmission may fail without consequence.                              *)
Cancel(to, l) ==
  /\ Arrive(Elsewhere, to)
  /\ \E ok \in BOOLEAN : Transmit(StageAll(WITHDRAW, l), ok)
  /\ ClearBatch
  /\ orderLed' = FALSE
  /\ UNCHANGED <<single, alive, results, used>>

-----------------------------------------------------------------------------
(* The end of pair i that port p is compared with and found to be *)
EndsAt(i, p) ==
  IF ends["ydk"][i].port = p THEN {"ydk"}
  ELSE IF ends["ddk"][i].port = p THEN {"ddk"} ELSE {}

(* Preparing_cmd88 looks at the ydk ends first, then at the ddk ends *)
KnownAt(e, side) == {k \in Pairs : Checked[ends[side][k].eid] = Checked[e]}
FirstOf(S) == CHOOSE k \in S : \A j \in S : k <= j
FoundSide(e) == IF KnownAt(e, "ydk") # {} THEN "ydk" ELSE "ddk"
(* mutant: the second loop is missing *)
KnownAtSource(e) == KnownAt(e, "ydk") # {}
Known(e) == KnownAt(e, "ydk") \cup KnownAt(e, "ddk") # {}
FoundPair(e) == FirstOf(KnownAt(e, FoundSide(e)))
Misplaced(i, e) == Known(e) /\ FoundPair(e) # i

(***************************************************************************)
(* The label of one pair was put in at another, at port p of pair i: the   *)
(* port where it belongs and p are to blink.  Whether one frame does is    *)
(* decided by the board of pair i, not of the pair found.                  *)
(***************************************************************************)
GuideStage(i, p, e) ==
  LET far == Other(FoundSide(e))
      right == {ends[far][FoundPair(e)].port}
      row == BoardNo(ends[far][i].port)
  IN  IF BoardNo(ends["ddk"][i].port) = BoardOf[p]
      THEN Stage(NoFrames, row, Frame(GUIDE, right \cup {p}))
      ELSE Stage(Stage(NoFrames, row, Frame(GUIDE, right)), BoardOf[p], Frame(GUIDE, {p}))

(* mutant: the label at the other end is not looked at *)
KeptAnyway(s, i, e) == ends[s][i].eid = NoEid

(* the label at end s of pair i, if the other end has none or agrees *)
Kept(s, i, e) ==
  LET far == ends[Other(s)][i].eid
  IN  /\ ends[s][i].eid = NoEid
      /\ far = NoEid \/ Checked[far] = Checked[e]

AfterInsert(i, p, e) ==
  [s \in Sides |->
     IF s \in EndsAt(i, p) /\ Kept(s, i, e)
     THEN [ends[s] EXCEPT ![i] = [@ EXCEPT !.eid = e, !.stat = ONLINE]]
     ELSE ends[s]]

(***************************************************************************)
(* Where the label goes next: to the other end when it is the first of its *)
(* pair, back to p when it differs from the one at the other end.          *)
(***************************************************************************)
RedirectStage(i, p, e) ==
  LET open == {s \in EndsAt(i, p) : ends[s][i].eid = NoEid}
      first == {s \in open : ends[Other(s)][i].eid = NoEid}
      wrong == {s \in open \ first : ~Kept(s, i, e)}
      to == {ends[Other(s)][i].port : s \in first} \cup {p : s \in wrong}
  IN  [s \in Slots |-> IF \E q \in to : BoardNo(q) = s + 1
                       THEN Frame(REDIRECT, to) ELSE NoFrame]

(***************************************************************************)
(* The two confirm frames of a pair on two boards are both staged in the   *)
(* row of the ydk end, so that the second replaces the first.              *)
(***************************************************************************)
ConfirmStage(tx, i) ==
  LET y == ends["ydk"][i].port
      d == ends["ddk"][i].port
      row == BoardNo(y) - 1
  IN  IF BoardNo(y) = BoardNo(d) THEN Stage(tx, row, Frame(CONFIRM, {y, d}))
      ELSE Stage(Stage(tx, row, Frame(CONFIRM, {y})), row, Frame(CONFIRM, {d}))

(* mutant: the labels are not compared *)
PairLabelled(en, i) == en["ydk"][i].eid # NoEid

PairAgrees(en, i) ==
  /\ en["ydk"][i].eid # NoEid
  /\ Checked[en["ydk"][i].eid] = Checked[en["ddk"][i].eid]

(* report 03: a label was put in at port p, named as of pair i *)
Inserted(i, p, e) ==
  /\ IF Misplaced(i, e)
     THEN /\ TransmitOrFail(GuideStage(i, p, e))
          /\ UNCHANGED ends
     ELSE /\ ends' = AfterInsert(i, p, e)
          /\ TransmitOrFail(IF PairAgrees(AfterInsert(i, p, e), i)
                            THEN ConfirmStage(RedirectStage(i, p, e), i)
                            ELSE RedirectStage(i, p, e))
  /\ UNCHANGED <<batch, entires, uploads, alive, holder, results, used>>

-----------------------------------------------------------------------------
(* Preparing_cmd8c *)
OutputStage(i) ==
  LET y == ends["ydk"][i].port
      d == ends["ddk"][i].port
  IN  IF BoardNo(y) = BoardNo(d)
      THEN Stage(NoFrames, BoardNo(y), Frame(OUTPUT, {y, d}))
      ELSE Stage(Stage(NoFrames, BoardNo(y), Frame(OUTPUT, {y})),
                 BoardNo(d), Frame(OUTPUT, {d}))

AfterPull(i, p) ==
  [s \in Sides |->
     IF s \in EndsAt(i, p)
     THEN [ends[s] EXCEPT ![i] = [@ EXCEPT !.eid = NoEid, !.stat = OFFLINE]]
     ELSE ends[s]]

(* report 8c: the label was pulled out again at port p *)
PulledBack(i, p) ==
  /\ ends' = AfterPull(i, p)
  /\ IF \A s \in Sides : AfterPull(i, p)[s][i].stat = OFFLINE
     THEN TransmitOrFail(OutputStage(i))
     ELSE sent' = Silence /\ UNCHANGED <<orderLed, single>>
  /\ UNCHANGED <<batch, entires, uploads, alive, holder, results, used>>

-----------------------------------------------------------------------------
(* The result of pair i: whoever holds the asker's descriptor now gets it. *)
Result(i) ==
  [number |-> batch.number, pair |-> i,
   reader |-> IF batch.to \in Fds THEN holder[batch.to] ELSE MOBILE]

(***************************************************************************)
(* A send() that fails closes the descriptor, which the batch keeps.  A    *)
(* send() on a descriptor that nobody holds fails.                         *)
(***************************************************************************)
Answer(i) ==
  \E delivered \in BOOLEAN :
    /\ batch.to \in Fds \/ delivered
    /\ batch.to \in Fds /\ holder[batch.to] = NoNumber => ~delivered
    /\ results' = IF delivered THEN Append(results, Result(i)) ELSE results
    /\ holder' = IF delivered THEN holder ELSE [holder EXCEPT ![batch.to] = NoNumber]

(* mutant: the results left are counted down, and not looked at *)
CountDown(en) ==
  /\ entires' = entires - 1
  /\ ends' = en
  /\ UNCHANGED <<batch, uploads, orderLed>>

(* mutant: the count is looked at before it is raised *)
CountLate(en) ==
  IF uploads = entires
  THEN ClearBatch /\ orderLed' = FALSE
  ELSE /\ uploads' = uploads + 1
       /\ ends' = en
       /\ UNCHANGED <<batch, entires, orderLed>>

(* the last result ends the batch *)
Count(en) ==
  IF uploads + 1 = entires
  THEN ClearBatch /\ orderLed' = FALSE
  ELSE /\ uploads' = uploads + 1
       /\ ends' = en
       /\ UNCHANGED <<batch, entires, orderLed>>

(* orderoperations_success_and_reply_to_mobile for a batch *)
Success(i, en) ==
  /\ Answer(i)
  /\ Count(en)
  /\ UNCHANGED <<alive, single>>

(* zkb_issue_cancle_command_to_jkb(NULL, ...) reads through the null pointer *)
Crash == alive' = FALSE /\ UNCHANGED <<batchVars, single, orderLed, holder, results>>

(* mutant: only the ydk end is told *)
AfterConcludeSource(i, p, good) ==
  [s \in Sides |->
     IF s \in EndsAt(i, p) \cap {"ydk"}
     THEN [ends[s] EXCEPT ![i].stat = IF good THEN CONCLUDED ELSE FAILED]
     ELSE ends[s]]

(* mutant: one report concludes both ends *)
AfterConcludeBoth(i, p, good) ==
  [s \in Sides |-> [ends[s] EXCEPT ![i].stat = IF good THEN CONCLUDED ELSE FAILED]]

AfterConclude(i, p, good) ==
  [s \in Sides |->
     IF s \in EndsAt(i, p)
     THEN [ends[s] EXCEPT ![i].stat = IF good THEN CONCLUDED ELSE FAILED]
     ELSE ends[s]]

(* report 0a: the board of port p has concluded it, or could not *)
Concluded(i, p, good) ==
  LET en == AfterConclude(i, p, good)
      stats == {en[s][i].stat : s \in Sides}
  IN  /\ sent' = Silence
      /\ UNCHANGED used
      /\ \/ /\ stats = {CONCLUDED}
            /\ batch.number # NoNumber
            /\ Success(i, en)
         \/ /\ FAILED \in stats
            /\ Crash
         \/ /\ FAILED \notin stats
            /\ stats = {CONCLUDED} => batch.number = NoNumber
            /\ ends' = en
            /\ UNCHANGED <<batch, entires, uploads, single, orderLed, alive, holder,
                           results>>

-----------------------------------------------------------------------------
(* A single order is taken, or ends (JianeiOrder): the lamp follows it. *)
SingleOrder ==
  /\ \E taken \in BOOLEAN : single' = taken /\ orderLed' = taken
  /\ sent' = Silence
  /\ UNCHANGED <<batchVars, alive, holder, results, used>>

(* another client is given a descriptor that is free, or loses its own *)
OtherClient(fd) ==
  /\ holder[fd] \in {NoNumber, Elsewhere}
  /\ holder' = [holder EXCEPT ![fd] = IF @ = NoNumber THEN Elsewhere ELSE NoNumber]
  /\ UNCHANGED <<batchVars, single, orderLed, sent, alive, results, used>>

(* the watchdog reboots the rack: memory, lamp and descriptors are gone *)
Restart ==
  /\ ~alive
  /\ alive' = TRUE
  /\ ClearBatch
  /\ single' = FALSE
  /\ orderLed' = FALSE
  /\ sent' = Silence
  /\ holder' = [fd \in Fds |-> NoNumber]
  /\ UNCHANGED <<results, used>>

Init ==
  /\ batch = [number |-> NoNumber, to |-> MOBILE]
  /\ ends = NoEnds
  /\ entires = 0
  /\ uploads = 0
  /\ single = FALSE
  /\ orderLed = FALSE
  /\ sent = Silence
  /\ alive = TRUE
  /\ holder = [fd \in Fds |-> NoNumber]
  /\ results = <<>>
  /\ used = {}

Ask ==
  \E to \in Fds \cup {MOBILE}, l \in Layouts :
    \/ \E n \in Numbers, mine \in BOOLEAN : Request(n, to, l, mine)
    \/ Cancel(to, l)

(* Any board may report anything of any port, under any pair index. *)
Next ==
  \/ /\ alive
     /\ \/ Ask
        \/ \E i \in Pairs, p \in Ports :
             \/ \E e \in Eids : Inserted(i, p, e)
             \/ PulledBack(i, p)
             \/ \E good \in BOOLEAN : Concluded(i, p, good)
        \/ SingleOrder
        \/ \E fd \in Fds : OtherClient(fd)
  \/ Restart

Spec == Init /\ [][Next]_vars

-----------------------------------------------------------------------------
(* Every variable keeps to the values the C fields can hold. *)
BatchTypeOK ==
  /\ batch \in [number : Numbers \cup {NoNumber}, to : Fds \cup {MOBILE}]
  /\ ends \in [Sides -> [Pairs -> Ends]]
  /\ entires \in 0..MaxEntries
  /\ uploads \in Nat

RestTypeOK ==
  /\ single \in BOOLEAN
  /\ orderLed \in BOOLEAN
  /\ sent \in [frames : SUBSET Frames, acked : BOOLEAN]
  /\ alive \in BOOLEAN
  /\ holder \in [Fds -> Numbers \cup {NoNumber, Elsewhere}]
  /\ results \in Seq([number : Numbers, pair : Pairs,
                      reader : Numbers \cup {NoNumber, Elsewhere, MOBILE}])
  /\ used \subseteq Numbers

TypeOK == BatchTypeOK /\ RestTypeOK

(* One label is never recorded for two pairs, in whatever order labels are *)
(* put in, pulled out and put back at all ends (Preparing_cmd88 looks for  *)
(* a label in every pair before it is kept).                               *)
OneLabelOnePair ==
  \A i, j \in Pairs : \A s, t \in Sides :
    ends[s][i].eid # NoEid /\ Checked[ends[s][i].eid] = Checked[ends[t][j].eid] => i = j

(* The labels recorded at the two ends of a pair agree on the bytes that   *)
(* decide the confirm: no pair can fill up with two labels and be stuck.   *)
EndsAgree ==
  \A i \in Pairs :
    ends["ydk"][i].eid # NoEid /\ ends["ddk"][i].eid # NoEid => PairAgrees(ends, i)

(* A batch in hand always waits for more results: the counter never passes *)
(* the number of pairs, or the batch would stay open for ever.             *)
BatchCanClose == entires > 0 => uploads < entires

(* The lamp, which single and batch orders share, does not burn when there *)
(* is neither.                                                             *)
LampMeansSomeOrder == orderLed => single \/ batch.number # NoNumber
=============================================================================
