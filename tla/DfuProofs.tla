----------------------------- MODULE DfuProofs -----------------------------
(***************************************************************************)
(* Downloads and the updates over the line, for any number of boards,      *)
(* trays, packets and downloads: an update is of one whole file, one unit  *)
(* is at work at a time, the boards are counted right, and the webmaster   *)
(* is told what became of them.                                            *)
(***************************************************************************)
EXTENDS DfuDownload, FiniteSetTheorems, TLAPS

Stages == 0..STAGE3_DEVICE_RESTART
Says(Units) == [Units -> [stage : Stages, n : Byte]]

(* The units an update began with. *)
Members(s) == {u \in DOMAIN s.updating : s.updating[u] = UPDATE_NOW}

-----------------------------------------------------------------------------
(* The boards.  What is known of those that are through, and that the count *)
(* is of those that are not.                                                *)
Result(run) == IF run = "new" THEN 0 ELSE UPDATE_FAIL

BoardsKnown(s) ==
  /\ s \in UnitRecords(Boards)
  /\ s.total_update_nums = Cardinality(Pending(s))
  /\ \A b \in Members(s) \ Pending(s) : s.updating_result[b] = Result(boardRuns[b])

BoardInv ==
  /\ BoardsKnown(sim3u146)
  /\ boardSays \in Says(Boards)
  /\ boardRuns \in [Boards -> Programs]
  /\ \A b \in Pending(sim3u146) : boardRuns[b] = "new" => boardSays[b].stage = STAGE3_DEVICE_RESTART
  /\ \A b \in Boards : boardSays[b].stage = STAGE3_DEVICE_RESTART =>
       boardSays[b].n = Result(boardRuns[b])
  /\ \A b \in Boards : b # sim3u146.updating_index => boardSays[b] = Nothing
  /\ IF sim3u146.update = UPDATE_DONE
     THEN Members(sim3u146) = {} /\ sim3u146.updating_index = 0
     ELSE /\ sim3u146.updating_index \in Pending(sim3u146)
          /\ boardSays[sim3u146.updating_index] # Nothing

(* What the result of an update of the boards B says. *)
BoardsOutcome(B) ==
  /\ sim3u146.update_result = 0 => \A b \in B : boardRuns[b] = "new"
  /\ sim3u146.update_result = 1 => \E b \in B : boardRuns[b] # "new"

-----------------------------------------------------------------------------
(* The trays.  One that refused keeps the result of one still to do; when   *)
(* none has failed the count is of no fewer than are left.                  *)
TraysFailed(s) == {t \in Members(s) : s.updating_result[t] = UPDATE_FAIL}

TraysKnown(s) ==
  /\ s \in UnitRecords(Trays)
  /\ \A t \in Pending(s) : s.updating_result[t] = UPDATE_NOW
  /\ \A t \in Members(s) \ Pending(s) : trayRuns[t] \in {"new", "refused"} \/ t \in TraysFailed(s)
  /\ TraysFailed(s) # {} => \E t \in Members(s) \ Pending(s) : trayRuns[t] = "part"
  /\ TraysFailed(s) = {} => Cardinality(Pending(s)) <= s.total_update_nums

(* What a tray is about to report is true of it. *)
TraySaysTrue(says, run) ==
  /\ says.stage = STAGE1_DEVICE_STARTUP =>
       says.n \in 0..1 /\ run = IF says.n = 1 THEN "refused" ELSE "part"
  /\ says.stage = STAGE2_WRITING_NFLASH => says.n <= dfu.data_packet_num /\ run = "part"
  /\ says.stage = STAGE3_DEVICE_RESTART =>
       says.n \in 0..1 /\ run = IF says.n = 1 THEN "part" ELSE "new"

TrayInv ==
  /\ TraysKnown(cf8051)
  /\ traySays \in Says(Trays)
  /\ trayRuns \in [Trays -> Programs]
  /\ unanswered \subseteq Trays
  /\ \A t \in Trays : TraySaysTrue(traySays[t], trayRuns[t])
  /\ \A t \in Trays : traySays[t] # Nothing =>
       t = cf8051.updating_index /\ t \in Pending(cf8051)
  /\ cf8051.update = UPDATE_DONE => Members(cf8051) = {}

TraysOutcome(T) ==
  /\ cf8051.update_result = 0 => \A t \in T : trayRuns[t] \in {"new", "refused"}
  /\ cf8051.update_result = 1 => \E t \in T : trayRuns[t] \notin {"new", "refused"}

-----------------------------------------------------------------------------
(* The download. *)
Present == {i \in Packets : dfu.packets[i] = file.number}

DownloadInv ==
  /\ dfu \in [type : {0, TRAYS, BOARDS}, data_packet_num : Byte, recv_packet_num : 0..MaxSize,
              packets : [Packets -> FileNumbers]]
  /\ thread \in {"none", "receiving", "starting"}
  /\ file \in [number : FileNumbers, size : Sizes \cup {0}]
  /\ \A i \in Packets : dfu.packets[i] <= file.number
  /\ file.number # 0 =>
       /\ dfu.type # 0 /\ file.size \in Sizes
       /\ dfu.recv_packet_num = Cardinality(Present)
  /\ thread # "none" =>
       /\ Quiet
       /\ file.number # 0
       /\ dfu.data_packet_num = file.size
       /\ updated.number # file.number
       /\ \A b \in Boards : boardRuns[b] # "new"
  /\ thread = "starting" => AllSent
  /\ ~Quiet => /\ file.number # 0
               /\ dfu.type = IF sim3u146.update = UPDATE_NOW THEN BOARDS ELSE TRAYS
  /\ cf8051.update = UPDATE_NOW => sim3u146.update = UPDATE_DONE
  /\ UpdateIsOfOneFile

Asked == IF dfu.type = BOARDS THEN sim3u146 ELSE cf8051

(* The units of the last update started, and what was told of it. *)
OutcomeInv ==
  /\ updated \in [number : FileNumbers, units : SUBSET (Boards \cup Trays)]
  /\ updated.number <= file.number
  /\ updated.number = file.number /\ file.number # 0 =>
       IF dfu.type = BOARDS
       THEN IF sim3u146.update = UPDATE_NOW THEN updated.units = Members(sim3u146)
            ELSE BoardsOutcome(updated.units)
       ELSE IF cf8051.update = UPDATE_NOW THEN updated.units = Members(cf8051)
            ELSE TraysOutcome(updated.units)
  /\ asked \in [number : FileNumbers, reply : {UPDATE_NOW, 0, 1, UPDATE_FAIL}]
  /\ asked.number <= file.number
  /\ asked.number # 0 /\ asked.number = file.number =>
       /\ updated.number = file.number
       /\ asked.reply \in {0, 1} => Asked.update = UPDATE_DONE /\ asked.reply = Asked.update_result

DfuInv == BoardInv /\ TrayInv /\ DownloadInv /\ OutcomeInv

-----------------------------------------------------------------------------
(* Units and counts. *)

(* There are finitely many units, so what is left of them can be counted. *)
LEMMA UnitsFinite ==
  /\ Boards \subseteq Nat /\ IsFiniteSet(Boards) /\ 0 \notin Boards
  /\ Trays \subseteq Nat /\ IsFiniteSet(Trays) /\ 0 \notin Trays
BY BoardAssumption, TrayAssumption, FS_Interval DEF Boards, Trays

(* The units left are among those of the update. *)
LEMMA PendingIn ==
  ASSUME NEW Us, NEW s \in UnitRecords(Us), IsFiniteSet(Us)
  PROVE  /\ DOMAIN s.updating = Us
         /\ Pending(s) = {u \in Us : s.updating[u] = UPDATE_NOW /\ s.updating_status[u] = UPDATE_NOW}
         /\ Members(s) = {u \in Us : s.updating[u] = UPDATE_NOW}
         /\ Pending(s) \subseteq Members(s)
         /\ Members(s) \subseteq Us
         /\ IsFiniteSet(Pending(s))
         /\ Cardinality(Pending(s)) \in Nat
         /\ Pending(s) = {} <=> Cardinality(Pending(s)) = 0
<1>1. DOMAIN s.updating = Us
  BY DEF UnitRecords
<1>2. Pending(s) \in SUBSET Us
  BY <1>1 DEF Pending
<1>3. IsFiniteSet(Pending(s))
  BY <1>2, FS_Subset
<1> QED
  BY <1>1, <1>2, <1>3, FS_CardinalityType, FS_EmptySet DEF Pending, Members

(* Taking units out of a finite set lowers its count by theirs. *)
LEMMA CountLess ==
  ASSUME NEW S, IsFiniteSet(S), NEW T \in SUBSET S
  PROVE  /\ Cardinality(T) \in Nat
         /\ Cardinality(S \ T) \in Nat
         /\ Cardinality(S) = Cardinality(S \ T) + Cardinality(T)
<1>1. IsFiniteSet(T) /\ IsFiniteSet(S \ T)
  BY FS_Subset
<1>2. (S \ T) \cup T = S /\ (S \ T) \cap T = {}
  OBVIOUS
<1>3. Cardinality((S \ T) \cup T) = Cardinality(S \ T) + Cardinality(T) - Cardinality((S \ T) \cap T)
  BY <1>1, FS_Union
<1>4. Cardinality(T) \in Nat /\ Cardinality(S \ T) \in Nat
  BY <1>1, FS_CardinalityType
<1>5. Cardinality((S \ T) \cap T) = 0
  BY <1>2, FS_EmptySet
<1>6. Cardinality(S) = Cardinality(S \ T) + Cardinality(T) - 0
  BY <1>2, <1>3, <1>5
<1>7. \A a, b \in Nat : a + b - 0 = a + b
  OBVIOUS
<1> QED
  BY <1>4, <1>6, <1>7, Zenon

(* With nothing to do there is nothing left. *)
LEMMA NoUnitsKnown ==
  ASSUME NEW Us
  PROVE  /\ NoUnits(Us) \in UnitRecords(Us)
         /\ NoUnits(Us).update = UPDATE_DONE
         /\ Members(NoUnits(Us)) = {} /\ Pending(NoUnits(Us)) = {}
BY DEF NoUnits, UnitRecords, Members, Pending, UPDATE_DONE, UPDATE_NOW, UPDATE_FAIL, Byte

(* What is left of the state of an update when it is over. *)
LEMMA VerdictKnown ==
  ASSUME NEW Us, NEW s \in UnitRecords(Us)
  PROVE  LET v == Verdict(s)
         IN  /\ v \in UnitRecords(Us)
             /\ v.update = UPDATE_DONE /\ v.updating_index = 0 /\ v.total_update_nums = 0
             /\ Members(v) = {} /\ Pending(v) = {}
             /\ v.update_result = IF \E u \in Members(s) : s.updating_result[u] = UPDATE_FAIL
                                  THEN 1 ELSE 0
<1>1. DOMAIN s.updating = Us
  BY DEF UnitRecords
<1>2. (\E u \in DOMAIN s.updating : s.updating[u] = UPDATE_NOW /\ s.updating_result[u] = UPDATE_FAIL)
      <=> (\E u \in Members(s) : s.updating_result[u] = UPDATE_FAIL)
  BY DEF Members
<1>3. Verdict(s) = [NoUnits(Us) EXCEPT !.update_result =
        IF \E u \in Members(s) : s.updating_result[u] = UPDATE_FAIL THEN 1 ELSE 0]
  BY <1>1, <1>2 DEF Verdict
<1> QED
  BY <1>3 DEF NoUnits, UnitRecords, Members, Pending, UPDATE_DONE, UPDATE_NOW, UPDATE_FAIL, Byte

-----------------------------------------------------------------------------
(* The boards. *)

(* Boards that do not answer are through, and taken off the count. *)
LEMMA BoardsFailKnown ==
  ASSUME NEW s, BoardsKnown(s), NEW B \in SUBSET Pending(s), \A b \in B : boardRuns[b] # "new",
         NEW t, t = BoardsFail(s, B)
  PROVE  /\ BoardsKnown(t)
         /\ Pending(t) = Pending(s) \ B
         /\ Members(t) = Members(s)
         /\ t.update = s.update /\ t.updating_index = s.updating_index
<1>1. /\ s \in UnitRecords(Boards) /\ s.total_update_nums = Cardinality(Pending(s))
      /\ B \subseteq Boards
      /\ IsFiniteSet(Pending(s))
  BY PendingIn, UnitsFinite DEF BoardsKnown
<1>2. Less(s.total_update_nums, Cardinality(B)) = Cardinality(Pending(s) \ B)
  <2>1. /\ Cardinality(B) \in Nat /\ Cardinality(Pending(s) \ B) \in Nat
        /\ Cardinality(Pending(s)) = Cardinality(Pending(s) \ B) + Cardinality(B)
    BY <1>1, CountLess
  <2>2. \A n, k, m \in Nat : n = m + k /\ n \in Byte => Less(n, k) = m
    BY DEF Less, Byte
  <2>3. s.total_update_nums \in Byte
    BY <1>1 DEF UnitRecords
  <2>4. s.total_update_nums \in Nat
    BY <2>3 DEF Byte
  <2> QED
    BY <1>1, <2>1, <2>2, <2>3, <2>4
<1>3. /\ t \in UnitRecords(Boards)
      /\ t.update = s.update /\ t.updating_index = s.updating_index /\ t.updating = s.updating
      /\ t.total_update_nums = Cardinality(Pending(s) \ B)
      /\ \A b \in Boards : t.updating_status[b] = IF b \in B THEN UPDATE_DONE ELSE s.updating_status[b]
      /\ \A b \in Boards : t.updating_result[b] = IF b \in B THEN UPDATE_FAIL ELSE s.updating_result[b]
  <2>1. Cardinality(Pending(s) \ B) \in Byte
    <3>1. s.total_update_nums \in Nat /\ Cardinality(B) \in Nat
      <4>1. s.total_update_nums \in Nat
        BY <1>1 DEF UnitRecords, Byte
      <4> QED
        BY <1>1, <4>1, CountLess
    <3>2. \A n, k \in Nat : Less(n, k) \in Byte
      BY DEF Less, Byte
    <3>3. Less(s.total_update_nums, Cardinality(B)) \in Byte
      BY <3>1, <3>2, Zenon
    <3> QED
      BY <1>2, <3>3, Zenon
  <2> QED
    BY <1>1, <1>2, <2>1 DEF BoardsFail, UnitRecords, UPDATE_DONE, UPDATE_FAIL
<1>4. Pending(t) = Pending(s) \ B /\ Members(t) = Members(s)
  <2>1. /\ Pending(s) = {u \in Boards : s.updating[u] = UPDATE_NOW /\ s.updating_status[u] = UPDATE_NOW}
        /\ Pending(t) = {u \in Boards : t.updating[u] = UPDATE_NOW /\ t.updating_status[u] = UPDATE_NOW}
        /\ Members(s) = {u \in Boards : s.updating[u] = UPDATE_NOW}
        /\ Members(t) = {u \in Boards : t.updating[u] = UPDATE_NOW}
    BY <1>1, <1>3, PendingIn, UnitsFinite
  <2> QED
    BY <1>3, <2>1 DEF UPDATE_DONE, UPDATE_NOW
<1>5. \A b \in Members(t) \ Pending(t) : t.updating_result[b] = Result(boardRuns[b])
  <2>1. Members(t) \subseteq Boards
    BY <1>3, PendingIn, UnitsFinite
  <2> QED
    BY <1>3, <1>4, <2>1 DEF BoardsKnown, Result
<1> QED
  BY <1>3, <1>4, <1>5 DEF BoardsKnown

(* An update that is over has a verdict that is true. *)
LEMMA BoardsVerdict ==
  ASSUME NEW s, BoardsKnown(s), Pending(s) = {}, sim3u146' = Verdict(s), UNCHANGED boardRuns
  PROVE  /\ BoardsKnown(sim3u146)'
         /\ sim3u146'.update = UPDATE_DONE /\ sim3u146'.updating_index = 0
         /\ Members(sim3u146') = {} /\ Pending(sim3u146') = {}
         /\ BoardsOutcome(Members(s))'
<1>1. /\ sim3u146' \in UnitRecords(Boards)
      /\ sim3u146'.update = UPDATE_DONE /\ sim3u146'.updating_index = 0
      /\ sim3u146'.total_update_nums = 0
      /\ Members(sim3u146') = {} /\ Pending(sim3u146') = {}
      /\ sim3u146'.update_result = IF \E u \in Members(s) : s.updating_result[u] = UPDATE_FAIL
                                  THEN 1 ELSE 0
  BY VerdictKnown DEF BoardsKnown
<1>2. BoardsKnown(sim3u146)'
  BY <1>1, FS_EmptySet DEF BoardsKnown
<1>3. \A b \in Members(s) : s.updating_result[b] = Result(boardRuns'[b])
  BY DEF BoardsKnown
<1> QED
  BY <1>1, <1>2, <1>3 DEF BoardsOutcome, Result, UPDATE_FAIL

(* After a report, or at the start, the next board is started that answers, *)
(* or the update is over.                                                   *)
LEMMA StartupKnown ==
  ASSUME NEW s, BoardsKnown(s), NEW r, \A b \in Boards : b # r => boardSays[b] = Nothing,
         boardSays \in Says(Boards), boardRuns \in [Boards -> Programs],
         \A b \in Pending(s) : boardRuns[b] # "new", StartupService(s, r)
  PROVE  /\ BoardInv'
         /\ sim3u146'.update = UPDATE_NOW => Members(sim3u146') = Members(s)
         /\ sim3u146'.update = UPDATE_DONE => BoardsOutcome(Members(s))'
<1> DEFINE says == [b \in Boards |-> IF b = r THEN Nothing ELSE boardSays[b]]
<1>1. says = [b \in Boards |-> Nothing]
  OBVIOUS
<1>2. s \in UnitRecords(Boards)
  BY DEF BoardsKnown
<1>3. Pending(s) \subseteq Boards /\ IsFiniteSet(Pending(s)) /\ (Pending(s) = {} <=> Cardinality(Pending(s)) = 0)
  BY <1>2, PendingIn, UnitsFinite
<1>4. CASE StartupServiceDone(s) /\ boardSays' = says /\ UNCHANGED boardRuns
  <2>1. CASE NothingLeft(s) /\ sim3u146' = Verdict(s)
    <3>1. Pending(s) = {}
      BY <1>3, <2>1 DEF NothingLeft, BoardsKnown
    <3> QED
      BY <1>1, <1>4, <2>1, <3>1, BoardsVerdict DEF BoardInv, Says, Nothing, Report, Stages, Byte,
         STAGE3_DEVICE_RESTART, UPDATE_DONE, UPDATE_NOW
  <2>2. CASE sim3u146' = Verdict(BoardsFail(s, Pending(s)))
    <3> DEFINE t == BoardsFail(s, Pending(s))
    <3>1. BoardsKnown(t) /\ Pending(t) = {} /\ Members(t) = Members(s)
      BY BoardsFailKnown
    <3>2. sim3u146' = Verdict(t)
      BY <2>2
    <3> HIDE DEF t
    <3> QED
      BY <1>1, <1>4, <3>1, <3>2, BoardsVerdict DEF BoardInv, Says, Nothing, Report, Stages, Byte,
         STAGE3_DEVICE_RESTART, UPDATE_DONE, UPDATE_NOW
  <2> QED
    BY <1>4, <2>1, <2>2 DEF StartupServiceDone
<1>5. ASSUME NEW b \in Pending(s), sim3u146' = NextBoard(s, b),
             boardSays' = [says EXCEPT ![b] = Report(STAGE1_DEVICE_STARTUP, 0)],
             boardRuns' = [boardRuns EXCEPT ![b] = "part"]
      PROVE  BoardInv' /\ sim3u146'.update = UPDATE_NOW /\ Members(sim3u146') = Members(s)
  <2> DEFINE passed == {c \in Pending(s) : c < b}
             t == BoardsFail(s, passed)
  <2>1. b \notin passed /\ passed \subseteq Pending(s)
    <3>1. b \in Nat
      BY <1>3, UnitsFinite
    <3>2. ~(b < b)
      BY <3>1
    <3> QED
      BY <3>2
  <2> HIDE DEF passed
  <2>2. /\ BoardsKnown(t) /\ Pending(t) = Pending(s) \ passed /\ Members(t) = Members(s)
    BY <2>1, BoardsFailKnown
  <2>3. sim3u146' = [t EXCEPT !.update = UPDATE_NOW, !.updating_index = b]
    BY <1>5 DEF NextBoard, passed
  <2> HIDE DEF t
  <2>4. /\ sim3u146' \in UnitRecords(Boards)
        /\ sim3u146'.update = UPDATE_NOW /\ sim3u146'.updating_index = b
        /\ sim3u146'.total_update_nums = t.total_update_nums
        /\ sim3u146'.updating_result = t.updating_result
        /\ Members(sim3u146') = Members(t) /\ Pending(sim3u146') = Pending(t)
    BY <1>3, <2>2, <2>3 DEF BoardsKnown, UnitRecords, Members, Pending
  <2>5. b \in Pending(sim3u146') /\ Pending(sim3u146') \subseteq Pending(s)
    BY <2>1, <2>2, <2>4
  <2>6. BoardsKnown(sim3u146)'
    <3>1. \A c \in Members(t) \ Pending(t) : boardRuns'[c] = boardRuns[c]
      BY <1>3, <1>5, <2>4, <2>5, <2>2, PendingIn, UnitsFinite DEF BoardsKnown
    <3> QED
      BY <2>2, <2>4, <3>1 DEF BoardsKnown
  <2>7. /\ boardSays' = [c \in Boards |-> IF c = b THEN Report(STAGE1_DEVICE_STARTUP, 0) ELSE Nothing]
        /\ boardSays' \in Says(Boards)
    <3>1. boardSays' = [[c \in Boards |-> Nothing] EXCEPT ![b] = Report(STAGE1_DEVICE_STARTUP, 0)]
      BY <1>1, <1>5, Zenon
    <3>2. boardSays' = [c \in Boards |-> IF c = b THEN Report(STAGE1_DEVICE_STARTUP, 0) ELSE Nothing]
      BY <3>1
    <3> QED
      BY <3>2 DEF Says, Nothing, Report, Stages, Byte, STAGE3_DEVICE_RESTART, STAGE1_DEVICE_STARTUP
  <2>8. /\ boardRuns' \in [Boards -> Programs]
        /\ \A c \in Pending(s) : boardRuns'[c] # "new"
    BY <1>3, <1>5 DEF Programs
  <2>9. \A c \in Boards : boardSays'[c].stage # STAGE3_DEVICE_RESTART
    BY <2>7 DEF Nothing, Report, STAGE3_DEVICE_RESTART, STAGE1_DEVICE_STARTUP
  <2>10. boardSays'[b] # Nothing /\ \A c \in Boards : c # b => boardSays'[c] = Nothing
    BY <1>3, <2>7 DEF Nothing, Report, STAGE1_DEVICE_STARTUP
  <2> QED
    BY <2>2, <2>4, <2>5, <2>6, <2>7, <2>8, <2>9, <2>10 DEF BoardInv, UPDATE_NOW, UPDATE_DONE
<1>6. UPDATE_NOW # UPDATE_DONE
  BY DEF UPDATE_NOW, UPDATE_DONE
<1>7. CASE \E b \in Pending(s) :
             /\ sim3u146' = NextBoard(s, b)
             /\ boardSays' = [says EXCEPT ![b] = Report(STAGE1_DEVICE_STARTUP, 0)]
             /\ boardRuns' = [boardRuns EXCEPT ![b] = "part"]
  <2> HIDE DEF says
  <2> QED
    BY <1>5, <1>6, <1>7
<1>8. \/ StartupServiceDone(s) /\ boardSays' = says /\ UNCHANGED boardRuns
      \/ \E b \in Pending(s) :
             /\ sim3u146' = NextBoard(s, b)
             /\ boardSays' = [says EXCEPT ![b] = Report(STAGE1_DEVICE_STARTUP, 0)]
             /\ boardRuns' = [boardRuns EXCEPT ![b] = "part"]
  BY DEF StartupService
<1> HIDE DEF says
<1> QED
  BY <1>4, <1>7, <1>8

(* The board that speaks is the one at work; none is told to restart yet    *)
(* that is not.                                                             *)
LEMMA Speaking ==
  ASSUME BoardInv, NEW b \in Boards, boardSays[b].stage # 0
  PROVE  /\ sim3u146.update = UPDATE_NOW
         /\ b = sim3u146.updating_index /\ b \in Pending(sim3u146)
         /\ \A c \in Boards : c # b => boardSays[c] = Nothing
         /\ \A c \in Pending(sim3u146) : c # b => boardRuns[c] # "new"
         /\ boardSays[b].stage # STAGE3_DEVICE_RESTART => boardRuns[b] # "new"
<1>1. b = sim3u146.updating_index
  BY DEF BoardInv, Nothing, Report
<1>2. sim3u146.update = UPDATE_NOW /\ b \in Pending(sim3u146)
  BY <1>1, UnitsFinite DEF BoardInv, BoardsKnown, UnitRecords
<1>3. \A c \in Boards : c # b => boardSays[c] = Nothing
  BY <1>1 DEF BoardInv
<1>4. Pending(sim3u146) \subseteq Boards
  BY PendingIn, UnitsFinite DEF BoardInv, BoardsKnown
<1>5. \A c \in Pending(sim3u146) : c # b => boardRuns[c] # "new"
  BY <1>3, <1>4 DEF BoardInv, Nothing, Report, STAGE3_DEVICE_RESTART
<1> QED
  BY <1>1, <1>2, <1>3, <1>5 DEF BoardInv

(* A command that was heard: the board at work goes on. *)
LEMMA SentKnown ==
  ASSUME BoardInv, NEW b \in Boards, boardSays[b].stage # 0,
         NEW says \in [stage : Stages, n : Byte], NEW runs \in Programs, says # Nothing,
         runs = "new" => says.stage = STAGE3_DEVICE_RESTART,
         says.stage = STAGE3_DEVICE_RESTART => says.n = Result(runs),
         Sent(b, says, runs)
  PROVE  BoardInv' /\ sim3u146' = sim3u146
<1>1. /\ sim3u146.update = UPDATE_NOW
      /\ b = sim3u146.updating_index /\ b \in Pending(sim3u146)
      /\ \A c \in Boards : c # b => boardSays[c] = Nothing
  BY Speaking
<1>2. sim3u146' = sim3u146
  <2>1. sim3u146 \in UnitRecords(Boards) /\ sim3u146.updating_status[b] = UPDATE_NOW
    BY <1>1 DEF BoardInv, BoardsKnown, Pending
  <2>2. [sim3u146.updating_status EXCEPT ![b] = UPDATE_NOW] = sim3u146.updating_status
    BY <2>1 DEF UnitRecords
  <2>3. sim3u146' = [sim3u146 EXCEPT !.updating_status = [sim3u146.updating_status EXCEPT ![b] = UPDATE_NOW]]
    BY DEF Sent
  <2> QED
    BY <2>1, <2>2, <2>3 DEF UnitRecords
<1>3. /\ boardSays' = [c \in Boards |-> IF c = b THEN says ELSE Nothing]
      /\ boardSays' \in Says(Boards)
  <2>1. boardSays' = [boardSays EXCEPT ![b] = says] /\ boardSays \in Says(Boards)
    BY DEF Sent, Hears, BoardInv
  <2>2. boardSays' = [c \in Boards |-> IF c = b THEN says ELSE Nothing]
    BY <1>1, <2>1 DEF Says
  <2> QED
    BY <2>1, <2>2 DEF Says
<1>4. /\ boardRuns' \in [Boards -> Programs] /\ boardRuns'[b] = runs
      /\ \A c \in Boards : c # b => boardRuns'[c] = boardRuns[c]
  BY DEF Sent, Hears, BoardInv
<1>5. Pending(sim3u146) \subseteq Boards /\ Members(sim3u146) \subseteq Boards
  BY PendingIn, UnitsFinite DEF BoardInv, BoardsKnown
<1>6. BoardsKnown(sim3u146)'
  BY <1>1, <1>2, <1>4, <1>5 DEF BoardInv, BoardsKnown
<1>7. \A c \in Pending(sim3u146) : c # b => boardRuns'[c] # "new"
  BY <1>4, <1>5, Speaking
<1>8. \A c \in Boards : boardSays'[c].stage = STAGE3_DEVICE_RESTART => boardSays'[c].n = Result(boardRuns'[c])
  BY <1>3, <1>4 DEF Nothing, Report, STAGE3_DEVICE_RESTART
<1>9. \A c \in Pending(sim3u146) : boardRuns'[c] = "new" => boardSays'[c].stage = STAGE3_DEVICE_RESTART
  BY <1>3, <1>4, <1>5, <1>7
<1> QED
  BY <1>1, <1>2, <1>3, <1>4, <1>6, <1>8, <1>9 DEF BoardInv, UPDATE_NOW, UPDATE_DONE

(* A board that does not answer: the next one is started. *)
LEMMA GivenUpKnown ==
  ASSUME BoardInv, NEW M, M = Members(sim3u146), NEW b \in Boards, boardSays[b].stage # 0,
         boardSays[b].stage # STAGE3_DEVICE_RESTART, GivenUp(b)
  PROVE  /\ BoardInv'
         /\ sim3u146'.update = UPDATE_NOW => Members(sim3u146') = M
         /\ sim3u146'.update = UPDATE_DONE => BoardsOutcome(M)'
<1> PICK s : s = BoardsFail(sim3u146, {b})
  OBVIOUS
<1>1. BoardsKnown(s) /\ Pending(s) = Pending(sim3u146) \ {b} /\ Members(s) = Members(sim3u146)
  BY Speaking, BoardsFailKnown DEF BoardInv
<1>2. StartupService(s, b)
  BY DEF GivenUp
<1>3. \A c \in Pending(s) : boardRuns[c] # "new"
  BY <1>1, Speaking
<1> QED
  BY <1>1, <1>2, <1>3, Speaking, StartupKnown DEF BoardInv

(* A board that has restarted is through, with what it said. *)
LEMMA RestartedKnown ==
  ASSUME BoardInv, NEW M, M = Members(sim3u146), NEW b \in Boards, BoardRestarted(b)
  PROVE  /\ BoardInv'
         /\ sim3u146'.update = UPDATE_NOW => Members(sim3u146') = M
         /\ sim3u146'.update = UPDATE_DONE => BoardsOutcome(M)'
<1> PICK s : s = [sim3u146 EXCEPT !.updating_status[b] = UPDATE_DONE,
                                   !.updating_result[b] = boardSays[b].n,
                                   !.total_update_nums = OneLess(@)]
  OBVIOUS
<1>1. /\ boardSays[b].stage = STAGE3_DEVICE_RESTART /\ boardSays[b].stage # 0
      /\ boardSays[b].n = Result(boardRuns[b])
      /\ StartupService(s, b)
  BY DEF BoardRestarted, BoardInv, STAGE3_DEVICE_RESTART
<1>2. sim3u146 \in UnitRecords(Boards) /\ sim3u146.total_update_nums = Cardinality(Pending(sim3u146))
  BY DEF BoardInv, BoardsKnown
<1>3. b \in Pending(sim3u146)
  BY <1>1, Speaking
<1>4. OneLess(sim3u146.total_update_nums) = Cardinality(Pending(sim3u146) \ {b})
  <2>1. /\ Cardinality({b}) = 1 /\ Cardinality(Pending(sim3u146) \ {b}) \in Nat
        /\ Cardinality(Pending(sim3u146)) = Cardinality(Pending(sim3u146) \ {b}) + Cardinality({b})
    <3>1. IsFiniteSet(Pending(sim3u146)) /\ {b} \in SUBSET Pending(sim3u146)
      BY <1>2, <1>3, PendingIn, UnitsFinite
    <3> QED
      BY <3>1, CountLess, FS_Singleton
  <2>2. \A n, m \in Nat : n = m + 1 /\ n \in Byte => OneLess(n) = m
    BY DEF OneLess, Byte
  <2>3. sim3u146.total_update_nums \in Byte /\ sim3u146.total_update_nums \in Nat
    BY <1>2 DEF UnitRecords, Byte
  <2> QED
    BY <1>2, <2>1, <2>2, <2>3
<1>5. OneLess(sim3u146.total_update_nums) \in Byte
  <2>1. sim3u146.total_update_nums \in Nat
    BY <1>2 DEF UnitRecords, Byte
  <2> QED
    BY <2>1 DEF OneLess, Byte
<1>6. /\ s \in UnitRecords(Boards) /\ s.updating = sim3u146.updating
      /\ s.total_update_nums = Cardinality(Pending(sim3u146) \ {b})
      /\ \A c \in Boards : s.updating_status[c] = IF c = b THEN UPDATE_DONE ELSE sim3u146.updating_status[c]
      /\ \A c \in Boards : s.updating_result[c] = IF c = b THEN Result(boardRuns[b]) ELSE sim3u146.updating_result[c]
  BY <1>1, <1>2, <1>4, <1>5 DEF UnitRecords, Result, UPDATE_DONE, UPDATE_FAIL
<1>7. /\ Pending(s) = {u \in Boards : s.updating[u] = UPDATE_NOW /\ s.updating_status[u] = UPDATE_NOW}
      /\ Pending(sim3u146) = {u \in Boards : sim3u146.updating[u] = UPDATE_NOW /\ sim3u146.updating_status[u] = UPDATE_NOW}
      /\ Members(s) = {u \in Boards : s.updating[u] = UPDATE_NOW}
      /\ Members(sim3u146) = {u \in Boards : sim3u146.updating[u] = UPDATE_NOW}
  <2>1. s \in UnitRecords(Boards) /\ IsFiniteSet(Boards)
    BY <1>6, UnitsFinite
  <2>2. /\ Pending(s) = {u \in Boards : s.updating[u] = UPDATE_NOW /\ s.updating_status[u] = UPDATE_NOW}
        /\ Members(s) = {u \in Boards : s.updating[u] = UPDATE_NOW}
    <3>1. DOMAIN s.updating = Boards
      BY <2>1 DEF UnitRecords
    <3> QED
      BY <3>1 DEF Pending, Members
  <2> QED
    BY <1>2, <2>1, <2>2, PendingIn
<1>8. Pending(s) = Pending(sim3u146) \ {b} /\ Members(s) = Members(sim3u146)
  BY <1>6, <1>7 DEF UPDATE_DONE, UPDATE_NOW
<1>9. BoardsKnown(s)
  BY <1>6, <1>7, <1>8 DEF BoardInv, BoardsKnown
<1>10. \A c \in Pending(s) : boardRuns[c] # "new"
  BY <1>1, <1>8, Speaking
<1> QED
  BY <1>1, <1>8, <1>9, <1>10, Speaking, StartupKnown DEF BoardInv

(* A report of a board keeps what is known; when it ends the update, what   *)
(* is told of it is true.                                                   *)
LEMMA BoardReportKnown ==
  ASSUME BoardInv, NEW M, M = Members(sim3u146), NEW n, BoardReport(n)
  PROVE  /\ BoardInv'
         /\ sim3u146.update = UPDATE_NOW
         /\ sim3u146'.update = UPDATE_NOW => Members(sim3u146') = M
         /\ sim3u146'.update = UPDATE_DONE => BoardsOutcome(M)'
<1>1. PICK b \in Boards : BoardInBootloader(b) \/ BoardWrites(b, n) \/ BoardRestarted(b)
  BY DEF BoardReport
<1>2. boardSays[b].stage # 0
  BY <1>1 DEF BoardInBootloader, BoardWrites, BoardRestarted, STAGE1_DEVICE_STARTUP, STAGE2_WRITING_NFLASH,
     STAGE3_DEVICE_RESTART
<1>3. sim3u146.update = UPDATE_NOW
  BY <1>2, Speaking
<1>4. ASSUME NEW says \in [stage : Stages, n : Byte], NEW runs \in Programs, says # Nothing,
             runs = "new" => says.stage = STAGE3_DEVICE_RESTART,
             says.stage = STAGE3_DEVICE_RESTART => says.n = Result(runs), Sent(b, says, runs)
      PROVE  BoardInv' /\ sim3u146' = sim3u146
  BY <1>2, <1>4, SentKnown
<1>5. CASE BoardInBootloader(b)
  <2>1. CASE Sent(b, Report(STAGE2_WRITING_NFLASH, FirstPacket), "part")
    <3>1. Report(STAGE2_WRITING_NFLASH, FirstPacket) \in [stage : Stages, n : Byte]
      BY BoardAssumption DEF Report, Stages, Byte, STAGE2_WRITING_NFLASH, STAGE3_DEVICE_RESTART
    <3>2. Report(STAGE2_WRITING_NFLASH, FirstPacket).stage = 2 /\ STAGE3_DEVICE_RESTART = 3
          /\ Nothing.stage = 0
      BY DEF Report, Nothing, STAGE2_WRITING_NFLASH, STAGE3_DEVICE_RESTART
    <3>3. "part" \in Programs /\ "part" # "new"
      BY DEF Programs
    <3>4. BoardInv' /\ sim3u146' = sim3u146
      BY <1>4, <2>1, <3>1, <3>2, <3>3
    <3> QED
      BY <1>3, <3>4 DEF UPDATE_NOW, UPDATE_DONE
  <2>2. CASE GivenUp(b)
    BY <1>2, <1>3, <1>5, <2>2, GivenUpKnown DEF BoardInBootloader, STAGE1_DEVICE_STARTUP, STAGE3_DEVICE_RESTART
  <2> QED
    BY <1>5, <2>1, <2>2 DEF BoardInBootloader
<1>6. CASE BoardWrites(b, n)
  <2> DEFINE next == (boardSays[b].n + 1) % 256
  <2>1. Report(STAGE2_WRITING_NFLASH, next) \in [stage : Stages, n : Byte]
    <3>1. boardSays[b].n \in Nat
      BY DEF BoardInv, Says, Byte
    <3> QED
      BY <3>1 DEF Report, Stages, Byte, STAGE2_WRITING_NFLASH, STAGE3_DEVICE_RESTART
  <2>2. /\ Report(STAGE3_DEVICE_RESTART, 0) \in [stage : Stages, n : Byte]
        /\ Report(STAGE3_DEVICE_RESTART, UPDATE_FAIL) \in [stage : Stages, n : Byte]
    BY DEF Report, Stages, Byte, STAGE3_DEVICE_RESTART, UPDATE_FAIL
  <2>3. /\ Report(STAGE2_WRITING_NFLASH, next).stage = 2 /\ STAGE3_DEVICE_RESTART = 3
        /\ Report(STAGE3_DEVICE_RESTART, 0).stage = 3 /\ Report(STAGE3_DEVICE_RESTART, 0).n = Result("new")
        /\ Report(STAGE3_DEVICE_RESTART, UPDATE_FAIL).stage = 3
        /\ Report(STAGE3_DEVICE_RESTART, UPDATE_FAIL).n = Result("part")
        /\ Nothing.stage = 0
    BY DEF Report, Nothing, Result, STAGE2_WRITING_NFLASH, STAGE3_DEVICE_RESTART
  <2>4. "part" \in Programs /\ "part" # "new" /\ "new" \in Programs
    BY DEF Programs
  <2>5. \/ Sent(b, Report(STAGE2_WRITING_NFLASH, next), "part")
        \/ Sent(b, Report(STAGE3_DEVICE_RESTART, 0), "new")
        \/ Sent(b, Report(STAGE3_DEVICE_RESTART, UPDATE_FAIL), "part")
        \/ GivenUp(b)
    BY <1>6 DEF BoardWrites
  <2> HIDE DEF next
  <2>6. CASE Sent(b, Report(STAGE2_WRITING_NFLASH, next), "part")
    <3>1. BoardInv' /\ sim3u146' = sim3u146
      BY <1>4, <2>1, <2>3, <2>4, <2>6
    <3> QED
      BY <1>3, <3>1 DEF UPDATE_NOW, UPDATE_DONE
  <2>7. CASE Sent(b, Report(STAGE3_DEVICE_RESTART, 0), "new")
    <3>1. BoardInv' /\ sim3u146' = sim3u146
      BY <1>4, <2>2, <2>3, <2>4, <2>7
    <3> QED
      BY <1>3, <3>1 DEF UPDATE_NOW, UPDATE_DONE
  <2>8. CASE Sent(b, Report(STAGE3_DEVICE_RESTART, UPDATE_FAIL), "part")
    <3>1. BoardInv' /\ sim3u146' = sim3u146
      BY <1>4, <2>2, <2>3, <2>4, <2>8
    <3> QED
      BY <1>3, <3>1 DEF UPDATE_NOW, UPDATE_DONE
  <2>9. CASE GivenUp(b)
    BY <1>2, <1>3, <1>6, <2>9, GivenUpKnown DEF BoardWrites, STAGE2_WRITING_NFLASH, STAGE3_DEVICE_RESTART
  <2> QED
    BY <2>5, <2>6, <2>7, <2>8, <2>9
<1>7. CASE BoardRestarted(b)
  BY <1>3, <1>7, RestartedKnown
<1> QED
  BY <1>1, <1>5, <1>6, <1>7

-----------------------------------------------------------------------------
(* The trays. *)

(* What is left of the trays of an update, and what it began with. *)
LEMMA TrayUnits ==
  ASSUME NEW s \in UnitRecords(Trays)
  PROVE  /\ Pending(s) = {t \in Trays : s.updating[t] = UPDATE_NOW /\ s.updating_status[t] = UPDATE_NOW}
         /\ Members(s) = {t \in Trays : s.updating[t] = UPDATE_NOW}
         /\ IsFiniteSet(Pending(s)) /\ Cardinality(Pending(s)) \in Nat
         /\ Pending(s) = {} <=> Cardinality(Pending(s)) = 0
<1>1. DOMAIN s.updating = Trays
  BY DEF UnitRecords
<1>2. /\ Pending(s) = {t \in Trays : s.updating[t] = UPDATE_NOW /\ s.updating_status[t] = UPDATE_NOW}
      /\ Members(s) = {t \in Trays : s.updating[t] = UPDATE_NOW}
  BY <1>1 DEF Pending, Members
<1>3. Pending(s) \in SUBSET Trays /\ IsFiniteSet(Trays)
  BY <1>2, UnitsFinite
<1>4. IsFiniteSet(Pending(s))
  BY <1>3, FS_Subset
<1> QED
  BY <1>2, <1>4, FS_CardinalityType, FS_EmptySet

(* What a tray still to be updated runs is no matter of what is known. *)
LEMMA RunsKept ==
  ASSUME NEW s, TraysKnown(s), \A t \in Members(s) \ Pending(s) : trayRuns'[t] = trayRuns[t]
  PROVE  TraysKnown(s)'
BY DEF TraysKnown

(* An update that is over has a verdict that is true, whether all trays are *)
(* through or the count says so.                                            *)
LEMMA TraysVerdict ==
  ASSUME NEW s, TraysKnown(s), s.total_update_nums = 0 \/ Pending(s) = {}, cf8051' = Verdict(s),
         UNCHANGED trayRuns
  PROVE  /\ TraysKnown(cf8051)'
         /\ cf8051'.update = UPDATE_DONE /\ cf8051'.updating_index = 0
         /\ Members(cf8051') = {} /\ Pending(cf8051') = {}
         /\ TraysOutcome(Members(s))'
<1>1. s \in UnitRecords(Trays)
  BY DEF TraysKnown
<1>2. /\ cf8051' \in UnitRecords(Trays)
      /\ cf8051'.update = UPDATE_DONE /\ cf8051'.updating_index = 0
      /\ cf8051'.total_update_nums = 0
      /\ Members(cf8051') = {} /\ Pending(cf8051') = {}
      /\ cf8051'.update_result = IF \E u \in Members(s) : s.updating_result[u] = UPDATE_FAIL
                                 THEN 1 ELSE 0
  BY <1>1, VerdictKnown
<1>3. TraysKnown(cf8051)'
  <2>1. TraysFailed(cf8051') = {}
    BY <1>2 DEF TraysFailed
  <2>2. Cardinality(Pending(cf8051')) = 0
    BY <1>2, FS_EmptySet
  <2> QED
    BY <1>2, <2>1, <2>2 DEF TraysKnown
<1>4. TraysOutcome(Members(s))'
  <2>1. CASE TraysFailed(s) # {}
    <3>1. cf8051'.update_result = 1
      BY <1>2, <2>1 DEF TraysFailed
    <3>2. \E t \in Members(s) : trayRuns'[t] = "part"
      BY <2>1 DEF TraysKnown
    <3> QED
      BY <3>1, <3>2 DEF TraysOutcome
  <2>2. CASE TraysFailed(s) = {}
    <3>1. cf8051'.update_result = 0
      BY <1>2, <2>2 DEF TraysFailed
    <3>2. Pending(s) = {}
      <4>1. Cardinality(Pending(s)) <= s.total_update_nums
        BY <2>2 DEF TraysKnown
      <4> QED
        BY <1>1, <4>1, TrayUnits
    <3>3. \A t \in Members(s) : trayRuns'[t] \in {"new", "refused"}
      BY <2>2, <3>2 DEF TraysKnown
    <3> QED
      BY <3>1, <3>3 DEF TraysOutcome
  <2> QED
    BY <2>1, <2>2
<1> QED
  BY <1>2, <1>3, <1>4

(* After a report, or at the start, the next tray is started, or the update *)
(* is over.                                                                 *)
LEMMA TrayServiceKnown ==
  ASSUME NEW s, TraysKnown(s), NEW r, \A t \in Trays : t # r => traySays[t] = Nothing,
         traySays \in Says(Trays), trayRuns \in [Trays -> Programs], unanswered \subseteq Trays,
         s.update = UPDATE_DONE => Members(s) = {}, TrayService(s, r)
  PROVE  /\ TrayInv'
         /\ cf8051'.update = UPDATE_NOW => Members(cf8051') = Members(s)
         /\ cf8051'.update = UPDATE_DONE => TraysOutcome(Members(s))'
<1> DEFINE says == [t \in Trays |-> IF t = r THEN Nothing ELSE traySays[t]]
<1>1. says = [t \in Trays |-> Nothing]
  OBVIOUS
<1>2. s \in UnitRecords(Trays)
  BY DEF TraysKnown
<1>3. Pending(s) \subseteq Trays /\ Members(s) \subseteq Trays /\ Pending(s) \subseteq Members(s)
  BY <1>2, TrayUnits
<1>4. UPDATE_NOW # UPDATE_DONE
  BY DEF UPDATE_NOW, UPDATE_DONE
<1>5. /\ says \in Says(Trays)
      /\ \A run : TraySaysTrue(Nothing, run)'
  BY <1>1 DEF Says, Nothing, Report, Stages, Byte, TraySaysTrue, STAGE1_DEVICE_STARTUP,
     STAGE2_WRITING_NFLASH, STAGE3_DEVICE_RESTART
<1>6. CASE /\ s.total_update_nums = 0 \/ Pending(s) = {}
           /\ cf8051' = Verdict(s)
           /\ traySays' = says
           /\ UNCHANGED <<trayRuns, unanswered>>
  <2>1. /\ TraysKnown(cf8051)'
        /\ cf8051'.update = UPDATE_DONE /\ Members(cf8051') = {}
        /\ TraysOutcome(Members(s))'
    BY <1>6, TraysVerdict
  <2>2. \A t \in Trays : traySays'[t] = Nothing
    BY <1>1, <1>6
  <2> QED
    BY <1>4, <1>5, <1>6, <2>1, <2>2 DEF TrayInv
<1>7. ASSUME NEW t \in Pending(s), cf8051' = [s EXCEPT !.updating_index = t]
      PROVE  /\ cf8051' \in UnitRecords(Trays) /\ cf8051'.updating_index = t
             /\ Pending(cf8051') = Pending(s) /\ Members(cf8051') = Members(s)
             /\ cf8051'.update = UPDATE_NOW
             /\ TraysKnown(s)' => TraysKnown(cf8051)'
  <2>1. /\ cf8051' \in UnitRecords(Trays) /\ cf8051'.updating_index = t
        /\ cf8051'.updating = s.updating /\ cf8051'.updating_status = s.updating_status
        /\ cf8051'.updating_result = s.updating_result
        /\ cf8051'.total_update_nums = s.total_update_nums /\ cf8051'.update = s.update
    BY <1>2, <1>3, <1>7 DEF UnitRecords
  <2>2. Pending(cf8051') = Pending(s) /\ Members(cf8051') = Members(s)
    BY <2>1 DEF Pending, Members
  <2>3. cf8051'.update = UPDATE_NOW
    BY <1>2, <1>3, <2>1 DEF UnitRecords
  <2>4. TraysKnown(s)' => TraysKnown(cf8051)'
    BY <2>1, <2>2 DEF TraysKnown, TraysFailed
  <2> QED
    BY <2>1, <2>2, <2>3, <2>4
<1>8. ASSUME NEW t \in Pending(s), cf8051' = [s EXCEPT !.updating_index = t], NEW refused \in 0..1,
             traySays' = [says EXCEPT ![t] = Report(STAGE1_DEVICE_STARTUP, refused)],
             trayRuns' = [trayRuns EXCEPT ![t] = IF refused = 1 THEN "refused" ELSE "part"],
             UNCHANGED unanswered
      PROVE  TrayInv'
  <2>1. traySays' = [u \in Trays |-> IF u = t THEN Report(STAGE1_DEVICE_STARTUP, refused) ELSE Nothing]
    BY <1>1, <1>8
  <2>2. traySays' \in Says(Trays)
    BY <2>1 DEF Says, Nothing, Report, Stages, Byte, STAGE1_DEVICE_STARTUP, STAGE3_DEVICE_RESTART
  <2>3. /\ trayRuns' \in [Trays -> Programs]
        /\ \A u \in Trays : trayRuns'[u] = IF u = t THEN (IF refused = 1 THEN "refused" ELSE "part") ELSE trayRuns[u]
    BY <1>3, <1>8 DEF Programs
  <2>4. TraysKnown(s)'
    <3>1. \A u \in Members(s) \ Pending(s) : trayRuns'[u] = trayRuns[u]
      BY <1>3, <2>3
    <3> QED
      BY <3>1, RunsKept
  <2>5. \A u \in Trays : TraySaysTrue(traySays[u], trayRuns[u])'
    BY <1>5, <2>1, <2>3 DEF TraySaysTrue, Report, STAGE1_DEVICE_STARTUP, STAGE2_WRITING_NFLASH,
       STAGE3_DEVICE_RESTART
  <2> QED
    BY <1>4, <1>7, <1>8, <2>1, <2>2, <2>3, <2>4, <2>5 DEF TrayInv
<1>9. ASSUME NEW t \in Pending(s), cf8051' = [s EXCEPT !.updating_index = t],
             traySays' = says, unanswered' = unanswered \cup {t}, UNCHANGED trayRuns
      PROVE  TrayInv'
  <2>1. \A u \in Trays : traySays'[u] = Nothing
    BY <1>1, <1>9
  <2>2. TraysKnown(s)'
    BY <1>9, RunsKept
  <2> QED
    BY <1>3, <1>4, <1>5, <1>7, <1>9, <2>1, <2>2 DEF TrayInv
<1>10. CASE \E t \in Pending(s) :
           /\ cf8051' = [s EXCEPT !.updating_index = t]
           /\ \/ \E refused \in 0..1 :
                   /\ traySays' = [says EXCEPT ![t] = Report(STAGE1_DEVICE_STARTUP, refused)]
                   /\ trayRuns' = [trayRuns EXCEPT ![t] = IF refused = 1 THEN "refused" ELSE "part"]
                   /\ UNCHANGED unanswered
              \/ /\ traySays' = says
                 /\ unanswered' = unanswered \cup {t}
                 /\ UNCHANGED trayRuns
  <2> HIDE DEF says
  <2>1. TrayInv'
    BY <1>8, <1>9, <1>10
  <2>2. Members(cf8051') = Members(s) /\ cf8051'.update = UPDATE_NOW
    BY <1>7, <1>10
  <2> QED
    BY <1>4, <2>1, <2>2
<1> QED
  BY <1>6, <1>10 DEF TrayService

(* The state when the frame of tray c has failed, and when tray c is        *)
(* through; n is the count.                                                 *)
FrameFailed(s, c, n) == [FrameFails(s, c) EXCEPT !.total_update_nums = n]
Through(s, c, r, n) ==
  [s EXCEPT !.updating_status[c] = UPDATE_DONE, !.updating_result[c] = r, !.total_update_nums = n]

(* The trays of a frame that fails are through, failed; the tray at work is *)
(* one of them.  The count, which matters only when none has failed, may be *)
(* anything.                                                                *)
LEMMA FrameFailsKnown ==
  ASSUME NEW s, TraysKnown(s), NEW c \in Pending(s), trayRuns[c] = "part", NEW n \in Byte,
         NEW t, t = FrameFailed(s, c, n)
  PROVE  TraysKnown(t) /\ Members(t) = Members(s) /\ t.update = s.update
<1> DEFINE F == {u \in Sharing(c) : s.updating[u] = UPDATE_NOW}
<1>1. s \in UnitRecords(Trays)
  BY DEF TraysKnown
<1>2. /\ Pending(s) = {u \in Trays : s.updating[u] = UPDATE_NOW /\ s.updating_status[u] = UPDATE_NOW}
      /\ Members(s) = {u \in Trays : s.updating[u] = UPDATE_NOW}
  BY <1>1, TrayUnits
<1>3. c \in F /\ F \subseteq Members(s) /\ F \subseteq Trays
  BY <1>2 DEF Sharing
<1>4. /\ t \in UnitRecords(Trays) /\ t.updating = s.updating /\ t.update = s.update
      /\ \A u \in Trays : t.updating_status[u] = IF u \in F THEN UPDATE_DONE ELSE s.updating_status[u]
      /\ \A u \in Trays : t.updating_result[u] = IF u \in F THEN UPDATE_FAIL ELSE s.updating_result[u]
  BY <1>1 DEF FrameFailed, FrameFails, UnitRecords, UPDATE_DONE, UPDATE_FAIL
<1> HIDE DEF F
<1>5. /\ Pending(t) = {u \in Trays : t.updating[u] = UPDATE_NOW /\ t.updating_status[u] = UPDATE_NOW}
      /\ Members(t) = {u \in Trays : t.updating[u] = UPDATE_NOW}
  BY <1>4, TrayUnits
<1>6. Pending(t) = Pending(s) \ F /\ Members(t) = Members(s)
  BY <1>2, <1>4, <1>5 DEF UPDATE_DONE, UPDATE_NOW
<1>7. \A u \in Pending(t) : t.updating_result[u] = UPDATE_NOW
  BY <1>2, <1>4, <1>6 DEF TraysKnown
<1>8. \A u \in F : u \in TraysFailed(t)
  BY <1>3, <1>4, <1>6 DEF TraysFailed
<1>9. \A u \in Members(t) \ Pending(t) : trayRuns[u] \in {"new", "refused"} \/ u \in TraysFailed(t)
  <2> TAKE u \in Members(t) \ Pending(t)
  <2>1. CASE u \in F
    BY <1>8, <2>1
  <2>2. CASE u \notin F
    <3>1. u \in Members(s) \ Pending(s) /\ u \in Trays
      BY <1>2, <1>6, <2>2
    <3>2. trayRuns[u] \in {"new", "refused"} \/ u \in TraysFailed(s)
      BY <3>1 DEF TraysKnown
    <3> QED
      BY <1>4, <1>6, <2>2, <3>1, <3>2 DEF TraysFailed
  <2> QED
    BY <2>1, <2>2
<1>10. c \in Members(t) \ Pending(t) /\ c \in TraysFailed(t)
  BY <1>3, <1>6, <1>8
<1> QED
  BY <1>4, <1>6, <1>7, <1>9, <1>10 DEF TraysKnown

(* A tray that is through without having failed is taken off what is left,  *)
(* whether or not it is off the count; one that has failed may be.          *)
LEMMA TrayThroughKnown ==
  ASSUME NEW s, TraysKnown(s), NEW c \in Pending(s), NEW r \in {0, UPDATE_NOW, UPDATE_FAIL},
         trayRuns[c] \in {"new", "refused", "part"}, trayRuns[c] = "part" <=> r = UPDATE_FAIL,
         NEW n \in Byte, n = s.total_update_nums \/ n = OneLess(s.total_update_nums),
         NEW t, t = Through(s, c, r, n)
  PROVE  TraysKnown(t) /\ Members(t) = Members(s) /\ t.update = s.update
<1>1. s \in UnitRecords(Trays)
  BY DEF TraysKnown
<1>2. /\ Pending(s) = {u \in Trays : s.updating[u] = UPDATE_NOW /\ s.updating_status[u] = UPDATE_NOW}
      /\ Members(s) = {u \in Trays : s.updating[u] = UPDATE_NOW}
      /\ IsFiniteSet(Pending(s)) /\ Cardinality(Pending(s)) \in Nat
  BY <1>1, TrayUnits
<1>3. /\ t \in UnitRecords(Trays) /\ t.updating = s.updating /\ t.update = s.update
      /\ t.total_update_nums = n
      /\ \A u \in Trays : t.updating_status[u] = IF u = c THEN UPDATE_DONE ELSE s.updating_status[u]
      /\ \A u \in Trays : t.updating_result[u] = IF u = c THEN r ELSE s.updating_result[u]
  BY <1>1 DEF Through, UnitRecords, UPDATE_DONE
<1>4. /\ Pending(t) = {u \in Trays : t.updating[u] = UPDATE_NOW /\ t.updating_status[u] = UPDATE_NOW}
      /\ Members(t) = {u \in Trays : t.updating[u] = UPDATE_NOW}
  BY <1>3, TrayUnits
<1>5. Pending(t) = Pending(s) \ {c} /\ Members(t) = Members(s)
  BY <1>2, <1>3, <1>4 DEF UPDATE_DONE, UPDATE_NOW
<1>6. \A u \in Pending(t) : t.updating_result[u] = UPDATE_NOW
  BY <1>2, <1>3, <1>5 DEF TraysKnown
<1>7. /\ \A u \in Members(s) : u # c => (u \in TraysFailed(t) <=> u \in TraysFailed(s))
      /\ c \in TraysFailed(t) <=> r = UPDATE_FAIL
      /\ c \notin TraysFailed(s)
  BY <1>2, <1>3, <1>5 DEF TraysFailed, TraysKnown, UPDATE_NOW, UPDATE_FAIL
<1>8. \A u \in Members(t) \ Pending(t) : trayRuns[u] \in {"new", "refused"} \/ u \in TraysFailed(t)
  BY <1>5, <1>7 DEF TraysKnown
<1>9. TraysFailed(t) # {} => \E u \in Members(t) \ Pending(t) : trayRuns[u] = "part"
  <2>1. CASE r = UPDATE_FAIL
    BY <1>2, <1>5, <2>1
  <2>2. CASE r # UPDATE_FAIL
    BY <1>5, <1>7, <2>2 DEF TraysKnown, TraysFailed
  <2> QED
    BY <2>1, <2>2
<1>10. TraysFailed(t) = {} => Cardinality(Pending(t)) <= t.total_update_nums
  <2> HAVE TraysFailed(t) = {}
  <2>1. TraysFailed(s) = {}
    BY <1>7 DEF TraysFailed
  <2>2. Cardinality(Pending(s)) <= s.total_update_nums
    BY <2>1 DEF TraysKnown
  <2>3. {c} \in SUBSET Pending(s)
    OBVIOUS
  <2>4. /\ Cardinality({c}) = 1 /\ Cardinality(Pending(s) \ {c}) \in Nat
        /\ Cardinality(Pending(s)) = Cardinality(Pending(s) \ {c}) + Cardinality({c})
    BY <1>2, <2>3, CountLess, FS_Singleton
  <2>5. s.total_update_nums \in Byte /\ s.total_update_nums \in Nat
    BY <1>1 DEF UnitRecords, Byte
  <2>6. \A k, m \in Nat : k \in Byte /\ m + 1 <= k => m <= k /\ m <= OneLess(k)
    BY DEF OneLess, Byte
  <2> QED
    BY <1>3, <1>5, <2>2, <2>4, <2>5, <2>6
<1> QED
  BY <1>3, <1>5, <1>6, <1>8, <1>9, <1>10 DEF TraysKnown

(* A command that was heard: the tray at work goes on. *)
LEMMA HeardKnown ==
  ASSUME TrayInv, NEW c \in Pending(cf8051), c = cf8051.updating_index,
         NEW says \in [stage : Stages, n : Byte], NEW run \in Programs,
         TraySaysTrue(says, run), Heard(c, says, run), UNCHANGED <<cf8051, dfu>>
  PROVE  TrayInv'
<1>1. cf8051 \in UnitRecords(Trays) /\ c \in Trays
  BY TrayUnits DEF TrayInv, TraysKnown
<1>2. /\ traySays' = [traySays EXCEPT ![c] = says] /\ traySays \in Says(Trays)
      /\ trayRuns' = [trayRuns EXCEPT ![c] = run] /\ trayRuns \in [Trays -> Programs]
      /\ unanswered' = unanswered
  BY DEF Heard, TrayInv
<1>3. /\ traySays' \in Says(Trays) /\ trayRuns' \in [Trays -> Programs]
      /\ \A u \in Trays : traySays'[u] = IF u = c THEN says ELSE traySays[u]
      /\ \A u \in Trays : trayRuns'[u] = IF u = c THEN run ELSE trayRuns[u]
  BY <1>1, <1>2 DEF Says
<1>4. TraysKnown(cf8051)'
  <2>1. Members(cf8051) \subseteq Trays
    BY <1>1, TrayUnits
  <2>2. \A u \in Members(cf8051) \ Pending(cf8051) : trayRuns'[u] = trayRuns[u]
    BY <1>3, <2>1
  <2> QED
    BY <2>2 DEF TrayInv, TraysKnown
<1>5. \A u \in Trays : TraySaysTrue(traySays[u], trayRuns[u])'
  BY <1>3 DEF TrayInv, TraySaysTrue
<1> QED
  BY <1>2, <1>3, <1>4, <1>5 DEF TrayInv

(* A report of a tray keeps what is known; when it ends the update, what is *)
(* told of it is true.                                                      *)
LEMMA TrayReportKnown ==
  ASSUME TrayInv, NEW M, M = Members(cf8051), dfu.data_packet_num \in Byte,
         cf8051.update = UPDATE_NOW => dfu.data_packet_num >= 1,
         TrayReport(dfu.data_packet_num), UNCHANGED dfu
  PROVE  /\ TrayInv'
         /\ cf8051.update = UPDATE_NOW
         /\ cf8051'.update = UPDATE_NOW => Members(cf8051') = M
         /\ cf8051'.update = UPDATE_DONE => TraysOutcome(M)'
<1> DEFINE num == dfu.data_packet_num
           Goal == /\ TrayInv'
                   /\ cf8051'.update = UPDATE_NOW => Members(cf8051') = M
                   /\ cf8051'.update = UPDATE_DONE => TraysOutcome(M)'
<1>1. PICK t \in Trays :
        LET c == cf8051.updating_index
        IN  c # 0 /\ (TrayRefuses(t, c) \/ TrayInBootloader(t, c) \/ TrayWrites(t, c, num) \/ TrayRestarted(t, c))
  BY DEF TrayReport
<1>2. traySays[t].stage # 0 /\ traySays[t] # Nothing
  BY <1>1 DEF TrayRefuses, TrayInBootloader, TrayWrites, TrayRestarted, STAGE1_DEVICE_STARTUP,
     STAGE2_WRITING_NFLASH, STAGE3_DEVICE_RESTART, Nothing, Report
<1>3. t = cf8051.updating_index /\ t \in Pending(cf8051)
  BY <1>2 DEF TrayInv
<1>4. \/ TrayRefuses(t, t) \/ TrayInBootloader(t, t) \/ TrayWrites(t, t, num) \/ TrayRestarted(t, t)
  BY <1>1, <1>3
<1>5. /\ TraysKnown(cf8051) /\ cf8051 \in UnitRecords(Trays)
      /\ traySays \in Says(Trays) /\ trayRuns \in [Trays -> Programs] /\ unanswered \subseteq Trays
      /\ TraySaysTrue(traySays[t], trayRuns[t])
  BY DEF TrayInv, TraysKnown
<1>6. t \in Members(cf8051) /\ cf8051.update = UPDATE_NOW /\ cf8051.total_update_nums \in Byte
  BY <1>3, <1>5, TrayUnits DEF TrayInv, UnitRecords
<1>7. \A u \in Trays : u # t => traySays[u] = Nothing
  BY <1>3 DEF TrayInv
<1>8. UPDATE_NOW # UPDATE_DONE /\ num >= 1 /\ num \in Byte
  BY <1>6 DEF UPDATE_NOW, UPDATE_DONE
<1>9. ASSUME NEW s, TraysKnown(s), Members(s) = M, s.update = UPDATE_NOW, TrayService(s, t)
      PROVE  Goal
  BY <1>5, <1>7, <1>8, <1>9, TrayServiceKnown
<1>10. ASSUME NEW says \in [stage : Stages, n : Byte], NEW run \in Programs,
              TraySaysTrue(says, run), Heard(t, says, run), UNCHANGED cf8051
       PROVE  Goal
  BY <1>3, <1>6, <1>8, <1>10, HeardKnown
<1>11. ASSUME NEW k \in Byte, trayRuns[t] = "part",
              TrayService(FrameFailed(cf8051, t, k), t)
       PROVE  Goal
  <2>1. PICK s : s = FrameFailed(cf8051, t, k)
    OBVIOUS
  <2>2. TraysKnown(s) /\ Members(s) = M /\ s.update = UPDATE_NOW
    <3>1. PICK f : f = cf8051
      OBVIOUS
    <3> QED
      <4>1. TraysKnown(f) /\ t \in Pending(f) /\ Members(f) = M /\ f.update = UPDATE_NOW
            /\ s = FrameFailed(f, t, k)
        BY <1>3, <1>5, <1>6, <2>1, <3>1
      <4> QED
        BY <1>11, <4>1, FrameFailsKnown
  <2> QED
    BY <1>9, <1>11, <2>1, <2>2
<1> SUFFICES Goal
  BY <1>6
<1> HIDE DEF Goal, num
<1>12. CASE TrayRefuses(t, t)
  <2>1. PICK s : s = [cf8051 EXCEPT !.updating_status[t] = UPDATE_DONE]
    OBVIOUS
  <2>2. trayRuns[t] = "refused"
    BY <1>5, <1>12 DEF TrayRefuses, TraySaysTrue
  <2>3. s = Through(cf8051, t, UPDATE_NOW, cf8051.total_update_nums)
    <3>1. cf8051.updating_result[t] = UPDATE_NOW
      BY <1>3, <1>5 DEF TraysKnown
    <3> QED
      BY <1>5, <2>1, <3>1 DEF Through, UnitRecords
  <2>4. TraysKnown(s) /\ Members(s) = M /\ s.update = UPDATE_NOW
    <3>1. PICK f : f = cf8051
      OBVIOUS
    <3>2. PICK k : k = cf8051.total_update_nums
      OBVIOUS
    <3>3. /\ TraysKnown(f) /\ t \in Pending(f) /\ Members(f) = M /\ f.update = UPDATE_NOW
          /\ k \in Byte /\ k = f.total_update_nums
          /\ s = Through(f, t, UPDATE_NOW, k)
      BY <1>3, <1>5, <1>6, <2>3, <3>1, <3>2
    <3>4. /\ UPDATE_NOW \in {0, UPDATE_NOW, UPDATE_FAIL} /\ UPDATE_NOW # UPDATE_FAIL
          /\ trayRuns[t] \in {"new", "refused", "part"} /\ trayRuns[t] # "part"
      BY <2>2 DEF UPDATE_NOW, UPDATE_FAIL
    <3> QED
      BY <3>3, <3>4, TrayThroughKnown
  <2> QED
    BY <1>9, <1>12, <2>1, <2>4 DEF TrayRefuses
<1>13. CASE TrayInBootloader(t, t)
  <2>1. trayRuns[t] = "part"
    BY <1>5, <1>13 DEF TrayInBootloader, TraySaysTrue
  <2>2. FrameFails(cf8051, t) = FrameFailed(cf8051, t, cf8051.total_update_nums)
    BY <1>5 DEF FrameFailed, FrameFails, UnitRecords
  <2>3. CASE Heard(t, Report(STAGE2_WRITING_NFLASH, 1), "part") /\ UNCHANGED cf8051
    <3>1. /\ Report(STAGE2_WRITING_NFLASH, 1) \in [stage : Stages, n : Byte] /\ "part" \in Programs
          /\ TraySaysTrue(Report(STAGE2_WRITING_NFLASH, 1), "part")
      BY <1>8 DEF Report, Stages, Byte, Programs, TraySaysTrue, num, STAGE1_DEVICE_STARTUP,
         STAGE2_WRITING_NFLASH, STAGE3_DEVICE_RESTART
    <3> QED
      BY <1>10, <2>3, <3>1
  <2>4. CASE TrayService(FrameFails(cf8051, t), t)
    BY <1>6, <1>11, <2>1, <2>2, <2>4
  <2>5. CASE cf8051' = FrameFails(cf8051, t) /\ Heard(t, Nothing, "part")
    <3>1. TraysKnown(cf8051') /\ Members(cf8051') = M /\ cf8051'.update = UPDATE_NOW
      <4>1. PICK f : f = cf8051
        OBVIOUS
      <4>2. PICK k : k = cf8051.total_update_nums
        OBVIOUS
      <4>3. PICK s : s = FrameFailed(f, t, k)
        OBVIOUS
      <4>4. TraysKnown(f) /\ t \in Pending(f) /\ Members(f) = M /\ f.update = UPDATE_NOW /\ k \in Byte
        BY <1>3, <1>5, <1>6, <4>1, <4>2
      <4>5. TraysKnown(s) /\ Members(s) = M /\ s.update = UPDATE_NOW
        BY <2>1, <4>3, <4>4, FrameFailsKnown
      <4> QED
        BY <2>2, <2>5, <4>1, <4>2, <4>3, <4>5
    <3>2. /\ \A u \in Trays : traySays'[u] = Nothing
          /\ \A u \in Trays : trayRuns'[u] = trayRuns[u]
          /\ traySays' \in Says(Trays) /\ trayRuns' \in [Trays -> Programs] /\ unanswered' = unanswered
      BY <1>5, <1>7, <2>1, <2>5 DEF Heard, Says, Nothing, Report, Stages, Byte, STAGE3_DEVICE_RESTART, Programs
    <3>3. TraysKnown(cf8051)'
      <4>1. cf8051' \in UnitRecords(Trays)
        BY <3>1 DEF TraysKnown
      <4>2. Members(cf8051') \subseteq Trays
        BY <4>1, TrayUnits
      <4> QED
        BY <3>1, <3>2, <4>2 DEF TraysKnown
    <3>4. \A run : TraySaysTrue(Nothing, run)'
      BY DEF TraySaysTrue, Nothing, Report, STAGE1_DEVICE_STARTUP, STAGE2_WRITING_NFLASH, STAGE3_DEVICE_RESTART
    <3>5. TrayInv'
      BY <1>5, <1>8, <3>1, <3>2, <3>3, <3>4 DEF TrayInv
    <3> QED
      BY <1>8, <3>1, <3>5 DEF Goal
  <2> QED
    BY <1>13, <2>3, <2>4, <2>5 DEF TrayInBootloader
<1>14. CASE TrayWrites(t, t, num)
  <2>1. trayRuns[t] = "part" /\ traySays[t].n <= num /\ traySays[t].n \in Nat
    BY <1>5, <1>14 DEF TrayWrites, TraySaysTrue, num, Says, Byte
  <2>2. CASE /\ traySays[t].n # num
             /\ Heard(t, Report(STAGE2_WRITING_NFLASH, traySays[t].n + 1), "part")
             /\ UNCHANGED cf8051
    <3>1. traySays[t].n + 1 <= num /\ traySays[t].n + 1 \in Byte
      BY <1>8, <2>1, <2>2 DEF Byte
    <3>2. /\ Report(STAGE2_WRITING_NFLASH, traySays[t].n + 1) \in [stage : Stages, n : Byte]
          /\ "part" \in Programs
          /\ TraySaysTrue(Report(STAGE2_WRITING_NFLASH, traySays[t].n + 1), "part")
      BY <3>1 DEF Report, Stages, Programs, TraySaysTrue, num, STAGE1_DEVICE_STARTUP,
         STAGE2_WRITING_NFLASH, STAGE3_DEVICE_RESTART
    <3> QED
      BY <1>10, <2>2, <3>2
  <2>3. CASE /\ \E r \in 0..1 : Heard(t, Report(STAGE3_DEVICE_RESTART, r), IF r = 0 THEN "new" ELSE "part")
             /\ UNCHANGED cf8051
    <3>1. PICK r \in 0..1 : Heard(t, Report(STAGE3_DEVICE_RESTART, r), IF r = 0 THEN "new" ELSE "part")
      BY <2>3
    <3>2. /\ Report(STAGE3_DEVICE_RESTART, r) \in [stage : Stages, n : Byte]
          /\ (IF r = 0 THEN "new" ELSE "part") \in Programs
          /\ TraySaysTrue(Report(STAGE3_DEVICE_RESTART, r), IF r = 0 THEN "new" ELSE "part")
      BY DEF Report, Stages, Byte, Programs, TraySaysTrue, STAGE1_DEVICE_STARTUP,
         STAGE2_WRITING_NFLASH, STAGE3_DEVICE_RESTART
    <3> QED
      BY <1>10, <2>3, <3>1, <3>2
  <2>4. CASE TrayService(FrameFailsCounted(cf8051, t), t)
    <3> DEFINE k == Less(cf8051.total_update_nums,
                         Cardinality({u \in Sharing(t) : cf8051.updating[u] = UPDATE_NOW}))
    <3>1. k \in Byte
      <4>1. IsFiniteSet({u \in Sharing(t) : cf8051.updating[u] = UPDATE_NOW})
        <5>1. {u \in Sharing(t) : cf8051.updating[u] = UPDATE_NOW} \in SUBSET Trays
          BY DEF Sharing
        <5> QED
          BY <5>1, UnitsFinite, FS_Subset
      <4>2. \A x, y \in Nat : Less(x, y) \in Byte
        BY DEF Less, Byte
      <4>3. cf8051.total_update_nums \in Nat
        BY <1>6 DEF Byte
      <4> QED
        BY <4>1, <4>2, <4>3, FS_CardinalityType
    <3>2. FrameFailsCounted(cf8051, t) = FrameFailed(cf8051, t, k)
      BY <1>5 DEF FrameFailsCounted, FrameFailed, FrameFails, UnitRecords
    <3> HIDE DEF k
    <3> QED
      BY <1>11, <2>1, <2>4, <3>1, <3>2
  <2> QED
    BY <1>14, <2>2, <2>3, <2>4 DEF TrayWrites
<1>15. CASE TrayRestarted(t, t)
  <2> DEFINE r == IF traySays[t].n = 0 THEN 0 ELSE UPDATE_FAIL
             k == OneLess(cf8051.total_update_nums)
  <2>1. PICK s : s = Through(cf8051, t, r, k)
    OBVIOUS
  <2>2. TrayService(s, t)
    BY <1>15, <2>1 DEF TrayRestarted, Through
  <2>3. trayRuns[t] \in {"new", "part"} /\ (trayRuns[t] = "part" <=> r = UPDATE_FAIL)
    BY <1>5, <1>15 DEF TrayRestarted, TraySaysTrue, UPDATE_FAIL
  <2>4. r \in {0, UPDATE_NOW, UPDATE_FAIL}
    OBVIOUS
  <2>5. k \in Byte
    <3>1. cf8051.total_update_nums \in Nat
      BY <1>6 DEF Byte
    <3> QED
      BY <3>1 DEF OneLess, Byte
  <2> HIDE DEF r
  <2>6. TraysKnown(s) /\ Members(s) = M /\ s.update = UPDATE_NOW
    <3>1. PICK f : f = cf8051
      OBVIOUS
    <3>2. PICK q : q = r
      OBVIOUS
    <3>3. PICK m : m = k
      OBVIOUS
    <3> QED
      <4>1. /\ TraysKnown(f) /\ t \in Pending(f) /\ Members(f) = M /\ f.update = UPDATE_NOW
            /\ m \in Byte /\ m = OneLess(f.total_update_nums)
            /\ q \in {0, UPDATE_NOW, UPDATE_FAIL} /\ (trayRuns[t] = "part" <=> q = UPDATE_FAIL)
            /\ trayRuns[t] \in {"new", "refused", "part"}
            /\ s = Through(f, t, q, m)
        BY <1>3, <1>5, <1>6, <2>1, <2>3, <2>4, <2>5, <3>1, <3>2, <3>3
      <4> QED
        BY <4>1, TrayThroughKnown
  <2> QED
    BY <1>9, <2>2, <2>6
<1> QED
  BY <1>4, <1>6, <1>12, <1>13, <1>14, <1>15 DEF Goal

-----------------------------------------------------------------------------
(* The download. *)

(* The blocks of a file of p packets are twice as many. *)
LEMMA DistributedTwice == \A p \in 1..35 : Distributed(p) = 2 * p
<1> TAKE p \in 1..35
<1>1. (p * 1021) % 512 # 0 /\ (p * 1021) \div 512 = 2 * p - 1
  OBVIOUS
<1>2. (2 * p - 1 + 1) % 2 = 0
  OBVIOUS
<1> QED
  BY <1>1, <1>2 DEF Distributed

(* What is known, with no update running, of boards and trays. *)
LEMMA QuietKnown ==
  ASSUME DfuInv, Quiet
  PROVE  /\ \A b \in Boards : boardSays[b] = Nothing
         /\ \A t \in Trays : traySays[t] = Nothing
         /\ Members(sim3u146) = {} /\ Members(cf8051) = {}
         /\ Pending(sim3u146) = {} /\ Pending(cf8051) = {}
<1>1. Members(sim3u146) = {} /\ Members(cf8051) = {} /\ sim3u146.updating_index = 0
  BY DEF DfuInv, BoardInv, TrayInv, Quiet
<1>2. Pending(sim3u146) = {} /\ Pending(cf8051) = {}
  BY <1>1 DEF Pending, Members
<1> QED
  BY <1>1, <1>2, UnitsFinite DEF DfuInv, BoardInv, TrayInv

(* Whatever a tray runs, it is true that it is about to report nothing. *)
LEMMA NothingIsTrue ==
  /\ \A run : TraySaysTrue(Nothing, run)
  /\ \A run : TraySaysTrue(Nothing, run)'
  /\ Nothing.stage # STAGE3_DEVICE_RESTART
BY DEF TraySaysTrue, Nothing, Report, STAGE1_DEVICE_STARTUP, STAGE2_WRITING_NFLASH,
   STAGE3_DEVICE_RESTART

(* At first both updates and all units are idle. *)
LEMMA InitKnown == Init => DfuInv
<1> SUFFICES ASSUME Init PROVE DfuInv
  OBVIOUS
<1>1. /\ sim3u146 = NoUnits(Boards) /\ cf8051 = NoUnits(Trays)
      /\ boardSays = [b \in Boards |-> Nothing] /\ boardRuns = [b \in Boards |-> "old"]
      /\ traySays = [t \in Trays |-> Nothing] /\ trayRuns = [t \in Trays |-> "old"]
      /\ unanswered = {}
  BY DEF Init, BoardInit, TrayInit
<1>2. /\ sim3u146 \in UnitRecords(Boards) /\ cf8051 \in UnitRecords(Trays)
      /\ sim3u146.update = UPDATE_DONE /\ cf8051.update = UPDATE_DONE
      /\ Members(sim3u146) = {} /\ Members(cf8051) = {}
      /\ Pending(sim3u146) = {} /\ Pending(cf8051) = {}
      /\ sim3u146.updating_index = 0
      /\ sim3u146.total_update_nums = 0 /\ cf8051.total_update_nums = 0
  BY <1>1, NoUnitsKnown DEF NoUnits
<1>3. boardSays \in Says(Boards) /\ traySays \in Says(Trays)
  BY <1>1 DEF Says, Nothing, Report, Stages, Byte, STAGE3_DEVICE_RESTART
<1>4. BoardInv
  BY <1>1, <1>2, <1>3, NothingIsTrue, FS_EmptySet DEF BoardInv, BoardsKnown, Programs
<1>5. TrayInv
  <2>1. TraysFailed(cf8051) = {}
    BY <1>2 DEF TraysFailed
  <2> QED
    BY <1>1, <1>2, <1>3, <2>1, NothingIsTrue, FS_EmptySet DEF TrayInv, TraysKnown, Programs
<1>6. Quiet
  BY <1>2 DEF Quiet
<1>7. DownloadInv
  BY <1>2, <1>6, DownloadAssumption DEF Init, DownloadInv, UpdateIsOfOneFile, FileNumbers, Packets, Sizes, Byte,
     UPDATE_DONE, UPDATE_NOW
<1>8. OutcomeInv
  BY DownloadAssumption DEF Init, OutcomeInv, FileNumbers
<1> QED
  BY <1>4, <1>5, <1>7, <1>8 DEF DfuInv

(* A new file: nothing of it has come, and nothing is said of its update.   *)
LEMMA AnnounceKnown ==
  ASSUME DfuInv, NEW type \in {TRAYS, BOARDS}, NEW size \in Sizes, Announce(type, size)
  PROVE  DfuInv'
<1>1. /\ Quiet /\ file.number < MaxFiles
      /\ dfu' = [dfu EXCEPT !.type = type, !.data_packet_num = size, !.recv_packet_num = 0]
      /\ thread' = "receiving" /\ file' = [number |-> file.number + 1, size |-> size]
      /\ boardRuns' = [b \in Boards |-> "old"] /\ trayRuns' = [t \in Trays |-> "old"]
      /\ UNCHANGED <<sim3u146, boardSays, cf8051, traySays, unanswered, updated, asked>>
  BY DEF Announce
<1>2. file.number \in 0..MaxFiles /\ file'.number = file.number + 1 /\ file'.number \in FileNumbers
      /\ file'.size = size
  BY <1>1, DownloadAssumption DEF DfuInv, DownloadInv, FileNumbers
<1>3. /\ \A b \in Boards : boardSays[b] = Nothing
      /\ \A t \in Trays : traySays[t] = Nothing
      /\ Members(sim3u146) = {} /\ Members(cf8051) = {}
      /\ Pending(sim3u146) = {} /\ Pending(cf8051) = {}
  BY <1>1, QuietKnown
<1>4. BoardInv'
  BY <1>1, <1>3, NothingIsTrue DEF DfuInv, BoardInv, BoardsKnown, Programs
<1>5. TrayInv'
  <2>1. TraysKnown(cf8051)'
    BY <1>1, <1>3 DEF DfuInv, TrayInv, TraysKnown, TraysFailed
  <2> QED
    BY <1>1, <1>3, <2>1, NothingIsTrue DEF DfuInv, TrayInv, Programs
<1>6. Present' = {}
  BY <1>1, <1>2 DEF Present, DfuInv, DownloadInv, FileNumbers, Packets
<1>7. size \in Byte /\ type \in {0, TRAYS, BOARDS} /\ type # 0
  BY DownloadAssumption DEF Sizes, Byte, TRAYS, BOARDS
<1>8. /\ dfu'.packets = dfu.packets /\ dfu'.type = type /\ dfu'.data_packet_num = size
      /\ dfu'.recv_packet_num = 0
      /\ dfu' \in [type : {0, TRAYS, BOARDS}, data_packet_num : Byte, recv_packet_num : 0..MaxSize,
                   packets : [Packets -> FileNumbers]]
  <2>1. 0 \in 0..MaxSize
    BY DownloadAssumption
  <2>2. dfu \in [type : {0, TRAYS, BOARDS}, data_packet_num : Byte, recv_packet_num : 0..MaxSize,
                 packets : [Packets -> FileNumbers]]
    BY DEF DfuInv, DownloadInv
  <2> QED
    BY <1>1, <1>7, <2>1, <2>2
<1>9. \A i \in Packets : dfu'.packets[i] <= file'.number
  BY <1>2, <1>8 DEF DfuInv, DownloadInv, FileNumbers
<1>10. DownloadInv'
  <2>1. Quiet' /\ thread' = "receiving" /\ (Cardinality(Present) = 0)'
    BY <1>1, <1>6, FS_EmptySet DEF Quiet
  <2>2. file' \in [number : FileNumbers, size : Sizes \cup {0}] /\ file'.number # 0
    BY <1>1, <1>2 DEF FileNumbers
  <2>3. updated'.number # file'.number
    BY <1>1, <1>2 DEF DfuInv, OutcomeInv, FileNumbers
  <2>4. \A b \in Boards : boardRuns'[b] # "new"
    BY <1>1
  <2>5. (cf8051.update = UPDATE_NOW => sim3u146.update = UPDATE_DONE)'
    BY <2>1 DEF Quiet
  <2> QED
    BY <1>2, <1>7, <1>8, <1>9, <2>1, <2>2, <2>3, <2>4, <2>5 DEF DownloadInv, UpdateIsOfOneFile
<1>11. OutcomeInv'
  BY <1>1, <1>2 DEF DfuInv, OutcomeInv, FileNumbers
<1> QED
  BY <1>4, <1>5, <1>10, <1>11 DEF DfuInv

(* A packet that had not come is counted. *)
LEMMA PacketKnown ==
  ASSUME DfuInv, NEW i \in Packets, Packet(i)
  PROVE  DfuInv'
<1>1. /\ thread = "receiving" /\ dfu.packets[i] # file.number
      /\ dfu' = [dfu EXCEPT !.packets[i] = file.number, !.recv_packet_num = @ + 1]
      /\ UNCHANGED <<boardVars, trayVars, thread, file, updated, asked>>
  BY DEF Packet
<1>2. Quiet /\ file.number # 0 /\ dfu.recv_packet_num = Cardinality(Present) /\ file.number \in FileNumbers
  BY <1>1 DEF DfuInv, DownloadInv
<1>3. /\ dfu'.type = dfu.type /\ dfu'.data_packet_num = dfu.data_packet_num
      /\ dfu'.recv_packet_num = dfu.recv_packet_num + 1
      /\ dfu'.packets \in [Packets -> FileNumbers]
      /\ \A j \in Packets : dfu'.packets[j] = IF j = i THEN file.number ELSE dfu.packets[j]
  BY <1>1, <1>2 DEF DfuInv, DownloadInv
<1>4. Present' = Present \cup {i} /\ i \notin Present
  BY <1>1, <1>3 DEF Present
<1>5. IsFiniteSet(Packets) /\ Cardinality(Packets) = MaxSize
  <2>1. MaxSize \in Nat /\ MaxSize - 1 \in Int /\ 0 \in Int
    BY DownloadAssumption
  <2>2. IsFiniteSet(Packets)
    BY <2>1, FS_Interval DEF Packets
  <2>3. Cardinality(0..(MaxSize - 1)) = IF 0 > MaxSize - 1 THEN 0 ELSE MaxSize - 1 - 0 + 1
    BY <2>1, FS_Interval
  <2>4. MaxSize > 0
    BY DownloadAssumption
  <2> QED
    BY <2>1, <2>2, <2>3, <2>4 DEF Packets
<1>6. /\ Cardinality(Present') = dfu.recv_packet_num + 1
      /\ dfu.recv_packet_num + 1 \in 0..MaxSize
  <2>1. Present \in SUBSET Packets /\ Present' \in SUBSET Packets
    BY <1>1, <1>4 DEF Present
  <2>2. IsFiniteSet(Present) /\ Cardinality(Present) \in Nat
    BY <1>5, <2>1, FS_Subset, FS_CardinalityType
  <2>3. Cardinality(Present') = Cardinality(Present) + 1
    BY <1>4, <2>2, FS_AddElement
  <2>4. Cardinality(Present') <= MaxSize
    BY <1>5, <2>1, FS_Subset
  <2> QED
    BY <1>2, <2>2, <2>3, <2>4, DownloadAssumption
<1>7. dfu' \in [type : {0, TRAYS, BOARDS}, data_packet_num : Byte, recv_packet_num : 0..MaxSize,
                packets : [Packets -> FileNumbers]]
  BY <1>1, <1>2, <1>6 DEF DfuInv, DownloadInv
<1>8. BoardInv'
  BY <1>1 DEF DfuInv, BoardInv, BoardsKnown, boardVars
<1>9. TrayInv'
  BY <1>1, <1>2, QuietKnown, NothingIsTrue DEF DfuInv, TrayInv, TraysKnown, trayVars
<1>10. DownloadInv'
  <2>1. Quiet' /\ thread' = "receiving" /\ file' = file /\ updated' = updated
        /\ boardRuns' = boardRuns /\ cf8051' = cf8051 /\ sim3u146' = sim3u146
    BY <1>1, <1>2 DEF Quiet, boardVars, trayVars
  <2>2. \A j \in Packets : dfu'.packets[j] <= file'.number
    BY <1>2, <1>3, <2>1 DEF DfuInv, DownloadInv, FileNumbers
  <2>3. dfu'.recv_packet_num = Cardinality(Present')
    BY <1>3, <1>6
  <2> QED
    BY <1>1, <1>3, <1>7, <2>1, <2>2, <2>3 DEF DfuInv, DownloadInv, UpdateIsOfOneFile
<1>11. OutcomeInv'
  BY <1>1, <1>3 DEF DfuInv, OutcomeInv, Asked, BoardsOutcome, TraysOutcome, boardVars, trayVars
<1> QED
  BY <1>8, <1>9, <1>10, <1>11 DEF DfuInv

(* The download thread ends, or goes on to the update with the whole file.  *)
LEMMA ThreadKnown ==
  ASSUME DfuInv, PeerGone \/ EndDownload
  PROVE  DfuInv'
<1>1. /\ UNCHANGED <<boardVars, trayVars, dfu, file, updated, asked>>
      /\ thread = "receiving"
      /\ thread' = "none" \/ (thread' = "starting" /\ AllSent)
  BY DEF PeerGone, EndDownload
<1>2. BoardInv'
  BY <1>1 DEF DfuInv, BoardInv, BoardsKnown, boardVars
<1>3. TrayInv'
  BY <1>1 DEF DfuInv, TrayInv, TraysKnown, TraySaysTrue, trayVars
<1>4. DownloadInv'
  <2>1. /\ dfu' = dfu /\ file' = file /\ updated' = updated /\ boardRuns' = boardRuns
        /\ sim3u146' = sim3u146 /\ cf8051' = cf8051 /\ Quiet' = Quiet /\ AllSent' = AllSent
        /\ Present' = Present
    BY <1>1 DEF boardVars, trayVars, Quiet, AllSent, Present
  <2> QED
    BY <1>1, <2>1 DEF DfuInv, DownloadInv, UpdateIsOfOneFile
<1>5. OutcomeInv'
  BY <1>1 DEF DfuInv, OutcomeInv, Asked, BoardsOutcome, TraysOutcome, boardVars, trayVars
<1> QED
  BY <1>2, <1>3, <1>4, <1>5 DEF DfuInv

(* A webmaster asks: of the last update, when no file is on its way.        *)
LEMMA AskKnown ==
  ASSUME DfuInv, AskStatus
  PROVE  DfuInv'
<1>1. /\ asked' = [number |-> IF thread = "none" THEN updated.number ELSE 0, reply |-> Status]
      /\ UNCHANGED <<boardVars, trayVars, dfu, thread, file, updated>>
  BY DEF AskStatus
<1>2. BoardInv'
  BY <1>1 DEF DfuInv, BoardInv, BoardsKnown, boardVars
<1>3. TrayInv'
  BY <1>1 DEF DfuInv, TrayInv, TraysKnown, TraySaysTrue, trayVars
<1>4. DownloadInv'
  <2>1. /\ dfu' = dfu /\ file' = file /\ updated' = updated /\ boardRuns' = boardRuns
        /\ sim3u146' = sim3u146 /\ cf8051' = cf8051 /\ Quiet' = Quiet /\ AllSent' = AllSent
        /\ Present' = Present /\ thread' = thread
    BY <1>1 DEF boardVars, trayVars, Quiet, AllSent, Present
  <2> QED
    BY <2>1 DEF DfuInv, DownloadInv, UpdateIsOfOneFile
<1>5. /\ Status \in {UPDATE_NOW, 0, 1, UPDATE_FAIL}
      /\ Status \in {0, 1} => Asked.update = UPDATE_DONE /\ Status = Asked.update_result
  <2>1. Asked.update \in {UPDATE_DONE, UPDATE_NOW} /\ Asked.update_result \in {0, 1, UPDATE_FAIL}
    BY DEF DfuInv, BoardInv, BoardsKnown, TrayInv, TraysKnown, UnitRecords, Asked
  <2>2. Status = IF Asked.update = UPDATE_NOW THEN UPDATE_NOW ELSE Asked.update_result
    BY DEF Status, Asked
  <2> HIDE DEF Status, Asked
  <2> QED
    BY <2>1, <2>2 DEF UPDATE_NOW, UPDATE_DONE, UPDATE_FAIL
<1>6. /\ asked'.reply = Status /\ asked'.number \in {0, updated.number} /\ asked'.number <= file.number
      /\ asked' \in [number : FileNumbers, reply : {UPDATE_NOW, 0, 1, UPDATE_FAIL}]
  BY <1>1, <1>5, DownloadAssumption DEF DfuInv, OutcomeInv, DownloadInv, FileNumbers
<1>7. OutcomeInv'
  <2>1. /\ dfu' = dfu /\ file' = file /\ updated' = updated /\ boardRuns' = boardRuns /\ trayRuns' = trayRuns
        /\ sim3u146' = sim3u146 /\ cf8051' = cf8051 /\ Asked' = Asked
    BY <1>1 DEF boardVars, trayVars, Asked
  <2>2. asked'.number # 0 /\ asked'.number = file.number =>
          /\ updated.number = file.number
          /\ asked'.reply \in {0, 1} => Asked.update = UPDATE_DONE /\ asked'.reply = Asked.update_result
    BY <1>5, <1>6
  <2> QED
    BY <1>6, <2>1, <2>2 DEF DfuInv, OutcomeInv, BoardsOutcome, TraysOutcome
<1> QED
  BY <1>2, <1>3, <1>4, <1>7 DEF DfuInv

(* The boards that answer are in the update of the file that has come.      *)
LEMMA StartBoardsKnown ==
  ASSUME DfuInv, thread = "starting", thread' = "none", StartBoards, UNCHANGED <<file, asked>>
  PROVE  DfuInv'
<1>1. PICK B \in SUBSET Boards :
        StartupService(Polled(B), 0) /\ updated' = [number |-> file.number, units |-> B]
  BY DEF StartBoards
<1>2. PICK s : s = Polled(B)
  OBVIOUS
<1>3. /\ Quiet /\ file.number # 0 /\ file.size \in Sizes /\ dfu.data_packet_num = file.size
      /\ updated.number # file.number /\ AllSent /\ \A b \in Boards : boardRuns[b] # "new"
      /\ file.number \in FileNumbers
  BY DEF DfuInv, DownloadInv
<1>4. /\ \A b \in Boards : boardSays[b] = Nothing
      /\ \A t \in Trays : traySays[t] = Nothing
  BY <1>3, QuietKnown
<1>5. BoardsKnown(s) /\ Members(s) = B /\ Pending(s) = B
  <2>1. IsFiniteSet(B) /\ Cardinality(B) \in Byte
    <3>1. Cardinality(Boards) = NBoards /\ NBoards \in 1..8
      <4>1. NBoards \in 1..8 /\ NBoards \in Int /\ 1 \in Int
        BY BoardAssumption
      <4>2. Cardinality(1..NBoards) = IF 1 > NBoards THEN 0 ELSE NBoards - 1 + 1
        BY <4>1, FS_Interval
      <4> QED
        BY <4>1, <4>2 DEF Boards
    <3>2. IsFiniteSet(B) /\ Cardinality(B) <= Cardinality(Boards)
      BY UnitsFinite, FS_Subset
    <3>3. Cardinality(B) \in Nat
      BY <3>2, FS_CardinalityType
    <3> QED
      BY <3>1, <3>2, <3>3 DEF Byte
  <2>2. s \in UnitRecords(Boards) /\ s.total_update_nums = Cardinality(B)
    BY <1>2, <2>1 DEF Polled, NoUnits, UnitRecords, UPDATE_DONE, UPDATE_NOW, UPDATE_FAIL
  <2>3. Members(s) = B /\ Pending(s) = B
    BY <1>2 DEF Polled, NoUnits, Members, Pending, UPDATE_NOW
  <2> QED
    BY <2>2, <2>3 DEF BoardsKnown
<1>6. /\ BoardInv'
      /\ sim3u146'.update = UPDATE_NOW => Members(sim3u146') = B
      /\ sim3u146'.update = UPDATE_DONE => BoardsOutcome(B)'
  <2>1. \A b \in Pending(s) : boardRuns[b] # "new"
    BY <1>3, <1>5
  <2>2. StartupService(s, 0)
    BY <1>1, <1>2
  <2>3. boardSays \in Says(Boards) /\ boardRuns \in [Boards -> Programs]
    BY DEF DfuInv, BoardInv
  <2>4. /\ BoardInv'
        /\ sim3u146'.update = UPDATE_NOW => Members(sim3u146') = Members(s)
        /\ sim3u146'.update = UPDATE_DONE => BoardsOutcome(Members(s))'
    BY <1>4, <1>5, <2>1, <2>2, <2>3, StartupKnown
  <2> QED
    BY <1>5, <2>4
<1>7. /\ dfu' = [dfu EXCEPT !.data_packet_num = Distributed(@) + 1]
      /\ dfu.type = BOARDS /\ UNCHANGED trayVars
  BY DEF StartBoards
<1>8. /\ dfu' \in [type : {0, TRAYS, BOARDS}, data_packet_num : Byte, recv_packet_num : 0..MaxSize,
                   packets : [Packets -> FileNumbers]]
      /\ dfu'.type = BOARDS /\ dfu'.packets = dfu.packets
      /\ dfu'.recv_packet_num = dfu.recv_packet_num
      /\ dfu'.data_packet_num = 2 * file.size + 1
  <2>1. file.size \in 1..35
    BY <1>3, DownloadAssumption DEF Sizes
  <2>2. Distributed(dfu.data_packet_num) = 2 * file.size
    BY <1>3, <2>1, DistributedTwice
  <2>3. 2 * file.size + 1 \in Byte
    BY <2>1 DEF Byte
  <2> QED
    BY <1>7, <2>2, <2>3 DEF DfuInv, DownloadInv
<1>9. TrayInv'
  BY <1>4, <1>7, NothingIsTrue DEF DfuInv, TrayInv, TraysKnown, trayVars
<1>10. sim3u146'.update \in {UPDATE_DONE, UPDATE_NOW} /\ cf8051' = cf8051 /\ cf8051'.update = UPDATE_DONE
  BY <1>3, <1>6, <1>7 DEF BoardInv, BoardsKnown, UnitRecords, Quiet, trayVars
<1>11. updated'.number = file.number /\ updated'.units = B
  BY <1>1
<1>12. DownloadInv'
  <2>1. Present' = Present /\ AllSent' = AllSent
    BY <1>8 DEF Present, AllSent
  <2>2. UpdateIsOfOneFile'
    BY <1>3, <1>8, <1>11, <2>1 DEF UpdateIsOfOneFile
  <2>3. (~Quiet => /\ file.number # 0
                  /\ dfu.type = IF sim3u146.update = UPDATE_NOW THEN BOARDS ELSE TRAYS)'
    BY <1>3, <1>8, <1>10 DEF Quiet
  <2>4. (cf8051.update = UPDATE_NOW => sim3u146.update = UPDATE_DONE)'
    BY <1>10 DEF UPDATE_DONE, UPDATE_NOW
  <2>5. (file.number # 0 => /\ dfu.type # 0 /\ file.size \in Sizes
                           /\ dfu.recv_packet_num = Cardinality(Present))'
    BY <1>3, <1>8, <2>1 DEF DfuInv, DownloadInv, BOARDS
  <2>6. (\A i \in Packets : dfu.packets[i] <= file.number)'
    BY <1>8 DEF DfuInv, DownloadInv
  <2>7. file' \in [number : FileNumbers, size : Sizes \cup {0}] /\ thread' = "none"
    BY DEF DfuInv, DownloadInv
  <2> QED
    BY <1>8, <2>2, <2>3, <2>4, <2>5, <2>6, <2>7 DEF DownloadInv
<1>13. OutcomeInv'
  <2>1. updated' \in [number : FileNumbers, units : SUBSET (Boards \cup Trays)]
    BY <1>1, <1>3
  <2>2. asked.number # file.number
    BY <1>3 DEF DfuInv, OutcomeInv
  <2> QED
    BY <1>3, <1>6, <1>8, <1>10, <1>11, <2>1, <2>2 DEF DfuInv, OutcomeInv, FileNumbers, UPDATE_NOW, UPDATE_DONE
<1> QED
  BY <1>6, <1>9, <1>12, <1>13 DEF DfuInv

(* The trays present are in the update of the file that has come.           *)
LEMMA StartTraysKnown ==
  ASSUME DfuInv, thread = "starting", thread' = "none", StartTrays, UNCHANGED <<file, asked>>
  PROVE  DfuInv'
<1>1. PICK T \in SUBSET Trays :
        TrayService(TraysPresent(T), 0) /\ updated' = [number |-> file.number, units |-> T]
  BY DEF StartTrays
<1>2. PICK s : s = TraysPresent(T)
  OBVIOUS
<1>3. /\ Quiet /\ file.number # 0 /\ file.size \in Sizes /\ dfu.data_packet_num = file.size
      /\ updated.number # file.number /\ AllSent
      /\ file.number \in FileNumbers
  BY DEF DfuInv, DownloadInv
<1>4. \A t \in Trays : traySays[t] = Nothing
  BY <1>3, QuietKnown
<1>5. TraysKnown(s) /\ Members(s) = T /\ (s.update = UPDATE_DONE => Members(s) = {})
  <2>1. IsFiniteSet(T) /\ Cardinality(T) \in Byte
    <3>1. Cardinality(Trays) = NTrays /\ NTrays \in 1..48
      <4>1. NTrays \in 1..48 /\ NTrays \in Int /\ 1 \in Int
        BY TrayAssumption
      <4>2. Cardinality(1..NTrays) = IF 1 > NTrays THEN 0 ELSE NTrays - 1 + 1
        BY <4>1, FS_Interval
      <4> QED
        BY <4>1, <4>2 DEF Trays
    <3>2. IsFiniteSet(T) /\ Cardinality(T) <= Cardinality(Trays)
      BY UnitsFinite, FS_Subset
    <3>3. Cardinality(T) \in Nat
      BY <3>2, FS_CardinalityType
    <3> QED
      BY <3>1, <3>2, <3>3 DEF Byte
  <2>2. /\ s \in UnitRecords(Trays) /\ s.total_update_nums = Cardinality(T)
        /\ s.update = UPDATE_DONE => T = {}
        /\ \A t \in T : s.updating_result[t] = UPDATE_NOW
    <3>1. s = [update |-> IF T = {} THEN UPDATE_DONE ELSE UPDATE_NOW, update_result |-> 0,
               total_update_nums |-> Cardinality(T), updating_index |-> 0,
               updating |-> [t \in Trays |-> IF t \in T THEN UPDATE_NOW ELSE 0],
               updating_status |-> [t \in Trays |-> IF t \in T THEN UPDATE_NOW ELSE 0],
               updating_result |-> [t \in Trays |-> IF t \in T THEN UPDATE_NOW ELSE 0]]
      BY <1>2 DEF TraysPresent, NoUnits
    <3>2. s \in UnitRecords(Trays)
      BY <2>1, <3>1 DEF UnitRecords, UPDATE_DONE, UPDATE_NOW
    <3> QED
      BY <3>1, <3>2 DEF UPDATE_DONE, UPDATE_NOW
  <2>3. Members(s) = T /\ Pending(s) = T
    BY <1>2 DEF TraysPresent, NoUnits, Members, Pending, UPDATE_NOW
  <2>4. TraysFailed(s) = {}
    BY <2>2, <2>3 DEF TraysFailed, UPDATE_NOW, UPDATE_FAIL
  <2>5. Cardinality(Pending(s)) <= s.total_update_nums
    BY <2>1, <2>2, <2>3 DEF Byte
  <2> QED
    BY <2>2, <2>3, <2>4, <2>5 DEF TraysKnown
<1>6. /\ TrayInv'
      /\ cf8051'.update = UPDATE_NOW => Members(cf8051') = T
      /\ cf8051'.update = UPDATE_DONE => TraysOutcome(T)'
  <2>1. TrayService(s, 0)
    BY <1>1, <1>2
  <2>2. traySays \in Says(Trays) /\ trayRuns \in [Trays -> Programs] /\ unanswered \subseteq Trays
    BY DEF DfuInv, TrayInv
  <2>3. /\ TrayInv'
        /\ cf8051'.update = UPDATE_NOW => Members(cf8051') = Members(s)
        /\ cf8051'.update = UPDATE_DONE => TraysOutcome(Members(s))'
    BY <1>4, <1>5, <2>1, <2>2, TrayServiceKnown
  <2> QED
    BY <1>5, <2>3
<1>7. /\ dfu' = [dfu EXCEPT !.data_packet_num = Distributed(@)]
      /\ dfu.type = TRAYS /\ UNCHANGED boardVars
  BY DEF StartTrays
<1>8. /\ dfu' \in [type : {0, TRAYS, BOARDS}, data_packet_num : Byte, recv_packet_num : 0..MaxSize,
                   packets : [Packets -> FileNumbers]]
      /\ dfu'.type = TRAYS /\ dfu'.packets = dfu.packets
      /\ dfu'.recv_packet_num = dfu.recv_packet_num
      /\ dfu'.data_packet_num = 2 * file.size
  <2>1. file.size \in 1..35
    BY <1>3, DownloadAssumption DEF Sizes
  <2>2. Distributed(dfu.data_packet_num) = 2 * file.size
    BY <1>3, <2>1, DistributedTwice
  <2>3. 2 * file.size \in Byte
    BY <2>1 DEF Byte
  <2> QED
    BY <1>7, <2>2, <2>3 DEF DfuInv, DownloadInv
<1>9. BoardInv'
  BY <1>7 DEF DfuInv, BoardInv, BoardsKnown, boardVars
<1>10. cf8051'.update \in {UPDATE_DONE, UPDATE_NOW} /\ sim3u146' = sim3u146 /\ sim3u146'.update = UPDATE_DONE
  BY <1>3, <1>6, <1>7 DEF TrayInv, TraysKnown, UnitRecords, Quiet, boardVars
<1>11. updated'.number = file.number /\ updated'.units = T
  BY <1>1
<1>12. DownloadInv'
  <2>1. Present' = Present /\ AllSent' = AllSent
    BY <1>8 DEF Present, AllSent
  <2>2. UpdateIsOfOneFile'
    <3>1. file.size \in Nat
      BY <1>3, DownloadAssumption DEF Sizes
    <3>2. (dfu.data_packet_num = 2 * file.size + IF dfu.type = BOARDS THEN 1 ELSE 0)'
      BY <1>8, <3>1 DEF TRAYS, BOARDS
    <3> QED
      BY <1>3, <1>11, <2>1, <3>2 DEF UpdateIsOfOneFile
  <2>3. (~Quiet => /\ file.number # 0
                  /\ dfu.type = IF sim3u146.update = UPDATE_NOW THEN BOARDS ELSE TRAYS)'
    BY <1>3, <1>8, <1>10 DEF Quiet, UPDATE_DONE, UPDATE_NOW
  <2>4. (cf8051.update = UPDATE_NOW => sim3u146.update = UPDATE_DONE)'
    BY <1>10
  <2>5. (file.number # 0 => /\ dfu.type # 0 /\ file.size \in Sizes
                           /\ dfu.recv_packet_num = Cardinality(Present))'
    BY <1>3, <1>8, <2>1 DEF DfuInv, DownloadInv, TRAYS
  <2>6. (\A i \in Packets : dfu.packets[i] <= file.number)'
    BY <1>8 DEF DfuInv, DownloadInv
  <2>7. file' \in [number : FileNumbers, size : Sizes \cup {0}] /\ thread' = "none"
    BY DEF DfuInv, DownloadInv
  <2> QED
    BY <1>8, <2>2, <2>3, <2>4, <2>5, <2>6, <2>7 DEF DownloadInv
<1>13. OutcomeInv'
  <2>1. updated' \in [number : FileNumbers, units : SUBSET (Boards \cup Trays)]
    BY <1>1, <1>3
  <2>2. asked.number # file.number
    BY <1>3 DEF DfuInv, OutcomeInv
  <2>3. dfu'.type # BOARDS
    BY <1>8 DEF TRAYS, BOARDS
  <2> QED
    BY <1>3, <1>6, <1>10, <1>11, <2>1, <2>2, <2>3 DEF DfuInv, OutcomeInv, FileNumbers, UPDATE_NOW, UPDATE_DONE
<1> QED
  BY <1>6, <1>9, <1>12, <1>13 DEF DfuInv

(* A report of an interface board: only then can the outcome change.        *)
LEMMA Boards0x06Known ==
  ASSUME DfuInv, Boards0x06
  PROVE  DfuInv'
<1>1. BoardReport(dfu.data_packet_num) /\ UNCHANGED <<trayVars, downloadVars>>
  BY DEF Boards0x06
<1>2. PICK M : M = Members(sim3u146)
  OBVIOUS
<1>3. /\ BoardInv'
      /\ sim3u146.update = UPDATE_NOW
      /\ sim3u146'.update = UPDATE_NOW => Members(sim3u146') = M
      /\ sim3u146'.update = UPDATE_DONE => BoardsOutcome(M)'
  BY <1>1, <1>2, BoardReportKnown DEF DfuInv
<1>4. ~Quiet /\ dfu.type = BOARDS /\ cf8051.update = UPDATE_DONE /\ thread = "none"
      /\ file.number # 0 /\ updated.number = file.number
  <2>1. UPDATE_NOW # UPDATE_DONE /\ cf8051.update \in {UPDATE_DONE, UPDATE_NOW}
    BY DEF DfuInv, TrayInv, TraysKnown, UnitRecords, UPDATE_NOW, UPDATE_DONE
  <2> QED
    BY <1>3, <2>1 DEF DfuInv, DownloadInv, Quiet, UpdateIsOfOneFile
<1>5. /\ dfu' = dfu /\ file' = file /\ updated' = updated /\ asked' = asked /\ thread' = thread
      /\ cf8051' = cf8051 /\ trayRuns' = trayRuns
  BY <1>1 DEF trayVars, downloadVars
<1>6. sim3u146'.update \in {UPDATE_DONE, UPDATE_NOW}
  BY <1>3 DEF BoardInv, BoardsKnown, UnitRecords
<1>7. TrayInv'
  BY <1>1 DEF DfuInv, TrayInv, TraysKnown, TraySaysTrue, trayVars, downloadVars
<1>8. DownloadInv'
  <2>1. Present' = Present /\ AllSent' = AllSent
    BY <1>5 DEF Present, AllSent
  <2>2. UpdateIsOfOneFile'
    BY <1>4, <1>5, <2>1 DEF DfuInv, DownloadInv, UpdateIsOfOneFile
  <2>3. (~Quiet => /\ file.number # 0
                  /\ dfu.type = IF sim3u146.update = UPDATE_NOW THEN BOARDS ELSE TRAYS)'
    BY <1>4, <1>5, <1>6 DEF Quiet
  <2>4. (cf8051.update = UPDATE_NOW => sim3u146.update = UPDATE_DONE)'
    BY <1>4, <1>5 DEF UPDATE_DONE, UPDATE_NOW
  <2> QED
    BY <1>4, <1>5, <2>1, <2>2, <2>3, <2>4 DEF DfuInv, DownloadInv
<1>9. OutcomeInv'
  <2>1. updated.units = M
    BY <1>2, <1>3, <1>4 DEF DfuInv, OutcomeInv
  <2>2. asked.number = file.number => asked.reply \notin {0, 1}
    BY <1>3, <1>4 DEF DfuInv, OutcomeInv, Asked, UPDATE_NOW, UPDATE_DONE
  <2> QED
    BY <1>3, <1>4, <1>5, <1>6, <2>1, <2>2 DEF DfuInv, OutcomeInv, UPDATE_NOW, UPDATE_DONE
<1> QED
  BY <1>3, <1>7, <1>8, <1>9 DEF DfuInv

(* A report of a tray, the same.                                            *)
LEMMA Trays0x06Known ==
  ASSUME DfuInv, Trays0x06
  PROVE  DfuInv'
<1>1. TrayReport(dfu.data_packet_num) /\ UNCHANGED <<boardVars, downloadVars>>
  BY DEF Trays0x06
<1>2. PICK M : M = Members(cf8051)
  OBVIOUS
<1>3. /\ dfu' = dfu /\ file' = file /\ updated' = updated /\ asked' = asked /\ thread' = thread
      /\ sim3u146' = sim3u146 /\ boardRuns' = boardRuns
  BY <1>1 DEF boardVars, downloadVars
<1>4. UPDATE_NOW # UPDATE_DONE /\ dfu.data_packet_num \in Byte
  BY DEF DfuInv, DownloadInv, UPDATE_NOW, UPDATE_DONE
<1>5. cf8051.update = UPDATE_NOW =>
        /\ ~Quiet /\ sim3u146.update = UPDATE_DONE /\ dfu.type = TRAYS /\ thread = "none"
        /\ file.number # 0 /\ updated.number = file.number /\ dfu.type # BOARDS
        /\ dfu.data_packet_num >= 1
  <2> HAVE cf8051.update = UPDATE_NOW
  <2>1. /\ ~Quiet /\ sim3u146.update = UPDATE_DONE /\ dfu.type = TRAYS /\ thread = "none"
        /\ file.number # 0 /\ updated.number = file.number /\ file.size \in Sizes
        /\ dfu.data_packet_num = 2 * file.size + IF dfu.type = BOARDS THEN 1 ELSE 0
    BY <1>4 DEF DfuInv, DownloadInv, Quiet, UpdateIsOfOneFile
  <2>2. dfu.type # BOARDS
    BY <2>1 DEF TRAYS, BOARDS
  <2>3. file.size \in Nat /\ file.size >= 1
    BY <2>1, DownloadAssumption DEF Sizes
  <2> QED
    BY <2>1, <2>2, <2>3
<1>6. /\ TrayInv'
      /\ cf8051.update = UPDATE_NOW
      /\ cf8051'.update = UPDATE_NOW => Members(cf8051') = M
      /\ cf8051'.update = UPDATE_DONE => TraysOutcome(M)'
  BY <1>1, <1>2, <1>3, <1>4, <1>5, TrayReportKnown DEF DfuInv
<1>7. cf8051'.update \in {UPDATE_DONE, UPDATE_NOW}
  BY <1>6 DEF TrayInv, TraysKnown, UnitRecords
<1>8. BoardInv'
  BY <1>1 DEF DfuInv, BoardInv, BoardsKnown, boardVars
<1>9. DownloadInv'
  <2>1. Present' = Present /\ AllSent' = AllSent
    BY <1>3 DEF Present, AllSent
  <2>2. UpdateIsOfOneFile'
    BY <1>3, <1>5, <1>6, <2>1 DEF DfuInv, DownloadInv, UpdateIsOfOneFile
  <2>3. (~Quiet => /\ file.number # 0
                  /\ dfu.type = IF sim3u146.update = UPDATE_NOW THEN BOARDS ELSE TRAYS)'
    BY <1>3, <1>4, <1>5, <1>6
  <2>4. (cf8051.update = UPDATE_NOW => sim3u146.update = UPDATE_DONE)'
    BY <1>3, <1>5, <1>6
  <2> QED
    BY <1>3, <1>5, <1>6, <2>1, <2>2, <2>3, <2>4 DEF DfuInv, DownloadInv
<1>10. OutcomeInv'
  <2>1. updated.units = M
    BY <1>2, <1>5, <1>6 DEF DfuInv, OutcomeInv
  <2>2. asked.number = file.number => asked.reply \notin {0, 1}
    BY <1>4, <1>5, <1>6 DEF DfuInv, OutcomeInv, Asked
  <2> QED
    BY <1>3, <1>4, <1>5, <1>6, <1>7, <2>1, <2>2 DEF DfuInv, OutcomeInv
<1> QED
  BY <1>6, <1>8, <1>9, <1>10 DEF DfuInv

-----------------------------------------------------------------------------
(* What is known stays known. *)
LEMMA NextKnown == DfuInv /\ [Next]_vars => DfuInv'
<1> SUFFICES ASSUME DfuInv, [Next]_vars PROVE DfuInv'
  OBVIOUS
<1>1. ASSUME NEW type \in {TRAYS, BOARDS}, NEW size \in Sizes, Announce(type, size) PROVE DfuInv'
  BY <1>1, AnnounceKnown
<1>2. ASSUME NEW i \in Packets, Packet(i) PROVE DfuInv'
  BY <1>2, PacketKnown
<1>3. CASE PeerGone
  BY <1>3, ThreadKnown
<1>4. CASE EndDownload
  BY <1>4, ThreadKnown
<1>5. CASE StartUpdate
  BY <1>5, StartBoardsKnown, StartTraysKnown DEF StartUpdate
<1>6. CASE Boards0x06
  BY <1>6, Boards0x06Known
<1>7. CASE Trays0x06
  BY <1>7, Trays0x06Known
<1>8. CASE AskStatus
  BY <1>8, AskKnown
<1>9. CASE UNCHANGED vars
  <2>1. /\ boardVars' = boardVars /\ trayVars' = trayVars /\ dfu' = dfu /\ thread' = thread /\ file' = file
        /\ updated' = updated /\ asked' = asked
    BY <1>9 DEF vars, downloadVars
  <2>2. BoardInv' /\ TrayInv'
    BY <2>1 DEF DfuInv, BoardInv, BoardsKnown, TrayInv, TraysKnown, TraySaysTrue, boardVars, trayVars
  <2>3. DownloadInv'
    BY <2>1 DEF DfuInv, DownloadInv, UpdateIsOfOneFile, AllSent, Present, Quiet, boardVars, trayVars
  <2>4. OutcomeInv'
    BY <2>1 DEF DfuInv, OutcomeInv, Asked, BoardsOutcome, TraysOutcome, boardVars, trayVars
  <2> QED
    BY <2>2, <2>3, <2>4 DEF DfuInv
<1> QED
  BY <1>1, <1>2, <1>3, <1>4, <1>5, <1>6, <1>7, <1>8, <1>9 DEF Next

(* The invariant holds in every state. *)
LEMMA Known == Spec => []DfuInv
BY InitKnown, NextKnown, PTL DEF Spec

-----------------------------------------------------------------------------
(* The state of the updates, of the download and of the boards and trays    *)
(* (sim3u146, cf8051 and dfu in the code) stays in the sets it is declared  *)
(* with.                                                                    *)
THEOREM DfuTypeCorrect == Spec => []TypeOK
<1>1. DfuInv => TypeOK
  <2> SUFFICES ASSUME DfuInv PROVE TypeOK
    OBVIOUS
  <2>1. /\ \A b \in Boards : boardSays[b].n < 256
        /\ \A t \in Trays : traySays[t].n < 256
    <3>1. /\ \A b \in Boards : boardSays[b].n \in Byte
          /\ \A t \in Trays : traySays[t].n \in Byte
      BY DEF DfuInv, BoardInv, TrayInv, Says
    <3> QED
      BY <3>1 DEF Byte
  <2> QED
    BY <2>1 DEF DfuInv, BoardInv, BoardsKnown, TrayInv, TraysKnown, DownloadInv, TypeOK
<1> QED
  BY <1>1, Known, PTL

(* Whatever order packets come in, and whoever hangs up, an update sends    *)
(* the packets of one whole file and ends at the right one.                 *)
THEOREM UpdateCorrect == Spec => []UpdateIsOfOneFile
<1>1. DfuInv => UpdateIsOfOneFile
  BY DEF DfuInv, DownloadInv
<1> QED
  BY <1>1, Known, PTL

(* One unit is in its update at a time, of one update, and a report is      *)
(* taken for the unit it is from.                                           *)
THEOREM OneUnitCorrect == Spec => []OneUnitAtATime
<1>1. DfuInv => OneUnitAtATime
  <2> SUFFICES ASSUME DfuInv PROVE OneUnitAtATime
    OBVIOUS
  <2>1. /\ UPDATE_NOW # UPDATE_DONE
        /\ sim3u146.update \in {UPDATE_DONE, UPDATE_NOW} /\ cf8051.update \in {UPDATE_DONE, UPDATE_NOW}
    BY DEF DfuInv, BoardInv, BoardsKnown, TrayInv, TraysKnown, UnitRecords, UPDATE_NOW, UPDATE_DONE
  <2>2. cf8051.update = UPDATE_NOW => sim3u146.update = UPDATE_DONE
    BY DEF DfuInv, DownloadInv
  <2>3. ASSUME NEW b \in Boards, boardSays[b] # Nothing
        PROVE  b = sim3u146.updating_index /\ b \in Pending(sim3u146) /\ cf8051.update = UPDATE_DONE
    <3>1. b = sim3u146.updating_index /\ b # 0
      BY <2>3, UnitsFinite DEF DfuInv, BoardInv
    <3> QED
      BY <2>1, <2>2, <3>1 DEF DfuInv, BoardInv
  <2>4. ASSUME NEW t \in Trays, traySays[t] # Nothing
        PROVE  t = cf8051.updating_index /\ t \in Pending(cf8051) /\ sim3u146.update = UPDATE_DONE
    <3>1. t = cf8051.updating_index /\ t \in Pending(cf8051)
      BY <2>4 DEF DfuInv, TrayInv
    <3>2. Members(cf8051) # {}
      BY <3>1 DEF Pending, Members
    <3> QED
      BY <2>1, <2>2, <3>1, <3>2 DEF DfuInv, TrayInv
  <2> QED
    BY <2>3, <2>4 DEF OneUnitAtATime
<1> QED
  BY <1>1, Known, PTL

(* The count of the interface boards is right, and an update that runs is   *)
(* waiting for a board that will report.                                    *)
THEOREM BoardsCountedCorrect == Spec => []BoardsAreCounted
<1>1. DfuInv => BoardsAreCounted
  <2> SUFFICES ASSUME DfuInv PROVE BoardsAreCounted
    OBVIOUS
  <2>1. Pending(sim3u146) \subseteq Boards
    BY PendingIn, UnitsFinite DEF DfuInv, BoardInv, BoardsKnown
  <2> QED
    BY <2>1 DEF DfuInv, BoardInv, BoardsKnown, BoardsAreCounted, UPDATE_NOW, UPDATE_DONE
<1> QED
  BY <1>1, Known, PTL

(* What a webmaster is told of the update of its file is what became of the *)
(* units in it.                                                             *)
THEOREM StatusCorrect == Spec => []StatusIsTrue
<1>1. DfuInv => StatusIsTrue
  <2> SUFFICES ASSUME DfuInv, asked.number # 0, asked.number = file.number
               PROVE  LET done == IF dfu.type = BOARDS
                                  THEN \A b \in updated.units : boardRuns[b] = "new"
                                  ELSE \A t \in updated.units : trayRuns[t] \in {"new", "refused"}
                      IN  /\ asked.reply = 0 => done
                          /\ asked.reply = 1 => ~done
    BY DEF StatusIsTrue
  <2>1. /\ updated.number = file.number
        /\ asked.reply \in {0, 1} => Asked.update = UPDATE_DONE /\ asked.reply = Asked.update_result
    BY DEF DfuInv, OutcomeInv
  <2>2. UPDATE_NOW # UPDATE_DONE
    BY DEF UPDATE_NOW, UPDATE_DONE
  <2>3. CASE dfu.type = BOARDS
    <3>1. asked.reply \in {0, 1} => BoardsOutcome(updated.units) /\ asked.reply = sim3u146.update_result
      BY <2>1, <2>2, <2>3 DEF DfuInv, OutcomeInv, Asked
    <3> QED
      BY <2>3, <3>1 DEF BoardsOutcome
  <2>4. CASE dfu.type # BOARDS
    <3>1. asked.reply \in {0, 1} => TraysOutcome(updated.units) /\ asked.reply = cf8051.update_result
      BY <2>1, <2>2, <2>4 DEF DfuInv, OutcomeInv, Asked
    <3> QED
      BY <2>4, <3>1 DEF TraysOutcome
  <2> QED
    BY <2>3, <2>4
<1> QED
  BY <1>1, Known, PTL
=============================================================================
