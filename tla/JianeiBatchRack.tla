-------------------------- MODULE JianeiBatchRack --------------------------
(***************************************************************************)
(* A batch order with its boards and the worker.  The firmware of a board  *)
(* is not in the repository; it is modelled from the frames the main board *)
(* sends and the reports it reads.  A board watches the ports a batch      *)
(* names, under the pair index it was given, and reports labels put in and *)
(* pulled out; told to confirm a port, it watches it no more and keeps the *)
(* result until it is polled, whatever happens to the batch meanwhile.     *)
(***************************************************************************)
EXTENDS JianeiBatch, FiniteSets

VARIABLES
  watched,    \* the pair index under which a port is watched, 0 when it is not
  plugged,    \* the label in each port
  due         \* the results boards have not been polled for: <<pair, port>>

rackVars == <<vars, watched, plugged, due>>

(* the boards take every frame of an acknowledged transmission, and any    *)
(* of one that failed                                                      *)
Hears(heard) == heard \subseteq sent'.frames /\ (sent'.acked => heard = sent'.frames)

Told(heard, op) == UNION {fr.ports : fr \in {f \in heard : f.op = op}}

(* what boards make of a step's frames; index: the pair of each port named *)
Boards(index) ==
  \E heard \in SUBSET sent'.frames :
    /\ Hears(heard)
    /\ watched' = [p \in Ports |->
                     IF p \in Told(heard, START) THEN index[p]
                     ELSE IF p \in Told(heard, WITHDRAW) \cup Told(heard, CONFIRM) THEN 0
                     ELSE watched[p]]
    /\ due' = due \cup {<<watched[p], p>> :
                          p \in {q \in Told(heard, CONFIRM) : watched[q] # 0}}

IndexIn(l) ==
  [p \in Ports |-> IF p \in PortsOf(l)
                   THEN CHOOSE i \in DOMAIN l : p \in {l[i].ydk, l[i].ddk} ELSE 0]

AskRack ==
  \E to \in Fds \cup {MOBILE}, l \in Layouts :
    /\ \/ \E n \in Numbers, mine \in BOOLEAN : Request(n, to, l, mine)
       \/ Cancel(to, l)
    /\ Boards(IndexIn(l))
    /\ UNCHANGED plugged

(* the worker puts a label in, or takes one out, at a port that is watched *)
PutIn(p, e) ==
  /\ watched[p] # 0
  /\ plugged[p] = NoEid
  /\ plugged' = [plugged EXCEPT ![p] = e]
  /\ Inserted(watched[p], p, e)
  /\ Boards(watched)

TakeOut(p) ==
  /\ watched[p] # 0
  /\ plugged[p] # NoEid
  /\ plugged' = [plugged EXCEPT ![p] = NoEid]
  /\ PulledBack(watched[p], p)
  /\ Boards(watched)

(* the worker clears a port that nobody watches *)
TakeOutUnseen(p) ==
  /\ watched[p] = 0
  /\ plugged[p] # NoEid
  /\ plugged' = [plugged EXCEPT ![p] = NoEid]
  /\ UNCHANGED <<vars, watched, due>>

(* a board is polled for the result of a confirm *)
Report(i, p) ==
  /\ <<i, p>> \in due
  /\ due' = due \ {<<i, p>>}
  /\ \E good \in BOOLEAN : Concluded(i, p, good)
  /\ UNCHANGED <<watched, plugged>>

Reboot == Restart /\ UNCHANGED <<watched, plugged, due>>

RackInit ==
  /\ Init
  /\ watched = [p \in Ports |-> 0]
  /\ plugged = [p \in Ports |-> NoEid]
  /\ due = {}

RackNext ==
  \/ /\ alive
     /\ \/ AskRack
        \/ \E p \in Ports :
             \/ \E e \in Eids : PutIn(p, e)
             \/ TakeOut(p)
             \/ TakeOutUnseen(p)
             \/ \E i \in Pairs : Report(i, p)
        \/ /\ SingleOrder \/ \E fd \in Fds : OtherClient(fd)
           /\ UNCHANGED <<watched, plugged, due>>
  \/ Reboot

(***************************************************************************)
(* The poll thread visits every board again and again; the watchdog        *)
(* reboots a dead rack.  Nothing is assumed of askers and worker.          *)
(***************************************************************************)
Fairness ==
  /\ \A i \in Pairs, p \in Ports : WF_rackVars(alive /\ Report(i, p))
  /\ WF_rackVars(Reboot)

RackSpec == RackInit /\ [][RackNext]_rackVars /\ Fairness

(* A patient asker: a batch may be cancelled, and follow or replace another *)
(* at any time, but not while boards hold results they were not polled for. *)
PatientNext == RackNext /\ (used' # used => due = {})

PatientSpec == RackInit /\ [][PatientNext]_rackVars /\ Fairness

-----------------------------------------------------------------------------
Answered(n, i) == \E k \in DOMAIN results : results[k].number = n /\ results[k].pair = i

(* A result is only written for a pair in which two agreeing labels were   *)
(* recorded, and pulled by nobody since: the confirm, the boards' results  *)
(* and the record of labels are in step through cancels, batches that      *)
(* replace others, lost acknowledgements and reboots.                      *)
SameLabels(i) ==
  /\ \A s \in Sides : ends[s][i].eid # NoEid
  /\ Checked[ends["ydk"][i].eid] = Checked[ends["ddk"][i].eid]
AnsweredPairHasLabels ==
  [][results' # results => SameLabels(results'[Len(results')].pair)]_rackVars

(* Each pair of a batch is answered once, so that the counter that closes  *)
(* the batch counts pairs, though confirms may be sent again.              *)
PairAnsweredOnce ==
  \A j, k \in DOMAIN results :
    results[j].number = results[k].number /\ results[j].pair = results[k].pair => j = k

(* When the boards of both ends have concluded a pair, its result is       *)
(* written, however the polls fall, unless the batch is cancelled or the   *)
(* rack reboots.                                                           *)
EndDone(s, i) == ends[s][i].stat = CONCLUDED \/ <<i, ends[s][i].port>> \in due
PairDone(i) == batch.number # NoNumber /\ ends["ydk"][i].port # NoPort /\ \A s \in Sides : EndDone(s, i)
NoBatch == batch.number = NoNumber
DonePairIsAnswered == \A i \in Pairs : PairDone(i) ~> NoBatch \/ Answered(batch.number, i)

-----------------------------------------------------------------------------
(* What a comment says and the code does not do.                           *)

(* When the labels at both ends agree, both ports are told to conclude     *)
(* (comment at Jianei_Order_new_5_ports.c:217).                            *)
PortsTold(op) == Told(sent.frames, op)
BothEndsConfirmed == PortsTold(CONFIRM) # {} => Cardinality(PortsTold(CONFIRM)) = 2
=============================================================================
