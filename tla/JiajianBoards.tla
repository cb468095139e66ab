--------------------------- MODULE JiajianBoards ---------------------------
(***************************************************************************)
(* The interface boards and the worker at each of the racks that an        *)
(* inter-rack order runs over.  They are not in the repository: what is    *)
(* here is how the main board's code uses them.                            *)
(*                                                                         *)
(* A board arms the port an order names and reports its labels with the    *)
(* command byte that armed it; told to conclude, it disarms the port and   *)
(* reports the result.  Reports wait until the board is polled.  The       *)
(* handlers of inter-rack orders never look at the port of a report, so    *)
(* reports carry none.                                                     *)
(***************************************************************************)
EXTENDS Naturals, Sequences, FiniteSets

CONSTANTS
  Racks,
  Ports,         \* addresses of ports, the same at every rack
  NoPort,        \* an address no port has
  Labels,
  NoLabel,
  Results,       \* the results a board may report of a conclusion
  FirstLabels,   \* the labels that may be in the ports of a rack at the start
  MaxReports     \* bound of the reports waiting at a rack, on the worker's moves

ASSUME BoardsAssumption ==
  /\ NoPort \notin Ports
  /\ NoLabel \notin Labels
  /\ Results \subseteq BOOLEAN
  /\ FirstLabels \subseteq Labels \cup {NoLabel}
  /\ MaxReports \in Nat \ {0}

VARIABLES
  armed,      \* the command each port of each rack was armed with
  tag,        \* the label in each port
  outbox,     \* the reports waiting at each rack, in order
  concluded   \* how the board concluded each port since it was last armed

boardVars == <<armed, tag, outbox, concluded>>

(* Command bytes: 0x08/0x18 label two ports, 0x09/0x19 remove two labels.   *)
(* The first of each is for the rack that took the order from its asker.    *)
Kinds == {"new", "del"}
Roles == {"host", "remote"}
Cmds == [kind : Kinds, role : Roles]
NotArmed == [kind |-> "none", role |-> "none"]

INSERTED == "03"
PULLED == "01"
REINSERTED == "02"
PULLEDBACK == "8c"
CONCLUDED == "0a"
Movements == {INSERTED, PULLED, REINSERTED, PULLEDBACK}

Reports == [cmd : Cmds, what : Movements \cup {CONCLUDED},
            label : Labels \cup {NoLabel}, ok : BOOLEAN]

(* Frames on a rack's own line.  Guidance and output notices drive lamps.   *)
ARM == "arm"
CANCEL == "a2"
CONFIRM == "0a"
GUIDE == "41"
OUTPUT == "8c"
Frames == [op : {ARM, CANCEL, CONFIRM, GUIDE, OUTPUT}, port : Ports \cup {NoPort}, cmd : Cmds]
Frame(op, p, k, role) == [op |-> op, port |-> p, cmd |-> [kind |-> k, role |-> role]]

BoardsTypeOK ==
  /\ armed \in [Racks -> [Ports -> Cmds \cup {NotArmed}]]
  /\ tag \in [Racks -> [Ports -> Labels \cup {NoLabel}]]
  /\ outbox \in [Racks -> Seq(Reports)]
  /\ concluded \in [Racks -> [Ports -> {"open", "good", "bad"}]]

BoardsInit ==
  /\ armed = [r \in Racks |-> [p \in Ports |-> NotArmed]]
  /\ tag \in [Racks -> [Ports -> FirstLabels]]
  /\ outbox = [r \in Racks |-> <<>>]
  /\ concluded = [r \in Racks |-> [p \in Ports |-> "open"]]

(***************************************************************************)
(* The main board of rack r writes a frame; waiting: the reports the board *)
(* has after the one being handled was taken.  The program does not look   *)
(* at any acknowledgement of these frames.                                  *)
(***************************************************************************)
Write(r, f, waiting) ==
  /\ UNCHANGED tag
  /\ \/ /\ f.op = ARM
        /\ armed' = [armed EXCEPT ![r][f.port] = f.cmd]
        /\ concluded' = [concluded EXCEPT ![r][f.port] = "open"]
        /\ outbox' = [outbox EXCEPT ![r] = waiting]
     \/ /\ f.op = CANCEL
        /\ armed' = [armed EXCEPT ![r] =
                       [p \in Ports |-> IF p = f.port THEN NotArmed ELSE @[p]]]
        /\ outbox' = [outbox EXCEPT ![r] = waiting]
        /\ UNCHANGED concluded
     \/ /\ f.op = CONFIRM
        /\ f.port \in Ports
        /\ armed[r][f.port] # NotArmed
        /\ \E ok \in Results :
             /\ outbox' = [outbox EXCEPT ![r] = Append(waiting,
                  [cmd |-> armed[r][f.port], what |-> CONCLUDED, label |-> NoLabel, ok |-> ok])]
             /\ concluded' = [concluded EXCEPT ![r][f.port] = IF ok THEN "good" ELSE "bad"]
        /\ armed' = [armed EXCEPT ![r][f.port] = NotArmed]
     \/ /\ \/ f.op \in {GUIDE, OUTPUT}
           \/ f.op = CONFIRM /\ (f.port \in Ports => armed[r][f.port] = NotArmed)
        /\ outbox' = [outbox EXCEPT ![r] = waiting]
        /\ UNCHANGED <<armed, concluded>>

(* A handler that writes nothing to the line. *)
Silent(r, waiting) ==
  /\ outbox' = [outbox EXCEPT ![r] = waiting]
  /\ UNCHANGED <<armed, tag, concluded>>

(* The worker puts a label in or takes it out; an armed port reports it.    *)
MoveLabel(r, p, e) ==
  LET out == tag[r][p] # NoLabel
      what == IF armed[r][p].kind = "new" THEN (IF out THEN PULLEDBACK ELSE INSERTED)
              ELSE (IF out THEN PULLED ELSE REINSERTED)
  IN  /\ out => e = tag[r][p]
      /\ tag' = [tag EXCEPT ![r][p] = IF out THEN NoLabel ELSE e]
      /\ armed[r][p] # NotArmed
      /\ Len(outbox[r]) < MaxReports
      /\ outbox' = [outbox EXCEPT ![r] = Append(@,
           [cmd |-> armed[r][p], what |-> what,
            label |-> IF what = INSERTED THEN e ELSE NoLabel, ok |-> TRUE])]
      /\ UNCHANGED <<armed, concluded>>
=============================================================================
