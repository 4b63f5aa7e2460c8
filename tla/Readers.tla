------------------------------- MODULE Readers -------------------------------
(***************************************************************************)
(* How readings are put together from what arrives in pieces: the lines of  *)
(* the charger on its serial port, two of which make a reading, with the    *)
(* prompts of its setup menu among them; the notifications of the BMS that  *)
(* make up one response; and the answer of another limonitor to the PwrGate *)
(* client.  Pieces may get lost on the way.                                 *)
(*                                                                          *)
(* A line is two halves, the second of which brings the newline.            *)
(***************************************************************************)
EXTENDS Windows

CONSTANTS
  MaxLine,       \* 1024 characters
  Notifications, \* notifications that bring MIN_RESPONSE_LEN bytes of a response
  MenuLength,    \* prompts of the setup menu
  Reports, Polls, SerialLosses, BleLosses, Wire, Sessions, Fetches   \* bounds of the model

ASSUME ReadersAssumption ==
  /\ MaxLine \in Nat /\ MaxLine > 2        \* room for a line that lost its newline, and one more half
  /\ Notifications \in Nat \ {0}
  /\ {MenuLength, Reports, Polls, SerialLosses, BleLosses, Wire, Sessions, Fetches} \subseteq Nat

VARIABLES
  gate,      \* outside the program: the PwrGate charger, and its line to us
  serial,    \* SerialReader: members and locals of read_loop, and how many pieces the session
             \* has missed: lost on the line, or thrown away with a prompt they stood before
  bms,       \* outside: the BMS and the notifications under way
  parser,    \* litime::Parser, the response its callback has delivered last, and how
             \* many notifications the connection had lost by then
  client     \* PwrGateClient

readersVars == <<gate, serial, bms, parser, client>>

-----------------------------------------------------------------------------
\* Pieces of the serial stream: the halves of a status line, those of a target line,
\* prompts, which end with ">:" and, with n = 1, a newline
Piece(kind, n) == [kind |-> kind, n |-> n]
Halves == <<"PS", "Bat", "TargetV", "TargetI">>
Prompts == {"MaxCurrent", "ResetDefault", "BatteryType"}
EndsLine(p) == p.kind \in {"Bat", "TargetI"} \/ (p.kind \in Prompts /\ p.n = 1)

Has(line, kind) == \E i \in DOMAIN line : line[i].kind = kind
Found(line, kind) ==                   \* the first place a key is found
  CHOOSE i \in DOMAIN line : line[i].kind = kind /\ \A j \in 1..(i - 1) : line[j].kind # kind
Field(line, kind) == IF Has(line, kind) THEN line[Found(line, kind)].n ELSE 0

prompt_response(line) ==
  IF line = <<>> \/ Last(line).kind \notin Prompts THEN "none"
  ELSE IF Has(line, "MaxCurrent") THEN "10"
  ELSE IF Has(line, "ResetDefault") THEN "N" ELSE "CR"

is_unterminated_prompt(line) == line # <<>> /\ Last(line).kind \in Prompts

\* pwrgate::parse
Reading(status, target) ==
  [ps |-> Field(status, "PS"), bat |-> Field(status, "Bat"),
   targetV |-> Field(target, "TargetV"), targetI |-> Field(target, "TargetI")]
NoGateReading == Reading(<<>>, <<>>)

NewSession == [running |-> FALSE, buf |-> <<>>, pending |-> <<>>, asked |-> FALSE, last |-> NoGateReading,
               missed |-> 0]

ReadersInit ==
  /\ gate = [n |-> 1, half |-> 1, wire |-> <<>>, menu |-> 0, waits |-> FALSE, answers |-> {},
                sessions |-> 0]
  /\ serial = NewSession
  /\ bms = [n |-> 0, wire |-> <<>>, up |-> FALSE, lost |-> 0]
  /\ parser = [buf |-> <<>>, last |-> <<>>, lost |-> 0]
  /\ client = [fetches |-> 0, last |-> "none"]

-----------------------------------------------------------------------------
\* The charger: a report, half a line at a time; a prompt, and then it waits
SendHalf ==
  /\ gate.menu = 0 /\ gate.n <= Reports /\ Len(gate.wire) < Wire
  /\ gate' = [gate EXCEPT
       !.wire = Append(@, Piece(Halves[gate.half], gate.n)),
       !.half = (@ % 4) + 1,
       !.n = IF gate.half = 4 THEN @ + 1 ELSE @]
  /\ UNCHANGED <<serial, bms, parser, client>>

SendPrompt ==
  /\ gate.menu > 0 /\ ~gate.waits /\ Len(gate.wire) < Wire
  /\ \E kind \in Prompts, newline \in {0, 1} :
       gate' = [gate EXCEPT !.wire = Append(@, Piece(kind, newline)), !.waits = TRUE]
  /\ UNCHANGED <<serial, bms, parser, client>>

LosePiece ==
  /\ gate.wire # <<>> /\ serial.missed < SerialLosses
  /\ gate' = [gate EXCEPT !.wire = Tail(@),
                          !.waits = @ /\ gate.wire[1].kind \notin Prompts]
  /\ serial' = [serial EXCEPT !.missed = @ + 1]
  /\ UNCHANGED <<bms, parser, client>>

Heard(response, ch) ==         \* what a reply does to the menu
  IF response = "none" THEN ch
  ELSE [ch EXCEPT !.menu = IF @ > 0 THEN @ - 1 ELSE 0, !.waits = FALSE, !.answers = @ \union {response}]

\* A prompt is answered, and what stood before it on the line is gone
Answered(line) ==
  [serial EXCEPT !.buf = <<>>,
                 !.missed = IF \E i \in DOMAIN line : line[i].kind \notin Prompts THEN @ + 1 ELSE @]

\* start, and the DTR pulse of read_loop that flushes the line and wakes the menu
StartSerial ==
  /\ ~serial.running /\ gate.sessions < Sessions
  /\ serial' = [NewSession EXCEPT !.running = TRUE]
  /\ gate' = [gate EXCEPT !.wire = <<>>, !.menu = MenuLength, !.waits = FALSE, !.sessions = @ + 1]
  /\ UNCHANGED <<bms, parser, client>>

StopSerial ==
  /\ serial.running
  /\ serial' = [serial EXCEPT !.running = FALSE]
  /\ UNCHANGED <<gate, bms, parser, client>>

\* a line of the stream: a prompt, a status line to keep, or the target line that
\* goes with it; "S" once a session, when the target current is that of a reset gate
HandleLine_KeepsStatus(line, low) ==       \* mutant: pending_status not cleared
  LET response == prompt_response(line)
      read == [gate EXCEPT !.wire = Tail(@)]
      empty == [serial EXCEPT !.buf = <<>>]
  IN  IF response # "none" THEN serial' = Answered(line) /\ gate' = Heard(response, read)
      ELSE IF Has(line, "PS") THEN serial' = [empty EXCEPT !.pending = line] /\ gate' = read
      ELSE IF serial.pending # <<>> /\ Has(line, "TargetV")
      THEN /\ serial' = [empty EXCEPT !.last = Reading(serial.pending, line), !.asked = @ \/ low]
           /\ gate' = [read EXCEPT !.menu = IF low /\ ~serial.asked THEN MenuLength ELSE @]
      ELSE serial' = empty /\ gate' = read
HandleLine(line, low) ==
  LET response == prompt_response(line)
      read == [gate EXCEPT !.wire = Tail(@)]
      empty == [serial EXCEPT !.buf = <<>>]
  IN  IF response # "none" THEN serial' = Answered(line) /\ gate' = Heard(response, read)
      ELSE IF Has(line, "PS") THEN serial' = [empty EXCEPT !.pending = line] /\ gate' = read
      ELSE IF serial.pending # <<>> /\ Has(line, "TargetV")
      THEN /\ serial' = [empty EXCEPT !.pending = <<>>, !.last = Reading(serial.pending, line),
                                      !.asked = @ \/ low]
           /\ gate' = [read EXCEPT !.menu = IF low /\ ~serial.asked THEN MenuLength ELSE @]
      ELSE serial' = empty /\ gate' = read

ReadPiece(low) ==
  /\ serial.running /\ gate.wire # <<>>
  /\ LET p == Head(gate.wire)
         line == IF Len(serial.buf) < MaxLine THEN Append(serial.buf, p) ELSE serial.buf
     IN  IF EndsLine(p) THEN HandleLine(line, low)
         ELSE /\ ~low
              /\ serial' = [serial EXCEPT !.buf = line]
              /\ gate' = [gate EXCEPT !.wire = Tail(@)]
  /\ UNCHANGED <<bms, parser, client>>

\* read returns nothing for a second: a prompt in the buffer is answered
ReadTimeout ==
  /\ serial.running /\ gate.wire = <<>> /\ is_unterminated_prompt(serial.buf)
  /\ gate' = Heard(prompt_response(serial.buf), gate)
  /\ serial' = Answered(serial.buf)
  /\ UNCHANGED <<bms, parser, client>>

-----------------------------------------------------------------------------
\* The BMS answers a poll with the notifications of one response
AnswerPoll ==
  /\ bms.up /\ bms.n < Polls /\ Len(bms.wire) < Notifications
  /\ bms' = [bms EXCEPT !.n = @ + 1,
               !.wire = @ \o [i \in 1..Notifications |-> [n |-> bms.n + 1, i |-> i]]]
  /\ UNCHANGED <<gate, serial, parser, client>>

LoseNotification ==
  /\ bms.wire # <<>> /\ bms.lost < BleLosses
  /\ bms' = [bms EXCEPT !.wire = Tail(@), !.lost = @ + 1]
  /\ UNCHANGED <<gate, serial, parser, client>>

\* the data callback: feed; apply and reset once the response is long enough
Feed ==
  /\ bms.wire # <<>>
  /\ bms' = [bms EXCEPT !.wire = Tail(@)]
  /\ LET buf == Append(parser.buf, Head(bms.wire))
     IN  parser' = IF Len(buf) >= Notifications THEN [buf |-> <<>>, last |-> buf, lost |-> bms.lost]
                   ELSE [parser EXCEPT !.buf = buf]
  /\ UNCHANGED <<gate, serial, client>>

Connect == ~bms.up /\ bms' = [bms EXCEPT !.up = TRUE, !.lost = 0]
           /\ UNCHANGED <<gate, serial, parser, client>>

\* DISCONNECTED or ERROR: what was under way is gone, and the state callback resets
Disconnect ==
  /\ bms.up
  /\ bms' = [bms EXCEPT !.up = FALSE, !.wire = <<>>]
  /\ parser' = [parser EXCEPT !.buf = <<>>]
  /\ UNCHANGED <<gate, serial, client>>

-----------------------------------------------------------------------------
\* The client: /api/charger of the other program, read until the connection ends or
\* five seconds pass.  A body cut short after "valid" is a reading with zeros, and
\* an old reading is stamped as a new one
charger_json(reading) ==
  IF reading = NoGateReading THEN {"", "headers", "invalid"} ELSE {"", "headers", "cut", "whole", "stale"}

http_get(answer) == IF answer = "headers" THEN "" ELSE answer
parse_json(body) == body \in {"cut", "whole", "stale"}

PollRemote ==
  /\ client.fetches < Fetches
  /\ \E answer \in charger_json(serial.last) :
       LET body == http_get(answer)
       IN  client' = [fetches |-> client.fetches + 1,
                      last |-> IF parse_json(body) THEN body ELSE client.last]
  /\ UNCHANGED <<gate, serial, bms, parser>>

ChargerNext ==
  \/ SendHalf \/ SendPrompt \/ LosePiece
  \/ StartSerial \/ StopSerial
  \/ \E low \in BOOLEAN : ReadPiece(low)
  \/ ReadTimeout
  \/ PollRemote

BmsNext == AnswerPoll \/ LoseNotification \/ Feed \/ Connect \/ Disconnect

ReadersSpec == ReadersInit /\ [][ChargerNext \/ BmsNext]_readersVars

-----------------------------------------------------------------------------
Pieces == [kind : Range(Halves), n : 1..Reports] \union [kind : Prompts, n : {0, 1}]

ReadersTypeOK ==
  /\ \A s \in {gate.wire, serial.buf, serial.pending} : Range(s) \subseteq Pieces
  /\ Len(serial.buf) <= MaxLine /\ gate.menu \in 0..MenuLength
  /\ gate.waits \in BOOLEAN /\ gate.answers \subseteq {"10", "N", "CR"}
  /\ serial.running \in BOOLEAN /\ serial.asked \in BOOLEAN /\ serial.missed \in Nat
  /\ Len(parser.buf) < Notifications /\ bms.up \in BOOLEAN
  /\ client.last \in {"none", "cut", "whole", "stale"}

\* A reading is one report.  Of the charger: all its fields come from the two lines of
\* one report as long as the session has missed no more than one piece, lost on the
\* line or taken away by a prompt that cut a line in two, wherever prompts, timeouts
\* and the restart of a session fall (read_loop, pwrgate::parse).  Of the BMS: it is
\* one whole response as long as no notification of the connection was lost, wherever
\* earlier connections were cut (litime::Parser, the callbacks of main).
WholeReadings ==
  /\ serial.missed <= 1 =>
       LET r == serial.last IN r.ps = r.bat /\ r.bat = r.targetV /\ r.targetV = r.targetI
  /\ parser.lost = 0 =>
       \A i \in DOMAIN parser.last : parser.last[i] = [n |-> parser.last[1].n, i |-> i]
=============================================================================
