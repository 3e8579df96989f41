---------------------------- MODULE EventStreams ----------------------------
(***************************************************************************)
(* The streaming answers: server-sent events and newline-delimited JSON,   *)
(* read line by line off a connection that may end anywhere                *)
(* (client/_base.py, client/assignments.py, client/notebooks.py).          *)
(***************************************************************************)
EXTENDS Integers, SequencesExt

CONSTANTS
  EventKinds,   \* kinds of events the server sends
  MaxEvents,    \* bound on the events of one answer
  MaxLines      \* bound on the data lines of one event

ASSUME StreamBounds == MaxEvents \in Nat /\ MaxLines \in Nat

VARIABLES
  reader,    \* "stream", of assignments.stream(), or "input", of stream_input()
  sent,      \* external: the part of an event the server sent last
  lastLine,  \* the line httpx handed over last
  arrived,   \* history: the events all of whose lines arrived, but for kinds skipped
  buffer,    \* buffer of _iter_sse_data(): the data lines of the event begun
  yielded,   \* events handed on to the caller
  texts,     \* number of lines handed on to the caller as text
  outcome    \* "reading", "ended", "raised", or "broken": httpx raised
streamVars == <<reader, sent, lastLine, arrived, buffer, yielded, texts, outcome>>

KnownKinds == {"status", "cell"}

\* A line holds a field and, under "data", one part of the JSON text of an event;
\* the line at which the answer ended may be cut off inside.
Line(field, part) == [field |-> field, part |-> part, whole |-> TRUE]
NoPart  == [event |-> 0, kind |-> "none", nr |-> 0, of |-> 0]
Blank   == Line("", NoPart)
Comment == Line(":", NoPart)
CutOff(line) == [line EXCEPT !.whole = FALSE]

\* The text is JSON when it is the whole text of one event.
IsJson(text) ==
  /\ text # <<>>
  /\ Len(text) = text[1].part.of
  /\ \A i \in DOMAIN text : /\ text[i].whole
                            /\ text[i].part = [text[1].part EXCEPT !.nr = i]

StreamInit ==
  /\ reader \in {"stream", "input"}
  /\ sent = NoPart /\ lastLine = Blank /\ arrived = <<>>
  /\ buffer = <<>> /\ yielded = <<>> /\ texts = 0 /\ outcome = "reading"

-----------------------------------------------------------------------------
(* The server: events in data lines, blank lines between those of a stream,  *)
(* comments anywhere.  In newline-delimited JSON each line is an event.      *)
NextParts ==
  IF sent.nr < sent.of THEN {[sent EXCEPT !.nr = @ + 1]}
  ELSE {p \in [event : {sent.event + 1}, kind : EventKinds, nr : {1}, of : 1..MaxLines] :
          /\ sent.event < MaxEvents
          /\ IF reader = "stream" THEN sent.of = 0 ELSE p.of = 1}
Comments  == IF reader = "stream" THEN {Comment} ELSE {}
NextLines == Comments \cup {Line("data", p) : p \in NextParts}
               \cup {b \in {Blank} : sent.nr = sent.of}
\* The last line of all may be cut off, in the name of its field too.
LastLines == {CutOff(l) : l \in Comments \cup {Line("data", p) : p \in NextParts}}

Skipped(kind) == reader = "stream" /\ kind \notin KnownKinds
Send(line) ==
  /\ lastLine' = line
  /\ sent' = (IF line.field = "data" THEN line.part
              ELSE IF line.field = "" THEN [sent EXCEPT !.nr = 0, !.of = 0] ELSE sent)
  /\ arrived' = (IF /\ line.field = "data" /\ line.whole
                    /\ line.part.nr = line.part.of /\ ~ Skipped(line.part.kind)
                 THEN Append(arrived, line.part.event) ELSE arrived)

-----------------------------------------------------------------------------
(* stream(): what is no JSON raises, an event of another kind is skipped. *)
ParseEvent(text, next) ==
  /\ outcome' = (IF IsJson(text) THEN next ELSE "raised")
  /\ yielded' = (IF IsJson(text) /\ text[1].part.kind \in KnownKinds
                 THEN Append(yielded, text[1].part.event) ELSE yielded)

\* _iter_sse_data(), one line of the loop: a blank line ends the event begun.
SlipSseLine(line) ==
  \/ /\ line.field = "" /\ buffer # <<>>
     /\ ParseEvent(buffer, "reading") /\ UNCHANGED buffer
  \/ /\ line.field = "data"
     /\ buffer' = Append(buffer, line) /\ UNCHANGED <<yielded, outcome>>
  \/ /\ line.field = ":" \/ (line.field = "" /\ buffer = <<>>)
     /\ UNCHANGED <<buffer, yielded, outcome>>
SseLine(line) ==
  \/ /\ line.field = "" /\ buffer # <<>>
     /\ ParseEvent(buffer, "reading") /\ buffer' = <<>>
  \/ /\ line.field = "data"
     /\ buffer' = Append(buffer, line) /\ UNCHANGED <<yielded, outcome>>
  \/ /\ line.field = ":" \/ (line.field = "" /\ buffer = <<>>)
     /\ UNCHANGED <<buffer, yielded, outcome>>

\* The loop ended, and what is in the buffer is an event as well.
SseEnd ==
  /\ IF buffer # <<>> THEN ParseEvent(buffer, "ended")
     ELSE outcome' = "ended" /\ UNCHANGED yielded
  /\ UNCHANGED buffer

\* _iter_ndjson_or_text(): a line that is no JSON is handed on as text.
NdjsonLine(line) ==
  LET filled == line.field # "" IN
  /\ yielded' = (IF filled /\ IsJson(<<line>>) THEN Append(yielded, line.part.event) ELSE yielded)
  /\ texts' = (IF filled /\ ~ IsJson(<<line>>) THEN texts + 1 ELSE texts)
  /\ UNCHANGED <<buffer, outcome>>

\* One line is read; after one cut off there is none.
ReadLine ==
  /\ outcome = "reading" /\ lastLine.whole
  /\ \E line \in NextLines \cup LastLines :
       /\ Send(line)
       /\ \/ reader = "stream" /\ SseLine(line) /\ UNCHANGED texts
          \/ reader = "input" /\ NdjsonLine(line)
  /\ UNCHANGED reader

\* The server closed the connection in order, be it inside an event or a line.
Closed ==
  /\ outcome = "reading"
  /\ \/ reader = "stream" /\ SseEnd
     \/ reader = "input" /\ outcome' = "ended" /\ UNCHANGED <<buffer, yielded>>
  /\ UNCHANGED <<reader, sent, lastLine, arrived, texts>>

\* The connection broke: httpx raises, and hands over no line that is cut off.
Broken ==
  /\ outcome = "reading" /\ lastLine.whole
  /\ outcome' = "broken"
  /\ UNCHANGED <<reader, sent, lastLine, arrived, buffer, yielded, texts>>

StreamNext == ReadLine \/ Closed \/ Broken

-----------------------------------------------------------------------------
\* The answer ended inside an event: lines of it are missing, or cut off.
InsideEvent == sent.nr # sent.of \/ (lastLine.field = "data" /\ ~ lastLine.whole)

(* A reader hands on each event of the answer once, whole and in order: all *)
(* that arrived when it ends without raising, and up to the last of them   *)
(* when the connection breaks.  Half an event is never handed on as one:   *)
(* an answer cut off inside an event raises, and nothing else that arrives *)
(* does, except that stream_input() hands the half line on as text.        *)
WholeEventsOnly ==
  /\ IsPrefix(yielded, arrived) /\ Len(arrived) - 1 <= Len(yielded)
  /\ outcome = "ended" => yielded = arrived
  /\ reader = "stream" => /\ outcome = "raised" => InsideEvent
                          /\ outcome = "ended" => ~ InsideEvent
                          /\ texts = 0
  /\ reader = "input" => /\ outcome # "raised"
                         /\ texts # 0 => InsideEvent
=============================================================================
