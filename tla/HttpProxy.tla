------------------------------ MODULE HttpProxy -----------------------------
(***************************************************************************)
(* A proxied request (webstreamhttphelper.py): the upload put together,    *)
(* the request tried at one address after another (httprequest.py) or      *)
(* answered as a command (commandhandler.py), and the body read piece by   *)
(* piece and sent.  A body whose end nothing announces is read by a second *)
(* thread (httpstreamaccumulationreader.py).                               *)
(*                                                                         *)
(* A body is the sequence 1, 2, ... of the units the local server makes.   *)
(***************************************************************************)
EXTENDS WebStreams, SequencesExt

CONSTANTS
    MaxBody,        \* bound: units in a body
    MaxReturn,      \* MaxReturnBufferSizeBytes, in units
    MaxPending,     \* c_MaxPendingBufferSizeBytes, in units
    Slack,          \* room left in an upload buffer of unknown size
    Answers         \* the kinds of body the local server may answer with

ASSUME ProxyAssumption ==
    /\ MaxBody \in Nat
    /\ MaxReturn \in Nat \ {0} /\ MaxPending \in Nat \ {0} /\ Slack \in Nat \ {0}
    /\ Answers \subseteq {"plain", "parts", "stream", "empty"}

VARIABLES
    http,       \* the helper of each stream
    reader      \* its HttpStreamAccumulationReader

httpVars == <<http, reader>>

None == <<>>
NoLength == -1

NewHttp ==
    [known |-> 0,           \* KnownFullStreamUploadSizeBytes, 0 for None
     got |-> 0,             \* UploadBytesReceivedSoFar
     room |-> 0,            \* the length of UploadBuffer, 0 for None
     how |-> "none",        \* how the body is read; "full" when it is there already
     length |-> NoLength,   \* content-length
     made |-> 0,            \* units the local server has made
     torn |-> 0,            \* ... and those a read that threw took with it
     piece |-> None,        \* what the last read returned
     read |-> 0,            \* nonCompressedContentReadSizeBytes
     last |-> FALSE,        \* isLastMessage
     dropped |-> FALSE,     \* a piece was not sent, for the stream was closed
     sent |-> <<>>]         \* the body as sent to the server

NewReader ==
    [at |-> "none",         \* its thread
     list |-> <<>>,         \* BufferList, a sequence of chunks
     acc |-> <<>>,          \* accumulatedBufferList of the Read under way
     must |-> FALSE, first |-> TRUE,
     late |-> FALSE,        \* a chunk has come since the last look (history)
     ready |-> FALSE,       \* BufferDataReadyEvent
     complete |-> FALSE,    \* ReadComplete
     closed |-> FALSE]      \* IsClosed

HttpInit == http = [x \in Stream |-> NewHttp] /\ reader = [x \in Stream |-> NewReader]

SetHttp(x, r) == http' = [http EXCEPT ![x] = r]
SetReader(x, r) == reader' = [reader EXCEPT ![x] = r]
Units(from, n) == [i \in 1..n |-> from + i]
Pending(x) == Len(FlattenSeq(reader[x].list))

(***************************************************************************)
(* The request                                                             *)
(***************************************************************************)

\* copyUploadDataFromMsg.  known is read off the open message when the
\* helper is made.
Upload(x) ==
    /\ stream[x].at = "upload"
    /\ LET m == stream[x].cur
           known == IF m.type = "open" THEN m.known ELSE http[x].known
           h == [http[x] EXCEPT !.known = known]
           whole == h.room = 0 /\ known = m.size
           needed == h.got + m.size
           room == IF h.room # 0 /\ needed <= h.room THEN h.room
                   ELSE IF known # 0 THEN known ELSE needed + Slack
           next == IF m.done THEN "trim" ELSE More(x)
       IN IF m.size = 0 THEN SetHttp(x, h) /\ Move(x, next)
          ELSE IF whole THEN SetHttp(x, [h EXCEPT !.got = m.size, !.room = m.size]) /\ Move(x, next)
          ELSE IF known # 0 /\ needed > known THEN UNCHANGED http /\ Move(x, "fail")
          ELSE SetHttp(x, [h EXCEPT !.got = needed, !.room = room]) /\ Move(x, next)
    /\ UNCHANGED <<conVars, hand, reader>>

\* finalizeUnknownUploadSizeIfNeeded, and the check that all has come.
Trim(x) ==
    /\ stream[x].at = "trim"
    /\ SetHttp(x, [http[x] EXCEPT !.room = IF http[x].known = 0 THEN http[x].got ELSE @])
    /\ Move(x, IF http[x].known \notin {0, http[x].got} THEN "fail" ELSE "execute")
    /\ UNCHANGED <<conVars, hand, reader>>

\* MakeHttpCallAttempt for one address after another: the first answer other
\* than 404, else the first 404 when the main address gave it, else the last
\* answer.  An absolute path has one address or two, a relative one four, and
\* a webcam's five.
Address(tried, outcome) ==
    LET good == {i \in 1..tried : outcome[i] = "ok"} IN
    IF good # {} THEN "ok"
    ELSE IF outcome[1] = "404" \/ outcome[tried] = "404" THEN "404"
    ELSE "none"

Outcome == {"ok", "404", "dead"}
Answered == UNION {{Address(tried, o) : o \in [1..tried -> Outcome]} : tried \in {1, 2, 4, 5}}

\* Whether the answer has a length depends on the local server.  A part of a
\* body in parts may carry its own.
Begin(h, how, length) == [h EXCEPT !.how = how, !.length = length]

\* executeHttpRequest up to the answer.  A command has a full body, and so
\* have the refusals of MakeHttpCall.
Execute(x) ==
    /\ stream[x].at = "execute"
    /\ \/ \E n \in 0..MaxReturn :
             SetHttp(x, Begin(http[x], "full", n)) /\ Move(x, "body")
       \/ /\ "none" \in Answered
          /\ Set(x, [stream[x] EXCEPT !.failed = TRUE, !.at = "finish"])
          /\ UNCHANGED http
       \/ \E how \in Answers, length \in {NoLength} \cup 0..MaxBody :
             /\ how = "stream" => length = NoLength
             /\ how = "empty" => length \in {NoLength, 0}
             /\ SetHttp(x, Begin(http[x], how, length))
             /\ Move(x, "body")
    /\ UNCHANGED <<conVars, hand, reader>>

(***************************************************************************)
(* The body                                                                *)
(***************************************************************************)

Reading(x, how) ==
    /\ stream[x].at = "body" /\ ~stream[x].shut /\ ~http[x].last
    /\ http[x].how = how

\* The loop of executeHttpRequest ends.
BodyDone(x) ==
    /\ stream[x].at = "body" /\ (stream[x].shut \/ http[x].last)
    /\ Move(x, "finish")
    /\ UNCHANGED <<conVars, hand, httpVars>>

\* The read returns piece, with eof for None.
Returns(x, h, piece, eof) ==
    /\ SetHttp(x, [h EXCEPT !.piece = piece, !.read = @ + Len(piece),
                      !.last = eof \/ (h.length # NoLength /\ h.read + Len(piece) >= h.length)])
    /\ Move(x, "post")

\* A status of 304 or 204: nothing is read.
ReadNothing(x) ==
    /\ Reading(x, "empty")
    /\ Returns(x, http[x], None, TRUE)
    /\ UNCHANGED <<conVars, hand, reader>>

ReadFull(x) ==
    /\ Reading(x, "full")
    /\ LET n == http[x].length IN Returns(x, [http[x] EXCEPT !.made = n], Units(0, n), FALSE)
    /\ UNCHANGED <<conVars, hand, reader>>

\* What the local server still has to give, one unit or several; the body
\* may end before its length.
Left(x) == (IF http[x].length = NoLength THEN MaxBody ELSE http[x].length) - http[x].made

\* doBodyRead; whatever goes wrong ends the body.
ReadPlain(x) ==
    /\ Reading(x, "plain")
    /\ \/ Returns(x, http[x], None, TRUE)
       \/ \E n \in 1..Left(x) :
             Returns(x, [http[x] EXCEPT !.made = @ + n], Units(http[x].made, n), FALSE)
    /\ UNCHANGED <<conVars, hand, reader>>

\* readStreamChunk: the head of a part and what its length says remains.
\* When the body ends within it, the head alone; when no length is found the
\* parts are given up for good.  A head that cannot be made out throws: the
\* body ends, and what had been read of it is gone.
ReadPart(x) ==
    /\ Reading(x, "parts")
    /\ \/ Returns(x, http[x], None, TRUE)
       \/ \E n \in 1..Left(x) : Returns(x, [http[x] EXCEPT !.torn = n], None, TRUE)
       \/ \E n \in 1..Left(x), found \in BOOLEAN :
             /\ found \/ n = 1
             /\ Returns(x, [http[x] EXCEPT !.made = @ + n,
                               !.how = IF found THEN @
                                       ELSE IF http[x].length = NoLength THEN "stream" ELSE "plain"],
                        Units(http[x].made, n), FALSE)
    /\ UNCHANGED <<conVars, hand, reader>>

\* The helper may have been shut while it read.
Post(x) ==
    /\ stream[x].at = "post"
    /\ Move(x, IF stream[x].shut THEN "finish" ELSE "push")
    /\ UNCHANGED <<conVars, hand, httpVars>>

\* SendToStream, under the lock: nothing is sent after the close but the one
\* message with the close flag.
Push(x) ==
    /\ stream[x].at = "push"
    /\ LET s == stream[x]
           refused == s.closed /\ (~http[x].last \/ s.hasSent) IN
       /\ Set(x, [s EXCEPT !.at = IF refused THEN "body" ELSE "send",
                           !.hasSent = @ \/ http[x].last])
       /\ SetHttp(x, [http[x] EXCEPT !.dropped = @ \/ refused,
                         !.piece = IF refused THEN None ELSE @])
    /\ UNCHANGED <<conVars, hand, reader>>

\* ... and outside it.
Send(x) ==
    /\ stream[x].at = "send"
    /\ SetHttp(x, [http[x] EXCEPT !.sent = @ \o http[x].piece, !.piece = None])
    /\ Set(x, [stream[x] EXCEPT !.at = "body", !.told = IF http[x].last THEN @ + 1 ELSE @])
    /\ UNCHANGED <<conVars, hand, reader>>

(***************************************************************************)
(* The body of unknown length: Read, in the thread of the stream           *)
(***************************************************************************)

\* The first read makes the reader, which begins at once.
ReadStream(x) ==
    /\ Reading(x, "stream")
    /\ SetReader(x, [reader[x] EXCEPT !.at = IF @ = "none" THEN "top" ELSE @,
                        !.acc = <<>>, !.must = FALSE, !.first = TRUE])
    /\ Move(x, "look")
    /\ UNCHANGED <<conVars, hand, http>>

\* How many of the chunks fit in what one read may return.
Fitting(list) ==
    CHOOSE n \in 0..Len(list) :
        /\ Len(FlattenSeq(SubSeq(list, 1, n))) <= MaxReturn
        /\ n = Len(list) \/ Len(FlattenSeq(SubSeq(list, 1, n + 1))) > MaxReturn

\* Mutant: the chunks taken stay in the list.
LookKeeping(x) ==
    /\ stream[x].at = "look"
    /\ LET r == reader[x] IN
       IF r.closed \/ r.list = <<>>
       THEN SetReader(x, [r EXCEPT !.late = FALSE])
       ELSE SetReader(x, [r EXCEPT !.acc = @ \o r.list, !.ready = FALSE, !.late = FALSE])
    /\ Move(x, "decide")
    /\ UNCHANGED <<conVars, hand, http>>

\* Under the lock: all the chunks, or as many as fit, and then this read
\* must return.  The event is cleared only when there were chunks.
Look(x) ==
    /\ stream[x].at = "look"
    /\ LET r == reader[x]
           held == Len(FlattenSeq(r.acc))
           all == held + Pending(x) < MaxReturn
           n == IF all THEN Len(r.list) ELSE Fitting(r.acc \o r.list) - Len(r.acc) IN
       IF r.closed \/ r.list = <<>>
       THEN SetReader(x, [r EXCEPT !.late = FALSE])
       ELSE SetReader(x, [r EXCEPT !.acc = @ \o SubSeq(r.list, 1, n),
                             !.list = SubSeq(r.list, n + 1, Len(r.list)),
                             !.must = ~all, !.ready = FALSE, !.late = FALSE])
    /\ Move(x, "decide")
    /\ UNCHANGED <<conVars, hand, http>>

\* Outside the lock: return what there is, end with the body, wait a little
\* for more or wait for the event.  A chunk that came after the look, with the
\* end of the body right behind it, stays in the list for good.
Decide(x) ==
    /\ stream[x].at = "decide"
    /\ LET r == reader[x]
           some == r.acc # <<>> IN
       \/ /\ some \/ r.complete
          /\ Returns(x, http[x], FlattenSeq(r.acc), ~some)
          /\ SetReader(x, [r EXCEPT !.acc = <<>>])
       \/ /\ ~r.complete /\ ~(some /\ (r.must \/ r.first))
          /\ SetReader(x, [r EXCEPT !.first = FALSE])
          /\ Move(x, IF some THEN "look" ELSE "wait")
          /\ UNCHANGED http
    /\ UNCHANGED <<conVars, hand>>

Wait(x) ==
    /\ stream[x].at = "wait" /\ reader[x].ready
    /\ Move(x, "look")
    /\ UNCHANGED <<conVars, hand, httpVars>>

(***************************************************************************)
(* ... and readThreadWorker, in its own                                    *)
(***************************************************************************)

ReaderTop(x) ==
    /\ reader[x].at = "top"
    /\ SetReader(x, [reader[x] EXCEPT !.at = IF reader[x].closed THEN "final" ELSE "reading"])
    /\ UNCHANGED <<conVars, streamVars, http>>

\* A chunk is appended even when the reader has been closed meanwhile.  With
\* too much pending it lets go of the lock until there is less.
ReadChunk(x) ==
    /\ reader[x].at = "reading"
    /\ \E n \in 1..Left(x) :
          /\ n <= MaxReturn
          /\ SetHttp(x, [http[x] EXCEPT !.made = @ + n])
          /\ SetReader(x, [reader[x] EXCEPT
                !.list = Append(@, Units(http[x].made, n)), !.ready = TRUE, !.late = TRUE,
                !.at = IF ~reader[x].closed /\ Pending(x) + n > MaxPending THEN "held" ELSE "top"])
    /\ UNCHANGED <<conVars, streamVars>>

HoldBack(x) ==
    /\ reader[x].at = "held" /\ (reader[x].closed \/ Pending(x) <= MaxPending)
    /\ SetReader(x, [reader[x] EXCEPT !.at = "top"])
    /\ UNCHANGED <<conVars, streamVars, http>>

\* The body ends, breaks, or was closed by closeBodyWorker.
ReadEnds(x) ==
    /\ reader[x].at = "reading"
    /\ SetReader(x, [reader[x] EXCEPT !.at = "final"])
    /\ UNCHANGED <<conVars, streamVars, http>>

ReaderFinal(x) ==
    /\ reader[x].at = "final"
    /\ SetReader(x, [reader[x] EXCEPT !.complete = TRUE, !.ready = TRUE, !.at = "done"])
    /\ UNCHANGED <<conVars, streamVars, http>>

(***************************************************************************)
(* Close of the helper                                                     *)
(***************************************************************************)

\* By the one who closes the stream: the flag, and then the reader when there
\* is one by that time (CloseAsync; its body is closed by a thread of its own).
ShutHttp(x) ==
    /\ stream[x].kind = "http" /\ stream[x].captured
    /\ LET s == stream[x] r == reader[x] IN
       \/ /\ s.closing = "helper"
          /\ Set(x, [s EXCEPT !.shut = TRUE, !.closing = "reader"])
          /\ UNCHANGED reader
       \/ /\ s.closing = "reader"
          /\ Set(x, [s EXCEPT !.closing = "done"])
          /\ IF r.at = "none" \/ r.closed THEN UNCHANGED reader
             ELSE SetReader(x, [r EXCEPT !.closed = TRUE, !.complete = TRUE, !.ready = TRUE])
    /\ UNCHANGED <<conVars, hand, http>>

\* By the thread of the stream that found it closed when it set the helper.
DiscardHttp(x) ==
    /\ stream[x].at = "discard" /\ stream[x].kind = "http"
    /\ Set(x, [stream[x] EXCEPT !.shut = TRUE, !.at = "feed"])
    /\ UNCHANGED <<conVars, hand, httpVars>>

HttpNext ==
    \E x \in Stream :
        \/ Upload(x) \/ Trim(x) \/ Execute(x) \/ BodyDone(x)
        \/ ReadNothing(x) \/ ReadFull(x) \/ ReadPlain(x) \/ ReadPart(x) \/ ReadStream(x)
        \/ Post(x) \/ Push(x) \/ Send(x)
        \/ Look(x) \/ Decide(x) \/ Wait(x)
        \/ ReaderTop(x) \/ ReadChunk(x) \/ HoldBack(x) \/ ReadEnds(x) \/ ReaderFinal(x)
        \/ ShutHttp(x) \/ DiscardHttp(x)
=============================================================================
