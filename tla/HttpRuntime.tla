----------------------------- MODULE HttpRuntime -----------------------------
(***************************************************************************)
(* The request runtime of Spikes/Spike4HttpServer: the streaming           *)
(* request-line parser (StreamingRequestLine.lean), the driver that feeds  *)
(* it byte by byte and records the transfers (driveByte, driveRequest of   *)
(* Runtime.lean), and the five phases of a connection over the list of     *)
(* incoming requests (runtimeTrace, and the hooks of Platform.lean, of     *)
(* which only the last drops the request).                                 *)
(*                                                                         *)
(* A byte is CR, LF or another one; the grammar of a request line is the   *)
(* constant Targets, which gives the route of every line that parses.      *)
(*                                                                         *)
(* A definition commented "Mutant" is a bug the checks must find; no       *)
(* specification uses it.                                                  *)
(***************************************************************************)
EXTENDS Integers, Sequences

CONSTANTS
    Bytes,      \* the bytes of requests
    CR, LF,     \* 13 and 10
    Budget,     \* requestLineBudget: bytes of a line that are retained
    ReadChunk,  \* requestReadChunk: bytes of one transfer
    Targets,    \* the route of each line that parses
    Queues      \* the lists of incoming requests

Routes == {"root", "status", "notFound", "badRequest", "resourceExhausted"}

(* A method, a target of visible characters and a version hold neither CR  *)
(* nor LF (Stdlib.Http11.parseRequestLine).                                *)
ASSUME HttpAssumption ==
    /\ CR \in Bytes /\ LF \in Bytes /\ CR # LF
    /\ Budget \in Nat
    /\ ReadChunk \in Nat \ {0}
    /\ \A l \in DOMAIN Targets :
          /\ Targets[l] \in {"root", "status", "notFound"}
          /\ \A i \in DOMAIN l : l[i] \notin {CR, LF}
    /\ \A q \in Queues : q \in Seq(Seq(Bytes))

VARIABLES
    requests,  \* the incoming requests
    served,    \* how many of them were dropped by a close
    phase,     \* the phase of the current connection
    line,      \* StreamingRequestLineState.line
    pendingCR, \* StreamingRequestLineState.pendingCR
    pos,       \* bytes of the request the driver has consumed
    current,   \* bytes of the transfer that is being filled
    flushed,   \* bytes of the recorded transfers
    chunks,    \* sizes of the recorded transfers
    result,    \* RequestDrive.result, or "none"
    received,  \* the payloads of the recv events
    sent       \* the routes of the send events

drive == <<line, pendingCR, pos, current, flushed, chunks, result>>
vars == <<requests, served, phase, drive, received, sent>>

TypeOK ==
    /\ requests \in Seq(Seq(Bytes))
    /\ served \in 0 .. Len(requests)
    /\ phase \in {"listen", "accept", "recv", "send", "close", "done"}
    /\ line \in Seq(Bytes) /\ Len(line) <= Budget
    /\ pendingCR \in BOOLEAN
    /\ pos \in Nat
    /\ current \in Seq(Bytes)
    /\ flushed \in Seq(Bytes)
    /\ chunks \in Seq(Nat)
    /\ result \in Routes \cup {"none"}
    /\ received \in Seq(Seq(Bytes))
    /\ sent \in Seq(Routes)

Init ==
    /\ requests \in Queues
    /\ served = 0
    /\ phase = "listen"
    /\ line = <<>> /\ pendingCR = FALSE /\ pos = 0
    /\ current = <<>> /\ flushed = <<>> /\ chunks = <<>>
    /\ result = "none"
    /\ received = <<>> /\ sent = <<>>

Request == requests[served + 1]

Byte == Request[pos + 1]

(* routeParsed of what parseRequestLine makes of a line.                   *)
RouteOf(l) == IF l \in DOMAIN Targets THEN Targets[l] ELSE "badRequest"

-----------------------------------------------------------------------------

(* Without a further request the loop over the list ends.                  *)
NextConnection == IF served' < Len(requests) THEN "accept" ELSE "done"

Listen ==
    /\ phase = "listen"
    /\ UNCHANGED served
    /\ phase' = NextConnection
    /\ UNCHANGED <<requests, drive, received, sent>>

Accept ==
    /\ phase = "accept"
    /\ phase' = "recv"
    /\ UNCHANGED <<requests, served, drive, received, sent>>

(* Mutant: a full transfer is noticed one byte late.                       *)
TransferLate(decided) ==
    LET bytes == Append(current, Byte)
    IN  IF decided \/ Len(bytes) > ReadChunk
        THEN /\ flushed' = flushed \o bytes
             /\ chunks' = Append(chunks, Len(bytes))
             /\ current' = <<>>
        ELSE current' = bytes /\ UNCHANGED <<flushed, chunks>>

(* driveByte: the byte joins the current transfer, which is recorded when  *)
(* it is full or when the parser has decided.                              *)
Transfer(decided) ==
    LET bytes == Append(current, Byte)
    IN  IF decided \/ Len(bytes) = ReadChunk
        THEN /\ flushed' = flushed \o bytes
             /\ chunks' = Append(chunks, Len(bytes))
             /\ current' = <<>>
        ELSE current' = bytes /\ UNCHANGED <<flushed, chunks>>

(* Bytes after a decision are ignored.                                     *)
ReadByte(decided) ==
    /\ phase = "recv"
    /\ result = "none"
    /\ pos < Len(Request)
    /\ Transfer(decided)
    /\ pos' = pos + 1
    /\ UNCHANGED <<requests, served, phase, received, sent>>

(* streamRequestLineByte.  The byte after a pending CR ends the line if it *)
(* is LF.                                                                  *)
EndLine ==
    /\ ReadByte(TRUE)
    /\ pendingCR /\ Byte = LF
    /\ result' = RouteOf(line)
    /\ UNCHANGED <<line, pendingCR>>

(* A CR is held back until the next byte is known.                         *)
HoldCR ==
    /\ ReadByte(FALSE)
    /\ ~pendingCR /\ Byte = CR
    /\ pendingCR' = TRUE
    /\ UNCHANGED <<line, result>>

(* What the byte adds to the line: the CR held back was an ordinary byte.  *)
Retained == IF pendingCR THEN <<CR, Byte>> ELSE <<Byte>>

Ordinary == IF pendingCR THEN Byte # LF ELSE Byte # CR

(* Mutant: the CR that was held back is forgotten.                         *)
RetainWithoutCR ==
    /\ ReadByte(FALSE)
    /\ Ordinary
    /\ Len(line) + Len(Retained) <= Budget
    /\ line' = Append(line, Byte)
    /\ pendingCR' = (pendingCR /\ Byte = CR)
    /\ UNCHANGED result

(* A second CR in a row is both added to the line and held back.           *)
Retain ==
    /\ ReadByte(FALSE)
    /\ Ordinary
    /\ Len(line) + Len(Retained) <= Budget
    /\ line' = line \o Retained
    /\ pendingCR' = (pendingCR /\ Byte = CR)
    /\ UNCHANGED result

Exhaust ==
    /\ ReadByte(TRUE)
    /\ Ordinary
    /\ Len(line) + Len(Retained) > Budget
    /\ result' = "resourceExhausted"
    /\ UNCHANGED <<line, pendingCR>>

(* Mutant: the transfer that is not full when the request ends is lost.    *)
ReceiveFullTransfers ==
    /\ phase = "recv"
    /\ result # "none" \/ pos = Len(Request)
    /\ received' = Append(received, flushed)
    /\ phase' = "send"
    /\ UNCHANGED <<requests, served, drive, sent>>

(* The driver has decided or has seen the last byte: what is in the current*)
(* transfer is flushed, and the payload of the recv event is the bytes of  *)
(* all transfers.                                                          *)
Receive ==
    /\ phase = "recv"
    /\ result # "none" \/ pos = Len(Request)
    /\ flushed' = flushed \o current
    /\ chunks' = IF current = <<>> THEN chunks ELSE Append(chunks, Len(current))
    /\ current' = <<>>
    /\ received' = Append(received, flushed')
    /\ phase' = "send"
    /\ UNCHANGED <<requests, served, line, pendingCR, pos, result, sent>>

(* finishStreamingRequestLine: at the end of the request a CR that is held *)
(* back belongs to the line.                                               *)
FinishedLine == IF pendingCR THEN Append(line, CR) ELSE line

(* routeParserResult *)
Route == IF result # "none" THEN result ELSE RouteOf(FinishedLine)

(* Mutant: exhaustion ends the server instead of the request.              *)
SendAbandons ==
    /\ phase = "send"
    /\ sent' = Append(sent, Route)
    /\ phase' = IF Route = "resourceExhausted" THEN "done" ELSE "close"
    /\ UNCHANGED <<requests, served, drive, received>>

Send ==
    /\ phase = "send"
    /\ sent' = Append(sent, Route)
    /\ phase' = "close"
    /\ UNCHANGED <<requests, served, drive, received>>

(* Phase 4: the request is dropped with its unread bytes; the next one is  *)
(* driven from the default state.                                          *)
Close ==
    /\ phase = "close"
    /\ served' = served + 1
    /\ phase' = NextConnection
    /\ line' = <<>> /\ pendingCR' = FALSE /\ pos' = 0
    /\ current' = <<>> /\ flushed' = <<>> /\ chunks' = <<>>
    /\ result' = "none"
    /\ UNCHANGED <<requests, received, sent>>

Terminated == phase = "done" /\ UNCHANGED vars

DriveByte == EndLine \/ HoldCR \/ Retain \/ Exhaust

Step == Listen \/ Accept \/ DriveByte \/ Receive \/ Send \/ Close

Next == Step \/ Terminated

Spec == Init /\ [][Next]_vars

(* Nothing but the server moves, and it is never stopped.                  *)
FairSpec == Spec /\ WF_vars(Step)

-----------------------------------------------------------------------------
(* The reference: a request as a whole.                                    *)

LineEnds(r) == {i \in 1 .. Len(r) - 1 : r[i] = CR /\ r[i + 1] = LF}

FirstEnd(r) == CHOOSE i \in LineEnds(r) : \A j \in LineEnds(r) : i <= j

(* requestLineBytes: the bytes up to the first CR LF, or all of them.      *)
RequestLine(r) == IF LineEnds(r) = {} THEN r ELSE SubSeq(r, 1, FirstEnd(r) - 1)

(* A CR that ends the request is never counted against the budget.         *)
LineSize(r) ==
    IF LineEnds(r) = {} /\ r # <<>> /\ r[Len(r)] = CR THEN Len(r) - 1 ELSE Len(RequestLine(r))

Answer(r) == IF LineSize(r) > Budget THEN "resourceExhausted" ELSE RouteOf(RequestLine(r))

DoubleCR(r) == \E i \in 1 .. Len(r) - 1 : r[i] = CR /\ r[i + 1] = CR

(* The bytes a connection transfers: the line with its end, everything when*)
(* there is no end, or as much as shows that the budget does not do.       *)
ObservedSize(r) ==
    IF LineSize(r) > Budget THEN IF r[Budget + 1] = CR THEN Budget + 2 ELSE Budget + 1
    ELSE IF LineEnds(r) = {} THEN Len(r) ELSE FirstEnd(r) + 1

(* However the bytes of a request fall into transfers, and whatever the    *)
(* requests before it were, its answer is that of the line taken from the  *)
(* whole request; only a line with two CRs in a row may be told that it is *)
(* too long when it is not.                                                *)
AnswersByLine ==
    \A i \in DOMAIN sent :
        \/ sent[i] = Answer(requests[i])
        \/ DoubleCR(requests[i]) /\ sent[i] = "resourceExhausted"

(* A connection transfers its own request from its first byte to the one   *)
(* that decides, and nothing else: no byte is lost at the boundary of a    *)
(* transfer, and none of another request appears.                          *)
ObservesExactly ==
    \A i \in DOMAIN received :
        ~DoubleCR(requests[i]) =>
            received[i] = SubSeq(requests[i], 1, ObservedSize(requests[i]))

(* While a request is driven, the transfers tile its consumed bytes: all   *)
(* recorded ones are full, except the last once the request is decided or  *)
(* at its end.                                                             *)
TransfersTile ==
    /\ phase \in {"recv", "send", "close"} => flushed \o current = SubSeq(Request, 1, pos)
    /\ Len(current) < ReadChunk
    /\ \A i \in DOMAIN chunks :
          chunks[i] = ReadChunk \/ (i = Len(chunks) /\ (result # "none" \/ phase # "recv"))

(* "resource failure cannot silently abandon the request scope", "closes   *)
(* the request connection, permitting the next logical request scope to    *)
(* start cleanly" (docs/SPIKES/SPIKE4_HTTP_SERVER.md): every request of    *)
(* the list is answered and closed.                                        *)
AllServed == <>(phase = "done" /\ served = Len(requests) /\ Len(sent) = served)

==============================================================================
