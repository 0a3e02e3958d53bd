------------------------------ MODULE Messages ------------------------------
(***************************************************************************)
(* The stream of messages from one node to another: how CNode builds a     *)
(* message in vSend (net.h), how the socket thread passes on any part of   *)
(* it, and how ProcessMessages (main.cpp) finds the messages in vRecv.     *)
(*                                                                         *)
(* A stream is a sequence of tokens: the message start, the rest of a      *)
(* header, and data.  A header is then two tokens, so that it can be cut   *)
(* like everything else.  The checksum of some data is the data: hashes    *)
(* do not collide.  Data does not look like a message start.               *)
(***************************************************************************)
EXTENDS Integers, Sequences, SequencesExt

CONSTANTS
    Payloads,     \* sequences of data tokens
    MaxSize,      \* MAX_SIZE
    SendBuffer,   \* SendBufferSize(): answers the receiver may have unsent
    MaxItems      \* bound on what the sender puts into the stream

VARIABLES
    out,       \* the sender: [vSend, headerStart, messageStart], -1 if no message is open
    vRecv,     \* the receiver's buffer
    answers,   \* the receiver's own unsent answers
    pushed,    \* payloads of the messages that were sent whole, in order
    handled,   \* payloads given to ProcessMessage, in order
    items      \* how much the sender has put into the stream

messageVars == <<out, vRecv, answers, pushed, handled, items>>

HeaderSize == 2
Header(size, sum, valid) ==
    << [kind |-> "start"], [kind |-> "head", size |-> size, sum |-> sum, valid |-> valid] >>
Data == [kind |-> "data"]
Noise == [kind |-> "noise"]

\* What is sent is data, and no message is larger than what is read.
StreamAssumption ==
    /\ MaxSize \in Nat
    /\ Payloads \subseteq Seq({Data})
    /\ \A data \in Payloads : Len(data) <= MaxSize

IsStart(t) == t.kind = "start"
IsHeader(t) == t.kind = "head"

MessageInit ==
    /\ out = [vSend |-> <<>>, headerStart |-> -1, messageStart |-> -1]
    /\ vRecv = <<>> /\ answers = 0 /\ pushed = <<>> /\ handled = <<>> /\ items = 0

----------------------------------------------------------------------------
(* Building a message, under cs_vSend. *)

AbortMessage(o) ==
    IF o.headerStart < 0 THEN o
    ELSE [vSend |-> SubSeq(o.vSend, 1, o.headerStart), headerStart |-> -1, messageStart |-> -1]

(* A message that was left open is taken back first. *)
BeginMessage(o) ==
    LET a == AbortMessage(o)
    IN  [vSend |-> a.vSend \o Header(0, <<>>, TRUE), headerStart |-> Len(a.vSend),
         messageStart |-> Len(a.vSend) + HeaderSize]

(* Mutant: the size counts the header as well. *)
EndMessageOfAll(o) ==
    LET data == SubSeq(o.vSend, o.messageStart + 1, Len(o.vSend))
    IN  [vSend |-> [o.vSend EXCEPT ![o.headerStart + 2] =
                      Header(Len(o.vSend) - o.headerStart, data, TRUE)[2]],
         headerStart |-> -1, messageStart |-> -1]

(* Size and checksum are written into the header that is already there. *)
EndMessage(o) ==
    LET data == SubSeq(o.vSend, o.messageStart + 1, Len(o.vSend))
    IN  [vSend |-> [o.vSend EXCEPT ![o.headerStart + 2] =
                      Header(Len(data), data, TRUE)[2]],
         headerStart |-> -1, messageStart |-> -1]

(* PushMessage: writing a value may throw, which takes the message back; so  *)
(* does -dropmessagestest. *)
PushMessage(data) ==
    LET begun == BeginMessage(out)
    IN  \/ /\ out' = EndMessage([begun EXCEPT !.vSend = @ \o data])
           /\ pushed' = Append(pushed, data)
        \/ \E n \in 0 .. Len(data) :
             out' = AbortMessage([begun EXCEPT !.vSend = @ \o SubSeq(data, 1, n)])
           /\ UNCHANGED pushed

(* Whatever else a peer may put between two messages: noise, a header that  *)
(* is not valid, one with a size out of bounds, or one whose data does not  *)
(* have its checksum or its size. *)
Garbage ==
    {<<Noise>>} \union {Header(1, <<>>, FALSE), Header(MaxSize + 1, <<>>, TRUE)}
    \union {Header(n, <<Noise>>, TRUE) \o <<Data>> : n \in 1 .. 2}

PushGarbage == \E g \in Garbage : out' = [out EXCEPT !.vSend = @ \o g] /\ UNCHANGED pushed

Push ==
    /\ items < MaxItems
    /\ items' = items + 1
    /\ PushGarbage \/ \E data \in Payloads : PushMessage(data)
    /\ UNCHANGED <<vRecv, answers, handled>>

(* send() and recv(): some bytes from the front. *)
SocketSend ==
    \E n \in 1 .. Len(out.vSend) :
      /\ vRecv' = vRecv \o SubSeq(out.vSend, 1, n)
      /\ out' = [out EXCEPT !.vSend = SubSeq(@, n + 1, Len(@))]
      /\ UNCHANGED <<answers, pushed, handled, items>>

----------------------------------------------------------------------------
(* ProcessMessages, one pass of its loop.  The loop ends with the pass that *)
(* changes nothing and begins again when the message thread comes back.     *)

Start == IF \E i \in DOMAIN vRecv : IsStart(vRecv[i])
         THEN SelectInSeq(vRecv, IsStart) ELSE Len(vRecv) + 1

(* No header: as many bytes as may be the beginning of one are kept. *)
Skip == vRecv' = IF Len(vRecv) > HeaderSize
                 THEN SubSeq(vRecv, Len(vRecv) - HeaderSize + 1, Len(vRecv)) ELSE vRecv

(* Rewind and wait for the rest of the message. *)
Rewind(hdr, rest) == <<[kind |-> "start"], hdr>> \o rest

TakeMessage(hdr, rest) ==
    CASE ~IsHeader(hdr) -> vRecv' = rest /\ UNCHANGED <<answers, handled>>
      [] IsHeader(hdr) /\ (~hdr.valid \/ hdr.size > MaxSize) ->
           vRecv' = rest /\ UNCHANGED <<answers, handled>>
      [] IsHeader(hdr) /\ hdr.valid /\ hdr.size <= MaxSize /\ hdr.size > Len(rest) ->
           vRecv' = Rewind(hdr, rest) /\ UNCHANGED <<answers, handled>>
      [] OTHER ->
           LET data == SubSeq(rest, 1, hdr.size)
           IN  IF data # hdr.sum THEN vRecv' = rest /\ UNCHANGED <<answers, handled>>
               ELSE /\ vRecv' = SubSeq(rest, hdr.size + 1, Len(rest))
                    /\ handled' = Append(handled, data)
                    /\ answers' \in {answers, answers + 1}

ProcessMessages ==
    /\ vRecv # <<>> /\ answers < SendBuffer
    /\ IF Len(vRecv) - Start + 1 < HeaderSize
       THEN Skip /\ UNCHANGED <<answers, handled>>
       ELSE TakeMessage(vRecv[Start + 1], SubSeq(vRecv, Start + 2, Len(vRecv)))
    /\ UNCHANGED <<out, pushed, items>>

SendAnswers == answers > 0 /\ answers' = 0 /\ UNCHANGED <<out, vRecv, pushed, handled, items>>

MessageNext == Push \/ SocketSend \/ ProcessMessages \/ SendAnswers

MessageSpec == MessageInit /\ [][MessageNext]_messageVars

----------------------------------------------------------------------------
(* However the stream is cut, whatever a peer puts between the messages and *)
(* whichever messages were taken back while they were written, the messages *)
(* that were sent whole are handled in their order, none twice, none left   *)
(* out; all of them when nothing that may be part of a message is waiting   *)
(* (main.cpp:3983-4046, net.h:370-420). *)
StreamIntact ==
    /\ IsPrefix(handled, pushed)
    /\ (out.vSend = <<>> /\ \A i \in DOMAIN vRecv : ~IsStart(vRecv[i])) => handled = pushed
=============================================================================
