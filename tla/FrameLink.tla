------------------------------ MODULE FrameLink ------------------------------
(***************************************************************************)
(* One direction of a connection: the single writer frames messages, the   *)
(* transport delivers their bytes in pieces of any size and may end        *)
(* anywhere, and a reader task that owns the frame under way hands whole   *)
(* messages to the session through a bounded channel.  The client and the  *)
(* relay use the same arrangement.                                         *)
(***************************************************************************)
EXTENDS Options, Naturals, Sequences, FiniteSets

CONSTANTS
  Messages,       \* payloads: sequences of bytes
  Frames,         \* bound: frames written
  Capacity,       \* of the channel (2 in the client, 32 in the relay)
  MAX_FRAME_SIZE

VARIABLES
  written,  \* history: messages given to write_frame
  unsent,   \* bytes of the frame being written
  stream,   \* bytes on the way
  up,       \* the connection has not ended
  stage,    \* of the reader: "idle", "header", "payload", "push", "done"
  buf,      \* bytes of the frame being read
  event,    \* what the reader is about to push
  channel,
  taken,    \* history: messages the session received
  read,     \* history: number of bytes read
  ended     \* None, "closed", "error", or "left" when the session ends by itself

transport == <<written, unsent, stream, up>>
reader == <<stage, buf, event, read>>
session == <<channel, taken, ended>>
linkVars == <<transport, reader, session>>

HeaderSize == 4

ASSUME LinkAssumption ==
  /\ Frames \in Nat /\ Capacity \in Nat \ {0}
  /\ MAX_FRAME_SIZE \in Nat /\ MAX_FRAME_SIZE < 1024 * 1024 * 1024
  /\ \A m \in Messages : m \in Seq(0..255) /\ Len(m) \in 1..MAX_FRAME_SIZE
  /\ None \notin {"closed", "error", "left"}

\* u32::to_be_bytes and from_be_bytes.
BigEndian(n) == <<(n \div (256 * 256 * 256)) % 256, (n \div (256 * 256)) % 256, (n \div 256) % 256, n % 256>>
FromBigEndian(b) == b[1] * (256 * 256 * 256) + b[2] * (256 * 256) + b[3] * 256 + b[4]

LinkInit ==
  /\ written = <<>> /\ unsent = <<>> /\ stream = <<>> /\ up = TRUE
  /\ stage = "idle" /\ buf = <<>> /\ event = None /\ read = 0
  /\ channel = <<>> /\ taken = <<>> /\ ended = None

(***************************************************************************)
(* The writer and the transport.                                           *)
(***************************************************************************)
\* write_frame begins once the previous frame is flushed.
WriteFrame(m) ==
  /\ up /\ unsent = <<>> /\ Len(written) < Frames
  /\ written' = Append(written, m)
  /\ unsent' = BigEndian(Len(m)) \o m
  /\ UNCHANGED <<stream, up, reader, session>>

Transmit(n) ==
  /\ up /\ n <= Len(unsent)
  /\ stream' = stream \o SubSeq(unsent, 1, n)
  /\ unsent' = SubSeq(unsent, n + 1, Len(unsent))
  /\ UNCHANGED <<written, up, reader, session>>

\* The writer is dropped, its write times out, or the network fails: what is on
\* the way may still arrive, or not all of it.
Cut(n) ==
  /\ up /\ n <= Len(stream)
  /\ up' = FALSE /\ unsent' = <<>> /\ stream' = SubSeq(stream, 1, n)
  /\ UNCHANGED <<written, reader, session>>

(***************************************************************************)
(* The reader task.                                                        *)
(***************************************************************************)
Gets(n) ==
  /\ n <= Len(stream)
  /\ stream' = SubSeq(stream, n + 1, Len(stream))
  /\ read' = read + n
Holds(n) == buf' = buf \o SubSeq(stream, 1, n)

\* What the reader hands over next, and whether the frame under way is over.
Hands(what, body) ==
  stage' = "push" /\ event' = [what |-> what, body |-> body] /\ buf' = <<>>

\* The first byte has no deadline: an idle connection stays.
First ==
  /\ stage = "idle" /\ stream # <<>>
  /\ Gets(1) /\ Holds(1) /\ stage' = "header"
  /\ UNCHANGED <<written, unsent, up, event, session>>

\* Mutant of EndOfStream: the reader just ends.
EndOfStreamSilent ==
  /\ stage = "idle" /\ stream = <<>> /\ ~up /\ stage' = "done"
  /\ UNCHANGED <<transport, buf, event, read, session>>

\* The end of the stream between frames, or a failed read there.
EndOfStream ==
  /\ stage = "idle" /\ stream = <<>> /\ ~up
  /\ \E what \in {"closed", "error"} : Hands(what, <<>>)
  /\ UNCHANGED <<transport, read, session>>

\* Header bytes arrive in pieces; a length beyond the limit is an error.
ReadHeader(n) ==
  /\ stage = "header" /\ n <= HeaderSize - Len(buf) /\ Gets(n)
  /\ LET header == buf \o SubSeq(stream, 1, n)
     IN  IF Len(header) < HeaderSize
         THEN Holds(n) /\ UNCHANGED <<stage, event>>
         ELSE IF FromBigEndian(header) > MAX_FRAME_SIZE THEN Hands("error", <<>>)
         ELSE Holds(n) /\ stage' = "payload" /\ UNCHANGED event
  /\ UNCHANGED <<written, unsent, up, session>>

Length == FromBigEndian(SubSeq(buf, 1, HeaderSize))
Missing == HeaderSize + Length - Len(buf)

ReadPayload(n) ==
  /\ stage = "payload" /\ n <= Missing /\ Gets(n)
  /\ IF n < Missing
     THEN Holds(n) /\ UNCHANGED <<stage, event>>
     ELSE Hands("message", SubSeq(buf, HeaderSize + 1, Len(buf)) \o SubSeq(stream, 1, n))
  /\ UNCHANGED <<written, unsent, up, session>>

\* The end of the stream inside a frame.
Truncated ==
  /\ stage \in {"header", "payload"} /\ stream = <<>> /\ ~up
  /\ Hands("error", <<>>)
  /\ UNCHANGED <<transport, read, session>>

\* Mutant of Timeout: only the body has a deadline.
TimeoutBody ==
  /\ stage = "payload"
  /\ Hands("error", <<>>)
  /\ UNCHANGED <<transport, read, session>>

\* Header and body share one deadline, which starts with the first byte.
Timeout ==
  /\ stage \in {"header", "payload"}
  /\ Hands("error", <<>>)
  /\ UNCHANGED <<transport, read, session>>

\* The reader waits while the channel is full, and stops after an error or at
\* the end of the stream.
Push ==
  /\ stage = "push" /\ Len(channel) < Capacity
  /\ channel' = Append(channel, event)
  /\ stage' = IF event.what = "message" THEN "idle" ELSE "done"
  /\ event' = None
  /\ UNCHANGED <<transport, buf, read, taken, ended>>

(***************************************************************************)
(* The session.                                                            *)
(***************************************************************************)
\* Mutant of Take: reading is a branch of the session's select!, and is started
\* again after every other branch.
TakeRestartsRead ==
  /\ ended = None /\ channel # <<>> /\ channel' = Tail(channel)
  /\ IF Head(channel).what = "message"
     THEN taken' = Append(taken, Head(channel).body) /\ UNCHANGED ended
     ELSE ended' = Head(channel).what /\ UNCHANGED taken
  /\ buf' = IF stage \in {"header", "payload"} THEN <<>> ELSE buf
  /\ stage' = IF stage \in {"header", "payload"} THEN "idle" ELSE stage
  /\ UNCHANGED <<transport, event, read>>

Take ==
  /\ ended = None /\ channel # <<>> /\ channel' = Tail(channel)
  /\ IF Head(channel).what = "message"
     THEN taken' = Append(taken, Head(channel).body) /\ UNCHANGED ended
     ELSE ended' = Head(channel).what /\ UNCHANGED taken
  /\ UNCHANGED <<transport, reader>>

\* The session ends for a reason of its own; the reader is aborted.
Leave ==
  /\ ended = None /\ ended' = "left"
  /\ up' = FALSE /\ unsent' = <<>> /\ stage' = "done" /\ channel' = <<>>
  /\ buf' = <<>> /\ event' = None
  /\ UNCHANGED <<written, stream, taken, read>>

ReadSome == \E n \in 1..HeaderSize + MAX_FRAME_SIZE : ReadHeader(n) \/ ReadPayload(n)
TransmitSome == \E n \in 1..HeaderSize + MAX_FRAME_SIZE : Transmit(n)

LinkNext ==
  \/ \E m \in Messages : WriteFrame(m)
  \/ TransmitSome \/ ReadSome
  \/ \E n \in 0..Len(stream) : Cut(n)
  \/ First \/ EndOfStream \/ Truncated \/ Timeout \/ Push \/ Take \/ Leave

LinkSpec == LinkInit /\ [][LinkNext]_linkVars

\* The reader and the session run; nothing is assumed of the writer or the
\* transport.
LinkFairness ==
  /\ WF_linkVars(ReadSome) /\ WF_linkVars(First) /\ WF_linkVars(EndOfStream)
  /\ WF_linkVars(Truncated) /\ WF_linkVars(Timeout) /\ WF_linkVars(Push) /\ WF_linkVars(Take)

(***************************************************************************)
(* Properties.                                                             *)
(***************************************************************************)
\* The bytes of some frames, counted one by one.
FrameBytes(ms) == Cardinality(UNION {{i} \X (1..HeaderSize + Len(ms[i])) : i \in DOMAIN ms})

\* However the bytes are cut into pieces, the session receives the messages that
\* were written, in their order, none twice, none changed and none left out
\* before another: no activity of the session disturbs the frame under way
\* (handle_connection: "an outbound notification can never cancel a
\* partially-read frame").  When it sees an orderly end, every byte of the stream
\* has reached it as part of a message: an end inside a frame is an error
\* ("truncated frame header", "truncated frame payload").
InOrder ==
  /\ Len(taken) <= Len(written) /\ taken = SubSeq(written, 1, Len(taken))
  /\ ended = "closed" => read = FrameBytes(taken)

\* A frame once begun is finished or ends the session, whatever the writer does
\* ("Once a frame starts, however, its header and body must both finish within
\* one deadline").
FrameEnds == (stage \in {"header", "payload"}) ~> (stage \in {"idle", "done"} \/ ended # None)

\* The end of the connection always reaches the session, behind the messages
\* that still wait in the channel.
EndReported == ~up ~> ended # None

=============================================================================
