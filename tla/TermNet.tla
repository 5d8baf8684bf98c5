------------------------------ MODULE TermNet ------------------------------
(***************************************************************************)
(* How a character stream gets from the wire to the terminal: the receive  *)
(* FIFO of the Ethernet MAC, pano_netif_poll(), which takes one frame a    *)
(* turn out of it, lwIP, TermRecv() on port 10023, and the stream buffer   *)
(* that the main loop empties into vt100_putc().                           *)
(*                                                                         *)
(* The FIFO holds frames one after the other, each behind its length: its  *)
(* words are bytes, the pairs <<frame, i>>, of which the first two are the *)
(* length (the build reads them in the order that the MAC wants).  Nothing *)
(* in it says where a frame begins.  A host's stream is cut into           *)
(* segments, each of which fits the first buffer of a pbuf chain (their    *)
(* MSS says so), and ends with its FIN.                                    *)
(***************************************************************************)
EXTENDS Integers, Sequences, FiniteSets

CONSTANTS
  Conns,               (* connections: as many as there are PCBs, since     *)
                       (* TermRecv() never gives one back                   *)
  NULL,
  Segments,            (* a host's stream: a sequence of sequences of bytes *)
  IAC,                 (* 0xff, which begins a telnet command of three      *)
  Ahead,               (* how many segments a host has in flight at most    *)
  Others,              (* frames that are not for the terminal: [len, size] *)
                       (* with the length that the FIFO says and the size   *)
                       (* that it has                                       *)
  FIFO_SIZE,           (* words that the FIFO holds                         *)
  SIZE,                (* of a segment's frame                              *)
  MAX_ETH_FRAME_LEN,
  CLEAR_READS,         (* ClearRxFifo() gives up after so many (2048)       *)
  Garbage,             (* what two bytes inside a frame may be as a length  *)
  POOL,                (* bytes that all pbufs of the pool hold             *)
  BUFSIZE              (* sizeof(vt100_stream_buffer)                       *)

ASSUME TermAssumption ==
  /\ IAC \in Nat /\ Segments \in Seq(Seq(0 .. IAC)) /\ Ahead \in Nat \ {0}
  /\ Others \subseteq [len : Nat, size : Nat]
  /\ {SIZE, MAX_ETH_FRAME_LEN, CLEAR_READS, FIFO_SIZE, BUFSIZE} \subseteq Nat \ {0}
  /\ SIZE <= MAX_ETH_FRAME_LEN /\ MAX_ETH_FRAME_LEN < POOL

VARIABLES
  fifo,
  pc,       (* the main loop is about to "flush" or to "poll"; or inside of *)
            (* the poll: it will "clear" words or "read" a frame            *)
  Count,    (* the frame's length                                           *)
  reads,    (* words that are still to be cleared or read                   *)
  keep,     (* there was a pbuf for them                                    *)
  got,      (* the words in the pbuf                                        *)
  gTermCon,
  opened,   (* the connections that were accepted                           *)
  next,     (* lwIP: the segment that each waits for, and those that came   *)
  ooseq,    (* before their turn                                            *)
  stream,   (* vt100_stream_buffer[0 .. vt100_stream_ptr - 1]               *)
  shown,    (* history: what vt100_putc() was called with, and whose it was *)
  lost      (* history: segments that lwIP delivered behind another's pbuf  *)

net  == <<fifo, pc, Count, reads, keep, got>>
conn == <<gTermCon, opened>>
term == <<next, ooseq, stream, shown, lost, conn>>
streamVars == <<net, term>>

FIN == Len(Segments) + 1

StreamInit ==
  /\ fifo = <<>> /\ pc = "flush" /\ Count = 0 /\ reads = 0 /\ keep = FALSE /\ got = <<>>
  /\ gTermCon = NULL /\ opened = {}
  /\ next = [c \in Conns |-> 1] /\ ooseq = [c \in Conns |-> {}] /\ lost = [c \in Conns |-> {}]
  /\ stream = <<>> /\ shown = <<>>

-----------------------------------------------------------------------------
(* The MAC: frames, of the hosts (again, as long as they do not know that   *)
(* they arrived, or new ones) and of others, that find room.                *)

Frames ==
  {f \in [from : opened, seg : 1 .. FIN, len : {SIZE}, size : {SIZE}] : f.seg < next[f.from] + Ahead}
  \cup {[from |-> NULL, seg |-> 0, len |-> o.len, size |-> o.size] : o \in Others}

Words(f) == [i \in 1 .. f.size + 2 |-> <<f, i>>]

Arrive ==
  \E f \in Frames :
    /\ Len(fifo) + f.size + 2 <= FIFO_SIZE
    /\ fifo' = fifo \o Words(f)
    /\ UNCHANGED <<pc, Count, reads, keep, got, term>>

-----------------------------------------------------------------------------
(* vt100_flush() and vt100_buffer(): b holds what is in the buffer, and     *)
(* what was shown.                                                          *)

Flushed(b) == [stream |-> <<>>, shown |-> b.shown \o b.stream]

(* A mistake: a full buffer is begun anew without being shown.              *)
vt100_buffer_Drop(b, c) ==
  IF Len(b.stream) = BUFSIZE THEN [b EXCEPT !.stream = <<c>>] ELSE [b EXCEPT !.stream = Append(@, c)]

vt100_buffer(b, c) ==
  IF Len(b.stream) = BUFSIZE THEN [Flushed(b) EXCEPT !.stream = <<c>>]
                             ELSE [b EXCEPT !.stream = Append(@, c)]

Buffers == [stream |-> stream, shown |-> shown]
Becomes(b) == stream' = b.stream /\ shown' = b.shown

(* A telnet command is three bytes, of which the last may lie behind the    *)
(* end.                                                                     *)
Shown(bytes) ==
  LET Kept[i \in 1 .. Len(bytes) + 3] ==
        IF i > Len(bytes) THEN <<>>
        ELSE IF bytes[i] = IAC THEN Kept[i + 3] ELSE <<bytes[i]>> \o Kept[i + 1]
  IN  Kept[1]

Of(c, bytes) == [i \in DOMAIN bytes |-> <<c, bytes[i]>>]

(* What becomes of the buffer b with these bytes, one after the other.      *)
Buffered(b, bytes) ==
  LET Put[i \in 0 .. Len(bytes)] == IF i = 0 THEN b ELSE vt100_buffer(Put[i - 1], bytes[i])
  IN  Put[Len(bytes)]

(* TermRecv() with a pbuf takes the len bytes of the first one, and without *)
(* forgets that there is a connection.                                      *)
TermRecv(c, k) == Becomes(Buffered(Buffers, Of(c, Shown(Segments[k]))))

TermRecvClosed == gTermCon' = NULL

(* Another connection is only worth a message.                              *)
TermAccept ==
  /\ pc = "poll"
  /\ \E c \in Conns \ opened : gTermCon' = c /\ opened' = opened \cup {c}
  /\ UNCHANGED <<net, next, ooseq, stream, shown, lost>>

(* What waited for segment k, and goes on without a gap behind it.          *)
Ready(c, k) == {j \in k + 1 .. FIN : (k + 1) .. j \subseteq ooseq[c]}

(* lwIP: a segment in its turn is delivered, with those that waited for it  *)
(* chained to it.                                                           *)
InTurn(c, k) ==
  /\ k = next[c]
  /\ IF k = FIN THEN UNCHANGED <<stream, shown>> ELSE TermRecv(c, k)
  /\ IF FIN \in Ready(c, k) \cup {k} THEN TermRecvClosed ELSE UNCHANGED gTermCon
  /\ next' = [next EXCEPT ![c] = k + 1 + Cardinality(Ready(c, k))]
  /\ ooseq' = [ooseq EXCEPT ![c] = @ \ Ready(c, k)]
  /\ lost' = [lost EXCEPT ![c] = @ \cup (Ready(c, k) \ {FIN})]
  /\ UNCHANGED opened

(* One that is too early waits, and one that came before is dropped.        *)
OutOfTurn(c, k) ==
  /\ k # next[c]
  /\ ooseq' = IF k > next[c] THEN [ooseq EXCEPT ![c] = @ \cup {k}] ELSE ooseq
  /\ UNCHANGED <<next, stream, shown, lost, conn>>

Input(c, k) == InTurn(c, k) \/ OutOfTurn(c, k)

-----------------------------------------------------------------------------
(* main(): the loop flushes and polls.  A command that waits for its output *)
(* to be sent polls without flushing.                                       *)

vt100_flush ==
  /\ pc = "flush" /\ pc' = "poll"
  /\ Becomes(Flushed(Buffers))
  /\ UNCHANGED <<fifo, Count, reads, keep, got, next, ooseq, lost, conn>>

Polled == pc' \in {"flush", "poll"}

PollNothing ==
  pc = "poll" /\ fifo = <<>> /\ Polled /\ UNCHANGED <<fifo, Count, reads, keep, got, term>>

(* ETH_RX(): a read of an empty FIFO returns something and leaves it empty. *)
AfterRead(q) == IF q = <<>> THEN q ELSE Tail(q)
NoWord == <<[from |-> NULL, seg |-> 0, len |-> 0, size |-> 0], 0>>

(* The length of the frame at the head, or two bytes out of another, or of  *)
(* two.                                                                     *)
Lengths(w) == IF w[2] = 1 THEN {w[1].len} ELSE Garbage

(* pbuf_alloc() may fail, and does for what the whole pool cannot hold; one *)
(* byte is read for a frame of none.                                        *)
Alloc(n) ==
  /\ keep' \in (IF n <= POOL THEN BOOLEAN ELSE {FALSE})
  /\ reads' = IF keep' /\ n = 0 THEN 1 ELSE n
  /\ got' = <<>>
  /\ pc' = "read"

PollLength ==
  /\ pc = "poll" /\ fifo # <<>>
  /\ fifo' = AfterRead(AfterRead(fifo))
  /\ \E n \in Lengths(Head(fifo)) :
       /\ Count' = n
       /\ IF n = 0 \/ n > MAX_ETH_FRAME_LEN
          THEN pc' = "clear" /\ reads' = CLEAR_READS /\ UNCHANGED <<keep, got>>
          ELSE Alloc(n)
  /\ UNCHANGED term

(* ClearRxFifo(); the frame of the invalid length is read all the same.     *)
ClearRead ==
  /\ pc = "clear" /\ reads > 0 /\ fifo # <<>>
  /\ fifo' = Tail(fifo) /\ reads' = reads - 1
  /\ UNCHANGED <<pc, Count, keep, got, term>>

ClearDone ==
  /\ pc = "clear" /\ (reads = 0 \/ fifo = <<>>)
  /\ Alloc(Count)
  /\ UNCHANGED <<fifo, Count, term>>

ReadByte ==
  /\ pc = "read" /\ reads > 0
  /\ LET w == IF fifo = <<>> THEN NoWord ELSE Head(fifo)
     IN  got' = IF keep THEN Append(got, w) ELSE got
  /\ fifo' = AfterRead(fifo)
  /\ reads' = reads - 1
  /\ UNCHANGED <<pc, Count, keep, term>>

(* gNetif.input(): lwIP's checksums find out what is not a frame as it was  *)
(* sent, all of it and nothing else.                                        *)
Whole ==
  /\ got # <<>> /\ got[1][1].from # NULL
  /\ got = Tail(Tail(Words(got[1][1])))

ReadDone ==
  /\ pc = "read" /\ reads = 0
  /\ IF keep /\ Whole THEN Input(got[1][1].from, got[1][1].seg) ELSE UNCHANGED term
  /\ got' = <<>> /\ keep' = FALSE /\ Count' = 0 /\ Polled
  /\ UNCHANGED <<fifo, reads>>

StreamNext ==
  \/ Arrive \/ TermAccept \/ vt100_flush \/ PollNothing \/ PollLength \/ ClearRead \/ ClearDone \/ ReadByte \/ ReadDone

StreamSpec == StreamInit /\ [][StreamNext]_streamVars
-----------------------------------------------------------------------------
(* A host's text: the bytes of a stream that are none of a telnet command's. *)
Plain(bytes) == SelectSeq(bytes, LAMBDA b : b < IAC - 15)

(* A host cuts its stream where it likes but inside a telnet command, and   *)
(* its text has none of the bytes that commands are made of.                *)
ASSUME TextAssumption == \A k \in 1 .. Len(Segments) : Shown(Segments[k]) = Plain(Segments[k])

Text(c, k) == Of(c, Plain(Segments[k]))

(* The text of a connection's first n segments, but for those in gone.      *)
Told(c, gone, n) ==
  LET Upto[k \in 0 .. n] == IF k = 0 THEN <<>>
                            ELSE IF k \in gone THEN Upto[k - 1] ELSE Upto[k - 1] \o Text(c, k)
  IN  Upto[n]

(* What is a connection's own of all the characters in s.                   *)
Part(c, s) ==
  LET Upto[i \in 0 .. Len(s)] == IF i = 0 THEN <<>>
                                 ELSE IF s[i][1] = c THEN Append(Upto[i - 1], s[i])
                                 ELSE Upto[i - 1]
  IN  Upto[Len(s)]

(* What the terminal shows, and will show when the buffer is emptied next,  *)
(* is the text that lwIP delivered of each connection, every character once *)
(* and in order, without the telnet commands: whatever frames are dropped   *)
(* for want of a pbuf, by an invalid length or by a read that begins in the *)
(* middle of one (lwIP's checksums find it out), whatever comes twice or    *)
(* out of order, and however often the buffer fills up between two turns of *)
(* the main loop.  What TermRecv() was given behind the first pbuf of a     *)
(* chain is never shown (README, section 5): lost, and left out here.       *)
StreamInOrder ==
  \A c \in Conns :
    Part(c, shown \o stream) =
      Told(c, lost[c], (IF next[c] < FIN THEN next[c] ELSE FIN) - 1)
=============================================================================
