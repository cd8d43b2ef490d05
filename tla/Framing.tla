------------------------------- MODULE Framing --------------------------------
(***************************************************************************)
(* One envelope per binary WebSocket message: WsStream over tungstenite on   *)
(* the server and GlooStream in the browser, whole and split into halves.    *)
(* The socket is external: it yields messages in order, then errors.         *)
(***************************************************************************)
EXTENDS Naturals, Sequences, SequencesExt

CONSTANTS MaxEvents,  \* bound: what the socket yields
          Caps,       \* envelope ceilings a caller reads with
          MaxEnvelope \* limits.max_envelope(), the larger ceiling

VARIABLES side,     \* "native" or "browser"
          halves,   \* into_split was called
          incoming, \* what the socket has yet to yield: a kind and a size
          yielded,  \* everything it has yielded or will (history)
          alive,    \* the flag is_alive reports
          reads     \* outcomes of read_frame: the size read or an error

framevars == <<side, halves, incoming, yielded, alive, reads>>

Yields == [kind : {"binary"}, size : 1..(MaxEnvelope + 1)]
            \cup [kind : {"text", "control", "close", "end", "closed", "io", "capacity", "protocol"},
                  size : {0}]

FramingInit == /\ side \in {"native", "browser"} /\ halves = FALSE
               /\ incoming = <<>> /\ yielded = <<>> /\ alive = TRUE /\ reads = <<>>

\* bounded_config: tungstenite refuses a message over the larger ceiling by its declared
\* length.  The browser yields neither control frames nor close messages, nor I/O or
\* capacity errors, and assembles any size.
Bounded(e) ==
    IF side = "native"
    THEN e.kind = "binary" => e.size <= MaxEnvelope
    ELSE e.kind \notin {"control", "close", "io", "capacity"}

SocketYields(e) ==
    /\ Len(yielded) < MaxEvents /\ Bounded(e)
    /\ incoming' = Append(incoming, e) /\ yielded' = Append(yielded, e)
    /\ UNCHANGED <<side, halves, alive, reads>>

\* map_ws_error, of each side.
MapWsError(kind) ==
    CASE kind \in {"end", "close", "closed"} -> "ConnectionClosed"
      [] kind = "io" -> "IoError"
      [] kind = "capacity" -> "SizeExceeded"
      [] kind = "protocol" -> "InvalidMessage"

Skipped(e) == e.kind \in {"text", "control"}

\* Mutant: the size of a whole message is not checked.
Uncapped(e, cap) ==
    IF e.kind # "binary" THEN [error |-> MapWsError(e.kind), size |-> 0]
    ELSE [error |-> "none", size |-> e.size]

\* What read_binary_frame makes of the first message it does not skip.
ReadBinaryFrame(e, cap) ==
    IF e.kind # "binary" THEN [error |-> MapWsError(e.kind), size |-> 0]
    ELSE IF e.size > cap THEN [error |-> "SizeExceeded", size |-> 0]
    ELSE [error |-> "none", size |-> e.size]

\* settle: any error clears the flag.
SettleFlag(error) == alive /\ error = "none"

\* read_frame, of the stream and of the read half: skip text and control messages up to
\* the first other one.  Only the unsplit stream settles its flag.
ReadFrame(cap) ==
    \E i \in DOMAIN incoming :
      /\ ~Skipped(incoming[i]) /\ \A j \in 1..(i - 1) : Skipped(incoming[j])
      /\ LET out == ReadBinaryFrame(incoming[i], cap) IN
         /\ incoming' = SubSeq(incoming, i + 1, Len(incoming))
         /\ reads' = Append(reads, [cap |-> cap, out |-> out])
         /\ alive' = IF halves THEN alive ELSE SettleFlag(out.error)
      /\ UNCHANGED <<side, halves, yielded>>

\* write_frame fails: the unsplit stream settles its flag.
WriteFails ==
    /\ \E kind \in {"closed", "io", "protocol"} :
         alive' = IF halves THEN alive ELSE SettleFlag(MapWsError(kind))
    /\ alive' # alive
    /\ UNCHANGED <<side, halves, incoming, yielded, reads>>

IntoSplit ==
    /\ ~halves /\ halves' = TRUE
    /\ UNCHANGED <<side, incoming, yielded, alive, reads>>

FramingNext ==
    \/ \E e \in Yields : SocketYields(e)
    \/ \E cap \in Caps : ReadFrame(cap)
    \/ WriteFails \/ IntoSplit

FramingSpec == FramingInit /\ [][FramingNext]_framevars
-----------------------------------------------------------------------------
\* What has been read so far is every envelope that has arrived up to there, in order,
\* each one once, with only text and control messages left out: an envelope over the
\* ceiling of its read is reported, never passed over and never returned.  A stream that
\* reported anything reads as dead for good, so a pool never leases it again, although
\* its socket may still yield messages (read_frame, settle, is_alive).
ReadsEveryEnvelope ==
    LET done == SubSeq(yielded, 1, Len(yielded) - Len(incoming))
        kept == SelectSeq(done, LAMBDA e : e.kind \notin {"text", "control"}) IN
    /\ Len(reads) = Len(kept)
    /\ \A i \in DOMAIN reads :
         LET r == reads[i] IN
         IF kept[i].kind = "binary" /\ kept[i].size <= r.cap
         THEN r.out = [error |-> "none", size |-> kept[i].size]
         ELSE r.out.error # "none" /\ (alive => halves)
===============================================================================
