------------------------------- MODULE Streams --------------------------------
(***************************************************************************)
(* The streaming handles of the wasm client: MuxRequestStream,              *)
(* MuxDuplexStream, MuxStreamBody and MuxReplySink.  A method takes a half   *)
(* of the stream out of the shared cell, awaits it and puts it back, so a    *)
(* second call finds the cell empty.  A step is the code between two awaits. *)
(* The halves themselves (RequestSink, StreamBody, ReplySink) are external.  *)
(***************************************************************************)
EXTENDS Naturals, Sequences

CONSTANTS MaxCalls,   \* bound: method calls on one handle
          MaxChunks   \* bound: chunks the peer sends

Handles == {"request", "duplex", "body", "reply"}
Calls == 1..MaxCalls
Closes == {"close", "closeWith"}

\* The methods of each handle.
Methods(h) == CASE h = "request" -> Closes \cup {"push"}
                [] h = "duplex"  -> Closes \cup {"push", "nextChunk"}
                [] h = "body"    -> {"nextChunk"}
                [] h = "reply"   -> {"push"}

VARIABLES handle,  \* which of the four handles this is
          sink,    \* inner.sink: "home", "held" by a call, or "gone"
          reader,  \* inner.response or inner.body, likewise
          call,    \* the calls made, in order: method, stage and chunk read
          wire,    \* records sent: the call each is from, and its last flag
          peer,    \* what the peer sent: chunks and whether the last one is out
          got,     \* chunks read so far
          broken,  \* the stream was reset or its connection closed
          freed    \* JS let go of the handle; pending promises keep the cell

streamvars == <<handle, sink, reader, call, wire, peer, got, broken, freed>>

Stages == {"sink", "reader", "ok", "failed", "StreamClosed"}

StreamsInit ==
    /\ handle \in Handles
    /\ sink = IF "push" \in Methods(handle) THEN "home" ELSE "gone"
    /\ reader = IF handle = "reply" THEN "gone" ELSE "home"
    /\ call = <<>> /\ wire = <<>> /\ got = 0
    /\ peer = [chunks |-> 0, last |-> FALSE]
    /\ broken = FALSE /\ freed = FALSE

At(c, stage) == [call EXCEPT ![c].stage = stage]
Made(m, stage) == Append(call, [method |-> m, stage |-> stage, chunk |-> 0])
-----------------------------------------------------------------------------
\* Mutant: a method borrows the half it needs and leaves it in place.
CallUntaken(m) ==
    /\ ~freed /\ Len(call) < MaxCalls /\ m \in Methods(handle)
    /\ call' = Made(m, IF m = "nextChunk" THEN "reader" ELSE "sink")
    /\ UNCHANGED <<handle, sink, reader, wire, peer, got, broken, freed>>

\* push, close, closeWith, nextChunk up to the first await: take the half the method
\* needs, or reject with StreamClosed.
Call(m) ==
    /\ ~freed /\ Len(call) < MaxCalls /\ m \in Methods(handle)
    /\ IF m = "nextChunk"
       THEN /\ call' = Made(m, IF reader = "home" THEN "reader" ELSE "StreamClosed")
            /\ reader' = IF reader = "home" THEN "held" ELSE reader
            /\ UNCHANGED sink
       ELSE /\ call' = Made(m, IF sink = "home" THEN "sink" ELSE "StreamClosed")
            /\ sink' = IF sink = "home" THEN "held" ELSE sink
            /\ UNCHANGED reader
    /\ UNCHANGED <<handle, wire, peer, got, broken, freed>>

\* push after its await: the sink goes back whatever the outcome.
Pushed(c) ==
    /\ c \in DOMAIN call /\ call[c].method = "push" /\ call[c].stage = "sink"
    /\ sink' = "home"
    /\ IF broken
       THEN call' = At(c, "failed") /\ UNCHANGED wire
       ELSE /\ wire' = Append(wire, [call |-> c, last |-> FALSE])
            /\ call' = At(c, "ok")
    /\ UNCHANGED <<handle, reader, peer, got, broken, freed>>

\* close and closeWith after the flush of `last`: the sink is consumed.  A request
\* goes on to resolve_response, which takes the response future.
Closed(c) ==
    /\ c \in DOMAIN call /\ call[c].method \in Closes /\ call[c].stage = "sink"
    /\ sink' = "gone"
    /\ IF broken
       THEN call' = At(c, "failed") /\ UNCHANGED <<reader, wire>>
       ELSE /\ wire' = Append(wire, [call |-> c, last |-> TRUE])
            /\ IF handle # "request" THEN call' = At(c, "ok") /\ UNCHANGED reader
               ELSE IF reader = "home" THEN call' = At(c, "reader") /\ reader' = "held"
               ELSE call' = At(c, "StreamClosed") /\ UNCHANGED reader
    /\ UNCHANGED <<handle, peer, got, broken, freed>>

\* resolve_response after its await: the response future is used up.
Responded(c) ==
    /\ c \in DOMAIN call /\ call[c].method \in Closes /\ call[c].stage = "reader"
    /\ broken \/ peer.last
    /\ call' = At(c, IF peer.last THEN "ok" ELSE "failed")
    /\ reader' = "gone"
    /\ UNCHANGED <<handle, sink, wire, peer, got, broken, freed>>

\* Mutant: a read in progress does not notice that the stream broke.
ChunkReadUnlessBroken(c) ==
    /\ c \in DOMAIN call /\ call[c].method = "nextChunk" /\ call[c].stage = "reader"
    /\ ~broken /\ (got < peer.chunks \/ peer.last)
    /\ reader' = "home"
    /\ call' = At(c, "ok")
    /\ UNCHANGED <<handle, sink, wire, peer, got, broken, freed>>

\* nextChunk after its await: the next chunk, `undefined` after the last one (chunk
\* 0), or the stream's failure; the body goes back in every case.
ChunkRead(c) ==
    /\ c \in DOMAIN call /\ call[c].method = "nextChunk" /\ call[c].stage = "reader"
    /\ reader' = "home"
    /\ \/ /\ got < peer.chunks
          /\ got' = got + 1
          /\ call' = [call EXCEPT ![c].stage = "ok", ![c].chunk = got + 1]
       \/ got = peer.chunks /\ peer.last /\ call' = At(c, "ok") /\ UNCHANGED got
       \/ broken /\ call' = At(c, "failed") /\ UNCHANGED got
    /\ UNCHANGED <<handle, sink, wire, peer, broken, freed>>

\* The peer sends a chunk, or its last flag (for a request, the whole response).
PeerSends ==
    /\ ~broken /\ ~peer.last
    /\ \/ peer' = [peer EXCEPT !.last = TRUE]
       \/ peer.chunks < MaxChunks /\ peer' = [peer EXCEPT !.chunks = @ + 1]
    /\ UNCHANGED <<handle, sink, reader, call, wire, got, broken, freed>>

\* The peer resets the stream or the connection ends.
Breaks ==
    /\ ~broken /\ broken' = TRUE
    /\ UNCHANGED <<handle, sink, reader, call, wire, peer, got, freed>>

\* free() or garbage collection of the JS object.
FreeHandle ==
    /\ ~freed /\ freed' = TRUE
    /\ UNCHANGED <<handle, sink, reader, call, wire, peer, got, broken>>

StreamSettles == \E c \in DOMAIN call : Pushed(c) \/ Closed(c) \/ Responded(c) \/ ChunkRead(c)

StreamsNext ==
    \/ \E m \in Methods(handle) : Call(m)
    \/ StreamSettles
    \/ PeerSends \/ Breaks \/ FreeHandle

StreamsSpec == StreamsInit /\ [][StreamsNext]_streamvars

\* A future that is ready is polled.
StreamsFair == WF_streamvars(StreamSettles)
-----------------------------------------------------------------------------
Pending(c) == call[c].stage \in {"sink", "reader"}

\* Records leave in the order of the calls they are from, at most one per call and
\* nothing after the one flagged last, however calls overlap (push, close, closeWith).
RecordsInOrder ==
    \A i, j \in DOMAIN wire : i < j => ~wire[i].last /\ wire[i].call < wire[j].call

\* The sink leaves the cell for good only with a close: a push that failed has put it
\* back, so the stream can still be closed (push restores before it reports).
PushGivesBack ==
    "push" \in Methods(handle) /\ sink = "gone"
      => \E c \in DOMAIN call : call[c].method \in Closes /\ call[c].stage # "sink"

\* Overlapping nextChunk calls lose, repeat and swap no chunk: the calls that got one
\* got 1, 2, ... in the order they were made.
ChunksInOrder ==
    \A c, d \in DOMAIN call :
      c < d /\ call[c].chunk # 0 /\ call[d].chunk # 0
        => /\ call[c].chunk < call[d].chunk
           /\ \A n \in call[c].chunk..call[d].chunk :
                \E e \in c..d : call[e].chunk = n

\* Once the stream is broken every call settles, of a handle that was freed too (the
\* promise holds the cell: "a GC of the JS wrapper mid-await cannot drop" it).
BrokenSettles == broken ~> \A c \in DOMAIN call : ~Pending(c)

\* However a handle's calls overlap, each direction keeps its order and a failed push
\* does not cost the handle its sink (the take-and-restore of the four stream handles).
HandleKeepsOrder == RecordsInOrder /\ PushGivesBack /\ ChunksInOrder
===============================================================================
