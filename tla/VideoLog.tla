------------------------------ MODULE VideoLog ------------------------------
(* What becomes of the frames of a video stream, as the fragments that have *)
(* arrived, the receiver's buffer and the frames it has delivered show it.  *)
(* VideoStream says how the two ends make them.                             *)
EXTENDS Integers, Sequences, FiniteSets

CONSTANT MaxFrags   \* fragments of a frame at the highest bit rate

VARIABLES
  totals,    \* video_id -> total_frags, for the frames sent so far
  entries,   \* _buf: video_id -> indexes in the order of arrival, << >> if none
  delivered, \* history: the frames given to on_frame, with their chunks
  arrivals   \* history: the fragments that arrived

Fragments == {[video |-> v, idx |-> i, total |-> totals[v]] :
                v \in DOMAIN totals, i \in 0 .. MaxFrags - 1}
Chunk(v, i) == <<v, i>>

\* What on_frame gets is a frame that was sent, every chunk in its place, in
\* whatever order and however often the fragments came (video_stream.py:177-183).
DeliveredIsSent ==
  \A k \in DOMAIN delivered :
    LET v == delivered[k].video IN
      delivered[k].data = [i \in 1 .. totals[v] |-> Chunk(v, i - 1)]

Deliveries(v) == {k \in DOMAIN delivered : delivered[k].video = v}
Copies(f)     == {k \in DOMAIN arrivals : arrivals[k] = f}

\* A frame is delivered again only if every one of its fragments has come again,
\* and what is left in the buffer is a frame with a fragment still to come
\* (video_stream.py:174, 181-184).
AgainOnlyIfAllAgain ==
  \A f \in Fragments : f.idx < f.total =>
    /\ Cardinality(Deliveries(f.video)) <= Cardinality(Copies(f))
    /\ Len(entries[f.video]) < f.total
=============================================================================
