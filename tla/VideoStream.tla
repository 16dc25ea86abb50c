---------------------------- MODULE VideoStream ----------------------------
(* The video stream of src/bonus/video_stream.py: the sender cuts each      *)
(* frame into fragments, the receiver puts them together again.  The path   *)
(* loses, repeats and reorders them.  How many fragments a frame has        *)
(* depends on the bit rate, which follows the losses: any number may come.  *)
EXTENDS VideoLog, Functions

CONSTANTS MaxVideos,    \* bound of the model: frames sent
          MaxArrivals   \* bound of the model: datagrams that arrive

VideoConstants == MaxFrags \in Nat /\ MaxVideos \in Nat /\ MaxArrivals \in Nat

Videos == 1 .. MaxVideos

vars == <<totals, entries, delivered, arrivals>>

MutantJoin(v, idxs)     == [i \in 1 .. Len(idxs) |-> Chunk(v, idxs[i])]
MutantForget(v, idxs)   == idxs

\* What an entry holds with one more fragment; a copy takes the place of the first.
Stored(idxs, f) == IF f.idx \in Range(idxs) THEN idxs ELSE Append(idxs, f.idx)

Complete(idxs, f) == Len(idxs) = f.total

\* The chunks in the order of their indexes.
Join(v, idxs) == [i \in 1 .. Len(idxs) |-> Chunk(v, i - 1)]

\* The entry of a frame that has been put together.
Forget(v, idxs) == << >>

----------------------------------------------------------------------------
Init == /\ totals = << >>
        /\ entries = [v \in Videos |-> << >>]
        /\ delivered = << >> /\ arrivals = << >>

\* The fragments of a frame go out, to arrive in any order, often or never.
SendFrame == /\ Len(totals) < MaxVideos
             /\ \E total \in 1 .. MaxFrags : totals' = Append(totals, total)
             /\ UNCHANGED <<entries, delivered, arrivals>>

\* receive, under its lock.
Receive(f) ==
  /\ f.idx < f.total /\ Len(arrivals) < MaxArrivals
  /\ arrivals' = Append(arrivals, f)
  /\ LET idxs == Stored(entries[f.video], f) IN
       IF Complete(idxs, f)
       THEN /\ delivered' = Append(delivered, [video |-> f.video, data |-> Join(f.video, idxs)])
            /\ entries' = [entries EXCEPT ![f.video] = Forget(f.video, idxs)]
       ELSE /\ entries' = [entries EXCEPT ![f.video] = idxs]
            /\ UNCHANGED delivered
  /\ UNCHANGED totals

Next == SendFrame \/ \E f \in Fragments : Receive(f)

Spec == Init /\ [][Next]_vars

----------------------------------------------------------------------------
(* Properties                                                               *)

TypeOK == /\ Len(totals) <= MaxVideos /\ Range(totals) \subseteq 1 .. MaxFrags
          /\ \A v \in Videos : Range(entries[v]) \subseteq 0 .. MaxFrags - 1
          /\ Len(arrivals) <= MaxArrivals
=============================================================================
