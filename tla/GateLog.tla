------------------------------ MODULE GateLog ------------------------------
(* What the security gate promises of its verdicts, in the order they were  *)
(* reached, whichever threads reached them.  SecurityGate says how they are *)
(* reached.                                                                 *)
EXTENDS Integers, Sequences, FiniteSets

CONSTANTS Threads,    \* the callers of check_frame
          RateMax, RateWindow,  \* RATE_LIMIT_CMDS_PER_S, and one second in ticks
          ReplayWindow  \* REPLAY_WINDOW_S in ticks

VARIABLES now,   \* time.monotonic()
          stage, hand,  \* thread -> the part it comes to next, 0 if idle; its frame
          log    \* history: verdicts, in the order they were reached

Key(f) == [src |-> f.src, seq |-> f.seq]

\* Of the copies of a frame, whatever threads check them at once, one is
\* accepted, and the next one not before the window is over (security.py:97-106).
AcceptedOnce ==
  \A i, j \in DOMAIN log :
    (i < j /\ log[i].key = log[j].key /\ log[i].verdict = "ok" /\ log[j].verdict = "ok")
      => log[j].at - log[i].at > ReplayWindow

OkIn(s, from, to) ==
  {i \in DOMAIN log : /\ log[i].key.src = s /\ log[i].verdict = "ok"
                      /\ log[i].at \in from .. to}

\* In any second no more frames of a source are accepted than the limit says
\* (security.py:203-213).
RateBudget ==
  \A s \in {log[i].key.src : i \in DOMAIN log} : \A from \in 0 .. now :
    Cardinality(OkIn(s, from, from + RateWindow - 1)) <= RateMax

\* A frame is refused as a replay only if a copy has got past the rate limiter:
\* one refused for the rate alone may be sent again (security.py:237-243).
RateRefusalMayRetry ==
  \A j \in DOMAIN log : log[j].verdict = "replay" =>
    \/ \E i \in DOMAIN log : /\ log[i].key = log[j].key
                             /\ log[i].verdict \in {"ok", "anomaly"}
                             /\ log[i].at \in log[j].at - ReplayWindow .. log[j].at
    \/ \E t \in Threads : stage[t] > 0 /\ Key(hand[t]) = log[j].key
=============================================================================
