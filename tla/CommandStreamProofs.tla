------------------------- MODULE CommandStreamProofs -------------------------
(* Theorems about CommandStream, for any size of a frame, any bytes a       *)
(* reader out of step may take for a length, and any number of connections  *)
(* and commands: commands are executed once and in order, none whose send   *)
(* has failed, and the reader is in step until a write is cut short.        *)
EXTENDS CommandStream, FiniteSetTheorems, TLAPS

----------------------------------------------------------------------------
(* Sequences.                                                               *)

Unit == Nat \X (1 .. Size)

LEMMA ConcatIs ==
  ASSUME NEW T, NEW s \in Seq(T), NEW t \in Seq(T)
  PROVE  /\ s \o t \in Seq(T) /\ Len(s \o t) = Len(s) + Len(t)
         /\ \A i \in 1 .. Len(s) : (s \o t)[i] = s[i]
         /\ \A i \in 1 .. Len(t) : (s \o t)[Len(s) + i] = t[i]
<1>1. Len(s) \in Nat /\ Len(t) \in Nat OBVIOUS
<1> QED BY <1>1

LEMMA PartIs ==
  ASSUME NEW T, NEW s \in Seq(T), NEW e \in Nat, NEW b \in 0 .. Len(s), e <= b
  PROVE  /\ SubSeq(s, e + 1, b) \in Seq(T) /\ Len(SubSeq(s, e + 1, b)) = b - e
         /\ \A i \in 1 .. b - e : SubSeq(s, e + 1, b)[i] = s[e + i]
<1>1. Len(s) \in Nat OBVIOUS
<1> QED BY <1>1

\* Two lists with the same elements.
LEMMA SameList ==
  ASSUME NEW T, NEW s \in Seq(T), NEW t \in Seq(T), Len(s) = Len(t),
         \A i \in 1 .. Len(s) : s[i] = t[i]
  PROVE  s = t
OBVIOUS

\* Of a stream of which b has been read and n is under way: what recv reads
\* leaves it as it is,
LEMMA StreamRecv ==
  ASSUME NEW b \in Seq(Unit), NEW n \in Seq(Unit), NEW k \in 0 .. Len(n)
  PROVE  /\ b \o SubSeq(n, 1, k) \in Seq(Unit) /\ SubSeq(n, k + 1, Len(n)) \in Seq(Unit)
         /\ (b \o SubSeq(n, 1, k)) \o SubSeq(n, k + 1, Len(n)) = b \o n
<1> DEFINE p == SubSeq(n, 1, k)
           q == SubSeq(n, k + 1, Len(n))
           l == Len(b)
           r == Len(n)
<1>0. l \in Nat /\ r \in Nat /\ k \in 0 .. r OBVIOUS
<1>1. p \in Seq(Unit) /\ Len(p) = k /\ \A i \in 1 .. k : p[i] = n[i]
      OBVIOUS
<1>2. q \in Seq(Unit) /\ Len(q) = r - k /\ \A i \in 1 .. r - k : q[i] = n[k + i]
  <2>1. r \in 0 .. r /\ k <= r /\ k \in Nat BY ONLY <1>0
  <2> QED BY <2>1, PartIs
<1> HIDE DEF p, q
<1> DEFINE w == b \o p
<1>3. /\ w \in Seq(Unit) /\ Len(w) = l + k
      /\ \A i \in 1 .. l : w[i] = b[i]
      /\ \A i \in 1 .. k : w[l + i] = n[i]
  <2>1. /\ w \in Seq(Unit) /\ Len(w) = l + Len(p)
        /\ \A i \in 1 .. l : w[i] = b[i]
        /\ \A i \in 1 .. Len(p) : w[l + i] = p[i]
    <3>1. p \in Seq(Unit) /\ b \in Seq(Unit) BY <1>1
    <3> QED BY ONLY <3>1, ConcatIs
  <2> HIDE DEF w, l
  <2> QED BY ONLY <1>1, <2>1
<1> HIDE DEF w
<1>4. /\ w \o q \in Seq(Unit) /\ Len(w \o q) = l + k + (r - k)
      /\ \A i \in 1 .. l + k : (w \o q)[i] = w[i]
      /\ \A i \in 1 .. r - k : (w \o q)[l + k + i] = n[k + i]
  <2>1. /\ w \o q \in Seq(Unit) /\ Len(w \o q) = Len(w) + Len(q)
        /\ \A i \in 1 .. Len(w) : (w \o q)[i] = w[i]
        /\ \A i \in 1 .. Len(q) : (w \o q)[Len(w) + i] = q[i]
    <3>1. w \in Seq(Unit) /\ q \in Seq(Unit) BY <1>2, <1>3
    <3> QED BY ONLY <3>1, ConcatIs
  <2> HIDE DEF l, r
  <2> QED BY ONLY <1>2, <1>3, <2>1
<1>5. /\ b \o n \in Seq(Unit) /\ Len(b \o n) = l + r
      /\ \A i \in 1 .. l : (b \o n)[i] = b[i]
      /\ \A i \in 1 .. r : (b \o n)[l + i] = n[i]
      BY ConcatIs
<1> DEFINE x == w \o q
           y == b \o n
<1> HIDE DEF l, r, x, y
<1>6. x \in Seq(Unit) /\ y \in Seq(Unit) /\ Len(x) = l + r /\ Len(y) = l + r
      BY <1>0, <1>4, <1>5 DEF x, y
<1>7. ASSUME NEW i \in 1 .. l + r PROVE x[i] = y[i]
  <2>1. CASE i \in 1 .. l
    <3>1. i \in 1 .. l + k BY ONLY <1>0, <2>1
    <3>2. x[i] = w[i] BY ONLY <1>4, <3>1 DEF x
    <3>3. w[i] = b[i] BY ONLY <1>3, <2>1
    <3>4. y[i] = b[i] BY ONLY <1>5, <2>1 DEF y
    <3> QED BY ONLY <3>2, <3>3, <3>4
  <2>2. CASE i \in l + 1 .. l + k
    <3> DEFINE j == i - l
    <3>1. j \in 1 .. k /\ j \in 1 .. r /\ l + j = i /\ i \in 1 .. l + k BY ONLY <1>0, <2>2
    <3> HIDE DEF j
    <3>2. x[i] = w[i] BY ONLY <1>4, <3>1 DEF x
    <3>3. w[l + j] = n[j] BY ONLY <1>3, <3>1
    <3>4. y[l + j] = n[j] BY ONLY <1>5, <3>1 DEF y
    <3> QED BY ONLY <3>1, <3>2, <3>3, <3>4
  <2>3. CASE i \in l + k + 1 .. l + r
    <3> DEFINE j == i - l - k
    <3>1. j \in 1 .. r - k /\ l + k + j = i /\ k + j \in 1 .. r /\ l + (k + j) = i
          BY ONLY <1>0, <2>3
    <3> HIDE DEF j
    <3>2. x[l + k + j] = n[k + j] BY ONLY <1>4, <3>1 DEF x
    <3>3. y[l + (k + j)] = n[k + j] BY ONLY <1>5, <3>1 DEF y
    <3> QED BY ONLY <3>1, <3>2, <3>3
  <2> QED BY ONLY <1>0, <2>1, <2>2, <2>3, i \in 1 .. l + r
<1>8. x = y BY ONLY <1>6, <1>7, SameList
<1> QED BY <1>2, <1>3, <1>8 DEF x, y, w, p, q, r

\* what is taken from the buffer goes from its front,
LEMMA StreamTake ==
  ASSUME NEW T, NEW b \in Seq(T), NEW n \in Seq(T), NEW e \in 0 .. Len(b)
  PROVE  LET t == SubSeq(b, e + 1, Len(b)) \o n IN
           /\ SubSeq(b, e + 1, Len(b)) \in Seq(T)
           /\ t \in Seq(T) /\ Len(t) = Len(b \o n) - e
           /\ \A i \in 1 .. Len(t) : t[i] = (b \o n)[e + i]
<1> DEFINE p == SubSeq(b, e + 1, Len(b))
           t == p \o n
           l == Len(b)
           r == Len(n)
<1>0. l \in Nat /\ r \in Nat /\ e \in 0 .. l OBVIOUS
<1>1. p \in Seq(T) /\ Len(p) = l - e /\ \A i \in 1 .. l - e : p[i] = b[e + i]
  <2>1. l \in 0 .. l /\ e <= l /\ e \in Nat BY ONLY <1>0
  <2> QED BY <2>1, PartIs
<1> HIDE DEF p
<1>2. /\ t \in Seq(T) /\ Len(t) = (l - e) + r
      /\ \A i \in 1 .. l - e : t[i] = p[i]
      /\ \A i \in 1 .. r : t[l - e + i] = n[i]
  <2>1. /\ t \in Seq(T) /\ Len(t) = Len(p) + r
        /\ \A i \in 1 .. Len(p) : t[i] = p[i]
        /\ \A i \in 1 .. r : t[Len(p) + i] = n[i]
    <3>1. p \in Seq(T) /\ n \in Seq(T) BY <1>1
    <3> QED BY ONLY <3>1, ConcatIs
  <2> HIDE DEF t, l, r
  <2> QED BY ONLY <1>1, <2>1
<1>3. /\ b \o n \in Seq(T) /\ Len(b \o n) = l + r
      /\ \A i \in 1 .. l : (b \o n)[i] = b[i]
      /\ \A i \in 1 .. r : (b \o n)[l + i] = n[i]
      BY ConcatIs
<1> DEFINE y == b \o n
<1> HIDE DEF l, r, y, t
<1>4. Len(t) = Len(y) - e BY <1>0, <1>2, <1>3 DEF y
<1>5. ASSUME NEW i \in 1 .. (l - e) + r PROVE t[i] = y[e + i]
  <2>1. CASE i \in 1 .. l - e
    <3>1. e + i \in 1 .. l BY ONLY <1>0, <2>1
    <3> QED BY ONLY <1>1, <1>2, <1>3, <2>1, <3>1 DEF y
  <2>2. CASE i \in l - e + 1 .. (l - e) + r
    <3> DEFINE j == i - (l - e)
    <3>1. j \in 1 .. r /\ l - e + j = i /\ l + j = e + i BY ONLY <1>0, <2>2
    <3> HIDE DEF j
    <3> QED BY ONLY <1>2, <1>3, <3>1 DEF y
  <2> QED BY ONLY <1>0, <2>1, <2>2, i \in 1 .. (l - e) + r
<1> QED BY <1>1, <1>2, <1>4, <1>5 DEF p, t, y, l

\* and what a break cuts off goes from its end.
LEMMA StreamCut ==
  ASSUME NEW T, NEW b \in Seq(T), NEW n \in Seq(T), NEW k \in 0 .. Len(n)
  PROVE  LET t == b \o SubSeq(n, 1, k) IN
           /\ SubSeq(n, 1, k) \in Seq(T)
           /\ t \in Seq(T) /\ Len(t) <= Len(b \o n)
           /\ \A i \in 1 .. Len(t) : t[i] = (b \o n)[i]
<1> DEFINE p == SubSeq(n, 1, k)
           t == b \o p
           l == Len(b)
           r == Len(n)
<1>0. l \in Nat /\ r \in Nat /\ k \in 0 .. r OBVIOUS
<1>1. p \in Seq(T) /\ Len(p) = k /\ \A i \in 1 .. k : p[i] = n[i]
      OBVIOUS
<1> HIDE DEF p
<1>2. /\ t \in Seq(T) /\ Len(t) = l + k
      /\ \A i \in 1 .. l : t[i] = b[i]
      /\ \A i \in 1 .. k : t[l + i] = p[i]
  <2>1. /\ t \in Seq(T) /\ Len(t) = l + Len(p)
        /\ \A i \in 1 .. l : t[i] = b[i]
        /\ \A i \in 1 .. Len(p) : t[l + i] = p[i]
    <3>1. p \in Seq(T) /\ b \in Seq(T) BY <1>1
    <3> QED BY ONLY <3>1, ConcatIs
  <2> HIDE DEF t, l
  <2> QED BY ONLY <1>1, <2>1
<1>3. /\ b \o n \in Seq(T) /\ Len(b \o n) = l + r
      /\ \A i \in 1 .. l : (b \o n)[i] = b[i]
      /\ \A i \in 1 .. r : (b \o n)[l + i] = n[i]
      BY ConcatIs
<1> DEFINE y == b \o n
<1> HIDE DEF l, r, y, t
<1>4. Len(t) <= Len(y) BY <1>0, <1>2, <1>3 DEF y
<1>5. ASSUME NEW i \in 1 .. l + k PROVE t[i] = y[i]
  <2>1. CASE i \in 1 .. l BY ONLY <1>2, <1>3, <2>1 DEF y
  <2>2. CASE i \in l + 1 .. l + k
    <3> DEFINE j == i - l
    <3>1. j \in 1 .. k /\ j \in 1 .. r /\ l + j = i BY ONLY <1>0, <2>2
    <3> HIDE DEF j
    <3> QED BY ONLY <1>1, <1>2, <1>3, <3>1 DEF y
  <2> QED BY ONLY <1>0, <2>1, <2>2, i \in 1 .. l + k
<1> QED BY <1>1, <1>2, <1>4, <1>5 DEF p, t, y

\* What is sent comes after it.
LEMMA StreamSend ==
  ASSUME NEW T, NEW b \in Seq(T), NEW n \in Seq(T), NEW f \in Seq(T)
  PROVE  /\ n \o f \in Seq(T)
         /\ b \o (n \o f) = (b \o n) \o f
<1> DEFINE l == Len(b)
           r == Len(n)
           k == Len(f)
           x == b \o (n \o f)
           y == (b \o n) \o f
<1>0. l \in Nat /\ r \in Nat /\ k \in Nat OBVIOUS
<1>1. /\ n \o f \in Seq(T) /\ Len(n \o f) = r + k
      /\ \A i \in 1 .. r : (n \o f)[i] = n[i]
      /\ \A i \in 1 .. k : (n \o f)[r + i] = f[i]
      BY ConcatIs
<1>2. /\ b \o n \in Seq(T) /\ Len(b \o n) = l + r
      /\ \A i \in 1 .. l : (b \o n)[i] = b[i]
      /\ \A i \in 1 .. r : (b \o n)[l + i] = n[i]
      BY ConcatIs
<1>3. /\ x \in Seq(T) /\ Len(x) = l + (r + k)
      /\ \A i \in 1 .. l : x[i] = b[i]
      /\ \A i \in 1 .. r + k : x[l + i] = (n \o f)[i]
      BY <1>1, ConcatIs
<1>4. /\ y \in Seq(T) /\ Len(y) = (l + r) + k
      /\ \A i \in 1 .. l + r : y[i] = (b \o n)[i]
      /\ \A i \in 1 .. k : y[(l + r) + i] = f[i]
      BY <1>2, ConcatIs
<1> HIDE DEF l, r, k, x, y
<1>5. ASSUME NEW i \in 1 .. (l + r) + k PROVE x[i] = y[i]
  <2>1. CASE i \in 1 .. l
    <3>1. i \in 1 .. l + r BY ONLY <1>0, <2>1
    <3> QED BY ONLY <1>2, <1>3, <1>4, <2>1, <3>1
  <2>2. CASE i \in l + 1 .. l + r
    <3> DEFINE j == i - l
    <3>1. j \in 1 .. r /\ j \in 1 .. r + k /\ l + j = i /\ i \in 1 .. l + r
          BY ONLY <1>0, <2>2
    <3> HIDE DEF j
    <3>2. x[l + j] = (n \o f)[j] BY ONLY <1>3, <3>1
    <3>3. (n \o f)[j] = n[j] BY ONLY <1>1, <3>1
    <3>4. y[i] = (b \o n)[i] BY ONLY <1>4, <3>1
    <3>5. (b \o n)[l + j] = n[j] BY ONLY <1>2, <3>1
    <3> QED BY ONLY <3>1, <3>2, <3>3, <3>4, <3>5
  <2>3. CASE i \in l + r + 1 .. (l + r) + k
    <3> DEFINE j == i - l - r
    <3>1. j \in 1 .. k /\ r + j \in 1 .. r + k /\ l + (r + j) = i /\ (l + r) + j = i
          BY ONLY <1>0, <2>3
    <3> HIDE DEF j
    <3>2. x[l + (r + j)] = (n \o f)[r + j] BY ONLY <1>3, <3>1
    <3>3. (n \o f)[r + j] = f[j] BY ONLY <1>1, <3>1
    <3>4. y[(l + r) + j] = f[j] BY ONLY <1>4, <3>1
    <3> QED BY ONLY <3>1, <3>2, <3>3, <3>4
  <2> QED BY ONLY <1>0, <2>1, <2>2, <2>3, i \in 1 .. (l + r) + k
<1>6. Len(x) = (l + r) + k /\ Len(x) = Len(y) BY ONLY <1>0, <1>3, <1>4
<1>7. x = y BY ONLY <1>3, <1>4, <1>5, <1>6, SameList
<1> QED BY <1>1, <1>7 DEF x, y
----------------------------------------------------------------------------
(* Types.                                                                   *)

Places == {"none", "backlog", "running", "ended"}
Calls  == [conn : 0 .. MaxConns, units : 0 .. Size, ok : BOOLEAN]
Runs   == [conn : Conns, cmd : Nat]

Shape == /\ conn \in 0 .. MaxConns /\ open \subseteq Conns
         /\ handler \in [Conns -> Places]
         /\ net \in [Conns -> Seq(Unit)] /\ buf \in [Conns -> Seq(Unit)]
         /\ bogus \in [(1 .. Size) \ {2} -> Bogus]
         /\ sends \in Seq(Calls) /\ executed \in Seq(Runs)

\* The units on connection c that have not been taken for a frame.
Stream(c) == buf[c] \o net[c]

\* The connections made so far.
Opened == {c \in Conns : handler[c] # "none"}

ConnInv == /\ Opened = 1 .. Made /\ IsFiniteSet(Opened) /\ Made \in Nat
           /\ conn = 0 \/ conn \in Opened
           /\ open \subseteq Opened
           /\ \A c \in Conns \ Opened : buf[c] = << >> /\ net[c] = << >>
           /\ \A m \in DOMAIN sends : sends[m].conn = 0 \/ sends[m].conn \in Opened

LEMMA StreamTyped == ASSUME Shape, NEW c \in Conns PROVE Stream(c) \in Seq(Unit)
<1>1. buf[c] \in Seq(Unit) /\ net[c] \in Seq(Unit) BY DEF Shape
<1> HIDE DEF Unit
<1> QED BY <1>1, ConcatIs DEF Stream

LEMMA StreamTypedNext == ASSUME Shape', NEW c \in Conns PROVE Stream(c)' \in Seq(Unit)
<1>1. buf'[c] \in Seq(Unit) /\ net'[c] \in Seq(Unit) BY DEF Shape
<1> HIDE DEF Unit
<1>2. buf'[c] \o net'[c] \in Seq(Unit) BY <1>1, ConcatIs
<1> QED BY <1>2 DEF Stream

\* k units of a frame.
LEMMA FramePart ==
  ASSUME StreamConstants, NEW m \in Nat, NEW k \in 0 .. Size
  PROVE  /\ SubSeq(FrameOf(m), 1, k) \in Seq(Unit) /\ Len(SubSeq(FrameOf(m), 1, k)) = k
         /\ \A i \in 1 .. k : SubSeq(FrameOf(m), 1, k)[i] = <<m, i>>
<1>1. Size \in Nat BY DEF StreamConstants
<1>2. FrameOf(m) \in Seq(Unit) /\ Len(FrameOf(m)) = Size
      /\ \A i \in 1 .. Size : FrameOf(m)[i] = <<m, i>>
  <2>1. \A i \in 1 .. Size : <<m, i>> \in Unit BY DEF Unit
  <2> HIDE DEF Unit
  <2> QED BY <1>1, <2>1 DEF FrameOf
<1> DEFINE f == FrameOf(m)
<1> HIDE DEF f, Unit
<1>3. f \in Seq(Unit) /\ Len(f) = Size /\ \A i \in 1 .. Size : f[i] = <<m, i>> BY <1>2 DEF f
<1>4. SubSeq(f, 1, k) \in Seq(Unit) /\ Len(SubSeq(f, 1, k)) = k
      /\ \A i \in 1 .. k : SubSeq(f, 1, k)[i] = f[i] /\ i \in 1 .. Size
      BY <1>1, <1>3
<1> QED BY <1>3, <1>4 DEF f

\* What a call of _send_tcp may do.
LEMMA SendParts ==
  ASSUME StreamConstants, Shape, ConnInv, Send
  PROVE  \E k \in 0 .. Size, ok \in BOOLEAN :
           /\ sends' = Append(sends, [conn |-> conn, units |-> k, ok |-> ok])
           /\ [conn |-> conn, units |-> k, ok |-> ok] \in Calls
           /\ ok <=> k = Size
           /\ \/ conn \notin open /\ net' = net
              \/ /\ conn \in open
                 /\ net' = [net EXCEPT ![conn] =
                              @ \o SubSeq(FrameOf(Len(sends) + 1), 1, k)]
<1>1. Size \in Nat /\ Size # 0 /\ 0 \in 0 .. Size /\ Size \in 0 .. Size
      BY DEF StreamConstants
<1>2. conn \in 0 .. MaxConns BY DEF Shape
<1>3. CASE conn \notin open /\ Record(conn, 0, FALSE) /\ UNCHANGED net
      BY <1>1, <1>2, <1>3 DEF Record, Calls
<1>4. CASE conn \notin open /\ Record(conn, Size, TRUE) /\ UNCHANGED net
      BY <1>1, <1>2, <1>4 DEF Record, Calls
<1>5. ASSUME conn \in open, NEW k \in 0 .. Size, Record(conn, k, k = Size),
             net' = [net EXCEPT ![conn] = @ \o SubSeq(FrameOf(Len(sends) + 1), 1, k)]
      PROVE  \E j \in 0 .. Size, ok \in BOOLEAN :
           /\ sends' = Append(sends, [conn |-> conn, units |-> j, ok |-> ok])
           /\ [conn |-> conn, units |-> j, ok |-> ok] \in Calls
           /\ ok <=> j = Size
           /\ \/ conn \notin open /\ net' = net
              \/ /\ conn \in open
                 /\ net' = [net EXCEPT ![conn] =
                              @ \o SubSeq(FrameOf(Len(sends) + 1), 1, j)]
  <2>1. CASE k = Size
    <3>1. (k = Size) = TRUE BY <2>1
    <3> QED BY <1>1, <1>2, <1>5, <2>1, <3>1 DEF Record, Calls
  <2>2. CASE k # Size
    <3>1. (k = Size) = FALSE BY <2>2
    <3> QED BY <1>1, <1>2, <1>5, <2>2, <3>1 DEF Record, Calls
  <2> QED BY <2>1, <2>2
<1> QED BY <1>3, <1>4, <1>5 DEF Send

\* The end a reader finds for the frame at the head of its buffer.
LEMMA FrameEndIs ==
  ASSUME StreamConstants, Shape, NEW c \in Conns, Ready(c)
  PROVE  FrameEnd(buf[c]) \in 2 .. Len(buf[c]) /\ Len(buf[c]) \in Nat /\ 2 \in 1 .. Len(buf[c])
<1>1. Size \in Nat /\ MinSize \in 2 .. Size /\ Bogus \subseteq {n \in Nat : n >= MinSize}
      BY DEF StreamConstants
<1>2. buf[c] \in Seq(Unit) /\ Len(buf[c]) \in Nat BY DEF Shape
<1>3. Len(buf[c]) >= MinSize /\ Len(buf[c]) >= FrameEnd(buf[c]) BY DEF Ready
<1>4. 2 \in 1 .. Len(buf[c]) BY ONLY <1>1, <1>2, <1>3
<1>5. buf[c][2] \in Unit BY ONLY <1>2, <1>4
<1>6. buf[c][2][2] \in 1 .. Size BY <1>5 DEF Unit
<1>7. FrameEnd(buf[c]) \in Nat /\ FrameEnd(buf[c]) >= 2
  <2>1. CASE buf[c][2][2] = 2 BY <1>1, <2>1 DEF FrameEnd
  <2>2. CASE buf[c][2][2] # 2
    <3>1. bogus[buf[c][2][2]] \in Bogus BY <1>6, <2>2 DEF Shape
    <3>2. bogus[buf[c][2][2]] \in Nat /\ bogus[buf[c][2][2]] >= MinSize BY <1>1, <3>1
    <3>3. FrameEnd(buf[c]) = bogus[buf[c][2][2]] BY <2>2 DEF FrameEnd
    <3> QED BY ONLY <1>1, <3>2, <3>3
  <2> QED BY <2>1, <2>2
<1> QED BY ONLY <1>2, <1>3, <1>4, <1>7

LEMMA ShapeInit == ASSUME StreamConstants PROVE Init => Shape
<1> SUFFICES ASSUME Init PROVE Shape
    OBVIOUS
<1>1. MaxConns \in Nat BY DEF StreamConstants
<1>2. /\ conn = 0 /\ open = {} /\ handler = [c \in Conns |-> "none"]
      /\ net = [c \in Conns |-> << >>] /\ buf = [c \in Conns |-> << >>]
      /\ bogus \in [(1 .. Size) \ {2} -> Bogus] /\ sends = << >> /\ executed = << >>
      BY DEF Init
<1>3. << >> \in Seq(Unit) /\ << >> \in Seq(Calls) /\ << >> \in Seq(Runs) OBVIOUS
<1> QED BY <1>1, <1>2, <1>3 DEF Shape, Places

LEMMA ShapeStep ==
  ASSUME StreamConstants, Shape, ConnInv, [Next]_vars
  PROVE  Shape'
<1> USE DEF Shape
<1>0. MaxConns \in Nat /\ Size \in Nat BY DEF StreamConstants
<1>1. CASE Dial \/ DialFails \/ StationStop \/ UNCHANGED vars
  <2>1. UNCHANGED <<conn, handler, net, buf, bogus, executed, sends>>
        /\ open' \subseteq open
        BY <1>1 DEF Dial, DialFails, StationStop, vars, stationVars, actuatorVars
  <2> QED BY <2>1
<1>2. CASE Connect
  <2>1. Made + 1 \in Conns BY <1>0, <1>2 DEF Connect, Conns, ConnInv
  <2>2. /\ conn' = Made + 1 /\ open' = open \cup {Made + 1}
        /\ handler' = [handler EXCEPT ![Made + 1] = "backlog"]
        /\ UNCHANGED <<net, buf, bogus, sends, executed>>
        BY <1>2 DEF Connect
  <2>3. conn' \in 0 .. MaxConns BY <1>0, <2>1, <2>2 DEF Conns
  <2>4. handler' \in [Conns -> Places] BY <2>2 DEF Places
  <2> QED BY <2>1, <2>2, <2>3, <2>4
<1>3. CASE ReadEnds BY <1>0, <1>3 DEF ReadEnds, actuatorVars
<1>4. CASE Send
  <2>1. PICK k \in 0 .. Size, ok \in BOOLEAN :
           /\ sends' = Append(sends, [conn |-> conn, units |-> k, ok |-> ok])
           /\ [conn |-> conn, units |-> k, ok |-> ok] \in Calls
           /\ ok <=> k = Size
           /\ \/ conn \notin open /\ net' = net
              \/ /\ conn \in open
                 /\ net' = [net EXCEPT ![conn] =
                              @ \o SubSeq(FrameOf(Len(sends) + 1), 1, k)]
        BY <1>4, SendParts
  <2>2. UNCHANGED <<conn, open, handler, buf, bogus, executed>>
        BY <1>4 DEF Send, actuatorVars
  <2>3. sends' \in Seq(Calls)
    <3> HIDE DEF Calls
    <3> QED BY <2>1
  <2>4. net' \in [Conns -> Seq(Unit)]
    <3>1. CASE net' = net BY <3>1
    <3>2. CASE conn \in open
      <4> DEFINE f == SubSeq(FrameOf(Len(sends) + 1), 1, k)
      <4>1. Len(sends) + 1 \in Nat OBVIOUS
      <4>2. f \in Seq(Unit) BY ONLY <4>1, FramePart, StreamConstants, k \in 0 .. Size
      <4>3. conn \in Conns /\ net[conn] \in Seq(Unit) BY <3>2
      <4> HIDE DEF f, Unit
      <4>4. net[conn] \o f \in Seq(Unit) BY ONLY <4>2, <4>3, ConcatIs
      <4>5. net' = [net EXCEPT ![conn] = @ \o f] BY <2>1, <3>2 DEF f
      <4> QED BY <4>3, <4>4, <4>5
    <3> QED BY <2>1, <3>1, <3>2
  <2> QED BY <2>2, <2>3, <2>4
<1>5. ASSUME NEW c \in Conns, Accept(c) PROVE Shape'
      BY <1>5 DEF Accept, stationVars, Places
<1>6. ASSUME NEW c \in Conns, Recv(c) PROVE Shape'
  <2>1. PICK k \in 1 .. Len(net[c]) :
           /\ buf' = [buf EXCEPT ![c] = @ \o SubSeq(net[c], 1, k)]
           /\ net' = [net EXCEPT ![c] = SubSeq(@, k + 1, Len(@))]
        BY <1>6 DEF Recv
  <2>2. UNCHANGED <<conn, open, handler, bogus, sends, executed>>
        BY <1>6 DEF Recv, stationVars
  <2>3. buf[c] \in Seq(Unit) /\ net[c] \in Seq(Unit) OBVIOUS
  <2>4. k \in 0 .. Len(net[c]) OBVIOUS
  <2> HIDE DEF Unit
  <2>5. buf[c] \o SubSeq(net[c], 1, k) \in Seq(Unit)
        /\ SubSeq(net[c], k + 1, Len(net[c])) \in Seq(Unit)
        BY ONLY <2>3, <2>4, StreamRecv
  <2> QED BY <2>1, <2>2, <2>5
<1>7. ASSUME NEW c \in Conns, TakeFrame(c) PROVE Shape'
  <2>1. buf' = [buf EXCEPT ![c] = Rest(@)]
        /\ UNCHANGED <<conn, open, handler, net, bogus, sends>>
        BY <1>7 DEF TakeFrame, stationVars
  <2>2. FrameEnd(buf[c]) \in 2 .. Len(buf[c]) /\ Len(buf[c]) \in Nat
        BY <1>7, FrameEndIs DEF TakeFrame
  <2> DEFINE e == FrameEnd(buf[c])
  <2>3. Rest(buf[c]) = SubSeq(buf[c], e + 1, Len(buf[c])) BY DEF Rest
  <2>4. e \in Nat /\ e <= Len(buf[c]) /\ Len(buf[c]) \in 0 .. Len(buf[c]) BY <2>2
  <2>5. buf[c] \in Seq(Unit) /\ 1 \in 1 .. Len(buf[c]) BY <2>2
  <2>6. buf[c][1] \in Unit BY ONLY <2>5
  <2>7. buf[c][1][1] \in Nat BY <2>6 DEF Unit
  <2>8. executed' = executed
        \/ executed' = Append(executed, [conn |-> c, cmd |-> SubSeq(buf[c], 1, e)[1][1]])
        BY <1>7 DEF TakeFrame
  <2> HIDE DEF e, Unit
  <2>9. Rest(buf[c]) \in Seq(Unit) BY ONLY <2>3, <2>4, <2>5, PartIs
  <2>10. SubSeq(buf[c], 1, e)[1] = buf[c][1]
    <3>1. e \in 2 .. Len(buf[c]) BY <2>2 DEF e
    <3> QED BY ONLY <2>5, <3>1
  <2>11. executed' \in Seq(Runs)
    <3>1. [conn |-> c, cmd |-> buf[c][1][1]] \in Runs BY <2>7 DEF Runs
    <3>2. executed \in Seq(Runs) OBVIOUS
    <3> DEFINE r == [conn |-> c, cmd |-> buf[c][1][1]]
    <3>3. executed' = executed \/ executed' = Append(executed, r) BY <2>8, <2>10
    <3>4. r \in Runs BY <3>1
    <3> HIDE DEF Runs, r
    <3>5. Append(executed, r) \in Seq(Runs) BY ONLY <3>2, <3>4
    <3> QED BY ONLY <3>2, <3>3, <3>5
  <2> QED BY <2>1, <2>9, <2>11
<1>8. ASSUME NEW c \in Conns, HandlerEnds(c) PROVE Shape'
  <2>1. << >> \in Seq(Unit) OBVIOUS
  <2> QED BY <1>8, <2>1 DEF HandlerEnds, stationVars, Places
<1>9. CASE ActuatorStop BY <1>9 DEF ActuatorStop, stationVars
<1>10. ASSUME NEW c \in Conns, Break(c) PROVE Shape'
  <2>1. PICK k \in 0 .. Len(net[c]) : net' = [net EXCEPT ![c] = SubSeq(@, 1, k)]
        BY <1>10 DEF Break
  <2>2. UNCHANGED <<conn, handler, bogus, sends, buf, executed>> /\ open' \subseteq open
        BY <1>10 DEF Break, stationVars, actuatorVars
  <2>3. net[c] \in Seq(Unit) /\ Len(net[c]) \in Nat OBVIOUS
  <2> HIDE DEF Unit
  <2>4. SubSeq(net[c], 1, k) \in Seq(Unit) BY ONLY <2>3, k \in 0 .. Len(net[c])
  <2> QED BY <2>1, <2>2, <2>4
<1> QED BY <1>1, <1>2, <1>3, <1>4, <1>5, <1>6, <1>7, <1>8, <1>9, <1>10 DEF Next, Handler

----------------------------------------------------------------------------
(* Connections.                                                             *)

LEMMA ConnInit == ASSUME StreamConstants PROVE Init => ConnInv
<1> SUFFICES ASSUME Init PROVE ConnInv
    OBVIOUS
<1>1. Opened = {} BY DEF Init, Opened
<1>2. Made = 0 /\ IsFiniteSet(Opened)
  <2>1. Made = Cardinality(Opened) BY DEF Made, Opened
  <2> QED BY <1>1, <2>1, FS_EmptySet
<1>3. Opened = 1 .. Made BY <1>1, <1>2
<1>4. conn = 0 /\ open = {} /\ sends = << >>
      /\ \A c \in Conns : buf[c] = << >> /\ net[c] = << >>
      BY DEF Init
<1> QED BY <1>2, <1>3, <1>4 DEF ConnInv

\* Connections are made one by one and none is made again.
LEMMA ConnSame ==
  ASSUME ConnInv, \A c \in Conns : handler'[c] = "none" <=> handler[c] = "none",
         conn' = 0 \/ conn' = conn, open' \subseteq open,
         sends' = sends \/ \E r : sends' = Append(sends, r) /\ r.conn = conn /\ sends \in Seq(Calls),
         \A c \in Conns : handler[c] = "none" => buf'[c] = buf[c] /\ net'[c] = net[c]
  PROVE  ConnInv'
<1>1. Opened' = Opened BY DEF Opened
<1>2. Made' = Made
  <2>1. Made = Cardinality(Opened) BY DEF Made, Opened
  <2>2. Made' = Cardinality(Opened') BY DEF Made, Opened
  <2> QED BY <1>1, <2>1, <2>2
<1>3. \A m \in DOMAIN sends' : sends'[m].conn = 0 \/ sends'[m].conn \in Opened
  <2>1. CASE sends' = sends BY <2>1 DEF ConnInv
  <2>2. ASSUME NEW r, sends' = Append(sends, r), r.conn = conn, sends \in Seq(Calls)
        PROVE  \A m \in DOMAIN sends' : sends'[m].conn = 0 \/ sends'[m].conn \in Opened
    <3>1. \A m \in DOMAIN sends' : sends'[m] = r \/ (m \in DOMAIN sends /\ sends'[m] = sends[m])
          BY <2>2
    <3> QED BY <2>2, <3>1 DEF ConnInv
  <2> QED BY <2>1, <2>2
<1>4. \A c \in Conns \ Opened : buf'[c] = << >> /\ net'[c] = << >> BY DEF ConnInv, Opened
<1> QED BY <1>1, <1>2, <1>3, <1>4 DEF ConnInv

LEMMA ConnStep ==
  ASSUME StreamConstants, Shape, ConnInv, [Next]_vars
  PROVE  ConnInv'
<1>1. CASE Connect
  <2> DEFINE n == Made + 1
  <2>0. Made = Cardinality(Opened) /\ Made' = Cardinality(Opened') BY DEF Made, Opened
  <2>1. /\ n \in Conns /\ n \notin Opened /\ Made \in Nat
        BY <1>1 DEF Connect, Conns, ConnInv, StreamConstants
  <2>2. /\ conn' = n /\ open' = open \cup {n}
        /\ handler' = [handler EXCEPT ![n] = "backlog"]
        /\ UNCHANGED <<net, buf, sends>>
        BY <1>1 DEF Connect
  <2> HIDE DEF n
  <2>3. Opened' = Opened \cup {n} BY <2>1, <2>2 DEF Opened, Shape
  <2>4. IsFiniteSet(Opened') /\ Made' = n
    <3>1. IsFiniteSet(Opened) BY DEF ConnInv
    <3>2. IsFiniteSet(Opened \cup {n}) /\ Cardinality(Opened \cup {n}) = Cardinality(Opened) + 1
          BY <2>1, <3>1, FS_AddElement
    <3> QED BY <2>0, <2>3, <3>2 DEF n
  <2>5. Opened' = 1 .. Made'
    <3>1. Opened = 1 .. Made BY DEF ConnInv
    <3>2. 1 .. n = (1 .. Made) \cup {n} BY <2>1 DEF n
    <3> QED BY <2>3, <2>4, <3>1, <3>2
  <2>6. Made' \in Nat BY <2>1, <2>4 DEF n
  <2>7. open' \subseteq Opened' /\ conn' \in Opened' BY <2>2, <2>3 DEF ConnInv
  <2>8. \A m \in DOMAIN sends' : sends'[m].conn = 0 \/ sends'[m].conn \in Opened'
        BY <2>2, <2>3 DEF ConnInv
  <2>9. \A c \in Conns \ Opened' : buf'[c] = << >> /\ net'[c] = << >>
        BY <2>2, <2>3 DEF ConnInv
  <2> QED BY <2>4, <2>5, <2>6, <2>7, <2>8, <2>9 DEF ConnInv
<1>2. CASE Dial \/ DialFails \/ StationStop \/ ReadEnds \/ UNCHANGED vars \/ ActuatorStop
  <2>1. /\ UNCHANGED <<handler, net, buf, sends>>
        /\ open' \subseteq open /\ (conn' = 0 \/ conn' = conn)
        BY <1>2 DEF Dial, DialFails, StationStop, ReadEnds, ActuatorStop, vars, stationVars,
                    actuatorVars
  <2> QED BY <2>1, ConnSame
<1>3. CASE Send
  <2>1. PICK k \in 0 .. Size, ok \in BOOLEAN :
           /\ sends' = Append(sends, [conn |-> conn, units |-> k, ok |-> ok])
           /\ [conn |-> conn, units |-> k, ok |-> ok] \in Calls
           /\ ok <=> k = Size
           /\ \/ conn \notin open /\ net' = net
              \/ /\ conn \in open
                 /\ net' = [net EXCEPT ![conn] =
                              @ \o SubSeq(FrameOf(Len(sends) + 1), 1, k)]
        BY <1>3, SendParts
  <2>2. UNCHANGED <<conn, open, handler, buf>> BY <1>3 DEF Send, actuatorVars
  <2> DEFINE r == [conn |-> conn, units |-> k, ok |-> ok]
  <2>3. sends' = Append(sends, r) /\ r.conn = conn /\ sends \in Seq(Calls)
        BY <2>1 DEF Shape
  <2>4. \A c \in Conns : handler[c] = "none" => net'[c] = net[c]
    <3>1. CASE net' = net BY <3>1
    <3>2. CASE conn \in open
      <4>1. handler[conn] # "none" BY <3>2 DEF ConnInv, Opened
      <4>2. \A c \in Conns : c # conn => net'[c] = net[c] BY <2>1, <3>2 DEF Shape
      <4> QED BY <4>1, <4>2
    <3> QED BY <2>1, <3>1, <3>2
  <2> HIDE DEF r
  <2>5. \E x : sends' = Append(sends, x) /\ x.conn = conn /\ sends \in Seq(Calls) BY <2>3
  <2> QED BY <2>2, <2>4, <2>5, ConnSame
<1>4. ASSUME NEW c \in Conns, Handler(c) \/ Break(c) PROVE ConnInv'
  <2>1. handler[c] # "none"
    <3>1. CASE Break(c) BY <3>1 DEF Break, ConnInv, Opened
    <3>2. CASE Handler(c) BY <3>2 DEF Handler, Accept, Recv, TakeFrame, HandlerEnds
    <3> QED BY <1>4, <3>1, <3>2
  <2>2. /\ \A d \in Conns : d # c => handler'[d] = handler[d] /\ net'[d] = net[d]
                                     /\ buf'[d] = buf[d]
        /\ handler'[c] # "none" /\ sends' = sends /\ conn' = conn /\ open' \subseteq open
    <3>1. CASE Break(c) BY <2>1, <3>1 DEF Break, Shape, stationVars, actuatorVars
    <3>2. CASE Accept(c) BY <3>2 DEF Accept, Shape, stationVars
    <3>3. CASE Recv(c) BY <2>1, <3>3 DEF Recv, Shape, stationVars
    <3>4. CASE TakeFrame(c) BY <2>1, <3>4 DEF TakeFrame, Shape, stationVars
    <3>5. CASE HandlerEnds(c) BY <3>5 DEF HandlerEnds, Shape, stationVars
    <3> QED BY <1>4, <3>1, <3>2, <3>3, <3>4, <3>5 DEF Handler
  <2> QED BY <2>1, <2>2, ConnSame
<1> QED BY <1>1, <1>2, <1>3, <1>4 DEF Next

----------------------------------------------------------------------------
(* What is on the connections.                                              *)

\* The units come in the order they were written, and no unit that was not.
UnitInv(c) ==
  /\ InOrder(Stream(c))
  /\ \A i \in DOMAIN Stream(c) : LET u == Stream(c)[i] IN
       /\ u[1] \in DOMAIN sends /\ sends[u[1]].conn = c
       /\ u[2] <= sends[u[1]].units

SendInv == \A m \in DOMAIN sends : sends[m].ok <=> sends[m].units = Size

\* What was executed was sent whole, and what is still on its connection was
\* sent later.
ExecInv ==
  \A i \in DOMAIN executed : LET e == executed[i] IN
    /\ e.cmd \in DOMAIN sends /\ sends[e.cmd].conn = e.conn /\ sends[e.cmd].ok
    /\ \A j \in DOMAIN Stream(e.conn) : e.cmd < Stream(e.conn)[j][1]

\* Of each unit the whole frame is there.
Whole(s) == \A p \in DOMAIN s : \A k \in 1 .. Size :
              /\ p - s[p][2] + k \in DOMAIN s
              /\ s[p - s[p][2] + k] = <<s[p][1], k>>

StepInv(c) == /\ Range(Stream(c)) = Waiting(c) \X (1 .. Size)
              /\ Whole(Stream(c))

WrittenInv == /\ SendInv /\ ExecInv /\ OnceInOrder
              /\ \A c \in Conns : UnitInv(c)
              /\ \A c \in open : ~Torn(c) => StepInv(c)

LEMMA WrittenInit == ASSUME StreamConstants PROVE Init => WrittenInv
<1> SUFFICES ASSUME Init PROVE WrittenInv
    OBVIOUS
<1>1. /\ open = {} /\ sends = << >> /\ executed = << >>
      /\ \A c \in Conns : buf[c] = << >> /\ net[c] = << >>
      BY DEF Init
<1>2. DOMAIN sends = {} /\ DOMAIN executed = {} BY <1>1
<1>3. \A c \in Conns : Stream(c) = << >> BY <1>1 DEF Stream
<1>4. \A c \in Conns : UnitInv(c) BY <1>3 DEF UnitInv, InOrder
<1> QED BY <1>1, <1>2, <1>4 DEF WrittenInv, SendInv, ExecInv, OnceInOrder

\* A stretch of a list in order.
LEMMA PartInOrder ==
  ASSUME NEW s \in Seq(Unit), NEW t \in Seq(Unit), NEW e \in Nat, Len(t) + e <= Len(s),
         \A i \in 1 .. Len(t) : t[i] = s[e + i], InOrder(s)
  PROVE  /\ InOrder(t)
         /\ \A i \in DOMAIN t : \E j \in DOMAIN s : t[i] = s[j]
<1> HIDE DEF Unit
<1>1. Len(s) \in Nat /\ Len(t) \in Nat /\ DOMAIN s = 1 .. Len(s) /\ DOMAIN t = 1 .. Len(t)
      OBVIOUS
<1>2. \A i \in 1 .. Len(t) : e + i \in 1 .. Len(s) BY <1>1
<1>3. ASSUME NEW i \in 1 .. Len(t), NEW j \in 1 .. Len(t), i < j PROVE Before(t[i], t[j])
  <2>1. e + i < e + j BY <1>3
  <2> QED BY <1>1, <1>2, <2>1 DEF InOrder
<1> QED BY <1>1, <1>2, <1>3 DEF InOrder

\* Streams that have lost units and gained none.
LEMMA LessUnits ==
  ASSUME Shape, Shape', WrittenInv, sends' = sends,
         \A d \in Conns : \E e \in Nat :
           /\ Len(Stream(d)') + e <= Len(Stream(d))
           /\ \A i \in 1 .. Len(Stream(d)') : Stream(d)'[i] = Stream(d)[e + i]
  PROVE  \A d \in Conns : /\ UnitInv(d)'
                          /\ \A i \in DOMAIN Stream(d)' : \E j \in DOMAIN Stream(d) :
                               Stream(d)'[i] = Stream(d)[j]
<1>1. \A d \in Conns : Stream(d) \in Seq(Unit) /\ Stream(d)' \in Seq(Unit)
      BY StreamTyped, StreamTypedNext
<1> HIDE DEF Unit
<1>2. ASSUME NEW d \in Conns
      PROVE  /\ InOrder(Stream(d)')
             /\ \A i \in DOMAIN Stream(d)' : \E j \in DOMAIN Stream(d) :
                  Stream(d)'[i] = Stream(d)[j]
  <2>1. PICK e \in Nat : /\ Len(Stream(d)') + e <= Len(Stream(d))
                         /\ \A i \in 1 .. Len(Stream(d)') : Stream(d)'[i] = Stream(d)[e + i]
        OBVIOUS
  <2>2. Stream(d) \in Seq(Unit) /\ Stream(d)' \in Seq(Unit) BY <1>1
  <2>3. InOrder(Stream(d)) BY DEF WrittenInv, UnitInv
  <2> DEFINE s == Stream(d)
             t == Stream(d)'
  <2>4. /\ s \in Seq(Unit) /\ t \in Seq(Unit) /\ Len(t) + e <= Len(s) /\ InOrder(s)
        /\ \A i \in 1 .. Len(t) : t[i] = s[e + i]
        BY <2>1, <2>2, <2>3
  <2> HIDE DEF s, t
  <2>5. InOrder(t) /\ \A i \in DOMAIN t : \E j \in DOMAIN s : t[i] = s[j]
        BY ONLY <2>4, PartInOrder, e \in Nat
  <2> QED BY <2>5 DEF s, t
<1>3. ASSUME NEW d \in Conns PROVE UnitInv(d)'
  <2>1. \A i \in DOMAIN Stream(d) : LET u == Stream(d)[i] IN
          u[1] \in DOMAIN sends /\ sends[u[1]].conn = d /\ u[2] <= sends[u[1]].units
        BY DEF WrittenInv, UnitInv
  <2> QED BY <1>2, <2>1 DEF UnitInv
<1> QED BY <1>2, <1>3

LEMMA LessIsFine ==
  ASSUME Shape, Shape', ConnInv, WrittenInv, sends' = sends, executed' = executed,
         \A d \in Conns : \E e \in Nat :
           /\ Len(Stream(d)') + e <= Len(Stream(d))
           /\ \A i \in 1 .. Len(Stream(d)') : Stream(d)'[i] = Stream(d)[e + i],
         \A d \in open' : \/ Stream(d)' = Stream(d) /\ (d \in open \/ d \notin Opened)
                          \/ Torn(d)
  PROVE  WrittenInv'
<1>1. \A d \in Conns : Stream(d) \in Seq(Unit) /\ Stream(d)' \in Seq(Unit)
      BY StreamTyped, StreamTypedNext
<1> HIDE DEF Unit
<1>2. \A d \in Conns : /\ UnitInv(d)'
                       /\ \A i \in DOMAIN Stream(d)' : \E j \in DOMAIN Stream(d) :
                            Stream(d)'[i] = Stream(d)[j]
      BY LessUnits
<1>3. \A d \in Conns : UnitInv(d)' BY <1>2
<1>4. ExecInv'
  <2>1. ASSUME NEW i \in DOMAIN executed
        PROVE  \A j \in DOMAIN Stream(executed[i].conn)' :
                 executed[i].cmd < Stream(executed[i].conn)'[j][1]
    <3>1. executed[i].conn \in Conns
      <4>1. executed[i] \in Runs BY DEF Shape
      <4> QED BY <4>1 DEF Runs
    <3>2. \A j \in DOMAIN Stream(executed[i].conn) :
            executed[i].cmd < Stream(executed[i].conn)[j][1]
          BY DEF WrittenInv, ExecInv
    <3> QED BY <1>2, <3>1, <3>2
  <2> QED BY <2>1 DEF WrittenInv, ExecInv
<1>5. ASSUME NEW d \in open', ~Torn(d)' PROVE StepInv(d)'
  <2>1. Waiting(d)' = Waiting(d) /\ ~Torn(d) BY <1>5 DEF Waiting, Torn
  <2>2. Stream(d)' = Stream(d) /\ (d \in open \/ d \notin Opened) BY <1>5, <2>1
  <2>3. CASE d \in open
    <3>1. StepInv(d) BY <2>1, <2>3 DEF WrittenInv
    <3> QED BY <2>1, <2>2, <3>1 DEF StepInv
  <2>4. CASE d \notin Opened
    <3>1. d \in Conns BY DEF Shape
    <3>2. buf[d] = << >> /\ net[d] = << >> BY <2>4, <3>1 DEF ConnInv
    <3>3. Stream(d) = << >> BY <3>2 DEF Stream
    <3>4. Waiting(d) = {}
      <4>1. d # 0 BY <3>1 DEF Conns
      <4> QED BY <2>4, <4>1 DEF Waiting, ConnInv
    <3>5. DOMAIN Stream(d)' = {} /\ Range(Stream(d)') = {}
          BY <2>2, <3>3 DEF Range
    <3> QED BY <2>1, <3>4, <3>5 DEF StepInv, Whole
  <2> QED BY <2>2, <2>3, <2>4
<1>6. SendInv' /\ OnceInOrder' BY DEF WrittenInv, SendInv, OnceInOrder
<1> QED BY <1>3, <1>4, <1>5, <1>6 DEF WrittenInv

\* A step that leaves the units where they are on each connection, and opens
\* none but a new one.
LEMMA SameIsFine ==
  ASSUME Shape, Shape', ConnInv, WrittenInv, sends' = sends, executed' = executed,
         net' = net, buf' = buf, \A d \in open' : d \in open \/ d \notin Opened
  PROVE  WrittenInv'
<1>1. ASSUME NEW d \in Conns
      PROVE  \E e \in Nat :
               /\ Len(Stream(d)') + e <= Len(Stream(d))
               /\ \A i \in 1 .. Len(Stream(d)') : Stream(d)'[i] = Stream(d)[e + i]
  <2>1. Stream(d)' = Stream(d) BY DEF Stream
  <2>2. Stream(d) \in Seq(Unit) BY StreamTyped
  <2> HIDE DEF Unit
  <2>3. Len(Stream(d)) + 0 <= Len(Stream(d))
        /\ \A i \in 1 .. Len(Stream(d)) : Stream(d)[i] = Stream(d)[0 + i]
        BY <2>2
  <2> QED BY <2>1, <2>3
<1>2. \A d \in open' : Stream(d)' = Stream(d) BY DEF Stream
<1> QED BY <1>1, <1>2, LessIsFine

LEMMA WrittenRecv ==
  ASSUME Shape, Shape', ConnInv, WrittenInv, NEW c \in Conns, Recv(c)
  PROVE  WrittenInv'
<1>1. PICK k \in 1 .. Len(net[c]) :
        /\ buf' = [buf EXCEPT ![c] = @ \o SubSeq(net[c], 1, k)]
        /\ net' = [net EXCEPT ![c] = SubSeq(@, k + 1, Len(@))]
      BY DEF Recv
<1>2. UNCHANGED <<open, sends, executed>> BY DEF Recv, stationVars
<1>3. buf[c] \in Seq(Unit) /\ net[c] \in Seq(Unit) /\ k \in 0 .. Len(net[c]) BY DEF Shape
<1> HIDE DEF Unit
<1>4. (buf[c] \o SubSeq(net[c], 1, k)) \o SubSeq(net[c], k + 1, Len(net[c])) = buf[c] \o net[c]
  <2> DEFINE b == buf[c]
             n == net[c]
  <2>1. b \in Seq(Unit) /\ n \in Seq(Unit) /\ k \in 0 .. Len(n) BY <1>3
  <2> HIDE DEF b, n
  <2>2. b \in Seq(Unit) BY <2>1
  <2>3. n \in Seq(Unit) BY <2>1
  <2>4. k \in 0 .. Len(n) BY <2>1
  <2>5. (b \o SubSeq(n, 1, k)) \o SubSeq(n, k + 1, Len(n)) = b \o n
        BY ONLY <2>2, <2>3, <2>4, StreamRecv
  <2> QED BY <2>5 DEF b, n
<1>5. buf'[c] = buf[c] \o SubSeq(net[c], 1, k)
      /\ net'[c] = SubSeq(net[c], k + 1, Len(net[c]))
      /\ \A d \in Conns : d # c => buf'[d] = buf[d] /\ net'[d] = net[d]
      BY <1>1 DEF Shape
<1>6. \A d \in Conns : Stream(d)' = Stream(d) BY <1>4, <1>5 DEF Stream
<1>7. ASSUME NEW d \in Conns
      PROVE  \E e \in Nat :
               /\ Len(Stream(d)') + e <= Len(Stream(d))
               /\ \A i \in 1 .. Len(Stream(d)') : Stream(d)'[i] = Stream(d)[e + i]
  <2>1. Stream(d) \in Seq(Unit) BY StreamTyped
  <2>2. Len(Stream(d)) + 0 <= Len(Stream(d))
        /\ \A i \in 1 .. Len(Stream(d)) : Stream(d)[i] = Stream(d)[0 + i]
        BY <2>1
  <2> QED BY <1>6, <2>2
<1>8. \A d \in open' : Stream(d)' = Stream(d) /\ d \in open BY <1>2, <1>6 DEF Shape
<1> QED BY <1>2, <1>7, <1>8, LessIsFine

LEMMA WrittenBreak ==
  ASSUME Shape, Shape', ConnInv, WrittenInv, NEW c \in Conns, Break(c)
  PROVE  WrittenInv'
<1>1. PICK k \in 0 .. Len(net[c]) : net' = [net EXCEPT ![c] = SubSeq(@, 1, k)]
      BY DEF Break
<1>2. UNCHANGED <<buf, sends, executed>> /\ open' = open \ {c}
      BY DEF Break, stationVars, actuatorVars
<1>3. buf[c] \in Seq(Unit) /\ net[c] \in Seq(Unit) BY DEF Shape
<1> HIDE DEF Unit
<1>4. net'[c] = SubSeq(net[c], 1, k) /\ \A d \in Conns : d # c => net'[d] = net[d]
      BY <1>1 DEF Shape
<1> DEFINE t == buf[c] \o SubSeq(net[c], 1, k)
           s == buf[c] \o net[c]
<1>5. /\ t \in Seq(Unit) /\ Len(t) <= Len(s) /\ \A i \in 1 .. Len(t) : t[i] = s[i]
  <2> DEFINE b == buf[c]
             n == net[c]
  <2>1. b \in Seq(Unit) /\ n \in Seq(Unit) /\ k \in 0 .. Len(n) BY <1>3
  <2> HIDE DEF b, n
  <2>2. /\ b \o SubSeq(n, 1, k) \in Seq(Unit)
        /\ Len(b \o SubSeq(n, 1, k)) <= Len(b \o n)
        /\ \A i \in 1 .. Len(b \o SubSeq(n, 1, k)) :
             (b \o SubSeq(n, 1, k))[i] = (b \o n)[i]
        BY ONLY <2>1, StreamCut
  <2> QED BY <2>2 DEF b, n
<1>6. Stream(c)' = t /\ Stream(c) = s /\ \A d \in Conns : d # c => Stream(d)' = Stream(d)
      BY <1>2, <1>4 DEF Stream
<1> HIDE DEF s, t
<1>7. ASSUME NEW d \in Conns
      PROVE  \E e \in Nat :
               /\ Len(Stream(d)') + e <= Len(Stream(d))
               /\ \A i \in 1 .. Len(Stream(d)') : Stream(d)'[i] = Stream(d)[e + i]
  <2>1. Stream(d) \in Seq(Unit) BY StreamTyped
  <2>2. CASE d # c
    <3>1. Len(Stream(d)) + 0 <= Len(Stream(d))
          /\ \A i \in 1 .. Len(Stream(d)) : Stream(d)[i] = Stream(d)[0 + i]
          BY <2>1
    <3> QED BY <1>6, <2>2, <3>1
  <2>3. CASE d = c
    <3>1. s \in Seq(Unit) BY <1>6, <2>1, <2>3
    <3>2. Len(t) + 0 <= Len(s) /\ \A i \in 1 .. Len(t) : t[i] = s[0 + i] BY <1>5, <3>1
    <3> QED BY <1>6, <2>3, <3>2
  <2> QED BY <2>2, <2>3
<1>8. \A d \in open' : Stream(d)' = Stream(d) /\ d \in open BY <1>2, <1>6 DEF Shape
<1> QED BY <1>2, <1>7, <1>8, LessIsFine

LEMMA WrittenEnds ==
  ASSUME Shape, Shape', ConnInv, WrittenInv, NEW c \in Conns, HandlerEnds(c)
  PROVE  WrittenInv'
<1>1. /\ UNCHANGED <<sends, executed>> /\ open' = open \ {c}
      /\ net'[c] = << >> /\ buf'[c] = << >>
      /\ \A d \in Conns : d # c => buf'[d] = buf[d] /\ net'[d] = net[d]
      BY DEF HandlerEnds, stationVars, Shape
<1>2. Stream(c)' = << >> /\ \A d \in Conns : d # c => Stream(d)' = Stream(d)
  <2>1. << >> \o << >> = << >> OBVIOUS
  <2> QED BY <1>1, <2>1 DEF Stream
<1> HIDE DEF Unit
<1>3. ASSUME NEW d \in Conns
      PROVE  \E e \in Nat :
               /\ Len(Stream(d)') + e <= Len(Stream(d))
               /\ \A i \in 1 .. Len(Stream(d)') : Stream(d)'[i] = Stream(d)[e + i]
  <2>1. Stream(d) \in Seq(Unit) BY StreamTyped
  <2>2. CASE d # c
    <3>1. Len(Stream(d)) + 0 <= Len(Stream(d))
          /\ \A i \in 1 .. Len(Stream(d)) : Stream(d)[i] = Stream(d)[0 + i]
          BY <2>1
    <3> QED BY <1>2, <2>2, <3>1
  <2>3. CASE d = c
    <3>1. Len(Stream(d)') = 0 /\ 0 + 0 <= Len(Stream(d)) BY <1>2, <2>1, <2>3
    <3>2. 1 .. Len(Stream(d)') = {} BY <3>1
    <3> QED BY <3>1, <3>2
  <2> QED BY <2>2, <2>3
<1>4. \A d \in open' : Stream(d)' = Stream(d) /\ d \in open BY <1>1, <1>2 DEF Shape
<1> QED BY <1>1, <1>3, <1>4, LessIsFine

\* What a record of a call changes.
LEMMA Recorded ==
  ASSUME Shape, WrittenInv, NEW r \in Calls, sends' = Append(sends, r), executed' = executed,
         r.ok <=> r.units = Size
  PROVE  LET m == Len(sends) + 1 IN
           /\ m \in Nat /\ m \in DOMAIN sends' /\ m \notin DOMAIN sends /\ sends'[m] = r
           /\ \A n \in DOMAIN sends : n \in DOMAIN sends' /\ sends'[n] = sends[n] /\ n < m
           /\ SendInv'
           /\ \A d : Torn(d) => Torn(d)'
           /\ \A d : r.conn = d /\ ~r.ok /\ r.units > 0 => Torn(d)'
           /\ \A d : ~(r.conn = d /\ r.ok) => Waiting(d)' = Waiting(d)
           /\ \A d : r.conn = d /\ r.ok => Waiting(d)' = Waiting(d) \cup {m}
<1> DEFINE m == Len(sends) + 1
<1>1. /\ m \in Nat /\ m \in DOMAIN sends' /\ m \notin DOMAIN sends /\ sends'[m] = r
      /\ \A n \in DOMAIN sends : n \in DOMAIN sends' /\ sends'[n] = sends[n] /\ n < m
      /\ DOMAIN sends' = DOMAIN sends \cup {m}
  <2>1. sends \in Seq(Calls) BY DEF Shape
  <2> HIDE DEF Calls
  <2>2. Len(sends) \in Nat /\ DOMAIN sends = 1 .. Len(sends) BY <2>1
  <2> QED BY <2>1, <2>2
<1> HIDE DEF m
<1>2. SendInv' BY <1>1 DEF WrittenInv, SendInv
<1>3. \A d : Torn(d) => Torn(d)' BY <1>1 DEF Torn
<1>4. \A d : r.conn = d /\ ~r.ok /\ r.units > 0 => Torn(d)' BY <1>1 DEF Torn
<1>5. \A d : [conn |-> d, cmd |-> m] \notin Range(executed)
  <2>1. \A i \in DOMAIN executed : executed[i].cmd # m BY <1>1 DEF WrittenInv, ExecInv
  <2> QED BY <2>1 DEF Range
<1>6. \A d : ~(r.conn = d /\ r.ok) => Waiting(d)' = Waiting(d) BY <1>1 DEF Waiting
<1>7. \A d : r.conn = d /\ r.ok => Waiting(d)' = Waiting(d) \cup {m}
      BY <1>1, <1>5 DEF Waiting
<1> QED BY <1>1, <1>2, <1>3, <1>4, <1>6, <1>7 DEF m

\* A stream with the first k units of a new frame.
Longer(s, t, m, k) == /\ Len(t) = Len(s) + k /\ \A i \in 1 .. Len(s) : t[i] = s[i]
                      /\ \A i \in 1 .. k : t[Len(s) + i] = <<m, i>>
                      /\ \A i \in DOMAIN s : s[i][1] < m

LEMMA MoreUnits ==
  ASSUME NEW s \in Seq(Unit), NEW t \in Seq(Unit), NEW m \in Nat, NEW k \in Nat,
         Longer(s, t, m, k), InOrder(s)
  PROVE  InOrder(t) /\ Range(t) = Range(s) \cup ({m} \X (1 .. k))
<1> DEFINE l == Len(s)
<1> HIDE DEF Unit
<1>1. l \in Nat /\ DOMAIN s = 1 .. l OBVIOUS
<1>2. (\A i \in 1 .. l : t[i] = s[i]) /\ \A i \in DOMAIN s : s[i][1] < m BY DEF Longer
<1>3. \A i \in 1 .. k : t[l + i] = <<m, i>> BY DEF Longer
<1>0. Len(t) = l + k /\ DOMAIN t = 1 .. Len(t) BY DEF Longer
<1> HIDE DEF l
<1>4. DOMAIN t = 1 .. l + k BY <1>0
<1>5. \A i \in 1 .. l + k : i \in 1 .. l \/ (\E j \in 1 .. k : i = l + j)
  <2>1. ASSUME NEW i \in 1 .. l + k, i \notin 1 .. l PROVE \E j \in 1 .. k : i = l + j
    <3>1. i - l \in 1 .. k /\ i = l + (i - l) BY <1>1, <2>1
    <3> QED BY <3>1
  <2> QED BY <2>1
<1>6. \A i \in 1 .. l : t[i] = s[i] /\ s[i][1] < m /\ i \in 1 .. l + k BY <1>1, <1>2
<1>7. \A j \in 1 .. k : l + j \in 1 .. l + k BY <1>1
<1>8. InOrder(t)
  <2>1. ASSUME NEW i \in 1 .. l + k, NEW j \in 1 .. l + k, i < j PROVE Before(t[i], t[j])
    <3>1. CASE j \in 1 .. l
      <4>1. i \in 1 .. l BY <1>1, <2>1, <3>1
      <4> QED BY <1>1, <1>6, <2>1, <3>1, <4>1 DEF InOrder
    <3>2. CASE \E y \in 1 .. k : j = l + y
      <4>1. PICK y \in 1 .. k : j = l + y BY <3>2
      <4>2. CASE i \in 1 .. l
        <5>1. t[i][1] < m /\ t[j][1] = m BY <1>3, <1>6, <4>1, <4>2
        <5> QED BY <5>1 DEF Before
      <4>3. CASE \E x \in 1 .. k : i = l + x
        <5>1. PICK x \in 1 .. k : i = l + x BY <4>3
        <5>2. x < y BY <1>1, <2>1, <4>1, <5>1
        <5>3. t[i] = <<m, x>> /\ t[j] = <<m, y>> BY <1>3, <4>1, <5>1
        <5> QED BY <5>2, <5>3 DEF Before
      <4> QED BY <1>5, <4>2, <4>3
    <3> QED BY <1>5, <3>1, <3>2
  <2> QED BY <1>4, <2>1 DEF InOrder
<1>9. Range(t) = Range(s) \cup ({m} \X (1 .. k))
  <2>1. ASSUME NEW u \in Range(t) PROVE u \in Range(s) \cup ({m} \X (1 .. k))
    <3>1. PICK i \in 1 .. l + k : u = t[i] BY <1>4 DEF Range
    <3>2. CASE i \in 1 .. l
      <4>1. u = s[i] /\ i \in DOMAIN s BY <1>1, <1>6, <3>1, <3>2
      <4> QED BY <4>1 DEF Range
    <3>3. CASE \E j \in 1 .. k : i = l + j
      <4>1. PICK j \in 1 .. k : i = l + j BY <3>3
      <4>2. u = <<m, j>> BY <1>3, <3>1, <4>1
      <4> QED BY <4>2
    <3> QED BY <1>5, <3>2, <3>3
  <2>2. ASSUME NEW u \in Range(s) PROVE u \in Range(t) BY <1>1, <1>4, <1>6 DEF Range
  <2>3. ASSUME NEW u \in {m} \X (1 .. k) PROVE u \in Range(t)
    <3>1. PICK j \in 1 .. k : u = <<m, j>> OBVIOUS
    <3>2. t[l + j] = u /\ l + j \in DOMAIN t BY <1>3, <1>4, <1>7, <3>1
    <3> QED BY <3>2 DEF Range
  <2> QED BY <2>1, <2>2, <2>3
<1> QED BY <1>8, <1>9

LEMMA WholeMore ==
  ASSUME NEW s \in Seq(Unit), NEW t, NEW m \in Nat, Size \in Nat, Whole(s),
         DOMAIN t = 1 .. Len(s) + Size, \A i \in 1 .. Len(s) : t[i] = s[i],
         \A i \in 1 .. Size : t[Len(s) + i] = <<m, i>>
  PROVE  Whole(t)
<1> DEFINE l == Len(s)
<1>1. l \in Nat /\ DOMAIN s = 1 .. l OBVIOUS
<1> HIDE DEF l
<1>2. /\ DOMAIN t = 1 .. l + Size /\ \A i \in 1 .. l : t[i] = s[i]
      /\ \A i \in 1 .. Size : t[l + i] = <<m, i>>
      BY DEF l
<1>3. ASSUME NEW p \in 1 .. l + Size, NEW k \in 1 .. Size
      PROVE  /\ p - t[p][2] + k \in 1 .. l + Size
             /\ t[p - t[p][2] + k] = <<t[p][1], k>>
  <2>1. CASE p \in 1 .. l
    <3> DEFINE q == p - s[p][2] + k
    <3>1. q \in 1 .. l /\ s[q] = <<s[p][1], k>> BY <1>1, <2>1 DEF Whole
    <3>2. t[p] = s[p] BY <1>2, <2>1
    <3> HIDE DEF q
    <3>3. t[q] = <<t[p][1], k>> /\ q \in 1 .. l + Size BY <1>1, <1>2, <3>1, <3>2
    <3> QED BY <3>2, <3>3 DEF q
  <2>2. CASE p \notin 1 .. l
    <3> DEFINE j == p - l
    <3>1. j \in 1 .. Size /\ p = l + j BY <1>1, <2>2
    <3>2. t[p] = <<m, j>> BY <1>2, <3>1
    <3> HIDE DEF j
    <3>3. t[p][1] = m /\ t[p][2] = j BY <3>2
    <3>4. p - j + k = l + k /\ l + k \in 1 .. l + Size BY <1>1, <3>1
    <3>5. t[l + k] = <<m, k>> BY <1>2
    <3> QED BY <3>3, <3>4, <3>5
  <2> QED BY <2>1, <2>2
<1> QED BY <1>2, <1>3 DEF Whole

LEMMA WrittenSend ==
  ASSUME StreamConstants, Shape, Shape', ConnInv, WrittenInv, Send
  PROVE  WrittenInv'
<1>1. PICK k \in 0 .. Size, ok \in BOOLEAN :
         /\ sends' = Append(sends, [conn |-> conn, units |-> k, ok |-> ok])
         /\ [conn |-> conn, units |-> k, ok |-> ok] \in Calls
         /\ ok <=> k = Size
         /\ \/ conn \notin open /\ net' = net
            \/ /\ conn \in open
               /\ net' = [net EXCEPT ![conn] =
                            @ \o SubSeq(FrameOf(Len(sends) + 1), 1, k)]
      BY SendParts
<1>2. UNCHANGED <<conn, open, buf, executed>> BY DEF Send, actuatorVars
<1> DEFINE r == [conn |-> conn, units |-> k, ok |-> ok]
           m == Len(sends) + 1
<1>3. r \in Calls /\ sends' = Append(sends, r) /\ (r.ok <=> r.units = Size)
      /\ r.conn = conn /\ r.units = k /\ r.ok = ok
      BY <1>1
<1> HIDE DEF r
<1>4. /\ m \in Nat /\ m \in DOMAIN sends' /\ m \notin DOMAIN sends /\ sends'[m] = r
      /\ \A n \in DOMAIN sends : n \in DOMAIN sends' /\ sends'[n] = sends[n] /\ n < m
      /\ SendInv'
      /\ \A d : Torn(d) => Torn(d)'
      /\ \A d : r.conn = d /\ ~r.ok /\ r.units > 0 => Torn(d)'
      /\ \A d : ~(r.conn = d /\ r.ok) => Waiting(d)' = Waiting(d)
      /\ \A d : r.conn = d /\ r.ok => Waiting(d)' = Waiting(d) \cup {m}
      BY <1>2, <1>3, Recorded
<1>5. Size \in Nat /\ Size # 0 BY DEF StreamConstants
<1>6. open \subseteq Conns BY DEF Shape
<1> HIDE DEF Unit, Calls
<1>7. ASSUME NEW d \in Conns, Stream(d)' = Stream(d) PROVE UnitInv(d)'
      BY <1>4, <1>7 DEF WrittenInv, UnitInv
<1>8. ASSUME NEW d \in open, Stream(d)' = Stream(d), ~Torn(d)', ~(r.conn = d /\ r.ok)
      PROVE  StepInv(d)'
      BY <1>4, <1>8 DEF WrittenInv, StepInv
<1>9. ASSUME NEW i \in DOMAIN executed,
             \A j \in DOMAIN Stream(executed[i].conn)' :
               \/ /\ j \in DOMAIN Stream(executed[i].conn)
                  /\ Stream(executed[i].conn)'[j] = Stream(executed[i].conn)[j]
               \/ Stream(executed[i].conn)'[j][1] = m
      PROVE  LET e == executed[i] IN
               /\ e.cmd \in DOMAIN sends' /\ sends'[e.cmd].conn = e.conn /\ sends'[e.cmd].ok
               /\ \A j \in DOMAIN Stream(e.conn)' : e.cmd < Stream(e.conn)'[j][1]
  <2>1. LET e == executed[i] IN
          /\ e.cmd \in DOMAIN sends /\ sends[e.cmd].conn = e.conn /\ sends[e.cmd].ok
          /\ \A j \in DOMAIN Stream(e.conn) : e.cmd < Stream(e.conn)[j][1]
        BY DEF WrittenInv, ExecInv
  <2> HIDE DEF m
  <2> QED BY <1>4, <1>9, <2>1
<1>10. OnceInOrder' BY <1>2 DEF WrittenInv, OnceInOrder
<1> HIDE DEF m
<1>11. CASE conn \notin open /\ net' = net
  <2>1. \A d \in Conns : Stream(d)' = Stream(d) BY <1>2, <1>11 DEF Stream
  <2>2. \A d \in Conns : UnitInv(d)' BY <1>7, <2>1
  <2>3. \A d \in open' : ~Torn(d)' => StepInv(d)' BY <1>2, <1>3, <1>6, <1>8, <1>11, <2>1
  <2>4. \A i \in DOMAIN executed : executed[i].conn \in Conns
    <3>1. \A i \in DOMAIN executed : executed[i] \in Runs BY DEF Shape
    <3> QED BY <3>1 DEF Runs
  <2>5. ExecInv' BY <1>2, <1>9, <2>1, <2>4 DEF ExecInv
  <2> QED BY <1>4, <1>10, <2>2, <2>3, <2>5 DEF WrittenInv
<1>12. CASE conn \in open /\ net' = [net EXCEPT ![conn] = @ \o SubSeq(FrameOf(m), 1, k)]
  <2>0. PICK c \in Conns : c = conn BY <1>6, <1>12
  <2> DEFINE f == SubSeq(FrameOf(m), 1, k)
             s == Stream(c)
             t == s \o f
  <2>1. f \in Seq(Unit) /\ Len(f) = k /\ \A i \in 1 .. k : f[i] = <<m, i>>
        BY <1>4, FramePart
  <2>2. c \in Conns /\ s \in Seq(Unit) BY StreamTyped
  <2>3. Stream(c)' = t /\ \A d \in Conns : d # c => Stream(d)' = Stream(d)
    <3>1. net'[c] = net[c] \o f /\ \A d \in Conns : d # c => net'[d] = net[d]
          BY <1>12, <2>0, <2>2 DEF Shape
    <3>2. buf[c] \in Seq(Unit) /\ net[c] \in Seq(Unit) BY <2>2 DEF Shape
    <3> HIDE DEF f
    <3> DEFINE b == buf[c]
               n == net[c]
    <3>3. b \in Seq(Unit) /\ n \in Seq(Unit) BY <3>2
    <3> HIDE DEF b, n
    <3>4. b \o (n \o f) = (b \o n) \o f BY ONLY <2>1, <3>3, StreamSend
    <3> QED BY <1>2, <3>1, <3>4 DEF b, n, Stream
  <2> HIDE DEF f
  <2>4. InOrder(s) /\ \A i \in DOMAIN s : s[i][1] < m
    <3>1. UnitInv(c) BY <2>2 DEF WrittenInv
    <3> QED BY <1>4, <3>1 DEF UnitInv
  <2> HIDE DEF s
  <2>5. k \in Nat BY <1>5
  <2>6. /\ DOMAIN t = 1 .. Len(s) + k
        /\ \A i \in 1 .. Len(s) : t[i] = s[i]
        /\ \A i \in 1 .. k : t[Len(s) + i] = <<m, i>>
        /\ InOrder(t)
        /\ Range(t) = Range(s) \cup ({m} \X (1 .. k))
    <3>1. /\ t \in Seq(Unit) /\ Len(t) = Len(s) + Len(f)
          /\ \A i \in 1 .. Len(s) : t[i] = s[i]
          /\ \A i \in 1 .. Len(f) : t[Len(s) + i] = f[i]
      <4>1. s \in Seq(Unit) /\ f \in Seq(Unit) BY <2>1, <2>2
      <4> QED BY ONLY <4>1, ConcatIs
    <3> HIDE DEF t
    <3>2. Len(t) = Len(s) + k BY <2>1, <3>1
    <3>3. \A i \in 1 .. k : t[Len(s) + i] = <<m, i>> BY <2>1, <3>1
    <3>4. DOMAIN t = 1 .. Len(s) + k BY <3>1, <3>2
    <3>5. m \in Nat /\ k \in Nat /\ s \in Seq(Unit) /\ t \in Seq(Unit)
          BY <1>4, <2>2, <2>5, <3>1
    <3>6. InOrder(t) /\ Range(t) = Range(s) \cup ({m} \X (1 .. k))
      <4>1. Longer(s, t, m, k) BY <2>4, <3>1, <3>2, <3>3 DEF Longer
      <4>2. InOrder(s) BY <2>4
      <4> QED BY ONLY <4>1, <4>2, <3>5, MoreUnits
    <3> QED BY <3>1, <3>3, <3>4, <3>6
  <2> HIDE DEF t
  <2>7. Len(s) \in Nat /\ DOMAIN s = 1 .. Len(s) BY <2>2
  <2>8. ASSUME NEW i \in DOMAIN t
        PROVE  (i \in DOMAIN s /\ t[i] = s[i]) \/ \E j \in 1 .. k : t[i] = <<m, j>>
    <3>1. i \in 1 .. Len(s) + k BY <2>6
    <3>2. CASE i \in 1 .. Len(s) BY <2>6, <2>7, <3>2
    <3>3. CASE i \notin 1 .. Len(s)
      <4>1. i - Len(s) \in 1 .. k /\ Len(s) + (i - Len(s)) = i BY <2>5, <2>7, <3>1, <3>3
      <4> QED BY <2>6, <4>1
    <3> QED BY <3>2, <3>3
  <2>9. UnitInv(c)'
    <3>1. \A i \in DOMAIN s : /\ s[i][1] \in DOMAIN sends /\ sends[s[i][1]].conn = c
                              /\ s[i][2] <= sends[s[i][1]].units
          BY <2>2 DEF WrittenInv, UnitInv, s
    <3>2. ASSUME NEW i \in DOMAIN t
          PROVE  /\ t[i][1] \in DOMAIN sends' /\ sends'[t[i][1]].conn = c
                 /\ t[i][2] <= sends'[t[i][1]].units
      <4>1. CASE i \in DOMAIN s /\ t[i] = s[i] BY <1>4, <3>1, <4>1
      <4>2. CASE \E j \in 1 .. k : t[i] = <<m, j>>
        <5>1. PICK j \in 1 .. k : t[i] = <<m, j>> BY <4>2
        <5>2. j <= k BY <2>5
        <5> QED BY <1>3, <1>4, <2>0, <5>1, <5>2
      <4> QED BY <2>8, <4>1, <4>2
    <3> QED BY <1>2, <2>3, <2>6, <3>2 DEF UnitInv
  <2>10. \A d \in Conns : UnitInv(d)' BY <1>7, <2>3, <2>9
  <2>11. ExecInv'
    <3>1. \A i \in DOMAIN executed : executed[i].conn \in Conns
      <4>1. \A i \in DOMAIN executed : executed[i] \in Runs BY DEF Shape
      <4> QED BY <4>1 DEF Runs
    <3>2. ASSUME NEW d \in Conns, NEW j \in DOMAIN Stream(d)'
          PROVE  \/ j \in DOMAIN Stream(d) /\ Stream(d)'[j] = Stream(d)[j]
                 \/ Stream(d)'[j][1] = m
      <4>1. CASE d # c BY <2>3, <4>1
      <4>2. CASE d = c BY <2>3, <2>8, <4>2 DEF s
      <4> QED BY <4>1, <4>2
    <3> QED BY <1>2, <1>9, <3>1, <3>2 DEF ExecInv
  <2>12. ASSUME ~Torn(c)' PROVE StepInv(c)'
    <3>1. ~Torn(c) /\ (ok \/ ~(k > 0)) BY <1>3, <1>4, <2>0, <2>12
    <3>2. StepInv(c) BY <1>12, <2>0, <3>1 DEF WrittenInv
    <3>3. Range(s) = Waiting(c) \X (1 .. Size) /\ Whole(s) BY <3>2 DEF StepInv, s
    <3>4. CASE ok
      <4>1. k = Size /\ Waiting(c)' = Waiting(c) \cup {m} BY <1>1, <1>3, <1>4, <2>0, <3>4
      <4>2. Whole(t) BY ONLY <1>4, <1>5, <2>2, <2>6, <3>3, <4>1, WholeMore
      <4>3. Range(t) = Waiting(c)' \X (1 .. Size) BY <2>6, <3>3, <4>1
      <4> QED BY <2>3, <4>2, <4>3 DEF StepInv
    <3>5. CASE ~ok
      <4>1. k = 0 /\ Waiting(c)' = Waiting(c) BY <1>3, <1>4, <2>0, <2>5, <3>1, <3>5
      <4>2. DOMAIN t = DOMAIN s /\ \A i \in DOMAIN s : t[i] = s[i] BY <2>6, <2>7, <4>1
      <4>3. Range(t) = Range(s) BY <4>2 DEF Range
      <4>4. Whole(t)
        <5>1. \A p \in DOMAIN s : \A x \in 1 .. Size :
                /\ p - s[p][2] + x \in DOMAIN s
                /\ s[p - s[p][2] + x] = <<s[p][1], x>>
              BY <3>3 DEF Whole
        <5> QED BY <4>2, <5>1 DEF Whole
      <4> QED BY <2>3, <3>3, <4>1, <4>3, <4>4 DEF StepInv
    <3> QED BY <3>4, <3>5
  <2>13. \A d \in open' : ~Torn(d)' => StepInv(d)' BY <1>2, <1>3, <1>6, <1>8, <2>0, <2>3, <2>12
  <2> QED BY <1>4, <1>10, <2>10, <2>11, <2>13 DEF WrittenInv
<1> QED BY <1>1, <1>11, <1>12 DEF m

\* A stream from which the frame of command m has been taken.
FrameOff(s, t, m) == /\ Size <= Len(s) /\ \A i \in 1 .. Size : s[i] = <<m, i>>
                     /\ Len(t) = Len(s) - Size
                     /\ \A i \in 1 .. Len(t) : t[i] = s[Size + i]

LEMMA LaterLess ==
  ASSUME NEW s \in Seq(Unit), NEW t \in Seq(Unit), NEW m, Size \in Nat, Size # 0,
         FrameOff(s, t, m), InOrder(s)
  PROVE  \A i \in DOMAIN t : m < t[i][1]
<1>1. /\ Len(s) \in Nat /\ Len(t) \in Nat /\ DOMAIN t = 1 .. Len(t) /\ DOMAIN s = 1 .. Len(s)
      /\ \A i \in 1 .. Len(s) : s[i] \in Unit
      OBVIOUS
<1> HIDE DEF Unit
<1>2. /\ Size <= Len(s) /\ s[Size] = <<m, Size>>
      /\ Len(t) = Len(s) - Size /\ \A i \in 1 .. Len(t) : t[i] = s[Size + i]
      BY DEF FrameOff
<1>3. ASSUME NEW i \in 1 .. Len(t) PROVE m < t[i][1]
  <2>1. Size \in 1 .. Len(s) /\ Size + i \in 1 .. Len(s) /\ Size < Size + i
        BY <1>1, <1>2, <1>3
  <2>2. Before(s[Size], s[Size + i]) BY <1>1, <2>1 DEF InOrder
  <2>3. t[i] = s[Size + i] /\ s[Size + i] \in Unit BY <1>1, <1>2, <2>1
  <2>4. ~(Size < t[i][2]) BY <2>3 DEF Unit
  <2> QED BY <1>2, <2>2, <2>3, <2>4 DEF Before
<1> QED BY <1>1, <1>3

LEMMA WholeLess ==
  ASSUME NEW s \in Seq(Unit), NEW t \in Seq(Unit), NEW m, Size \in Nat, Size # 0,
         FrameOff(s, t, m), InOrder(s), Whole(s)
  PROVE  Whole(t) /\ Range(t) = {u \in Range(s) : u[1] # m}
<1>1. /\ Len(s) \in Nat /\ Len(t) \in Nat /\ DOMAIN t = 1 .. Len(t) /\ DOMAIN s = 1 .. Len(s)
      /\ \A i \in 1 .. Len(t) : t[i] \in Unit
      OBVIOUS
<1> HIDE DEF Unit
<1>2. /\ Size <= Len(s) /\ \A i \in 1 .. Size : s[i] = <<m, i>>
      /\ Len(t) = Len(s) - Size /\ \A i \in 1 .. Len(t) : t[i] = s[Size + i]
      BY DEF FrameOff
<1>3. \A i \in 1 .. Len(t) : t[i][1] # m
  <2>1. \A i \in DOMAIN t : m < t[i][1] BY LaterLess
  <2>2. ASSUME m < m PROVE FALSE
    <3>1. 1 \in 1 .. Size /\ 1 \in 1 .. Len(s) BY <1>1, <1>2
    <3>2. s[1] = <<m, 1>> /\ s[1] \in Unit BY <1>2, <3>1
    <3>3. m \in Nat BY <3>2 DEF Unit
    <3> QED BY <2>2, <3>3
  <2> QED BY <1>1, <2>1, <2>2
<1>4. ASSUME NEW q \in 1 .. Len(s), s[q][1] # m
      PROVE  q - Size \in 1 .. Len(t) /\ t[q - Size] = s[q]
  <2>1. q \notin 1 .. Size BY <1>2, <1>4
  <2>2. q - Size \in 1 .. Len(t) /\ Size + (q - Size) = q BY <1>1, <1>2, <2>1
  <2> QED BY <1>2, <2>2
<1>5. ASSUME NEW p \in 1 .. Len(t), NEW k \in 1 .. Size
      PROVE  /\ p - t[p][2] + k \in 1 .. Len(t)
             /\ t[p - t[p][2] + k] = <<t[p][1], k>>
  <2>1. Size + p \in 1 .. Len(s) /\ s[Size + p] = t[p] BY <1>1, <1>2
  <2> DEFINE q == (Size + p) - t[p][2] + k
  <2>2. q \in 1 .. Len(s) /\ s[q] = <<t[p][1], k>>
    <3>1. (Size + p) - s[Size + p][2] + k \in 1 .. Len(s)
          /\ s[(Size + p) - s[Size + p][2] + k] = <<s[Size + p][1], k>>
          BY <1>1, <2>1 DEF Whole
    <3> QED BY <2>1, <3>1
  <2>3. t[p][2] \in Int
    <3>1. t[p] \in Unit BY <1>1
    <3> QED BY <3>1 DEF Unit
  <2>4. q - Size = p - t[p][2] + k BY <2>3
  <2> HIDE DEF q
  <2>5. s[q][1] # m BY <1>3, <2>2
  <2> QED BY <1>4, <2>2, <2>4, <2>5
<1>6. Range(t) = {u \in Range(s) : u[1] # m}
  <2>1. ASSUME NEW u \in Range(t) PROVE u \in Range(s) /\ u[1] # m
    <3>1. PICK i \in 1 .. Len(t) : u = t[i] BY <1>1 DEF Range
    <3>2. Size + i \in 1 .. Len(s) /\ u = s[Size + i] BY <1>1, <1>2, <3>1
    <3> QED BY <1>1, <1>3, <3>1, <3>2 DEF Range
  <2>2. ASSUME NEW u \in Range(s), u[1] # m PROVE u \in Range(t)
    <3>1. PICK q \in 1 .. Len(s) : u = s[q] BY <1>1 DEF Range
    <3>2. q - Size \in DOMAIN t /\ t[q - Size] = u BY <1>1, <1>4, <2>2, <3>1
    <3> QED BY <3>2 DEF Range
  <2> QED BY <2>1, <2>2
<1> QED BY <1>1, <1>5, <1>6 DEF Whole

\* What _process_buffer takes.
LEMMA Taken ==
  ASSUME StreamConstants, Shape, Shape', NEW c \in Conns, TakeFrame(c)
  PROVE  \E e \in Nat, raw \in Seq(Unit) :
           /\ e >= 2 /\ e <= Len(Stream(c)) /\ Len(raw) = e
           /\ \A i \in 1 .. e : raw[i] = Stream(c)[i]
           /\ Stream(c)[2][2] = 2 => e = Size
           /\ Len(Stream(c)') = Len(Stream(c)) - e
           /\ \A i \in 1 .. Len(Stream(c)') : Stream(c)'[i] = Stream(c)[e + i]
           /\ \A d \in Conns : d # c => Stream(d)' = Stream(d)
           /\ executed' = IF Valid(raw)
                          THEN Append(executed, [conn |-> c, cmd |-> raw[1][1]])
                          ELSE executed
<1> DEFINE b == buf[c]
           n == net[c]
           e == FrameEnd(b)
           raw == SubSeq(b, 1, e)
<1>1. b \in Seq(Unit) /\ n \in Seq(Unit) BY DEF Shape
<1>2. e \in 2 .. Len(b) /\ Len(b) \in Nat /\ 2 \in 1 .. Len(b)
      BY FrameEndIs DEF TakeFrame
<1>3. b[2][2] = 2 => e = Size BY DEF FrameEnd
<1>4. executed' = IF Valid(raw)
                  THEN Append(executed, [conn |-> c, cmd |-> raw[1][1]])
                  ELSE executed
      BY DEF TakeFrame
<1>5. Stream(c) = b \o n /\ Stream(c)' = SubSeq(b, e + 1, Len(b)) \o n
      /\ \A d \in Conns : d # c => Stream(d)' = Stream(d)
  <2>1. buf' = [buf EXCEPT ![c] = Rest(@)] /\ net' = net BY DEF TakeFrame
  <2>2. buf'[c] = Rest(buf[c]) /\ \A d \in Conns : d # c => buf'[d] = buf[d]
        BY <2>1 DEF Shape
  <2> QED BY <2>1, <2>2 DEF Stream, Rest
<1> HIDE DEF Unit, b, n, e
<1>6. raw \in Seq(Unit) /\ Len(raw) = e /\ \A i \in 1 .. e : raw[i] = b[i]
  <2>1. 0 \in Nat /\ e \in 0 .. Len(b) /\ 0 <= e /\ e - 0 = e BY <1>2
  <2>2. /\ SubSeq(b, 0 + 1, e) \in Seq(Unit) /\ Len(SubSeq(b, 0 + 1, e)) = e - 0
        /\ \A i \in 1 .. e - 0 : SubSeq(b, 0 + 1, e)[i] = b[0 + i]
        BY ONLY <1>1, <2>1, PartIs
  <2>3. \A i \in 1 .. e : 0 + i = i BY <1>2
  <2>4. 0 + 1 = 1 OBVIOUS
  <2> QED BY <2>1, <2>2, <2>3, <2>4
<1> HIDE DEF raw
<1>7. /\ Len(b \o n) = Len(b) + Len(n) /\ Len(n) \in Nat
      /\ \A i \in 1 .. Len(b) : (b \o n)[i] = b[i]
      BY <1>1, ConcatIs
<1>8. LET t == SubSeq(b, e + 1, Len(b)) \o n IN
        Len(t) = Len(b \o n) - e /\ \A i \in 1 .. Len(t) : t[i] = (b \o n)[e + i]
  <2>1. e \in 0 .. Len(b) BY <1>2
  <2> QED BY ONLY <1>1, <2>1, StreamTake
<1>9. e \in Nat /\ e >= 2 /\ e <= Len(b \o n) /\ (b \o n)[2] = b[2] BY <1>2, <1>7
<1>10. \A i \in 1 .. e : i \in 1 .. Len(b) BY <1>2
<1>11. \A i \in 1 .. e : raw[i] = (b \o n)[i] BY <1>6, <1>7, <1>10
<1> DEFINE t == SubSeq(b, e + 1, Len(b)) \o n
           s == b \o n
<1>12. /\ e \in Nat /\ raw \in Seq(Unit) /\ e >= 2 /\ e <= Len(s) /\ Len(raw) = e
       /\ \A i \in 1 .. e : raw[i] = s[i]
       /\ s[2][2] = 2 => e = Size
       /\ Len(t) = Len(s) - e /\ \A i \in 1 .. Len(t) : t[i] = s[e + i]
       BY <1>3, <1>6, <1>8, <1>9, <1>11
<1> HIDE DEF s, t
<1>13. Stream(c) = s /\ Stream(c)' = t BY <1>5 DEF s, t
<1> QED BY <1>4, <1>5, <1>12, <1>13 DEF raw

\* A frame parse_frame accepts.
LEMMA ValidIs ==
  ASSUME Size \in Nat, NEW raw \in Seq(Unit), Len(raw) # 0
  PROVE  Valid(raw) <=> /\ Len(raw) = Size
                        /\ \A i \in 1 .. Size : raw[i] = <<raw[1][1], i>>
<1> HIDE DEF Unit
<1> DEFINE m == raw[1][1]
<1> HIDE DEF m
<1>1. Len(FrameOf(m)) = Size /\ \A i \in 1 .. Size : FrameOf(m)[i] = <<m, i>> BY DEF FrameOf
<1>2. raw = [i \in 1 .. Len(raw) |-> raw[i]] /\ Len(raw) \in Nat OBVIOUS
<1>3. ASSUME Len(raw) = Size, \A i \in 1 .. Size : raw[i] = <<m, i>> PROVE raw = FrameOf(m)
      BY <1>2, <1>3 DEF FrameOf
<1> QED BY <1>1, <1>3 DEF Valid, m

LEMMA WrittenTake ==
  ASSUME StreamConstants, Shape, Shape', ConnInv, WrittenInv, NEW c \in Conns, TakeFrame(c)
  PROVE  WrittenInv'
<1>0. Size \in Nat /\ Size # 0 /\ 2 \in 1 .. Size /\ 1 \in 1 .. Size BY DEF StreamConstants
<1>1. PICK e \in Nat, raw \in Seq(Unit) :
        /\ e >= 2 /\ e <= Len(Stream(c)) /\ Len(raw) = e
        /\ \A i \in 1 .. e : raw[i] = Stream(c)[i]
        /\ Stream(c)[2][2] = 2 => e = Size
        /\ Len(Stream(c)') = Len(Stream(c)) - e
        /\ \A i \in 1 .. Len(Stream(c)') : Stream(c)'[i] = Stream(c)[e + i]
        /\ \A d \in Conns : d # c => Stream(d)' = Stream(d)
        /\ executed' = IF Valid(raw)
                       THEN Append(executed, [conn |-> c, cmd |-> raw[1][1]])
                       ELSE executed
      BY Taken
<1>2. UNCHANGED <<open, sends>> BY DEF TakeFrame, stationVars
<1>3. \A d \in Conns : Stream(d) \in Seq(Unit) /\ Stream(d)' \in Seq(Unit)
      BY StreamTyped, StreamTypedNext
<1>4. open \subseteq Conns BY DEF Shape
<1> DEFINE m == raw[1][1]
<1>5. Valid(raw) <=> Len(raw) = Size /\ \A i \in 1 .. Size : raw[i] = <<m, i>>
  <2>1. Len(raw) # 0 BY <1>1
  <2> HIDE DEF Unit
  <2> QED BY <1>0, <2>1, ValidIs
<1> HIDE DEF Unit, m
<1>6. /\ Len(Stream(c)) \in Nat /\ DOMAIN Stream(c) = 1 .. Len(Stream(c))
      /\ Len(Stream(c)') \in Nat
      BY <1>3
<1>7. ASSUME NEW d \in Conns
      PROVE  \E x \in Nat :
               /\ Len(Stream(d)') + x <= Len(Stream(d))
               /\ \A i \in 1 .. Len(Stream(d)') : Stream(d)'[i] = Stream(d)[x + i]
  <2>1. CASE d # c
    <3>1. Stream(d) \in Seq(Unit) BY <1>3
    <3>2. Len(Stream(d)) + 0 <= Len(Stream(d))
          /\ \A i \in 1 .. Len(Stream(d)) : Stream(d)[i] = Stream(d)[0 + i]
          BY <3>1
    <3>3. Stream(d)' = Stream(d) BY <1>1, <2>1
    <3> QED BY ONLY <3>2, <3>3, 0 \in Nat
  <2>2. CASE d = c
    <3>1. Len(Stream(c)') + e <= Len(Stream(c)) BY <1>1, <1>6
    <3> QED BY <1>1, <2>2, <3>1
  <2> QED BY <2>1, <2>2
\* A reader that is in step finds a frame.
<1>8. ASSUME c \in open, ~Torn(c) PROVE Valid(raw) /\ StepInv(c)
  <2> DEFINE s == Stream(c)
  <2>1. StepInv(c) BY <1>8 DEF WrittenInv
  <2>2. \A p \in DOMAIN s : \A k \in 1 .. Size :
          p - s[p][2] + k \in DOMAIN s /\ s[p - s[p][2] + k] = <<s[p][1], k>>
        BY <2>1 DEF StepInv, Whole
  <2>3. s \in Seq(Unit) /\ e <= Len(s) BY <1>1, <1>3
  <2> HIDE DEF s
  <2>4. 1 \in DOMAIN s /\ DOMAIN s = 1 .. Len(s) BY <1>1, <2>3
  <2>5. s[1][2] \in 1 .. Size
    <3>1. s[1] \in Unit BY <2>3, <2>4
    <3> QED BY <3>1 DEF Unit
  <2>6. 1 - s[1][2] + 1 \in 1 .. Len(s) BY <1>0, <2>2, <2>4
  <2>7. s[1][2] = 1 BY <1>0, <2>5, <2>6
  <2>8. \A k \in 1 .. Size : 1 - s[1][2] + k = k BY <2>7
  <2>9. \A k \in 1 .. Size : k \in DOMAIN s /\ s[k] = <<s[1][1], k>> BY <2>2, <2>4, <2>8
  <2>10. s[2][2] = 2 BY <1>0, <2>9
  <2>11. e = Size BY <1>1, <2>10 DEF s
  <2>12. raw[1] = s[1] /\ \A k \in 1 .. Size : raw[k] = s[k] BY <1>0, <1>1, <2>11 DEF s
  <2>13. \A k \in 1 .. Size : raw[k] = <<m, k>> BY <2>9, <2>12 DEF m
  <2> QED BY <1>1, <1>5, <2>1, <2>11, <2>13
<1>9. CASE ~Valid(raw)
  <2>1. executed' = executed BY <1>1, <1>9
  <2>2. ASSUME NEW d \in open'
        PROVE  (Stream(d)' = Stream(d) /\ (d \in open \/ d \notin Opened)) \/ Torn(d)
    <3>1. d \in open /\ d \in Conns BY <1>2, <1>4
    <3> QED BY <1>1, <1>8, <1>9, <3>1
  <2> QED BY <1>2, <1>7, <2>1, <2>2, LessIsFine
<1>10. CASE Valid(raw)
  <2> DEFINE r == [conn |-> c, cmd |-> m]
             s == Stream(c)
             t == Stream(c)'
  <2>1. executed' = Append(executed, r) BY <1>1, <1>10 DEF m
  <2>2. Len(raw) = Size /\ \A i \in 1 .. Size : raw[i] = <<m, i>> BY <1>5, <1>10
  <2>3. s \in Seq(Unit) /\ t \in Seq(Unit) /\ FrameOff(s, t, m)
        BY <1>1, <1>3, <2>2 DEF FrameOff
  <2>4. UnitInv(c) BY DEF WrittenInv
  <2>5. InOrder(s) BY <2>4 DEF UnitInv
  <2>6. \A i \in DOMAIN Stream(c)' : m < Stream(c)'[i][1]
    <3> HIDE DEF s, t
    <3>1. \A i \in DOMAIN t : m < t[i][1] BY ONLY <1>0, <2>3, <2>5, LaterLess
    <3> QED BY <3>1 DEF t
  <2>7. 1 \in DOMAIN s /\ Size \in DOMAIN s /\ s[1] = <<m, 1>> /\ s[Size] = <<m, Size>>
    <3>1. Size \in 1 .. Size BY <1>0
    <3> QED BY <1>0, <1>1, <1>6, <2>2, <3>1
  <2>8. m \in DOMAIN sends /\ sends[m].conn = c /\ sends[m].ok
    <3>1. m \in DOMAIN sends /\ sends[m].conn = c /\ Size <= sends[m].units
          BY <2>4, <2>7 DEF UnitInv
    <3>2. sends[m] \in Calls BY <3>1 DEF Shape
    <3>3. sends[m].units \in 0 .. Size BY <3>2 DEF Calls
    <3>4. sends[m].units = Size BY <1>0, <3>1, <3>3
    <3> QED BY <3>1, <3>4 DEF WrittenInv, SendInv
  <2>9. \A d \in Conns : /\ UnitInv(d)'
                         /\ \A i \in DOMAIN Stream(d)' : \E j \in DOMAIN Stream(d) :
                              Stream(d)'[i] = Stream(d)[j]
        BY <1>2, <1>7, LessUnits
  <2> DEFINE w == Len(executed) + 1
  <2>10. /\ DOMAIN executed' = DOMAIN executed \cup {w}
         /\ executed'[w] = r /\ w \notin DOMAIN executed
         /\ \A i \in DOMAIN executed : executed'[i] = executed[i] /\ i < w
    <3>1. executed \in Seq(Runs) BY DEF Shape
    <3>2. Len(executed) \in Nat /\ DOMAIN executed = 1 .. Len(executed) BY <3>1
    <3> HIDE DEF Runs, r
    <3> QED BY <2>1, <3>1, <3>2
  <2>20. w \in Nat /\ \A i \in DOMAIN executed : i \in Nat
    <3>1. executed \in Seq(Runs) BY DEF Shape
    <3> QED BY <3>1
  <2> HIDE DEF w
  <2>11. \A i \in DOMAIN executed :
           /\ executed[i].conn \in Conns /\ executed[i].cmd \in DOMAIN sends
           /\ sends[executed[i].cmd].conn = executed[i].conn /\ sends[executed[i].cmd].ok
           /\ \A j \in DOMAIN Stream(executed[i].conn) :
                executed[i].cmd < Stream(executed[i].conn)[j][1]
    <3>1. \A i \in DOMAIN executed : executed[i] \in Runs BY DEF Shape
    <3> QED BY <3>1 DEF WrittenInv, ExecInv, Runs
  <2>12. r.conn = c /\ r.cmd = m OBVIOUS
  <2> HIDE DEF r
  <2>13. ExecInv'
    <3>1. ASSUME NEW i \in DOMAIN executed', NEW d \in Conns, d = executed'[i].conn
          PROVE  /\ executed'[i].cmd \in DOMAIN sends'
                 /\ sends'[executed'[i].cmd].conn = d
                 /\ sends'[executed'[i].cmd].ok
                 /\ \A j \in DOMAIN Stream(d)' : executed'[i].cmd < Stream(d)'[j][1]
      <4>1. CASE i = w
        <5>1. executed'[i] = r /\ d = c BY <2>10, <2>12, <3>1, <4>1
        <5> QED BY <1>2, <2>6, <2>8, <2>12, <5>1
      <4>2. CASE i \in DOMAIN executed
        <5>1. executed'[i] = executed[i] BY <2>10, <4>2
        <5>2. /\ executed[i].conn = d /\ executed[i].cmd \in DOMAIN sends
              /\ sends[executed[i].cmd].conn = d /\ sends[executed[i].cmd].ok
              /\ \A j \in DOMAIN Stream(d) : executed[i].cmd < Stream(d)[j][1]
              BY <2>11, <3>1, <4>2, <5>1
        <5>3. \A j \in DOMAIN Stream(d)' : executed[i].cmd < Stream(d)'[j][1]
              BY <2>9, <5>2
        <5> QED BY <1>2, <5>1, <5>2, <5>3
      <4> QED BY <2>10, <3>1, <4>1, <4>2
    <3>2. \A i \in DOMAIN executed' : executed'[i].conn \in Conns
          BY <2>10, <2>11, <2>12
    <3> QED BY <3>1, <3>2 DEF ExecInv
  <2>14. OnceInOrder'
    <3>1. ASSUME NEW i \in DOMAIN executed
          PROVE  executed[i].cmd # m /\ (executed[i].conn = c => executed[i].cmd < m)
      <4>1. CASE executed[i].conn = c
        <5>1. executed[i].cmd < s[1][1] BY <2>7, <2>11, <4>1
        <5>2. executed[i].cmd < m BY <2>7, <5>1
        <5>3. executed[i].cmd \in Nat /\ m \in Nat
          <6>1. sends \in Seq(Calls) BY DEF Shape
          <6>2. \A x \in DOMAIN sends : x \in Nat BY <6>1
          <6> QED BY <2>8, <2>11, <6>2
        <5> QED BY <5>2, <5>3
      <4>2. CASE executed[i].conn # c BY <2>8, <2>11, <4>2
      <4> QED BY <4>1, <4>2
    <3>2. ASSUME NEW i \in DOMAIN executed', NEW j \in DOMAIN executed', i < j
          PROVE  /\ executed'[i].cmd # executed'[j].cmd
                 /\ executed'[i].conn = executed'[j].conn
                      => executed'[i].cmd < executed'[j].cmd
      <4>1. i \in DOMAIN executed BY <2>10, <2>20, <3>2
      <4>2. CASE j = w BY <2>10, <2>12, <3>1, <4>1, <4>2
      <4>3. CASE j \in DOMAIN executed
        <5>1. executed'[i] = executed[i] /\ executed'[j] = executed[j]
              BY <2>10, <4>1, <4>3
        <5> QED BY <3>2, <4>1, <4>3, <5>1 DEF WrittenInv, OnceInOrder
      <4> QED BY <2>10, <4>2, <4>3
    <3> QED BY <3>2 DEF OnceInOrder
  <2>15. Range(executed') = Range(executed) \cup {r} BY <2>10 DEF Range
  <2>16. ASSUME NEW d \in open', ~Torn(d)' PROVE StepInv(d)'
    <3>1. d \in open /\ d \in Conns /\ ~Torn(d) BY <1>2, <1>4, <2>16 DEF Torn
    <3>2. CASE d # c
      <4>1. Stream(d)' = Stream(d) BY <1>1, <3>1, <3>2
      <4>2. \A n : [conn |-> d, cmd |-> n] # r
        <5>1. \A n : [conn |-> d, cmd |-> n].conn = d OBVIOUS
        <5> QED BY <2>12, <3>2, <5>1
      <4>3. Waiting(d)' = Waiting(d) BY <1>2, <2>15, <4>2 DEF Waiting
      <4>4. StepInv(d) BY <3>1 DEF WrittenInv
      <4> QED BY <4>1, <4>3, <4>4 DEF StepInv
    <3>3. CASE d = c
      <4>1. Range(s) = Waiting(c) \X (1 .. Size) /\ Whole(s)
            BY <1>8, <3>1, <3>3 DEF StepInv
      <4>2. Whole(t) /\ Range(t) = {u \in Range(s) : u[1] # m}
        <5> HIDE DEF s, t
        <5> QED BY ONLY <1>0, <2>3, <2>5, <4>1, WholeLess
      <4>3. \A n : [conn |-> c, cmd |-> n] = r <=> n = m
        <5>1. \A n : [conn |-> c, cmd |-> n].cmd = n OBVIOUS
        <5> QED BY <2>12, <5>1 DEF r
      <4>4. Waiting(c)' = Waiting(c) \ {m} BY <1>2, <2>15, <4>3 DEF Waiting
      <4>5. Range(t) = Waiting(c)' \X (1 .. Size) BY <4>1, <4>2, <4>4
      <4> QED BY <3>3, <4>2, <4>5 DEF StepInv
    <3> QED BY <3>2, <3>3
  <2>17. SendInv' BY <1>2 DEF WrittenInv, SendInv
  <2> QED BY <2>9, <2>13, <2>14, <2>16, <2>17 DEF WrittenInv
<1> QED BY <1>9, <1>10

LEMMA WrittenStep ==
  ASSUME StreamConstants, Shape, Shape', ConnInv, WrittenInv, [Next]_vars
  PROVE  WrittenInv'
<1>1. CASE Connect
  <2>1. UNCHANGED <<net, buf, sends, executed>> /\ open' = open \cup {Made + 1}
        BY <1>1 DEF Connect
  <2>2. Made + 1 \notin Opened
    <3>1. Opened = 1 .. Made /\ Made \in Nat BY DEF ConnInv
    <3> QED BY <3>1
  <2> QED BY <2>1, <2>2, SameIsFine
<1>2. CASE Dial \/ DialFails \/ ReadEnds \/ StationStop \/ ActuatorStop \/ UNCHANGED vars
  <2>1. UNCHANGED <<net, buf, sends, executed>> /\ open' \subseteq open
        BY <1>2 DEF Dial, DialFails, ReadEnds, StationStop, ActuatorStop, vars, stationVars,
                    actuatorVars
  <2> QED BY <2>1, SameIsFine
<1>3. CASE Send BY <1>3, WrittenSend
<1>4. ASSUME NEW c \in Conns, Handler(c) \/ Break(c) PROVE WrittenInv'
  <2>1. CASE Accept(c)
    <3>1. UNCHANGED <<net, buf, sends, executed, open>> BY <2>1 DEF Accept, stationVars
    <3> QED BY <3>1, SameIsFine
  <2>2. CASE Recv(c) BY <2>2, WrittenRecv
  <2>3. CASE TakeFrame(c) BY <2>3, WrittenTake
  <2>4. CASE HandlerEnds(c) BY <2>4, WrittenEnds
  <2>5. CASE Break(c) BY <2>5, WrittenBreak
  <2> QED BY <1>4, <2>1, <2>2, <2>3, <2>4, <2>5 DEF Handler
<1> QED BY <1>1, <1>2, <1>3, <1>4 DEF Next

LEMMA StreamInvariant ==
  ASSUME StreamConstants
  PROVE  Spec => [](Shape /\ ConnInv /\ WrittenInv)
<1>1. Init => Shape /\ ConnInv /\ WrittenInv BY ShapeInit, ConnInit, WrittenInit
<1>2. Shape /\ ConnInv /\ WrittenInv /\ [Next]_vars => (Shape /\ ConnInv /\ WrittenInv)'
  <2> SUFFICES ASSUME Shape, ConnInv, WrittenInv, [Next]_vars
               PROVE  Shape' /\ ConnInv' /\ WrittenInv'
      OBVIOUS
  <2>1. Shape' BY ShapeStep
  <2>2. ConnInv' BY <2>1, ConnStep
  <2>3. WrittenInv' BY <2>1, WrittenStep
  <2> QED BY <2>1, <2>2, <2>3
<1> QED BY <1>1, <1>2, PTL DEF Spec

LEMMA StreamStays == ASSUME Shape, WrittenInv PROVE InStepUntilTorn
<1> SUFFICES ASSUME NEW c \in open, ~Torn(c)
             PROVE  Range(Stream(c)) = Waiting(c) \X (1 .. Size) /\ InOrder(Stream(c))
    BY DEF InStepUntilTorn, Stream
<1>1. c \in Conns BY DEF Shape
<1>2. StepInv(c) /\ UnitInv(c) BY <1>1 DEF WrittenInv
<1> QED BY <1>2 DEF StepInv, UnitInv

----------------------------------------------------------------------------
(* The theorems.                                                            *)

\* No command is executed twice, and those of one connection only in the order
\* of the calls, for any size of a frame and whatever the units of a frame cut
\* short spell for a length (actuator_controller.py:205-217).
THEOREM CommandsOnceInOrder == ASSUME StreamConstants PROVE Spec => []OnceInOrder
<1>1. WrittenInv => OnceInOrder BY DEF WrittenInv
<1> QED BY <1>1, StreamInvariant, PTL

\* A command whose send returned False is never executed, though its first units
\* may be on the connection (control_station.py:254-259).
THEOREM FailedStaysUnexecuted == ASSUME StreamConstants PROVE Spec => []FailedNeverExecuted
<1>1. WrittenInv => FailedNeverExecuted BY DEF WrittenInv, ExecInv, FailedNeverExecuted
<1> QED BY <1>1, StreamInvariant, PTL

\* Until a write is cut short on a connection, the stream on it is the frames of
\* the commands that wait, whole and in the order of the calls
\* (control_station.py:255, actuator_controller.py:207-217).
THEOREM InStep == ASSUME StreamConstants PROVE Spec => []InStepUntilTorn
<1>1. Shape /\ WrittenInv => InStepUntilTorn BY StreamStays
<1> QED BY <1>1, StreamInvariant, PTL

----------------------------------------------------------------------------
(* The types of everything else.                                            *)

\* The flags, and the bound of the model on the commands.
FlagInv == /\ gsRunning \in BOOLEAN /\ acRunning \in BOOLEAN /\ dialing \in BOOLEAN
           /\ Len(sends) <= MaxCmds

LEMMA FlagInit == ASSUME StreamConstants PROVE Init => FlagInv
<1> SUFFICES ASSUME Init PROVE FlagInv
    OBVIOUS
<1>1. MaxCmds \in Nat BY DEF StreamConstants
<1>2. gsRunning = TRUE /\ acRunning = TRUE /\ dialing = FALSE /\ sends = << >> BY DEF Init
<1>3. Len(sends) <= MaxCmds
  <2>1. Len(sends) = 0 BY <1>2
  <2> QED BY ONLY <1>1, <2>1
<1> QED BY <1>2, <1>3 DEF FlagInv

LEMMA FlagStep ==
  ASSUME StreamConstants, Shape, ConnInv, FlagInv, [Next]_vars
  PROVE  FlagInv'
<1>1. CASE Send
  <2>1. UNCHANGED <<gsRunning, dialing, acRunning>> /\ Len(sends) < MaxCmds
        BY <1>1 DEF Send, actuatorVars
  <2>2. PICK r \in Calls : sends' = Append(sends, r)
        BY <1>1, SendParts
  <2>3. Len(sends') = Len(sends) + 1 /\ Len(sends) \in Nat
    <3>1. sends \in Seq(Calls) BY DEF Shape
    <3> HIDE DEF Calls
    <3> QED BY ONLY <2>2, <3>1
  <2>4. Len(sends') <= MaxCmds
    <3>1. MaxCmds \in Nat BY DEF StreamConstants
    <3> QED BY ONLY <2>1, <2>3, <3>1
  <2> QED BY <2>1, <2>4 DEF FlagInv
<1>2. CASE \/ Dial \/ Connect \/ DialFails \/ ReadEnds \/ StationStop \/ ActuatorStop
           \/ UNCHANGED vars
  BY <1>2 DEF Dial, Connect, DialFails, ReadEnds, StationStop, ActuatorStop, vars,
              stationVars, actuatorVars, FlagInv
<1>3. ASSUME NEW c \in Conns, Handler(c) \/ Break(c) PROVE FlagInv'
  BY <1>3 DEF Handler, Accept, Recv, TakeFrame, HandlerEnds, Break, stationVars,
              actuatorVars, FlagInv
<1> QED BY <1>1, <1>2, <1>3 DEF Next

\* Nothing is on a connection, read or executed but what was sent.
LEMMA TypesHold ==
  ASSUME StreamConstants, Shape, ConnInv, WrittenInv, FlagInv
  PROVE  TypeOK
<1>1. conn \in 0 .. Made
  <2>1. Made \in Nat /\ (conn = 0 \/ conn \in 1 .. Made) BY DEF ConnInv
  <2> QED BY ONLY <2>1
<1>2. DOMAIN sends \subseteq Cmds
  <2>1. sends \in Seq(Calls) /\ MaxCmds \in Nat /\ Len(sends) <= MaxCmds
        BY DEF Shape, FlagInv, StreamConstants
  <2> HIDE DEF Calls
  <2>2. Len(sends) \in Nat /\ DOMAIN sends = 1 .. Len(sends) BY ONLY <2>1
  <2> QED BY ONLY <2>1, <2>2 DEF Cmds
<1>3. ASSUME NEW c \in Conns
      PROVE  Range(net[c]) \cup Range(buf[c]) \subseteq Cmds \X (1 .. Size)
  <2>1. buf[c] \in Seq(Unit) /\ net[c] \in Seq(Unit) BY DEF Shape
  <2>2. UnitInv(c) BY DEF WrittenInv
  <2> HIDE DEF Unit
  <2>3. PICK b, n : b = buf[c] /\ n = net[c] OBVIOUS
  <2>4. PICK s : s = b \o n OBVIOUS
  <2>5. s = Stream(c) BY <2>3, <2>4 DEF Stream
  <2>6. b \in Seq(Unit) /\ n \in Seq(Unit) BY <2>1, <2>3
  <2>7. /\ s \in Seq(Unit) /\ Len(s) = Len(b) + Len(n)
        /\ \A i \in 1 .. Len(b) : s[i] = b[i]
        /\ \A i \in 1 .. Len(n) : s[Len(b) + i] = n[i]
        BY ONLY <2>4, <2>6, ConcatIs
  <2>8. /\ Len(b) \in Nat /\ Len(n) \in Nat /\ DOMAIN s = 1 .. Len(b) + Len(n)
        /\ DOMAIN b = 1 .. Len(b) /\ DOMAIN n = 1 .. Len(n)
        BY ONLY <2>6, <2>7
  <2>9. ASSUME NEW i \in DOMAIN s PROVE s[i] \in Cmds \X (1 .. Size)
    <3>1. s[i] \in Unit BY ONLY <2>7, i \in DOMAIN s
    <3>2. s[i][1] \in Cmds BY <1>2, <2>2, <2>5 DEF UnitInv
    <3> QED BY <3>1, <3>2 DEF Unit
  <2>10. ASSUME NEW i \in DOMAIN b PROVE b[i] \in Cmds \X (1 .. Size)
    <3>1. i \in 1 .. Len(b) /\ i \in DOMAIN s BY ONLY <2>8, i \in DOMAIN b
    <3>2. s[i] = b[i] BY ONLY <2>7, <3>1
    <3> QED BY <2>9, <3>1, <3>2
  <2>11. ASSUME NEW i \in DOMAIN n PROVE n[i] \in Cmds \X (1 .. Size)
    <3>1. i \in 1 .. Len(n) /\ Len(b) + i \in DOMAIN s BY ONLY <2>8, i \in DOMAIN n
    <3>2. s[Len(b) + i] = n[i] BY ONLY <2>7, <3>1
    <3> QED BY <2>9, <3>1, <3>2
  <2> QED BY <2>3, <2>10, <2>11 DEF Range
<1>4. Range(sends) \subseteq Calls
  <2>1. sends \in Seq(Calls) BY DEF Shape
  <2> HIDE DEF Calls
  <2> QED BY ONLY <2>1 DEF Range
<1>5. ASSUME NEW i \in DOMAIN executed PROVE executed[i] \in [conn : Conns, cmd : Cmds]
  <2>1. executed[i] \in Runs BY DEF Shape
  <2>2. executed[i].cmd \in Cmds BY <1>2 DEF WrittenInv, ExecInv
  <2> QED BY <2>1, <2>2 DEF Runs
<1>6. Range(executed) \subseteq [conn : Conns, cmd : Cmds] BY <1>5 DEF Range
<1> QED BY <1>1, <1>3, <1>4, <1>6 DEF TypeOK, Shape, FlagInv, Places, Calls

StreamInv == Shape /\ ConnInv /\ WrittenInv /\ FlagInv

LEMMA StreamInit == ASSUME StreamConstants PROVE Init => StreamInv
BY ShapeInit, ConnInit, WrittenInit, FlagInit DEF StreamInv

LEMMA StreamStep == ASSUME StreamConstants PROVE StreamInv /\ [Next]_vars => StreamInv'
<1> SUFFICES ASSUME StreamInv, [Next]_vars PROVE StreamInv'
    OBVIOUS
<1>1. Shape' BY ShapeStep DEF StreamInv
<1>2. ConnInv' BY ConnStep DEF StreamInv
<1>3. WrittenInv' BY <1>1, WrittenStep DEF StreamInv
<1>4. FlagInv' BY FlagStep DEF StreamInv
<1> QED BY <1>1, <1>2, <1>3, <1>4 DEF StreamInv

LEMMA StreamSafe ==
  StreamInv => OnceInOrder /\ FailedNeverExecuted /\ InStepUntilTorn
BY StreamStays DEF StreamInv, WrittenInv, ExecInv, FailedNeverExecuted

\* The types, and that the units on a connection, in the handler's buffer and
\* behind what was executed are units of commands that were sent
\* (control_station.py:72, actuator_controller.py:190-217).
THEOREM StreamTypes == ASSUME StreamConstants PROVE Spec => []TypeOK
<1>1. Init => StreamInv BY StreamInit
<1>2. StreamInv /\ [Next]_vars => StreamInv' BY StreamStep
<1>3. StreamInv => TypeOK BY TypesHold DEF StreamInv
<1> QED BY <1>1, <1>2, <1>3, PTL DEF Spec
=============================================================================
