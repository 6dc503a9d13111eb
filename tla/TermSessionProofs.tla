--------------------------- MODULE TermSessionProofs ---------------------------
(***************************************************************************)
(* Proofs about TermSession, for every set of viewers, every size of the   *)
(* ring, of a read and of the queues, and any length of the output: what a *)
(* viewer is shown is the stream, nothing comes after term_closed, nothing *)
(* is kept of a connection that was released, and no wake-up is lost.      *)
(***************************************************************************)
EXTENDS TermSession, Integers, TLAPS

USE SizesAssumption

-----------------------------------------------------------------------------
(* Sequences.                                                              *)

LEMMA AppendFacts ==
  ASSUME NEW S, NEW s \in Seq(S), NEW x \in S
  PROVE  /\ Append(s, x) \in Seq(S) /\ Len(Append(s, x)) = Len(s) + 1
         /\ Append(s, x)[Len(s) + 1] = x /\ Append(s, x) # <<>>
         /\ \A i \in 1 .. Len(s) : Append(s, x)[i] = s[i]
  OBVIOUS

LEMMA TailFacts ==
  ASSUME NEW S, NEW s \in Seq(S), s # <<>>
  PROVE  /\ Tail(s) \in Seq(S) /\ Len(s) \in Nat \ {0} /\ Len(Tail(s)) = Len(s) - 1
         /\ Head(s) \in S /\ Head(s) = s[1]
         /\ \A i \in 1 .. Len(s) - 1 : Tail(s)[i] = s[i + 1]
  OBVIOUS

LEMMA Concatenation ==
  ASSUME NEW S, NEW s \in Seq(S), NEW t \in Seq(S)
  PROVE  /\ s \o t \in Seq(S) /\ Len(s \o t) = Len(s) + Len(t)
         /\ \A i \in 1 .. Len(s) : (s \o t)[i] = s[i]
         /\ \A i \in 1 .. Len(t) : (s \o t)[Len(s) + i] = t[i]
  OBVIOUS

LEMMA SameSequence ==
  ASSUME NEW S, NEW s \in Seq(S), NEW t \in Seq(S), Len(s) = Len(t),
         \A i \in 1 .. Len(s) : s[i] = t[i]
  PROVE  s = t
  OBVIOUS

LEMMA EmptySequence ==
  ASSUME NEW S, NEW s \in Seq(S)
  PROVE  /\ <<>> \in Seq(S) /\ s \o <<>> = s /\ <<>> \o s = s
         /\ Len(s) \in Nat /\ (s = <<>> <=> Len(s) = 0)
  OBVIOUS

(* A frame goes from a queue to the wire. *)
LEMMA Moved ==
  ASSUME NEW S, NEW s \in Seq(S), NEW t \in Seq(S), t # <<>>
  PROVE  Append(s, Head(t)) \o Tail(t) = s \o t
  <1> DEFINE a == Append(s, Head(t))
             u == Tail(t)
             l == a \o u
             r == s \o t
  <1>1. /\ a \in Seq(S) /\ Len(a) = Len(s) + 1 /\ a[Len(s) + 1] = t[1]
        /\ \A i \in 1 .. Len(s) : a[i] = s[i]
    BY AppendFacts, TailFacts
  <1>2. /\ u \in Seq(S) /\ Len(u) = Len(t) - 1 /\ Len(t) \in Nat \ {0} /\ Len(s) \in Nat
        /\ \A i \in 1 .. Len(t) - 1 : u[i] = t[i + 1]
    BY TailFacts
  <1> HIDE DEF a, u
  <1>s. a \in Seq(S) /\ u \in Seq(S)
    BY <1>1, <1>2
  <1>3. /\ l \in Seq(S) /\ Len(l) = Len(a) + Len(u)
        /\ \A i \in 1 .. Len(a) : l[i] = a[i]
        /\ \A i \in 1 .. Len(u) : l[Len(a) + i] = u[i]
    BY <1>s, Concatenation
  <1>4. /\ r \in Seq(S) /\ Len(r) = Len(s) + Len(t)
        /\ \A i \in 1 .. Len(s) : r[i] = s[i]
        /\ \A i \in 1 .. Len(t) : r[Len(s) + i] = t[i]
    BY Concatenation
  <1> HIDE DEF l, r
  <1>5. Len(l) = Len(r)
    BY <1>1, <1>2, <1>3, <1>4
  <1>6. ASSUME NEW i \in 1 .. Len(l) PROVE l[i] = r[i]
    <2>1. CASE i \in 1 .. Len(s)
      BY <1>1, <1>2, <1>3, <1>4, <2>1
    <2>2. CASE i = Len(s) + 1
      BY <1>1, <1>2, <1>3, <1>4, <2>2
    <2>3. CASE i > Len(s) + 1
      <3> DEFINE j == i - Len(s) - 1
      <3>1. j \in 1 .. Len(u) /\ i = Len(a) + j /\ i = Len(s) + (j + 1) /\ j + 1 \in 1 .. Len(t)
            /\ j \in 1 .. Len(t) - 1
        BY <1>1, <1>2, <1>3, <2>3
      <3> HIDE DEF j
      <3>2. l[i] = u[j] /\ u[j] = t[j + 1] /\ r[i] = t[j + 1]
        BY <1>2, <1>3, <1>4, <3>1
      <3> QED
        BY <3>2
    <2> QED
      BY <1>1, <1>2, <1>3, <2>1, <2>2, <2>3
  <1>t. l \in Seq(S) /\ r \in Seq(S)
    BY <1>3, <1>4
  <1>7. l = r
    BY <1>t, <1>5, <1>6, SameSequence
  <1> QED
    BY <1>7 DEF l, r, a, u

(* A frame is read from the wire. *)
LEMMA TailOfBoth ==
  ASSUME NEW S, NEW s \in Seq(S), NEW t \in Seq(S), s # <<>>
  PROVE  /\ Tail(s) \o t = Tail(s \o t) /\ s \o t # <<>> /\ Head(s) = (s \o t)[1]
  <1> DEFINE u == Tail(s)
             l == u \o t
             r == s \o t
             q == Tail(r)
  <1>1. /\ u \in Seq(S) /\ Len(u) = Len(s) - 1 /\ Len(s) \in Nat \ {0} /\ Len(t) \in Nat
        /\ Head(s) = s[1] /\ \A i \in 1 .. Len(s) - 1 : u[i] = s[i + 1]
    BY TailFacts
  <1> HIDE DEF u
  <1>s. u \in Seq(S)
    BY <1>1
  <1>2. /\ l \in Seq(S) /\ Len(l) = Len(u) + Len(t)
        /\ \A i \in 1 .. Len(u) : l[i] = u[i]
        /\ \A i \in 1 .. Len(t) : l[Len(u) + i] = t[i]
    BY <1>s, Concatenation
  <1>3. /\ r \in Seq(S) /\ Len(r) = Len(s) + Len(t)
        /\ \A i \in 1 .. Len(s) : r[i] = s[i]
        /\ \A i \in 1 .. Len(t) : r[Len(s) + i] = t[i]
    BY Concatenation
  <1> HIDE DEF l, r
  <1>4. r # <<>>
    BY <1>1, <1>3, EmptySequence
  <1>5. /\ q \in Seq(S) /\ Len(q) = Len(r) - 1
        /\ \A i \in 1 .. Len(r) - 1 : q[i] = r[i + 1]
    BY <1>3, <1>4, TailFacts
  <1> HIDE DEF q
  <1>6. ASSUME NEW i \in 1 .. Len(l) PROVE l[i] = q[i]
    <2>1. i \in 1 .. Len(r) - 1 /\ q[i] = r[i + 1]
      BY <1>1, <1>2, <1>3, <1>5
    <2>2. CASE i <= Len(u)
      <3>1. l[i] = u[i] /\ u[i] = s[i + 1] /\ r[i + 1] = s[i + 1]
        BY <1>1, <1>2, <1>3, <2>2
      <3> QED
        BY <2>1, <3>1
    <2>3. CASE i > Len(u)
      <3> DEFINE j == i - Len(u)
      <3>1. j \in 1 .. Len(t) /\ i = Len(u) + j /\ i + 1 = Len(s) + j
        BY <1>1, <1>2, <2>3
      <3> HIDE DEF j
      <3>2. l[i] = t[j] /\ r[i + 1] = t[j]
        BY <1>2, <1>3, <3>1
      <3> QED
        BY <2>1, <3>2
    <2> QED
      BY <1>1, <1>2, <2>2, <2>3
  <1>7. Len(l) = Len(q)
    BY <1>1, <1>2, <1>3, <1>5
  <1>t. l \in Seq(S) /\ q \in Seq(S)
    BY <1>2, <1>5
  <1>8. l = q
    BY <1>t, <1>6, <1>7, SameSequence
  <1>9. Head(s) = r[1]
    BY <1>1, <1>3
  <1> QED
    BY <1>4, <1>8, <1>9 DEF l, q, r, u

(* A frame is added to a queue. *)
LEMMA AppendToBoth ==
  ASSUME NEW S, NEW s \in Seq(S), NEW t \in Seq(S), NEW x \in S
  PROVE  s \o Append(t, x) = Append(s \o t, x)
  <1> DEFINE u == Append(t, x)
             l == s \o u
             r == s \o t
             q == Append(r, x)
  <1>1. /\ u \in Seq(S) /\ Len(u) = Len(t) + 1 /\ u[Len(t) + 1] = x
        /\ Len(s) \in Nat /\ Len(t) \in Nat
        /\ \A i \in 1 .. Len(t) : u[i] = t[i]
    BY AppendFacts
  <1> HIDE DEF u
  <1>s. u \in Seq(S)
    BY <1>1
  <1>2. /\ l \in Seq(S) /\ Len(l) = Len(s) + Len(u)
        /\ \A i \in 1 .. Len(s) : l[i] = s[i]
        /\ \A i \in 1 .. Len(u) : l[Len(s) + i] = u[i]
    BY <1>s, Concatenation
  <1>3. /\ r \in Seq(S) /\ Len(r) = Len(s) + Len(t)
        /\ \A i \in 1 .. Len(s) : r[i] = s[i]
        /\ \A i \in 1 .. Len(t) : r[Len(s) + i] = t[i]
    BY Concatenation
  <1> HIDE DEF l, r
  <1>4. /\ q \in Seq(S) /\ Len(q) = Len(r) + 1 /\ q[Len(r) + 1] = x
        /\ \A i \in 1 .. Len(r) : q[i] = r[i]
    BY <1>3, AppendFacts
  <1> HIDE DEF q
  <1>5. ASSUME NEW i \in 1 .. Len(l) PROVE l[i] = q[i]
    <2>1. CASE i <= Len(s)
      BY <1>1, <1>2, <1>3, <1>4, <2>1
    <2>2. CASE i > Len(s)
      <3> DEFINE j == i - Len(s)
      <3>1. j \in 1 .. Len(u) /\ i = Len(s) + j
        BY <1>1, <1>2, <2>2
      <3> HIDE DEF j
      <3>2. l[i] = u[j]
        BY <1>2, <3>1
      <3>3. CASE j <= Len(t)
        <4>1. j \in 1 .. Len(t) /\ i \in 1 .. Len(r)
          BY <1>1, <1>3, <3>1, <3>3
        <4>2. u[j] = t[j] /\ r[i] = t[j] /\ q[i] = r[i]
          BY <1>1, <1>3, <1>4, <3>1, <4>1
        <4> QED
          BY <3>2, <4>2
      <3>4. CASE j = Len(t) + 1
        BY <1>1, <1>3, <1>4, <3>1, <3>2, <3>4
      <3> QED
        BY <1>1, <3>1, <3>3, <3>4
    <2> QED
      BY <1>1, <1>2, <2>1, <2>2
  <1>6. l \in Seq(S) /\ q \in Seq(S) /\ Len(l) = Len(q)
    BY <1>1, <1>2, <1>3, <1>4
  <1>7. l = q
    BY <1>5, <1>6, SameSequence
  <1> QED
    BY <1>7 DEF l, q, r, u

-----------------------------------------------------------------------------
(* Frames on their way.                                                    *)

FrameSet == {f \in [kind : {"output", "closed"}, lo : Nat, hi : Nat] :
               f.lo <= f.hi /\ (f.kind = "output" => f.lo >= 1)}

NoneClosed(fs) == \A i \in 1 .. Len(fs) : fs[i].kind # "closed"
ClosedLast(fs) == \A i \in 1 .. Len(fs) : fs[i].kind = "closed" => i = Len(fs)

Before(fs, shown, i) == IF i = 1 THEN shown ELSE fs[i - 1].hi

(* fs goes on from the position shown, up to a position in 1 .. top. *)
Flow(fs, shown, fresh, over, top) ==
  \A i \in 1 .. Len(fs) : fs[i].kind = "output" =>
    /\ fs[i].hi <= top
    /\ \/ fs[i].lo = Before(fs, shown, i) + 1
       \/ over /\ fs[i].lo > Before(fs, shown, i)
       \/ i = 1 /\ fresh

(* How many frames of output fs has, and where the last of them ends. *)
Count(fs) == IF Len(fs) > 0 /\ fs[Len(fs)].kind = "closed" THEN Len(fs) - 1 ELSE Len(fs)
Ends(fs, shown) == IF Count(fs) = 0 THEN shown ELSE fs[Count(fs)].hi

LEMMA FlowOfNone ==
  ASSUME NEW shown, NEW fresh, NEW over, NEW top
  PROVE  Flow(<<>>, shown, fresh, over, top) /\ Ends(<<>>, shown) = shown
  BY DEF Flow, Ends, Count

LEMMA FlowOn ==
  ASSUME NEW fs \in Seq(FrameSet), NEW shown \in Nat, NEW fresh \in BOOLEAN,
         NEW over \in BOOLEAN, NEW over2 \in BOOLEAN, NEW top \in Nat, NEW top2 \in Nat,
         top <= top2, over => over2, Flow(fs, shown, fresh, over, top)
  PROVE  Flow(fs, shown, fresh, over2, top2)
  <1> SUFFICES ASSUME NEW i \in 1 .. Len(fs), fs[i].kind = "output"
               PROVE  /\ fs[i].hi <= top2
                      /\ \/ fs[i].lo = Before(fs, shown, i) + 1
                         \/ over2 /\ fs[i].lo > Before(fs, shown, i)
                         \/ i = 1 /\ fresh
    BY DEF Flow
  <1>1. /\ fs[i].hi <= top
        /\ \/ fs[i].lo = Before(fs, shown, i) + 1
           \/ over /\ fs[i].lo > Before(fs, shown, i)
           \/ i = 1 /\ fresh
    BY DEF Flow
  <1>2. fs[i] \in FrameSet
    OBVIOUS
  <1>3. fs[i].hi <= top2
    BY <1>1, <1>2 DEF FrameSet
  <1> QED
    BY <1>1, <1>3

(* A frame of output that comes next. *)
LEMMA FlowPush ==
  ASSUME NEW fs \in Seq(FrameSet), NEW f \in FrameSet, NEW shown \in Nat,
         NEW fresh \in BOOLEAN, NEW over \in BOOLEAN, NEW top \in Nat,
         NoneClosed(fs), Flow(fs, shown, fresh, over, top),
         f.kind = "output", f.hi <= top,
         \/ f.lo = Ends(fs, shown) + 1
         \/ over /\ f.lo > Ends(fs, shown)
         \/ fs = <<>> /\ fresh
  PROVE  /\ Flow(Append(fs, f), shown, fresh, over, top)
         /\ Ends(Append(fs, f), shown) = f.hi
  <1> DEFINE n == Len(fs)
             gs == Append(fs, f)
  <1>1. /\ gs \in Seq(FrameSet) /\ Len(gs) = n + 1 /\ gs[n + 1] = f
        /\ n \in Nat /\ \A i \in 1 .. n : gs[i] = fs[i]
    BY AppendFacts
  <1>2. Ends(fs, shown) = IF n = 0 THEN shown ELSE fs[n].hi
    <2>1. n > 0 => fs[n].kind # "closed"
      BY <1>1 DEF NoneClosed
    <2> QED
      BY <1>1, <2>1 DEF Ends, Count
  <1>3. fs = <<>> => n = 0
    OBVIOUS
  <1> HIDE DEF gs, n
  <1>4. Ends(gs, shown) = f.hi
    BY <1>1 DEF Ends, Count
  <1>5. ASSUME NEW i \in 1 .. Len(gs), gs[i].kind = "output"
        PROVE  /\ gs[i].hi <= top
               /\ \/ gs[i].lo = Before(gs, shown, i) + 1
                  \/ over /\ gs[i].lo > Before(gs, shown, i)
                  \/ i = 1 /\ fresh
    <2>1. CASE i \in 1 .. n
      <3>1. gs[i] = fs[i] /\ Before(gs, shown, i) = Before(fs, shown, i)
        BY <1>1, <2>1 DEF Before
      <3>2. /\ fs[i].hi <= top
            /\ \/ fs[i].lo = Before(fs, shown, i) + 1
               \/ over /\ fs[i].lo > Before(fs, shown, i)
               \/ i = 1 /\ fresh
        BY <1>5, <2>1, <3>1 DEF Flow, n
      <3> QED
        BY <3>1, <3>2
    <2>2. CASE i = n + 1
      <3>1. gs[i] = f /\ Before(gs, shown, i) = Ends(fs, shown)
        <4>1. n = 0 => Before(gs, shown, i) = shown
          BY <2>2 DEF Before
        <4>2. n # 0 => Before(gs, shown, i) = fs[n].hi
          BY <1>1, <2>2 DEF Before
        <4> QED
          BY <1>1, <1>2, <2>2, <4>1, <4>2
      <3> QED
        BY <1>3, <2>2, <3>1
    <2> QED
      BY <1>1, <2>1, <2>2
  <1>6. Flow(gs, shown, fresh, over, top)
    BY <1>5 DEF Flow
  <1> QED
    BY <1>4, <1>6 DEF gs

(* term_closed comes next. *)
LEMMA FlowPushClosed ==
  ASSUME NEW fs \in Seq(FrameSet), NEW f \in FrameSet, NEW shown \in Nat,
         NEW fresh \in BOOLEAN, NEW over \in BOOLEAN, NEW top \in Nat,
         NoneClosed(fs), Flow(fs, shown, fresh, over, top), f.kind = "closed"
  PROVE  /\ Flow(Append(fs, f), shown, fresh, over, top)
         /\ Ends(Append(fs, f), shown) = Ends(fs, shown)
  <1> DEFINE n == Len(fs)
             gs == Append(fs, f)
  <1>1. /\ gs \in Seq(FrameSet) /\ Len(gs) = n + 1 /\ gs[n + 1] = f
        /\ n \in Nat /\ \A i \in 1 .. n : gs[i] = fs[i]
    BY AppendFacts
  <1>2. Ends(fs, shown) = IF n = 0 THEN shown ELSE fs[n].hi
    <2>1. n > 0 => fs[n].kind # "closed"
      BY <1>1 DEF NoneClosed
    <2> QED
      BY <1>1, <2>1 DEF Ends, Count
  <1> HIDE DEF gs, n
  <1>3. Ends(gs, shown) = Ends(fs, shown)
    <2>1. Count(gs) = n
      BY <1>1 DEF Count
    <2> QED
      BY <1>1, <1>2, <2>1 DEF Ends
  <1>4. ASSUME NEW i \in 1 .. Len(gs), gs[i].kind = "output"
        PROVE  /\ gs[i].hi <= top
               /\ \/ gs[i].lo = Before(gs, shown, i) + 1
                  \/ over /\ gs[i].lo > Before(gs, shown, i)
                  \/ i = 1 /\ fresh
    <2>1. i \in 1 .. n
      BY <1>1, <1>4
    <2>2. gs[i] = fs[i] /\ Before(gs, shown, i) = Before(fs, shown, i)
      BY <1>1, <2>1 DEF Before
    <2>3. /\ fs[i].hi <= top
          /\ \/ fs[i].lo = Before(fs, shown, i) + 1
             \/ over /\ fs[i].lo > Before(fs, shown, i)
             \/ i = 1 /\ fresh
      BY <1>4, <2>1, <2>2 DEF Flow, n
    <2> QED
      BY <2>2, <2>3
  <1>5. Flow(gs, shown, fresh, over, top)
    BY <1>4 DEF Flow
  <1> QED
    BY <1>3, <1>5 DEF gs

(* The first frame is shown. *)
LEMMA FlowPop ==
  ASSUME NEW fs \in Seq(FrameSet), NEW shown \in Nat, NEW fresh \in BOOLEAN,
         NEW over \in BOOLEAN, NEW top \in Nat, fs # <<>>, ClosedLast(fs),
         Flow(fs, shown, fresh, over, top), fs[1].kind = "output"
  PROVE  /\ Flow(Tail(fs), fs[1].hi, FALSE, over, top)
         /\ Ends(Tail(fs), fs[1].hi) = Ends(fs, shown)
  <1> DEFINE n == Len(fs)
             gs == Tail(fs)
  <1>1. /\ gs \in Seq(FrameSet) /\ n \in Nat \ {0} /\ Len(gs) = n - 1
        /\ \A i \in 1 .. n - 1 : gs[i] = fs[i + 1]
    BY TailFacts
  <1> HIDE DEF gs
  <1>2. Ends(gs, fs[1].hi) = Ends(fs, shown)
    <2>1. CASE n = 1
      <3>1. Count(gs) = 0 /\ Count(fs) = 1
        BY <1>1, <2>1 DEF Count
      <3> QED
        BY <3>1 DEF Ends
    <2>2. CASE n > 1
      <3>1. gs[n - 1] = fs[n]
        <4>1. n - 1 \in 1 .. n - 1 /\ (n - 1) + 1 = n
          BY <1>1, <2>2
        <4> QED
          BY <1>1, <4>1
      <3>2. Count(gs) = Count(fs) - 1 /\ Count(fs) \in {n - 1, n}
        BY <1>1, <2>2, <3>1 DEF Count
      <3>3. CASE Count(fs) = 1
        BY <3>2, <3>3 DEF Ends
      <3>4. CASE Count(fs) # 1
        <4> DEFINE k == Count(fs)
        <4>1. k - 1 \in 1 .. n - 1 /\ (k - 1) + 1 = k /\ Count(gs) = k - 1 /\ k # 0 /\ k - 1 # 0
          BY <1>1, <2>2, <3>2, <3>4
        <4> HIDE DEF k
        <4>2. gs[k - 1] = fs[k]
          BY <1>1, <4>1
        <4> QED
          BY <4>1, <4>2 DEF Ends, k
      <3> QED
        BY <3>3, <3>4
    <2> QED
      BY <1>1, <2>1, <2>2
  <1>3. ASSUME NEW i \in 1 .. Len(gs), gs[i].kind = "output"
        PROVE  /\ gs[i].hi <= top
               /\ \/ gs[i].lo = Before(gs, fs[1].hi, i) + 1
                  \/ over /\ gs[i].lo > Before(gs, fs[1].hi, i)
                  \/ i = 1 /\ FALSE
    <2>1. i \in 1 .. n - 1 /\ i + 1 \in 1 .. n /\ gs[i] = fs[i + 1] /\ i + 1 # 1
      BY <1>1
    <2>2. Before(gs, fs[1].hi, i) = Before(fs, shown, i + 1)
      <3>1. CASE i = 1
        BY <3>1 DEF Before
      <3>2. CASE i # 1
        <4>1. i - 1 \in 1 .. n - 1 /\ (i - 1) + 1 = i /\ (i + 1) - 1 = i
          BY <1>1, <2>1, <3>2
        <4>2. gs[i - 1] = fs[i]
          BY <1>1, <4>1
        <4> QED
          BY <2>1, <3>2, <4>1, <4>2 DEF Before
      <3> QED
        BY <3>1, <3>2
    <2>3. /\ fs[i + 1].hi <= top
          /\ \/ fs[i + 1].lo = Before(fs, shown, i + 1) + 1
             \/ over /\ fs[i + 1].lo > Before(fs, shown, i + 1)
      BY <1>3, <2>1 DEF Flow, n
    <2> QED
      BY <2>1, <2>2, <2>3
  <1>4. Flow(gs, fs[1].hi, FALSE, over, top)
    BY <1>3 DEF Flow
  <1> QED
    BY <1>2, <1>4 DEF gs

(* The rest is dropped. *)
LEMMA FlowPrefix ==
  ASSUME NEW s \in Seq(FrameSet), NEW t \in Seq(FrameSet), NEW shown \in Nat,
         NEW fresh \in BOOLEAN, NEW over \in BOOLEAN, NEW top \in Nat,
         Flow(s \o t, shown, fresh, over, top)
  PROVE  Flow(s, shown, fresh, over, top)
  <1> DEFINE r == s \o t
  <1>1. /\ Len(r) = Len(s) + Len(t) /\ Len(s) \in Nat /\ Len(t) \in Nat
        /\ \A i \in 1 .. Len(s) : r[i] = s[i]
    BY Concatenation
  <1> HIDE DEF r
  <1>2. ASSUME NEW i \in 1 .. Len(s), s[i].kind = "output"
        PROVE  /\ s[i].hi <= top
               /\ \/ s[i].lo = Before(s, shown, i) + 1
                  \/ over /\ s[i].lo > Before(s, shown, i)
                  \/ i = 1 /\ fresh
    <2>1. i \in 1 .. Len(r) /\ r[i] = s[i] /\ Before(r, shown, i) = Before(s, shown, i)
      BY <1>1 DEF Before
    <2>2. /\ r[i].hi <= top
          /\ \/ r[i].lo = Before(r, shown, i) + 1
             \/ over /\ r[i].lo > Before(r, shown, i)
             \/ i = 1 /\ fresh
      BY <1>2, <2>1 DEF Flow, r
    <2> QED
      BY <2>1, <2>2
  <1> QED
    BY <1>2 DEF Flow

-----------------------------------------------------------------------------
(* The invariant.                                                          *)

PumpSet == [task : {"none", "run", "sending", "waiting", "finished"},
            queue : Seq(FrameSet), queued : Int, wake : BOOLEAN, closing : BOOLEAN]

(* The types, but for the byte counts of the pumps: that these are natural *)
(* numbers is known only from the sum they are.                            *)
LoopTyped ==
  /\ total \in Nat /\ reader \in {"reading", "flushing", "done"}
  /\ alive \in BOOLEAN /\ listed \in BOOLEAN
SetsTyped == subscribers \subseteq Viewers /\ catchingUp \subseteq Viewers
PumpsTyped == pump \in [Viewers -> PumpSet]
WiresTyped == wire \in [Viewers -> Seq(FrameSet)] /\ offset \in [Viewers -> Nat]
ClientsTyped ==
  /\ conn \in [Viewers -> {"open", "closing", "lost", "gone"}]
  /\ attaches \in [Viewers -> Nat] /\ screen \in [Viewers -> Seq(Nat)]
FlagsTyped ==
  /\ request \in [Viewers -> BOOLEAN] /\ toldClosed \in [Viewers -> BOOLEAN]
  /\ overran \in [Viewers -> BOOLEAN] /\ abandoned \in [Viewers -> BOOLEAN]
Typed == LoopTyped /\ SetsTyped /\ PumpsTyped /\ WiresTyped /\ ClientsTyped /\ FlagsTyped

(* The session leaves the dictionary before the loop is left, and nobody   *)
(* is given up before the flush.                                           *)
Ordered ==
  /\ reader # "reading" => ~listed
  /\ \A v \in Viewers : abandoned[v] => reader = "done"

(* A pump that is not there, or has returned, leaves no frame behind.      *)
Quiet(v) ==
  /\ pump[v].task \in {"none", "finished"} => pump[v].queue = <<>>
  /\ pump[v].closing => reader # "reading"
  /\ pump[v].task = "finished" => pump[v].closing

(* term_closed is queued when the loop is left, for those who are not      *)
(* catching up, and is the last frame wherever it is.                      *)
Told(v) == toldClosed[v] \/ ~NoneClosed(wire[v]) \/ ~NoneClosed(pump[v].queue)
ClosedComesLast(v) ==
  /\ ClosedLast(wire[v]) /\ ClosedLast(pump[v].queue)
  /\ ~NoneClosed(wire[v]) => pump[v].queue = <<>>
  /\ toldClosed[v] => wire[v] = <<>> /\ pump[v].queue = <<>>
  /\ Told(v) => reader # "reading" /\ v \notin catchingUp

(* A viewer that has attached once at most: nothing is there for it before *)
(* its request is served, and while it catches up it has no pump.          *)
Unserved(v) ==
  /\ v \notin subscribers /\ v \notin catchingUp
  /\ wire[v] = <<>> /\ screen[v] = <<>>
  /\ pump[v].task = "none" /\ pump[v].queue = <<>>
AttachedOnce(v) ==
  attaches[v] <= 1 =>
    /\ attaches[v] = 0 => ~request[v] /\ Unserved(v)
    /\ request[v] => Unserved(v)
    /\ v \in catchingUp =>
         /\ v \in subscribers /\ ~abandoned[v]
         /\ pump[v].task = "none" /\ pump[v].queue = <<>> /\ offset[v] <= total

(* What is on its way goes on from what the screen shows, and ends where   *)
(* the replay, or the read loop, has come to.                              *)
Continues(v) ==
  attaches[v] <= 1 /\ Up(v) =>
    /\ Flow(OnTheWay(v), Shown(v), screen[v] = <<>>, overran[v], total)
    /\ v \in subscribers /\ ~abandoned[v] => Ends(OnTheWay(v), Shown(v)) = Served(v)

ViewerInv(v) == Quiet(v) /\ ClosedComesLast(v) /\ AttachedOnce(v) /\ Continues(v)
SessionInv == Typed /\ Ordered /\ \A v \in Viewers : ViewerInv(v)

-----------------------------------------------------------------------------
(* The types.                                                              *)

LEMMA TypedParts ==
  ASSUME Typed
  PROVE  LoopTyped /\ SetsTyped /\ PumpsTyped /\ WiresTyped /\ ClientsTyped /\ FlagsTyped
  BY DEF Typed

LEMMA FrameFacts ==
  ASSUME NEW f \in FrameSet
  PROVE  /\ f.kind \in {"output", "closed"} /\ f.lo \in Nat /\ f.hi \in Nat /\ f.lo <= f.hi
         /\ Size(f) \in Nat \ {0} /\ Positions(f) \in Seq(Nat)
  <1>1. /\ f.kind \in {"output", "closed"} /\ f.lo \in Nat /\ f.hi \in Nat /\ f.lo <= f.hi
        /\ f.kind = "output" => f.lo >= 1
    BY DEF FrameSet
  <1>2. Size(f) \in Nat \ {0}
    BY <1>1 DEF Size
  <1>3. CASE f.kind = "output"
    <2>1. \A i \in 1 .. Size(f) : f.lo + i - 1 \in Nat
      BY <1>1, <1>2, <1>3
    <2>2. [i \in 1 .. Size(f) |-> f.lo + i - 1] \in Seq(Nat)
      <3> DEFINE n == Size(f)
      <3>1. n \in Nat /\ \A i \in 1 .. n : f.lo + i - 1 \in Nat
        BY <1>2, <2>1
      <3> HIDE DEF n
      <3> QED
        BY <3>1 DEF n
    <2> QED
      BY <1>1, <1>2, <1>3, <2>2 DEF Positions
  <1>4. CASE f.kind # "output"
    BY <1>1, <1>2, <1>4 DEF Positions
  <1> QED
    BY <1>3, <1>4

LEMMA OutputIsFrame ==
  ASSUME NEW lo \in Nat \ {0}, NEW hi \in Nat, lo <= hi
  PROVE  /\ Output(lo, hi) \in FrameSet /\ Output(lo, hi).kind = "output"
         /\ Output(lo, hi).lo = lo /\ Output(lo, hi).hi = hi
  BY DEF Output, FrameSet

LEMMA ClosedIsFrame ==
  TermClosed \in FrameSet /\ TermClosed.kind = "closed" /\ Positions(TermClosed) = <<>>
  BY DEF TermClosed, FrameSet, Positions

(* since(n), when there is anything after n. *)
LEMMA SinceFacts ==
  ASSUME total \in Nat, NEW n \in Nat, ~IsEmpty(RingSince(n))
  PROVE  /\ RingSince(n) \in FrameSet /\ RingSince(n).kind = "output" /\ RingSince(n).hi = total
         /\ total - n <= RingSize => RingSince(n).lo = n + 1
         /\ total - n > RingSize => RingSince(n).lo > n
  <1> DEFINE lo == IF total - n <= RingSize THEN n + 1 ELSE total - RingSize + 1
  <1>1. RingSince(n) = Output(lo, total)
    BY DEF RingSince
  <1>2. lo <= total
    BY <1>1 DEF IsEmpty, Output
  <1>3. lo \in Nat \ {0}
    OBVIOUS
  <1>4. total - n <= RingSize => lo = n + 1
    OBVIOUS
  <1>5. total - n > RingSize => lo > n
    OBVIOUS
  <1> HIDE DEF lo
  <1> QED
    BY <1>1, <1>2, <1>3, <1>4, <1>5, OutputIsFrame

LEMMA SinceNothing ==
  ASSUME total \in Nat, NEW n \in Nat, n <= total
  PROVE  IsEmpty(RingSince(n)) <=> n = total
  BY DEF IsEmpty, RingSince, Output

LEMMA NoPumpTyped == NoPump \in PumpSet /\ NoPump.task = "none" /\ NoPump.queue = <<>>
                     /\ NoPump.queued = 0 /\ NoPump.wake = FALSE /\ NoPump.closing = FALSE
  BY DEF NoPump, PumpSet

LEMMA EnqueuedFacts ==
  ASSUME NEW p \in PumpSet, NEW f \in FrameSet
  PROVE  /\ Enqueued(p, f) \in PumpSet
         /\ Enqueued(p, f).task = (IF p.task = "none" THEN "run" ELSE p.task)
         /\ Enqueued(p, f).queue = Append(p.queue, f)
         /\ Enqueued(p, f).queued = p.queued + Size(f)
         /\ Enqueued(p, f).wake = TRUE /\ Enqueued(p, f).closing = p.closing
  <1>1. p.queue \in Seq(FrameSet) /\ p.queued \in Int /\ Size(f) \in Int
    BY FrameFacts DEF PumpSet
  <1>2. Append(p.queue, f) \in Seq(FrameSet)
    BY <1>1, AppendFacts
  <1>3. p.queued + Size(f) \in Int
    BY <1>1
  <1> QED
    BY <1>2, <1>3 DEF Enqueued, PumpSet

LEMMA FannedOutTyped ==
  ASSUME PumpsTyped, NEW f \in FrameSet
  PROVE  FannedOut(f) \in [Viewers -> PumpSet]
  BY NoPumpTyped, EnqueuedFacts DEF FannedOut, PumpsTyped

(* The steps of one viewer leave the session as it is. *)
ViewerStep(u) ==
  \/ ClientAttach(u) \/ ClientReceive(u) \/ Disconnect(u) \/ Detach(u) \/ Release(u)
  \/ AttachStep(u) \/ PumpStep(u)

LEMMA SessionOfViewers ==
  ASSUME NEW u \in Viewers, ViewerStep(u)
  PROVE  UNCHANGED session /\ abandoned' = abandoned
  <1>1. CASE ClientAttach(u) \/ ClientReceive(u) \/ Disconnect(u) \/ Detach(u) \/ Release(u)
    BY <1>1 DEF ClientAttach, ClientReceive, Disconnect, Detach, Release
  <1>2. CASE AttachStep(u)
    BY <1>2 DEF AttachStep, AttachUnknown, AttachBegin, AttachDelta, AttachLive, AttachFails
  <1>3. CASE PumpStep(u)
    BY <1>3 DEF PumpStep, PumpSends, PumpSent, PumpIdles, PumpWakes, PumpFails
  <1> QED
    BY <1>1, <1>2, <1>3 DEF ViewerStep

(* What the actions do to the state of the read loop. *)
LEMMA LoopStep ==
  ASSUME Typed, [Next]_vars
  PROVE  LoopTyped'
  <1>t. LoopTyped
    BY TypedParts
  <1>1. CASE UNCHANGED session
    BY <1>t, <1>1 DEF LoopTyped, session
  <1>2. CASE UNCHANGED vars
    BY <1>1, <1>2 DEF vars
  <1>3. ASSUME NEW n \in 1 .. MaxChunk, ReadOutput(n) PROVE LoopTyped'
    BY <1>t, <1>3 DEF LoopTyped, ReadOutput
  <1>4. CASE ReadEnd \/ ReadError
    BY <1>t, <1>4 DEF LoopTyped, ReadEnd, ReadError, LeaveLoop
  <1>5. CASE FlushDone \/ FlushTimeout \/ Kill \/ ProcessExits
    BY <1>t, <1>5 DEF LoopTyped, FlushDone, FlushTimeout, Kill, ProcessExits
  <1>6. ASSUME NEW v \in Viewers, ViewerStep(v) PROVE UNCHANGED session
    BY <1>6, SessionOfViewers
  <1> QED
    BY <1>1, <1>2, <1>3, <1>4, <1>5, <1>6 DEF Next, ViewerStep, AttachStep, PumpStep

(* ... to who views the session. *)
LEMMA SetsStep ==
  ASSUME Typed, [Next]_vars
  PROVE  SetsTyped'
  <1>t. SetsTyped
    BY TypedParts
  <1>1. CASE UNCHANGED <<subscribers, catchingUp>>
    BY <1>t, <1>1 DEF SetsTyped
  <1>2. CASE UNCHANGED vars
    BY <1>1, <1>2 DEF vars
  <1>3. ASSUME NEW n \in 1 .. MaxChunk, ReadOutput(n) PROVE SetsTyped'
    BY <1>t, <1>3 DEF SetsTyped, ReadOutput, Evict
  <1>4. CASE ReadEnd \/ ReadError
    BY <1>t, <1>4 DEF SetsTyped, ReadEnd, ReadError, LeaveLoop, Evict
  <1>5. CASE FlushDone \/ FlushTimeout \/ Kill \/ ProcessExits
    BY <1>1, <1>5 DEF FlushDone, FlushTimeout, Kill, ProcessExits
  <1>6. ASSUME NEW v \in Viewers,
               ClientAttach(v) \/ ClientReceive(v) \/ Disconnect(v)
        PROVE  UNCHANGED <<subscribers, catchingUp>>
    BY <1>6 DEF ClientAttach, ClientReceive, Disconnect
  <1>7. ASSUME NEW v \in Viewers, Detach(v) \/ Release(v) PROVE SetsTyped'
    BY <1>t, <1>7 DEF SetsTyped, Detach, Release, Unsubscribe
  <1>8. ASSUME NEW v \in Viewers, AttachStep(v) PROVE SetsTyped'
    <2>1. CASE AttachBegin(v)
      BY <1>t, <2>1 DEF SetsTyped, AttachBegin
    <2>2. CASE AttachUnknown(v) \/ AttachDelta(v) \/ AttachLive(v) \/ AttachFails(v)
      BY <1>t, <2>2 DEF SetsTyped, AttachUnknown, AttachDelta, AttachLive, AttachFails
    <2> QED
      BY <1>8, <2>1, <2>2 DEF AttachStep
  <1>9. ASSUME NEW v \in Viewers, PumpStep(v) PROVE SetsTyped'
    BY <1>t, <1>9 DEF SetsTyped, PumpStep, PumpSends, PumpSent, PumpIdles, PumpWakes, PumpFails
  <1> QED
    BY <1>1, <1>2, <1>3, <1>4, <1>5, <1>6, <1>7, <1>8, <1>9 DEF Next, AttachStep, PumpStep

(* ... to the pumps, each action in turn ... *)
LEMMA PumpBecomes ==
  ASSUME PumpsTyped, NEW v \in Viewers, NEW p \in PumpSet, pump' = [pump EXCEPT ![v] = p]
  PROVE  PumpsTyped'
  BY DEF PumpsTyped

LEMMA DroppedTyped ==
  ASSUME PumpsTyped, NEW vs \in SUBSET Viewers
  PROVE  Dropped(vs) \in [Viewers -> PumpSet]
  BY NoPumpTyped DEF Dropped, PumpsTyped

(* A pump that is left by PumpSends, PumpSent, PumpIdles and PumpWakes. *)
PumpAfterSend(p) ==
  [task |-> "sending", queue |-> Tail(p.queue), queued |-> p.queued - Size(Head(p.queue)),
   wake |-> p.wake, closing |-> p.closing]
PumpIn(p, task, wake) ==
  [task |-> task, queue |-> p.queue, queued |-> p.queued, wake |-> wake, closing |-> p.closing]

LEMMA SamePump ==
  ASSUME NEW p \in PumpSet, NEW q \in PumpSet, p.task = q.task, p.queue = q.queue,
         p.queued = q.queued, p.wake = q.wake, p.closing = q.closing
  PROVE  p = q
  BY DEF PumpSet

LEMMA PumpTurns ==
  ASSUME PumpsTyped, NEW v \in Viewers
  PROVE  /\ PumpSends(v) => pump' = [pump EXCEPT ![v] = PumpAfterSend(pump[v])]
         /\ PumpSent(v) => pump' = [pump EXCEPT ![v] = PumpIn(pump[v], "run", pump[v].wake)]
         /\ PumpIdles(v) => pump' = [pump EXCEPT ![v] =
                                       IF pump[v].closing
                                       THEN PumpIn(pump[v], "finished", pump[v].wake)
                                       ELSE PumpIn(pump[v], "waiting", FALSE)]
         /\ PumpWakes(v) => pump' = [pump EXCEPT ![v] = PumpIn(pump[v], "run", pump[v].wake)]
  <1>1. pump[v] \in PumpSet /\ pump \in [Viewers -> PumpSet]
    BY DEF PumpsTyped
  <1>2. ASSUME NEW p \in PumpSet
        PROVE  /\ [p EXCEPT !.task = "run"] = PumpIn(p, "run", p.wake)
               /\ [p EXCEPT !.task = "finished"] = PumpIn(p, "finished", p.wake)
               /\ [p EXCEPT !.task = "waiting", !.wake = FALSE] = PumpIn(p, "waiting", FALSE)
    <2>1. /\ [p EXCEPT !.task = "run"] = PumpIn(p, "run", p.wake)
          /\ [p EXCEPT !.task = "finished"] = PumpIn(p, "finished", p.wake)
      BY DEF PumpSet, PumpIn
    <2>2. [p EXCEPT !.task = "waiting", !.wake = FALSE] = PumpIn(p, "waiting", FALSE)
      <3> DEFINE e == [p EXCEPT !.task = "waiting", !.wake = FALSE]
      <3>1. /\ e \in PumpSet /\ e.task = "waiting" /\ e.queue = p.queue /\ e.queued = p.queued
            /\ e.wake = FALSE /\ e.closing = p.closing
        BY DEF PumpSet
      <3>2. PumpIn(p, "waiting", FALSE) \in PumpSet
        BY DEF PumpIn, PumpSet
      <3> HIDE DEF e
      <3>3. e = PumpIn(p, "waiting", FALSE)
        BY <3>1, <3>2, SamePump DEF PumpIn
      <3> QED
        BY <3>3 DEF e
    <2> QED
      BY <2>1, <2>2
  <1>s. ASSUME NEW p \in PumpSet, p.queue # <<>>
        PROVE  [p EXCEPT !.task = "sending", !.queue = Tail(@),
                         !.queued = @ - Size(Head(p.queue))] = PumpAfterSend(p)
    <2> DEFINE q == Tail(p.queue)
               n == p.queued - Size(Head(p.queue))
               e == [p EXCEPT !.task = "sending", !.queue = Tail(@),
                              !.queued = @ - Size(Head(p.queue))]
    <2>1. q \in Seq(FrameSet) /\ n \in Int
      <3>1. p.queue \in Seq(FrameSet) /\ p.queued \in Int
        BY DEF PumpSet
      <3>2. Tail(p.queue) \in Seq(FrameSet) /\ Size(Head(p.queue)) \in Int
        BY <1>s, <3>1, TailFacts, FrameFacts
      <3> QED
        BY <3>1, <3>2
    <2>2. /\ e.task = "sending" /\ e.queue = q /\ e.queued = n
          /\ e.wake = p.wake /\ e.closing = p.closing
      BY DEF PumpSet
    <2>3. e \in PumpSet
      BY <2>1 DEF PumpSet
    <2>4. PumpAfterSend(p) \in PumpSet
      BY <2>1 DEF PumpAfterSend, PumpSet
    <2> HIDE DEF e
    <2>5. e = PumpAfterSend(p)
      BY <2>2, <2>3, <2>4, SamePump DEF PumpAfterSend
    <2> QED
      BY <2>5 DEF e
  <1>3. PumpSends(v) => pump' = [pump EXCEPT ![v] =
                                   [pump[v] EXCEPT !.task = "sending", !.queue = Tail(@),
                                                   !.queued = @ - Size(Head(pump[v].queue))]]
    BY <1>1 DEF PumpSends
  <1>4. PumpSent(v) \/ PumpWakes(v) =>
          pump' = [pump EXCEPT ![v] = [pump[v] EXCEPT !.task = "run"]]
    BY <1>1 DEF PumpSent, PumpWakes
  <1>5. PumpIdles(v) =>
          pump' = [pump EXCEPT ![v] =
                     IF pump[v].closing THEN [pump[v] EXCEPT !.task = "finished"]
                     ELSE [pump[v] EXCEPT !.task = "waiting", !.wake = FALSE]]
    BY <1>1 DEF PumpIdles
  <1>6. PumpSends(v) => pump' = [pump EXCEPT ![v] = PumpAfterSend(pump[v])]
    BY <1>1, <1>s, <1>3 DEF PumpSends
  <1> QED
    BY <1>1, <1>2, <1>4, <1>5, <1>6

LEMMA PumpsStep ==
  ASSUME Typed, [Next]_vars
  PROVE  PumpsTyped'
  <1>t. PumpsTyped /\ LoopTyped
    BY TypedParts
  <1>1. CASE UNCHANGED pump
    BY <1>t, <1>1 DEF PumpsTyped
  <1>2. CASE UNCHANGED vars
    BY <1>1, <1>2 DEF vars
  <1>3. ASSUME NEW n \in 1 .. MaxChunk, ReadOutput(n) PROVE PumpsTyped'
    <2>1. Output(total + 1, total + n) \in FrameSet
      BY <1>t, OutputIsFrame DEF LoopTyped
    <2>2. pump' = FannedOut(Output(total + 1, total + n))
      BY <1>3 DEF ReadOutput
    <2> QED
      BY <1>t, <2>1, <2>2, FannedOutTyped DEF PumpsTyped
  <1>4. CASE ReadEnd \/ ReadError
    <2> DEFINE told == FannedOut(TermClosed)
    <2>1. told \in [Viewers -> PumpSet]
      BY <1>t, ClosedIsFrame, FannedOutTyped
    <2>2. pump' = [v \in Viewers |-> IF told[v].task = "none" THEN NoPump
                                     ELSE [told[v] EXCEPT !.closing = TRUE, !.wake = TRUE]]
      BY <1>4 DEF ReadEnd, ReadError, LeaveLoop
    <2> HIDE DEF told
    <2>3. \A p \in PumpSet : [p EXCEPT !.closing = TRUE, !.wake = TRUE] \in PumpSet
      BY DEF PumpSet
    <2> QED
      BY <2>1, <2>2, <2>3, NoPumpTyped DEF PumpsTyped
  <1>5. CASE FlushDone \/ FlushTimeout
    BY <1>5, NoPumpTyped DEF FlushDone, FlushTimeout, PumpsTyped
  <1>6. CASE Kill \/ ProcessExits
    BY <1>1, <1>6 DEF Kill, ProcessExits
  <1>7. ASSUME NEW v \in Viewers,
               \/ ClientAttach(v) \/ ClientReceive(v) \/ Disconnect(v)
               \/ AttachUnknown(v) \/ AttachBegin(v) \/ AttachDelta(v) \/ AttachLive(v)
        PROVE  UNCHANGED pump
    BY <1>7 DEF ClientAttach, ClientReceive, Disconnect, AttachUnknown, AttachBegin,
                AttachDelta, AttachLive
  <1>8. ASSUME NEW v \in Viewers, Detach(v) \/ Release(v) \/ AttachFails(v) \/ PumpFails(v)
        PROVE  PumpsTyped'
    <2>1. UNCHANGED pump \/ pump' = Dropped({v})
      BY <1>8 DEF Detach, Release, Unsubscribe, AttachFails, PumpFails
    <2> QED
      BY <1>t, <1>1, <2>1, DroppedTyped DEF PumpsTyped
  <1>9. ASSUME NEW v \in Viewers, PumpSends(v) \/ PumpSent(v) \/ PumpIdles(v) \/ PumpWakes(v)
        PROVE  PumpsTyped'
    <2>1. pump[v] \in PumpSet
      BY <1>t DEF PumpsTyped
    <2>2. \A task \in {"run", "waiting", "finished"}, wake \in BOOLEAN :
            PumpIn(pump[v], task, wake) \in PumpSet
      BY <2>1 DEF PumpIn, PumpSet
    <2>3. pump[v].wake \in BOOLEAN
      BY <2>1 DEF PumpSet
    <2>4. PumpSends(v) => PumpAfterSend(pump[v]) \in PumpSet
      <3> HAVE PumpSends(v)
      <3>1. pump[v].queue # <<>> /\ pump[v].queue \in Seq(FrameSet) /\ pump[v].queued \in Int
        BY <2>1 DEF PumpSends, PumpSet
      <3>2. Tail(pump[v].queue) \in Seq(FrameSet) /\ Size(Head(pump[v].queue)) \in Int
        BY <3>1, TailFacts, FrameFacts
      <3> QED
        BY <2>1, <3>1, <3>2 DEF PumpAfterSend, PumpSet
    <2>5. \E p \in PumpSet : pump' = [pump EXCEPT ![v] = p]
      BY <1>t, <1>9, <2>2, <2>3, <2>4, PumpTurns
    <2> QED
      BY <1>t, <2>5, PumpBecomes
  <1> QED
    BY <1>1, <1>2, <1>3, <1>4, <1>5, <1>6, <1>7, <1>8, <1>9 DEF Next

(* ... to the wires ... *)
LEMMA WiresStep ==
  ASSUME Typed, [Next]_vars
  PROVE  WiresTyped'
  <1>t. WiresTyped /\ LoopTyped /\ PumpsTyped
    BY TypedParts
  <1>1. CASE UNCHANGED <<wire, offset>>
    BY <1>t, <1>1 DEF WiresTyped
  <1>2. CASE UNCHANGED vars
    BY <1>1, <1>2 DEF vars
  <1>3. ASSUME NEW n \in 1 .. MaxChunk, ReadOutput(n) PROVE WiresTyped'
    BY <1>1, <1>3 DEF ReadOutput
  <1>4. CASE ReadEnd \/ ReadError
    BY <1>1, <1>4 DEF ReadEnd, ReadError, LeaveLoop
  <1>5. CASE FlushDone \/ FlushTimeout \/ Kill \/ ProcessExits
    BY <1>1, <1>5 DEF FlushDone, FlushTimeout, Kill, ProcessExits
  <1>6. ASSUME NEW v \in Viewers,
               \/ ClientAttach(v) \/ Detach(v) \/ Release(v)
               \/ AttachUnknown(v) \/ AttachLive(v) \/ AttachFails(v)
               \/ PumpSent(v) \/ PumpIdles(v) \/ PumpWakes(v) \/ PumpFails(v)
        PROVE  UNCHANGED <<wire, offset>>
    BY <1>6 DEF ClientAttach, Detach, Release, AttachUnknown, AttachLive, AttachFails,
                PumpSent, PumpIdles, PumpWakes, PumpFails
  <1>7. ASSUME NEW v \in Viewers, NEW w \in Seq(FrameSet), NEW n \in Nat,
               wire' = [wire EXCEPT ![v] = w],
               UNCHANGED offset \/ offset' = [offset EXCEPT ![v] = n]
        PROVE  WiresTyped'
    BY <1>t, <1>7 DEF WiresTyped
  <1>8. ASSUME NEW v \in Viewers
        PROVE  wire[v] \in Seq(FrameSet) /\ offset[v] \in Nat /\ total \in Nat
    BY <1>t DEF WiresTyped, LoopTyped
  <1>9. ASSUME NEW v \in Viewers, NEW f \in FrameSet
        PROVE  Append(wire[v], f) \in Seq(FrameSet)
    BY <1>8, AppendFacts
  <1>10. ASSUME NEW v \in Viewers, ClientReceive(v) PROVE WiresTyped'
    <2>1. wire' = [wire EXCEPT ![v] = Tail(wire[v])] /\ wire[v] # <<>> /\ UNCHANGED offset
      BY <1>10 DEF ClientReceive
    <2>2. Tail(wire[v]) \in Seq(FrameSet)
      BY <1>8, <2>1, TailFacts
    <2> QED
      BY <1>7, <2>1, <2>2
  <1>11. ASSUME NEW v \in Viewers, Disconnect(v) PROVE WiresTyped'
    <2>1. <<>> \in Seq(FrameSet)
      OBVIOUS
    <2> QED
      BY <1>7, <1>11, <2>1 DEF Disconnect
  <1>12. ASSUME NEW v \in Viewers, AttachBegin(v) PROVE WiresTyped'
    <2>1. CASE IsEmpty(RingSince(0))
      BY <1>1, <1>12, <2>1 DEF AttachBegin
    <2>2. CASE ~IsEmpty(RingSince(0))
      <3>1. /\ wire' = [wire EXCEPT ![v] = Append(wire[v], RingSince(0))]
            /\ offset' = [offset EXCEPT ![v] = total]
        BY <1>12, <2>2 DEF AttachBegin, Sent
      <3>2. RingSince(0) \in FrameSet
        BY <1>8, <2>2, SinceFacts
      <3> QED
        BY <1>7, <1>8, <1>9, <3>1, <3>2
    <2> QED
      BY <2>1, <2>2
  <1>13. ASSUME NEW v \in Viewers, AttachDelta(v) PROVE WiresTyped'
    <2>1. /\ wire' = [wire EXCEPT ![v] = Append(wire[v], RingSince(offset[v]))]
          /\ offset' = [offset EXCEPT ![v] = total] /\ ~IsEmpty(RingSince(offset[v]))
      BY <1>13 DEF AttachDelta, Sent
    <2>2. RingSince(offset[v]) \in FrameSet
      BY <1>8, <2>1, SinceFacts
    <2> QED
      BY <1>7, <1>8, <1>9, <2>1, <2>2
  <1>14. ASSUME NEW v \in Viewers, PumpSends(v) PROVE WiresTyped'
    <2>1. /\ wire' = [wire EXCEPT ![v] = Append(wire[v], Head(pump[v].queue))]
          /\ UNCHANGED offset /\ pump[v].queue # <<>>
      BY <1>14 DEF PumpSends, Sent
    <2>2. pump[v].queue \in Seq(FrameSet)
      BY <1>t DEF PumpsTyped, PumpSet
    <2>3. Head(pump[v].queue) \in FrameSet
      BY <2>1, <2>2, TailFacts
    <2> QED
      BY <1>7, <1>8, <1>9, <2>1, <2>3
  <1> QED
    BY <1>1, <1>2, <1>3, <1>4, <1>5, <1>6, <1>10, <1>11, <1>12, <1>13, <1>14 DEF Next

(* ... to the clients ... *)
LEMMA ClientsStep ==
  ASSUME Typed, [Next]_vars
  PROVE  ClientsTyped'
  <1>t. ClientsTyped /\ WiresTyped
    BY TypedParts
  <1>1. CASE UNCHANGED <<conn, attaches, screen>>
    BY <1>t, <1>1 DEF ClientsTyped
  <1>2. CASE UNCHANGED vars
    BY <1>1, <1>2 DEF vars, client
  <1>3. ASSUME UNCHANGED <<attaches, screen>>,
               conn' \in [Viewers -> {"open", "closing", "lost", "gone"}]
        PROVE  ClientsTyped'
    BY <1>t, <1>3 DEF ClientsTyped
  <1>4. ASSUME NEW vs, Evict(vs)
        PROVE  conn' \in [Viewers -> {"open", "closing", "lost", "gone"}]
    BY <1>t, <1>4 DEF ClientsTyped, Evict
  <1>5. ASSUME NEW n \in 1 .. MaxChunk, ReadOutput(n) PROVE ClientsTyped'
    BY <1>3, <1>4, <1>5 DEF ReadOutput, client
  <1>6. CASE ReadEnd \/ ReadError
    BY <1>3, <1>4, <1>6 DEF ReadEnd, ReadError, LeaveLoop, client
  <1>7. CASE FlushDone \/ FlushTimeout \/ Kill \/ ProcessExits
    BY <1>1, <1>7 DEF FlushDone, FlushTimeout, Kill, ProcessExits, client
  <1>8. ASSUME NEW v \in Viewers,
               \/ Detach(v) \/ AttachUnknown(v) \/ AttachBegin(v) \/ AttachDelta(v)
               \/ AttachLive(v) \/ AttachFails(v)
               \/ PumpSends(v) \/ PumpSent(v) \/ PumpIdles(v) \/ PumpWakes(v) \/ PumpFails(v)
        PROVE  UNCHANGED <<conn, attaches, screen>>
    BY <1>8 DEF Detach, AttachUnknown, AttachBegin, AttachDelta, AttachLive, AttachFails,
                PumpSends, PumpSent, PumpIdles, PumpWakes, PumpFails, client
  <1>9. ASSUME NEW v \in Viewers, Disconnect(v) \/ Release(v)
        PROVE  /\ UNCHANGED <<attaches, screen>>
               /\ conn' \in [Viewers -> {"open", "closing", "lost", "gone"}]
    BY <1>t, <1>9 DEF ClientsTyped, Disconnect, Release, client
  <1>10. ASSUME NEW v \in Viewers, ClientAttach(v) PROVE ClientsTyped'
    BY <1>t, <1>10 DEF ClientsTyped, ClientAttach
  <1>11. ASSUME NEW v \in Viewers, ClientReceive(v) PROVE ClientsTyped'
    <2>1. /\ screen' = [screen EXCEPT ![v] = screen[v] \o Positions(Head(wire[v]))]
          /\ UNCHANGED <<conn, attaches>> /\ wire[v] # <<>>
      BY <1>11 DEF ClientReceive
    <2>2. wire[v] \in Seq(FrameSet) /\ screen[v] \in Seq(Nat)
      BY <1>t DEF WiresTyped, ClientsTyped
    <2>3. Positions(Head(wire[v])) \in Seq(Nat)
      BY <2>1, <2>2, TailFacts, FrameFacts
    <2>4. screen[v] \o Positions(Head(wire[v])) \in Seq(Nat)
      BY <2>2, <2>3, Concatenation
    <2> QED
      BY <1>t, <2>1, <2>4 DEF ClientsTyped
  <1> QED
    BY <1>1, <1>2, <1>3, <1>5, <1>6, <1>7, <1>8, <1>9, <1>10, <1>11 DEF Next

(* ... and to what is kept of them. *)
LEMMA FlagsStep ==
  ASSUME Typed, [Next]_vars
  PROVE  FlagsTyped'
  <1>t. FlagsTyped
    BY TypedParts
  <1> DEFINE Flags == <<request, toldClosed, overran, abandoned>>
  <1>1. CASE UNCHANGED Flags
    BY <1>t, <1>1 DEF FlagsTyped
  <1>2. CASE UNCHANGED vars
    BY <1>1, <1>2 DEF vars, client
  <1>3. ASSUME NEW n \in 1 .. MaxChunk, ReadOutput(n) PROVE FlagsTyped'
    BY <1>1, <1>3 DEF ReadOutput, client
  <1>4. CASE ReadEnd \/ ReadError
    BY <1>1, <1>4 DEF ReadEnd, ReadError, LeaveLoop, client
  <1>5. CASE FlushDone \/ Kill \/ ProcessExits
    BY <1>1, <1>5 DEF FlushDone, Kill, ProcessExits, client
  <1>6. CASE FlushTimeout
    BY <1>t, <1>6 DEF FlagsTyped, FlushTimeout, client
  <1>7. ASSUME NEW v \in Viewers,
               \/ Disconnect(v) \/ Detach(v) \/ AttachLive(v) \/ AttachFails(v)
               \/ PumpSends(v) \/ PumpSent(v) \/ PumpIdles(v) \/ PumpWakes(v) \/ PumpFails(v)
        PROVE  UNCHANGED Flags
    BY <1>7 DEF Disconnect, Detach, AttachLive, AttachFails, PumpSends, PumpSent, PumpIdles,
                PumpWakes, PumpFails, client
  <1>8. ASSUME NEW v \in Viewers, ClientAttach(v) PROVE FlagsTyped'
    BY <1>t, <1>8 DEF FlagsTyped, ClientAttach
  <1>9. ASSUME NEW v \in Viewers, ClientReceive(v) PROVE FlagsTyped'
    <2>1. /\ UNCHANGED <<request, overran, abandoned>>
          /\ \E b \in BOOLEAN : toldClosed' = [toldClosed EXCEPT ![v] = b]
      BY <1>9 DEF ClientReceive
    <2> QED
      BY <1>t, <2>1 DEF FlagsTyped
  <1>10. ASSUME NEW v \in Viewers, AttachUnknown(v) \/ Release(v) PROVE FlagsTyped'
    BY <1>t, <1>10 DEF FlagsTyped, AttachUnknown, Release
  <1>11. ASSUME NEW v \in Viewers, AttachBegin(v) PROVE FlagsTyped'
    <2>1. /\ request' = [request EXCEPT ![v] = FALSE] /\ overran' = [overran EXCEPT ![v] = FALSE]
          /\ UNCHANGED <<toldClosed, abandoned>>
      BY <1>11 DEF AttachBegin
    <2> QED
      BY <1>t, <2>1 DEF FlagsTyped
  <1>12. ASSUME NEW v \in Viewers, AttachDelta(v) PROVE FlagsTyped'
    <2>1. /\ UNCHANGED <<request, toldClosed, abandoned>>
          /\ \E b \in BOOLEAN : overran' = [overran EXCEPT ![v] = b]
      BY <1>12 DEF AttachDelta, client
    <2> QED
      BY <1>t, <2>1 DEF FlagsTyped
  <1> QED
    BY <1>1, <1>2, <1>3, <1>4, <1>5, <1>6, <1>7, <1>8, <1>9, <1>10, <1>11, <1>12 DEF Next

LEMMA TypedStep ==
  ASSUME Typed, [Next]_vars
  PROVE  Typed'
  BY LoopStep, SetsStep, PumpsStep, WiresStep, ClientsStep, FlagsStep DEF Typed

LEMMA TypedInit ==
  ASSUME Init
  PROVE  Typed
  <1>1. \A S : <<>> \in Seq(S)
    OBVIOUS
  <1>2. LoopTyped /\ SetsTyped /\ ClientsTyped
    BY <1>1 DEF Init, LoopTyped, SetsTyped, ClientsTyped
  <1>3. PumpsTyped /\ WiresTyped
    BY <1>1, NoPumpTyped DEF Init, PumpsTyped, WiresTyped
  <1>4. FlagsTyped
    BY DEF Init, FlagsTyped
  <1> QED
    BY <1>2, <1>3, <1>4 DEF Typed

-----------------------------------------------------------------------------
(* The order of the end, and the pumps that are not there.                 *)

LEMMA OrderedStep ==
  ASSUME Ordered, [Next]_vars
  PROVE  Ordered'
  <1>1. CASE UNCHANGED <<session, abandoned>>
    BY <1>1 DEF Ordered, session
  <1>2. CASE UNCHANGED vars
    BY <1>1, <1>2 DEF vars
  <1>3. ASSUME NEW n \in 1 .. MaxChunk, ReadOutput(n) PROVE Ordered'
    BY <1>3 DEF Ordered, ReadOutput
  <1>4. CASE ReadEnd \/ ReadError
    <2>1. reader = "reading" /\ ~listed' /\ abandoned' = abandoned
      BY <1>4 DEF ReadEnd, ReadError, LeaveLoop
    <2> QED
      BY <2>1 DEF Ordered
  <1>5. CASE FlushDone \/ FlushTimeout
    BY <1>5 DEF Ordered, FlushDone, FlushTimeout
  <1>6. CASE Kill \/ ProcessExits
    BY <1>6 DEF Ordered, Kill, ProcessExits
  <1>7. ASSUME NEW v \in Viewers, ViewerStep(v) PROVE UNCHANGED <<session, abandoned>>
    BY <1>7, SessionOfViewers
  <1> QED
    BY <1>1, <1>2, <1>3, <1>4, <1>5, <1>6, <1>7 DEF Next, ViewerStep, AttachStep, PumpStep

(* What the loop and the output do, whatever the step. *)
Onward ==
  /\ total \in Nat /\ total' \in Nat /\ total <= total'
  /\ reader # "reading" => reader' # "reading"

LEMMA OnwardStep ==
  ASSUME Typed, [Next]_vars
  PROVE  Onward
  <1>t. LoopTyped /\ LoopTyped'
    BY TypedParts, LoopStep
  <1>1. CASE UNCHANGED session
    BY <1>t, <1>1 DEF LoopTyped, session, Onward
  <1>2. CASE UNCHANGED vars
    BY <1>1, <1>2 DEF vars
  <1>3. ASSUME NEW n \in 1 .. MaxChunk, ReadOutput(n) PROVE Onward
    BY <1>t, <1>3 DEF LoopTyped, ReadOutput, Onward
  <1>4. CASE ReadEnd \/ ReadError
    <2>1. reader = "reading" /\ total' = total
      BY <1>4 DEF ReadEnd, ReadError, LeaveLoop
    <2> QED
      BY <1>t, <2>1 DEF LoopTyped, Onward
  <1>5. CASE FlushDone \/ FlushTimeout \/ Kill \/ ProcessExits
    BY <1>t, <1>5 DEF LoopTyped, FlushDone, FlushTimeout, Kill, ProcessExits, Onward
  <1>6. ASSUME NEW v \in Viewers, ViewerStep(v) PROVE UNCHANGED session
    BY <1>6, SessionOfViewers
  <1> QED
    BY <1>1, <1>2, <1>3, <1>4, <1>5, <1>6 DEF Next, ViewerStep, AttachStep, PumpStep

(* A pump of the fan-out is running, or gone, or as it was.                *)
LEMMA FannedOutFacts ==
  ASSUME PumpsTyped, NEW f \in FrameSet, NEW v \in Viewers
  PROVE  /\ v \in Overflowing(f) => FannedOut(f)[v] = NoPump
         /\ v \in Live \ Overflowing(f) => FannedOut(f)[v] = Enqueued(pump[v], f)
         /\ v \notin Live => FannedOut(f)[v] = pump[v]
         /\ Overflowing(f) \subseteq Live
  BY DEF FannedOut, Overflowing

LEMMA QuietStep ==
  ASSUME Typed, [Next]_vars, NEW v \in Viewers, Quiet(v)
  PROVE  Quiet(v)'
  <1>t. PumpsTyped /\ LoopTyped /\ Onward /\ pump[v] \in PumpSet /\ pump \in [Viewers -> PumpSet]
    BY TypedParts, OnwardStep DEF PumpsTyped
  <1>1. CASE pump'[v] = pump[v]
    BY <1>t, <1>1 DEF Quiet, Onward
  <1>2. CASE UNCHANGED vars
    BY <1>1, <1>2 DEF vars
  <1>3. CASE pump'[v] = NoPump
    BY <1>3, NoPumpTyped DEF Quiet
  <1>e. ASSUME NEW f \in FrameSet, v \in Live \ Overflowing(f), reader = "reading"
        PROVE  /\ FannedOut(f)[v].task \notin {"none", "finished"}
               /\ FannedOut(f)[v].closing = FALSE
    <2>1. FannedOut(f)[v] = Enqueued(pump[v], f)
      BY <1>t, <1>e, FannedOutFacts
    <2>2. pump[v].closing = FALSE /\ pump[v].task # "finished"
      BY <1>t, <1>e DEF Quiet, PumpSet
    <2> QED
      <3>1. /\ Enqueued(pump[v], f).task = (IF pump[v].task = "none" THEN "run" ELSE pump[v].task)
            /\ Enqueued(pump[v], f).closing = pump[v].closing
        BY <1>t, EnqueuedFacts
      <3>2. pump[v].task \in {"none", "run", "sending", "waiting", "finished"}
        BY <1>t DEF PumpSet
      <3> QED
        BY <2>1, <2>2, <3>1, <3>2
  <1>4. ASSUME NEW n \in 1 .. MaxChunk, ReadOutput(n) PROVE Quiet(v)'
    <2> DEFINE f == Output(total + 1, total + n)
    <2>1. f \in FrameSet /\ pump' = FannedOut(f) /\ reader = "reading"
      BY <1>t, <1>4, OutputIsFrame DEF LoopTyped, ReadOutput
    <2> HIDE DEF f
    <2>2. CASE v \in Live \ Overflowing(f)
      BY <1>e, <2>1, <2>2 DEF Quiet
    <2>3. CASE v \notin Live \ Overflowing(f)
      BY <1>t, <1>1, <1>3, <2>1, <2>3, FannedOutFacts
    <2> QED
      BY <2>2, <2>3
  <1>5. CASE ReadEnd \/ ReadError
    <2> DEFINE told == FannedOut(TermClosed)
    <2>1. reader = "reading" /\ reader' # "reading"
          /\ pump'[v] = IF told[v].task = "none" THEN NoPump
                        ELSE [told[v] EXCEPT !.closing = TRUE, !.wake = TRUE]
      BY <1>5 DEF ReadEnd, ReadError, LeaveLoop
    <2>2. told[v] \in PumpSet
      BY <1>t, ClosedIsFrame, FannedOutTyped
    <2>3. CASE told[v].task = "none"
      BY <1>3, <2>1, <2>3
    <2>4. CASE told[v].task # "none"
      <3>1. told[v].task # "finished"
        <4>1. CASE v \in Live \ Overflowing(TermClosed)
          BY <1>e, <2>1, <4>1, ClosedIsFrame
        <4>2. CASE v \notin Live \ Overflowing(TermClosed)
          <5>1. told[v] = NoPump \/ told[v] = pump[v]
            BY <1>t, <4>2, ClosedIsFrame, FannedOutFacts
          <5> QED
            BY <2>1, <5>1, NoPumpTyped DEF Quiet
        <4> QED
          BY <4>1, <4>2
      <3>2. \A p \in PumpSet : [p EXCEPT !.closing = TRUE, !.wake = TRUE].task = p.task
        BY DEF PumpSet
      <3> HIDE DEF told
      <3>3. pump'[v].task \notin {"none", "finished"}
        BY <2>1, <2>2, <2>4, <3>1, <3>2
      <3> QED
        BY <2>1, <3>3 DEF Quiet
    <2> QED
      BY <2>3, <2>4
  <1>6. CASE FlushDone \/ FlushTimeout
    BY <1>3, <1>6 DEF FlushDone, FlushTimeout
  <1>7. CASE Kill \/ ProcessExits
    BY <1>1, <1>7 DEF Kill, ProcessExits
  <1>8. ASSUME NEW u \in Viewers,
               \/ ClientAttach(u) \/ ClientReceive(u) \/ Disconnect(u)
               \/ AttachUnknown(u) \/ AttachBegin(u) \/ AttachDelta(u) \/ AttachLive(u)
        PROVE  UNCHANGED pump
    BY <1>8 DEF ClientAttach, ClientReceive, Disconnect, AttachUnknown, AttachBegin,
                AttachDelta, AttachLive
  <1>9. ASSUME NEW u \in Viewers, Detach(u) \/ Release(u) \/ AttachFails(u) \/ PumpFails(u)
        PROVE  Quiet(v)'
    <2>1. UNCHANGED pump \/ pump' = Dropped({u})
      BY <1>9 DEF Detach, Release, Unsubscribe, AttachFails, PumpFails
    <2> QED
      BY <1>1, <1>3, <2>1 DEF Dropped
  <1>10. ASSUME NEW u \in Viewers, PumpSends(u) \/ PumpSent(u) \/ PumpIdles(u) \/ PumpWakes(u)
         PROVE  Quiet(v)'
    <2>1. CASE u # v
      <3>1. pump'[v] = pump[v]
        BY <1>t, <1>10, <2>1, PumpTurns
      <3> QED
        BY <1>1, <3>1
    <2>2. CASE u = v
      <3>1. CASE PumpSends(v)
        <4>1. pump'[v] = PumpAfterSend(pump[v]) /\ pump[v].task = "run"
          BY <1>t, <3>1, PumpTurns DEF PumpSends
        <4>2. pump'[v].task = "sending" /\ pump'[v].closing = pump[v].closing
          BY <4>1 DEF PumpAfterSend
        <4> QED
          BY <1>t, <4>2 DEF Quiet, Onward
      <3>2. CASE PumpSent(v) \/ PumpWakes(v)
        BY <1>t, <2>2, <3>2, PumpTurns DEF Quiet, Onward, PumpIn
      <3>3. CASE PumpIdles(v)
        <4>1. pump[v].queue = <<>>
          BY <3>3 DEF PumpIdles
        <4> QED
          BY <1>t, <2>2, <3>3, <4>1, PumpTurns DEF Quiet, Onward, PumpIn
      <3> QED
        BY <1>10, <2>2, <3>1, <3>2, <3>3
    <2> QED
      BY <2>1, <2>2
  <1> QED
    BY <1>1, <1>2, <1>4, <1>5, <1>6, <1>7, <1>8, <1>9, <1>10 DEF Next

-----------------------------------------------------------------------------
(* What a step does to a viewer.                                           *)

OnceInv(v) == ClosedComesLast(v) /\ AttachedOnce(v) /\ Continues(v)

(* All steps but those of the client itself and of its attach().           *)
Kept(v) ==
  /\ screen'[v] = screen[v] /\ toldClosed'[v] = toldClosed[v]
  /\ overran'[v] = overran[v] /\ attaches'[v] = attaches[v] /\ offset'[v] = offset[v]
  /\ request'[v] => request[v]
  /\ Up(v)' => Up(v)

(* Nothing comes or goes, unless the process outputs what is not for it.   *)
Still(v) ==
  /\ Kept(v) /\ wire'[v] = wire[v] /\ pump'[v].queue = pump[v].queue
  /\ pump[v].task = "none" => pump'[v].task = "none"
  /\ v \in subscribers' <=> v \in subscribers
  /\ v \in catchingUp' <=> v \in catchingUp
  /\ abandoned'[v] = abandoned[v]
  /\ v \in subscribers \ catchingUp /\ ~abandoned[v] => total' = total

(* Its pump is gone, with what was queued.                                 *)
Loses(v) ==
  /\ Kept(v) /\ wire'[v] = wire[v] /\ pump'[v].queue = <<>> /\ pump'[v].task = "none"
  /\ v \in subscribers' => v \in subscribers
  /\ v \in catchingUp' => v \in catchingUp
  /\ attaches[v] <= 1 => v \notin catchingUp'
  /\ v \in subscribers' => abandoned'[v]

LEMMA ViewerTypes ==
  ASSUME Typed, NEW v \in Viewers
  PROVE  /\ wire[v] \in Seq(FrameSet) /\ pump[v].queue \in Seq(FrameSet)
         /\ OnTheWay(v) \in Seq(FrameSet) /\ Shown(v) \in Nat
         /\ screen[v] \in Seq(Nat) /\ offset[v] \in Nat /\ attaches[v] \in Nat /\ total \in Nat
  <1>t. WiresTyped /\ PumpsTyped /\ ClientsTyped /\ LoopTyped
    BY TypedParts
  <1>1. wire[v] \in Seq(FrameSet) /\ pump[v].queue \in Seq(FrameSet)
    BY <1>t DEF WiresTyped, PumpsTyped, PumpSet
  <1>2. OnTheWay(v) \in Seq(FrameSet)
    BY <1>1, Concatenation DEF OnTheWay
  <1>3. screen[v] \in Seq(Nat) /\ offset[v] \in Nat /\ attaches[v] \in Nat /\ total \in Nat
    BY <1>t DEF ClientsTyped, WiresTyped, LoopTyped
  <1>4. Shown(v) \in Nat
    BY <1>3 DEF Shown
  <1> QED
    BY <1>1, <1>2, <1>3, <1>4

LEMMA ViewerFlags ==
  ASSUME Typed, NEW v \in Viewers
  PROVE  /\ request[v] \in BOOLEAN /\ toldClosed[v] \in BOOLEAN
         /\ overran[v] \in BOOLEAN /\ abandoned[v] \in BOOLEAN
  <1>t. FlagsTyped
    BY TypedParts
  <1> QED
    BY <1>t DEF FlagsTyped

(* More output: what flowed still does. *)
LEMMA FlowGrows ==
  ASSUME Typed, Onward, NEW v \in Viewers,
         Flow(OnTheWay(v), Shown(v), screen[v] = <<>>, overran[v], total)
  PROVE  Flow(OnTheWay(v), Shown(v), screen[v] = <<>>, overran[v], total')
  <1> DEFINE fresh == screen[v] = <<>>
  <1>1. fresh \in BOOLEAN
    OBVIOUS
  <1>2. overran[v] \in BOOLEAN
    BY ViewerFlags
  <1>3. /\ OnTheWay(v) \in Seq(FrameSet) /\ Shown(v) \in Nat
        /\ total \in Nat /\ total' \in Nat /\ total <= total'
    BY ViewerTypes DEF Onward
  <1>4. Flow(OnTheWay(v), Shown(v), fresh, overran[v], total)
    OBVIOUS
  <1> HIDE DEF fresh
  <1>5. Flow(OnTheWay(v), Shown(v), fresh, overran[v], total')
    BY <1>1, <1>2, <1>3, <1>4, FlowOn
  <1> QED
    BY <1>5 DEF fresh

LEMMA StillStep ==
  ASSUME Typed, Onward, NEW v \in Viewers, OnceInv(v), Still(v)
  PROVE  OnceInv(v)'
  <1>1. ClosedComesLast(v)'
    BY DEF OnceInv, ClosedComesLast, Told, Still, Kept, Onward
  <1>2. AttachedOnce(v)'
    <2>1. Unserved(v) => Unserved(v)'
      BY DEF Unserved, Still, Kept
    <2>2. offset[v] <= total => offset'[v] <= total'
      BY ViewerTypes DEF Still, Kept, Onward
    <2> QED
      BY <2>1, <2>2 DEF OnceInv, AttachedOnce, Still, Kept
  <1>3. Continues(v)'
    <2>1. SUFFICES ASSUME attaches'[v] <= 1, Up(v)'
                   PROVE  /\ Flow(OnTheWay(v)', Shown(v)', screen'[v] = <<>>, overran'[v], total')
                          /\ v \in subscribers' /\ ~abandoned'[v]
                               => Ends(OnTheWay(v)', Shown(v)') = Served(v)'
      BY DEF Continues
    <2>2. attaches[v] <= 1 /\ Up(v)
      BY <2>1 DEF Still, Kept
    <2>3. OnTheWay(v)' = OnTheWay(v) /\ Shown(v)' = Shown(v)
          /\ screen'[v] = screen[v] /\ overran'[v] = overran[v]
      BY DEF OnTheWay, Shown, Still, Kept
    <2>4. /\ Flow(OnTheWay(v), Shown(v), screen[v] = <<>>, overran[v], total)
          /\ v \in subscribers /\ ~abandoned[v] => Ends(OnTheWay(v), Shown(v)) = Served(v)
      BY <2>2 DEF OnceInv, Continues
    <2>5. Flow(OnTheWay(v), Shown(v), screen[v] = <<>>, overran[v], total')
      BY <2>4, FlowGrows
    <2>6. v \in subscribers' /\ ~abandoned'[v] => Served(v)' = Served(v)
      BY DEF Served, Still, Kept
    <2> QED
      BY <2>3, <2>4, <2>5, <2>6 DEF Still
  <1> QED
    BY <1>1, <1>2, <1>3 DEF OnceInv

LEMMA LosesStep ==
  ASSUME Typed, Onward, NEW v \in Viewers, OnceInv(v), Loses(v)
  PROVE  OnceInv(v)'
  <1>1. ClosedComesLast(v)'
    <2>1. NoneClosed(<<>>) /\ ClosedLast(<<>>)
      BY DEF NoneClosed, ClosedLast
    <2> QED
      BY <2>1 DEF OnceInv, ClosedComesLast, Told, Loses, Kept, Onward
  <1>2. AttachedOnce(v)'
    <2>1. Unserved(v) => Unserved(v)'
      BY DEF Unserved, Loses, Kept
    <2> QED
      BY <2>1 DEF OnceInv, AttachedOnce, Loses, Kept
  <1>3. Continues(v)'
    <2>1. SUFFICES ASSUME attaches'[v] <= 1, Up(v)'
                   PROVE  /\ Flow(OnTheWay(v)', Shown(v)', screen'[v] = <<>>, overran'[v], total')
                          /\ v \in subscribers' => abandoned'[v]
      BY DEF Continues
    <2>2. attaches[v] <= 1 /\ Up(v)
      BY <2>1 DEF Loses, Kept
    <2>3. OnTheWay(v)' = wire[v] /\ Shown(v)' = Shown(v)
          /\ screen'[v] = screen[v] /\ overran'[v] = overran[v]
      BY ViewerTypes, EmptySequence DEF OnTheWay, Shown, Loses, Kept
    <2>4. Flow(wire[v] \o pump[v].queue, Shown(v), screen[v] = <<>>, overran[v], total)
      BY <2>2 DEF OnceInv, Continues, OnTheWay
    <2>5. Flow(wire[v], Shown(v), screen[v] = <<>>, overran[v], total')
      <3> DEFINE fresh == screen[v] = <<>>
      <3>1. fresh \in BOOLEAN
        OBVIOUS
      <3>2. overran[v] \in BOOLEAN
        BY ViewerFlags
      <3>3. /\ wire[v] \in Seq(FrameSet) /\ pump[v].queue \in Seq(FrameSet)
            /\ Shown(v) \in Nat /\ total \in Nat /\ total' \in Nat /\ total <= total'
        BY ViewerTypes DEF Onward
      <3> HIDE DEF fresh
      <3>4. Flow(wire[v] \o pump[v].queue, Shown(v), fresh, overran[v], total)
        BY <2>4 DEF fresh
      <3>5. Flow(wire[v], Shown(v), fresh, overran[v], total)
        BY <3>1, <3>2, <3>3, <3>4, FlowPrefix
      <3>6. Flow(wire[v], Shown(v), fresh, overran[v], total')
        BY <3>1, <3>2, <3>3, <3>5, FlowOn
      <3> QED
        BY <3>6 DEF fresh
    <2> QED
      BY <2>3, <2>5 DEF Loses
  <1> QED
    BY <1>1, <1>2, <1>3 DEF OnceInv

(* The connection drops. *)
LEMMA DisconnectStep ==
  ASSUME Typed, Onward, NEW v \in Viewers, OnceInv(v), Disconnect(v)
  PROVE  OnceInv(v)'
  <1>t. WiresTyped /\ ClientsTyped
    BY TypedParts
  <1>1. wire'[v] = <<>> /\ ~Up(v)'
    BY <1>t DEF WiresTyped, ClientsTyped, Disconnect, Up
  <1>2. UNCHANGED <<session, subscribers, catchingUp, offset, pump, client, overran, abandoned>>
    BY DEF Disconnect
  <1>3. ClosedComesLast(v)'
    <2>1. NoneClosed(<<>>) /\ ClosedLast(<<>>)
      BY DEF NoneClosed, ClosedLast
    <2> QED
      BY <1>1, <1>2, <2>1 DEF OnceInv, ClosedComesLast, Told, client, session
  <1>4. AttachedOnce(v)'
    BY <1>1, <1>2 DEF OnceInv, AttachedOnce, Unserved, client, session
  <1>5. Continues(v)'
    BY <1>1 DEF Continues
  <1> QED
    BY <1>3, <1>4, <1>5 DEF OnceInv

(* The client asks for the session. *)
LEMMA ClientAttachStep ==
  ASSUME Typed, Onward, NEW v \in Viewers, OnceInv(v), ClientAttach(v)
  PROVE  OnceInv(v)'
  <1>t. ClientsTyped /\ FlagsTyped
    BY TypedParts
  <1>1. attaches'[v] = attaches[v] + 1 /\ attaches[v] \in Nat /\ screen'[v] = <<>>
    BY <1>t DEF ClientsTyped, ClientAttach
  <1>2. UNCHANGED <<session, subscribers, catchingUp, offset, pump, conn, wire, toldClosed,
                    overran, abandoned>>
    BY DEF ClientAttach
  <1>3. ClosedComesLast(v)'
    BY <1>2 DEF OnceInv, ClosedComesLast, Told, session
  <1>4. ASSUME attaches'[v] <= 1 PROVE attaches'[v] # 0 /\ Unserved(v) /\ attaches[v] <= 1
    <2>1. attaches[v] = 0 /\ attaches'[v] = 1
      BY <1>1, <1>4
    <2> QED
      BY <2>1 DEF OnceInv, AttachedOnce
  <1>5. AttachedOnce(v)'
    <2>1. Unserved(v) => Unserved(v)'
      BY <1>1, <1>2 DEF Unserved
    <2>2. Unserved(v)' => v \notin catchingUp'
      BY DEF Unserved
    <2> QED
      BY <1>4, <2>1, <2>2 DEF AttachedOnce
  <1>6. Continues(v)'
    <2>1. SUFFICES ASSUME attaches'[v] <= 1
                   PROVE  /\ Flow(OnTheWay(v)', Shown(v)', screen'[v] = <<>>, overran'[v], total')
                          /\ v \notin subscribers'
      BY DEF Continues
    <2>2. OnTheWay(v)' = <<>> /\ v \notin subscribers'
      <3>1. wire'[v] = <<>> /\ pump'[v].queue = <<>> /\ v \notin subscribers'
        BY <1>2, <1>4, <2>1 DEF Unserved
      <3> QED
        BY <3>1 DEF OnTheWay
    <2> QED
      BY <2>2, FlowOfNone
  <1> QED
    BY <1>3, <1>5, <1>6 DEF OnceInv

-----------------------------------------------------------------------------
(* Where term_closed may be.                                               *)

LEMMA ClosedTail ==
  ASSUME NEW s \in Seq(FrameSet), s # <<>>, ClosedLast(s)
  PROVE  /\ ClosedLast(Tail(s)) /\ (NoneClosed(s) => NoneClosed(Tail(s)))
         /\ s[1].kind = "closed" => Tail(s) = <<>> /\ ~NoneClosed(s)
  <1> DEFINE u == Tail(s)
  <1>1. /\ u \in Seq(FrameSet) /\ Len(s) \in Nat \ {0} /\ Len(u) = Len(s) - 1
        /\ \A i \in 1 .. Len(s) - 1 : u[i] = s[i + 1]
    BY TailFacts
  <1> HIDE DEF u
  <1>2. \A i \in 1 .. Len(u) : u[i] = s[i + 1] /\ i + 1 \in 1 .. Len(s)
    BY <1>1
  <1>3. ClosedLast(u) /\ (NoneClosed(s) => NoneClosed(u))
    BY <1>1, <1>2 DEF ClosedLast, NoneClosed
  <1>4. s[1].kind = "closed" => Len(s) = 1 /\ ~NoneClosed(s)
    BY <1>1 DEF ClosedLast, NoneClosed
  <1>5. Len(s) = 1 => u = <<>>
    BY <1>1, EmptySequence
  <1> QED
    BY <1>3, <1>4, <1>5 DEF u

LEMMA ClosedAppend ==
  ASSUME NEW s \in Seq(FrameSet), NEW f \in FrameSet, NoneClosed(s)
  PROVE  /\ ClosedLast(s) /\ ClosedLast(Append(s, f))
         /\ f.kind # "closed" => NoneClosed(Append(s, f))
  <1> DEFINE u == Append(s, f)
  <1>1. /\ Len(u) = Len(s) + 1 /\ u[Len(s) + 1] = f /\ Len(s) \in Nat
        /\ \A i \in 1 .. Len(s) : u[i] = s[i]
    BY AppendFacts
  <1> HIDE DEF u
  <1>2. \A i \in 1 .. Len(u) : i \in 1 .. Len(s) \/ (i = Len(u) /\ u[i] = f)
    BY <1>1
  <1>3. ClosedLast(s) /\ ClosedLast(u) /\ (f.kind # "closed" => NoneClosed(u))
    BY <1>1, <1>2 DEF ClosedLast, NoneClosed
  <1> QED
    BY <1>3 DEF u

LEMMA ClosedBoth ==
  ASSUME NEW s \in Seq(FrameSet), NEW t \in Seq(FrameSet),
         ClosedLast(s), ClosedLast(t), ~NoneClosed(s) => t = <<>>
  PROVE  /\ ClosedLast(s \o t)
         /\ NoneClosed(s) /\ NoneClosed(t) => NoneClosed(s \o t)
  <1> DEFINE r == s \o t
  <1>1. /\ Len(r) = Len(s) + Len(t) /\ Len(s) \in Nat /\ Len(t) \in Nat
        /\ \A i \in 1 .. Len(s) : r[i] = s[i]
        /\ \A i \in 1 .. Len(t) : r[Len(s) + i] = t[i]
    BY Concatenation
  <1>e. ~NoneClosed(s) => r = s
    BY EmptySequence
  <1> HIDE DEF r
  <1>2. ASSUME NEW i \in 1 .. Len(r)
        PROVE  i \in 1 .. Len(s) \/ \E j \in 1 .. Len(t) : i = Len(s) + j /\ r[i] = t[j]
    <2>1. CASE i <= Len(s)
      BY <1>1, <2>1
    <2>2. CASE i > Len(s)
      <3>1. i - Len(s) \in 1 .. Len(t) /\ i = Len(s) + (i - Len(s))
        BY <1>1, <2>2
      <3> QED
        BY <1>1, <3>1
    <2> QED
      BY <1>1, <2>1, <2>2
  <1>3. NoneClosed(s) /\ NoneClosed(t) => NoneClosed(r)
    <2> SUFFICES ASSUME NoneClosed(s), NoneClosed(t), NEW i \in 1 .. Len(r)
                 PROVE  r[i].kind # "closed"
      BY DEF NoneClosed
    <2>1. CASE i \in 1 .. Len(s)
      BY <1>1, <2>1 DEF NoneClosed
    <2>2. ASSUME NEW j \in 1 .. Len(t), i = Len(s) + j, r[i] = t[j] PROVE r[i].kind # "closed"
      BY <2>2 DEF NoneClosed
    <2> QED
      BY <1>2, <2>1, <2>2
  <1>4. CASE ~NoneClosed(s)
    BY <1>e, <1>3, <1>4 DEF r
  <1>5. CASE NoneClosed(s)
    <2>1. ASSUME NEW i \in 1 .. Len(r), r[i].kind = "closed" PROVE i = Len(r)
      <3>1. i \notin 1 .. Len(s)
        BY <1>1, <1>5, <2>1 DEF NoneClosed
      <3>2. PICK j \in 1 .. Len(t) : i = Len(s) + j /\ r[i] = t[j]
        BY <1>2, <3>1
      <3>3. j = Len(t)
        BY <2>1, <3>2 DEF ClosedLast
      <3> QED
        BY <1>1, <3>2, <3>3
    <2>2. ClosedLast(r)
      BY <2>1 DEF ClosedLast
    <2> QED
      BY <1>3, <2>2 DEF r
  <1> QED
    BY <1>4, <1>5

(* A frame of output is drawn. *)
LEMMA Drawn ==
  ASSUME NEW s \in Seq(Nat), NEW f \in FrameSet, f.kind = "output"
  PROVE  /\ s \o Positions(f) # <<>>
         /\ (s \o Positions(f))[Len(s \o Positions(f))] = f.hi
  <1> DEFINE n == f.hi - f.lo + 1
             p == Positions(f)
             r == s \o p
  <1>1. n \in Nat \ {0} /\ f.lo + n - 1 = f.hi
    BY FrameFacts
  <1>2. p = [i \in 1 .. n |-> f.lo + i - 1] /\ p \in Seq(Nat)
    BY FrameFacts DEF Positions, Size
  <1> HIDE DEF n, p
  <1>3. Len(p) = n /\ p[n] = f.hi
    BY <1>1, <1>2
  <1>4. Len(r) = Len(s) + Len(p) /\ Len(s) \in Nat /\ r[Len(s) + n] = p[n] /\ r \in Seq(Nat)
    BY <1>1, <1>2, <1>3, Concatenation
  <1> HIDE DEF r
  <1>5. r # <<>> /\ r[Len(r)] = f.hi
    BY <1>1, <1>3, <1>4, EmptySequence
  <1> QED
    BY <1>5 DEF r, p

(* A frame reaches the client. *)
LEMMA ClientReceiveStep ==
  ASSUME Typed, Onward, NEW v \in Viewers, OnceInv(v), ClientReceive(v)
  PROVE  OnceInv(v)'
  <1> DEFINE f == Head(wire[v])
  <1>t. WiresTyped /\ ClientsTyped /\ FlagsTyped
    BY TypedParts
  <1>1. /\ wire[v] # <<>> /\ Up(v)
        /\ UNCHANGED <<session, subscribers, catchingUp, offset, pump, conn, request, attaches,
                       overran, abandoned>>
    BY DEF ClientReceive, Up
  <1>2. wire'[v] = Tail(wire[v]) /\ screen'[v] = screen[v] \o Positions(f)
    BY <1>t DEF WiresTyped, ClientsTyped, ClientReceive
  <1>3. toldClosed'[v] <=> toldClosed[v] \/ f = TermClosed
    BY <1>t DEF FlagsTyped, ClientReceive
  <1>4. f \in FrameSet /\ f = wire[v][1]
    BY <1>1, ViewerTypes, TailFacts
  <1> HIDE DEF f
  <1>5. ClosedLast(wire[v]) /\ ClosedLast(pump[v].queue)
        /\ (~NoneClosed(wire[v]) => pump[v].queue = <<>>) /\ ~toldClosed[v]
        /\ (Told(v) => reader # "reading" /\ v \notin catchingUp)
    BY <1>1 DEF OnceInv, ClosedComesLast
  <1>6. /\ ClosedLast(Tail(wire[v])) /\ (NoneClosed(wire[v]) => NoneClosed(Tail(wire[v])))
        /\ f.kind = "closed" => Tail(wire[v]) = <<>> /\ ~NoneClosed(wire[v])
    BY <1>1, <1>4, <1>5, ViewerTypes, ClosedTail
  <1>7. toldClosed'[v] => f.kind = "closed"
    BY <1>3, <1>5, ClosedIsFrame
  <1>8. ClosedComesLast(v)'
    <2>1. Told(v)' => Told(v)
      BY <1>1, <1>2, <1>6, <1>7 DEF Told
    <2> QED
      BY <1>1, <1>2, <1>5, <1>6, <1>7, <2>1 DEF ClosedComesLast, session
  <1>9. AttachedOnce(v)'
    <2>1. ~Unserved(v)
      BY <1>1 DEF Unserved
    <2> QED
      BY <1>1, <2>1 DEF OnceInv, AttachedOnce, session
  <1>10. Continues(v)'
    <2> DEFINE fs == OnTheWay(v)
    <2>1. SUFFICES ASSUME attaches[v] <= 1
                   PROVE  /\ Flow(OnTheWay(v)', Shown(v)', screen'[v] = <<>>, overran[v], total)
                          /\ v \in subscribers /\ ~abandoned[v]
                               => Ends(OnTheWay(v)', Shown(v)') = Served(v)
      BY <1>1 DEF Continues, Served, session
    <2>2. /\ Flow(fs, Shown(v), screen[v] = <<>>, overran[v], total)
          /\ v \in subscribers /\ ~abandoned[v] => Ends(fs, Shown(v)) = Served(v)
      BY <1>1, <2>1 DEF OnceInv, Continues
    <2>3. OnTheWay(v)' = Tail(fs) /\ fs # <<>> /\ f = fs[1] /\ fs \in Seq(FrameSet)
      <3>1. OnTheWay(v)' = Tail(wire[v]) \o pump[v].queue
        BY <1>1, <1>2 DEF OnTheWay
      <3>2. /\ Tail(wire[v]) \o pump[v].queue = Tail(wire[v] \o pump[v].queue)
            /\ wire[v] \o pump[v].queue # <<>>
            /\ Head(wire[v]) = (wire[v] \o pump[v].queue)[1]
        BY <1>1, ViewerTypes, TailOfBoth
      <3> QED
        BY <3>1, <3>2, ViewerTypes DEF OnTheWay, f
    <2>4. ClosedLast(fs)
      BY <1>5, ViewerTypes, ClosedBoth DEF OnTheWay
    <2>5. CASE f.kind = "output"
      <3>1. screen'[v] # <<>> /\ Shown(v)' = f.hi
        <4>1. screen[v] \in Seq(Nat)
          BY ViewerTypes
        <4>2. /\ screen[v] \o Positions(f) # <<>>
              /\ (screen[v] \o Positions(f))[Len(screen[v] \o Positions(f))] = f.hi
          BY <1>4, <2>5, <4>1, Drawn
        <4> QED
          BY <1>2, <4>2 DEF Shown
      <3>2. /\ Flow(Tail(fs), fs[1].hi, FALSE, overran[v], total)
            /\ Ends(Tail(fs), fs[1].hi) = Ends(fs, Shown(v))
        <4>1. fs \in Seq(FrameSet) /\ Shown(v) \in Nat /\ total \in Nat /\ overran[v] \in BOOLEAN
              /\ fs[1].kind = "output"
          BY <2>3, <2>5, ViewerTypes, ViewerFlags
        <4> HIDE DEF fs
        <4> QED
          BY <2>2, <2>3, <2>4, <4>1, FlowPop
      <3> HIDE DEF fs
      <3>3. (screen'[v] = <<>>) = FALSE
        BY <3>1
      <3> QED
        BY <2>2, <2>3, <3>1, <3>2, <3>3
    <2>6. CASE f.kind # "output"
      <3>1. f.kind = "closed" /\ Positions(f) = <<>>
        BY <1>4, <2>6, FrameFacts DEF Positions
      <3>2. screen'[v] = screen[v] /\ Shown(v)' = Shown(v)
        BY <1>2, <3>1, ViewerTypes, EmptySequence DEF Shown
      <3>3. Tail(wire[v]) = <<>> /\ pump[v].queue = <<>>
        BY <1>5, <1>6, <3>1
      <3>4. fs = wire[v] /\ OnTheWay(v)' = <<>>
        <4>1. fs = wire[v]
          BY <3>3, ViewerTypes, EmptySequence DEF OnTheWay
        <4> QED
          BY <2>3, <3>3, <4>1
      <3>5. Ends(fs, Shown(v)) = Shown(v)
        <4>1. Len(wire[v]) = 1
          <5>1. wire[v] \in Seq(FrameSet)
            BY ViewerTypes
          <5>2. Len(wire[v]) \in Nat \ {0} /\ Len(Tail(wire[v])) = Len(wire[v]) - 1
            BY <1>1, <5>1, TailFacts
          <5> DEFINE u == Tail(wire[v])
          <5>e. u = <<>>
            BY <3>3
          <5> HIDE DEF u
          <5>z. Len(u) = 0
            BY <5>e
          <5>3. Len(Tail(wire[v])) = 0
            BY <5>z DEF u
          <5> QED
            BY <5>2, <5>3
        <4> QED
          BY <1>4, <3>1, <3>4, <4>1 DEF Ends, Count
      <3> QED
        BY <2>2, <3>2, <3>4, <3>5, FlowOfNone
    <2> QED
      BY <2>5, <2>6
  <1> QED
    BY <1>8, <1>9, <1>10 DEF OnceInv

(* The replay begins. *)
LEMMA AttachBeginStep ==
  ASSUME Typed, Typed', Ordered, Onward, NEW v \in Viewers, OnceInv(v), AttachBegin(v)
  PROVE  OnceInv(v)'
  <1> DEFINE r == RingSince(0)
  <1>t. WiresTyped /\ FlagsTyped /\ SetsTyped
    BY TypedParts
  <1>1. /\ listed /\ reader = "reading" /\ v \notin catchingUp
        /\ UNCHANGED <<session, pump, conn, attaches, screen, toldClosed, abandoned>>
        /\ subscribers' = subscribers \cup {v} /\ request[v]
    BY DEF AttachBegin, Ordered
  <1>2. ~Told(v) /\ ~abandoned[v]
    BY <1>1 DEF OnceInv, ClosedComesLast, Ordered
  <1>3. ~request'[v] /\ ~overran'[v]
    BY <1>t DEF FlagsTyped, AttachBegin
  <1>4. \/ IsEmpty(r) /\ wire'[v] = wire[v] /\ catchingUp' = catchingUp /\ offset' = offset
        \/ /\ ~IsEmpty(r) /\ wire'[v] = Append(wire[v], r) /\ catchingUp' = catchingUp \cup {v}
           /\ offset'[v] = total
    BY <1>t DEF WiresTyped, AttachBegin, Sent
  <1>5. ~IsEmpty(r) => /\ r \in FrameSet /\ r.kind = "output" /\ r.hi = total
    BY ViewerTypes, SinceFacts
  <1> HIDE DEF r
  <1>6. NoneClosed(wire[v]) /\ NoneClosed(pump[v].queue) /\ ~toldClosed[v]
    BY <1>2 DEF Told
  <1>7. NoneClosed(wire'[v]) /\ ClosedLast(wire'[v])
    BY <1>4, <1>5, <1>6, ViewerTypes, ClosedAppend DEF OnceInv, ClosedComesLast
  <1>8. ClosedComesLast(v)'
    BY <1>1, <1>6, <1>7 DEF OnceInv, ClosedComesLast, Told
  <1>9. ASSUME attaches[v] <= 1 PROVE Unserved(v) /\ attaches[v] # 0
    BY <1>1, <1>9 DEF OnceInv, AttachedOnce
  <1>10. AttachedOnce(v)'
    <2>1. SUFFICES ASSUME attaches[v] <= 1
                   PROVE  /\ attaches[v] # 0 /\ ~request'[v]
                          /\ v \in catchingUp' =>
                               /\ v \in subscribers' /\ ~abandoned[v]
                               /\ pump[v].task = "none" /\ pump[v].queue = <<>>
                               /\ offset'[v] <= total
      BY <1>1 DEF AttachedOnce, session
    <2>2. v \in catchingUp' => offset'[v] = total
      BY <1>1, <1>4
    <2>3. total <= total
      BY DEF Onward
    <2> QED
      BY <1>1, <1>2, <1>3, <1>9, <2>1, <2>2, <2>3 DEF Unserved
  <1>11. Continues(v)'
    <2>1. SUFFICES ASSUME attaches[v] <= 1
                   PROVE  /\ Flow(OnTheWay(v)', Shown(v)', screen'[v] = <<>>, overran'[v], total)
                          /\ Ends(OnTheWay(v)', Shown(v)')
                               = IF v \in catchingUp' THEN offset'[v] ELSE total
      BY <1>1 DEF Continues, Served, session
    <2>2. wire[v] = <<>> /\ pump[v].queue = <<>> /\ screen[v] = <<>> /\ v \notin catchingUp
      BY <1>9, <2>1 DEF Unserved
    <2>3. screen'[v] = <<>> /\ Shown(v)' = 0
      BY <1>1, <2>2 DEF Shown
    <2>4. CASE IsEmpty(r)
      <3>1. OnTheWay(v)' = <<>> /\ v \notin catchingUp'
        BY <1>1, <1>4, <2>2, <2>4 DEF OnTheWay
      <3>2. total = 0
        BY <2>4, ViewerTypes, SinceNothing DEF r
      <3> QED
        BY <2>3, <3>1, <3>2, FlowOfNone
    <2>5. CASE ~IsEmpty(r)
      <3>1. OnTheWay(v)' = Append(<<>>, r) /\ v \in catchingUp' /\ offset'[v] = total
        <4>1. Append(<<>>, r) \in Seq(FrameSet)
          BY <1>5, <2>5
        <4>2. wire'[v] = Append(<<>>, r) /\ pump'[v].queue = <<>>
          BY <1>1, <1>4, <2>2, <2>5
        <4>3. Append(<<>>, r) \o <<>> = Append(<<>>, r)
          BY <4>1, EmptySequence
        <4> QED
          BY <1>4, <2>5, <4>2, <4>3 DEF OnTheWay
      <3>2. overran'[v] \in BOOLEAN
        <4>1. FlagsTyped'
          BY DEF Typed
        <4> QED
          BY <4>1 DEF FlagsTyped
      <3>3. /\ Flow(Append(<<>>, r), 0, TRUE, overran'[v], total)
            /\ Ends(Append(<<>>, r), 0) = r.hi
        <4>1. <<>> \in Seq(FrameSet) /\ NoneClosed(<<>>) /\ 0 \in Nat /\ TRUE \in BOOLEAN
          BY DEF NoneClosed
        <4>2. total \in Nat /\ r \in FrameSet /\ r.kind = "output" /\ r.hi <= total
          BY <1>5, <2>5, ViewerTypes
        <4>3. Flow(<<>>, 0, TRUE, overran'[v], total)
          BY FlowOfNone
        <4> HIDE DEF r
        <4>4. \A fs \in Seq(FrameSet), shown \in Nat, fresh \in BOOLEAN, over \in BOOLEAN :
                /\ NoneClosed(fs) /\ Flow(fs, shown, fresh, over, total)
                /\ fs = <<>> /\ fresh
                => /\ Flow(Append(fs, r), shown, fresh, over, total)
                   /\ Ends(Append(fs, r), shown) = r.hi
          BY <4>2, FlowPush
        <4> QED
          BY <3>2, <4>1, <4>3, <4>4
      <3>4. (screen'[v] = <<>>) = TRUE
        BY <2>3
      <3> QED
        BY <1>5, <2>3, <2>5, <3>1, <3>3, <3>4
    <2> QED
      BY <2>4, <2>5
  <1> QED
    BY <1>8, <1>10, <1>11 DEF OnceInv

(* More is sent to a viewer that catches up. *)
LEMMA AttachDeltaStep ==
  ASSUME Typed, Onward, NEW v \in Viewers, OnceInv(v), AttachDelta(v), Typed'
  PROVE  OnceInv(v)'
  <1> DEFINE r == RingSince(offset[v])
  <1>t. WiresTyped /\ FlagsTyped
    BY TypedParts
  <1>1. /\ v \in catchingUp /\ ~IsEmpty(r)
        /\ UNCHANGED <<session, subscribers, catchingUp, pump, conn, client, abandoned>>
    BY DEF AttachDelta
  <1>2. wire'[v] = Append(wire[v], r) /\ offset'[v] = total
    BY <1>t DEF WiresTyped, AttachDelta, Sent
  <1>3. overran'[v] <=> overran[v] \/ total - offset[v] > RingSize
    BY <1>t DEF FlagsTyped, AttachDelta
  <1>4. /\ r \in FrameSet /\ r.kind = "output" /\ r.hi = total
        /\ total - offset[v] <= RingSize => r.lo = offset[v] + 1
        /\ total - offset[v] > RingSize => r.lo > offset[v]
    BY <1>1, ViewerTypes, SinceFacts
  <1> HIDE DEF r
  <1>5. NoneClosed(wire[v]) /\ NoneClosed(pump[v].queue) /\ ~toldClosed[v]
    BY <1>1 DEF OnceInv, ClosedComesLast, Told
  <1>6. NoneClosed(wire'[v]) /\ ClosedLast(wire'[v])
    BY <1>2, <1>4, <1>5, ViewerTypes, ClosedAppend
  <1>7. ClosedComesLast(v)'
    BY <1>1, <1>5, <1>6 DEF OnceInv, ClosedComesLast, Told, client
  <1>8. total <= total
    BY DEF Onward
  <1>9. AttachedOnce(v)'
    BY <1>1, <1>2, <1>8 DEF OnceInv, AttachedOnce, Unserved, client, session
  <1>10. Continues(v)'
    <2> DEFINE fs == OnTheWay(v)
    <2>1. SUFFICES ASSUME attaches[v] <= 1, Up(v)
                   PROVE  /\ Flow(OnTheWay(v)', Shown(v), screen[v] = <<>>, overran'[v], total)
                          /\ Ends(OnTheWay(v)', Shown(v)) = total
      BY <1>1, <1>2 DEF Continues, Served, Shown, Up, client, session
    <2>2. v \in subscribers /\ ~abandoned[v] /\ pump[v].queue = <<>> /\ offset[v] <= total
      BY <1>1, <2>1 DEF OnceInv, AttachedOnce
    <2>3. /\ Flow(fs, Shown(v), screen[v] = <<>>, overran[v], total)
          /\ Ends(fs, Shown(v)) = offset[v]
      BY <1>1, <2>1, <2>2 DEF OnceInv, Continues, Served
    <2>4. fs = wire[v] /\ OnTheWay(v)' = Append(fs, r)
      <3>1. Append(wire[v], r) \in Seq(FrameSet)
        BY <1>4, ViewerTypes, AppendFacts
      <3> QED
        BY <1>1, <1>2, <2>2, <3>1, ViewerTypes, EmptySequence DEF OnTheWay
    <2>5. /\ fs \in Seq(FrameSet) /\ Shown(v) \in Nat /\ total \in Nat /\ offset[v] \in Nat
          /\ overran[v] \in BOOLEAN /\ overran'[v] \in BOOLEAN /\ NoneClosed(fs)
      <3>1. FlagsTyped'
        BY DEF Typed
      <3>2. overran'[v] \in BOOLEAN
        BY <3>1 DEF FlagsTyped
      <3>3. overran[v] \in BOOLEAN
        BY ViewerFlags
      <3>4. fs \in Seq(FrameSet) /\ Shown(v) \in Nat /\ total \in Nat /\ offset[v] \in Nat
        BY ViewerTypes
      <3> QED
        BY <1>5, <2>4, <3>2, <3>3, <3>4
    <2> DEFINE fresh == screen[v] = <<>>
    <2>f. fresh \in BOOLEAN /\ Flow(fs, Shown(v), fresh, overran[v], total)
      BY <2>3
    <2> HIDE DEF fs, fresh
    <2>6. Flow(fs, Shown(v), fresh, overran'[v], total)
      BY <1>3, <1>8, <2>f, <2>5, FlowOn
    <2>7. \/ r.lo = Ends(fs, Shown(v)) + 1
          \/ overran'[v] /\ r.lo > Ends(fs, Shown(v))
      BY <1>3, <1>4, <2>3, <2>5
    <2>8. r.hi <= total
      BY <1>4, <2>5
    <2>9. /\ Flow(Append(fs, r), Shown(v), fresh, overran'[v], total)
          /\ Ends(Append(fs, r), Shown(v)) = r.hi
      BY <1>4, <2>f, <2>5, <2>6, <2>7, <2>8, FlowPush
    <2> QED
      BY <1>4, <2>4, <2>9 DEF fresh
  <1> QED
    BY <1>7, <1>9, <1>10 DEF OnceInv

(* There is no more to send: the viewer is where the read loop is. *)
LEMMA AttachLiveStep ==
  ASSUME Typed, Onward, NEW v \in Viewers, OnceInv(v), AttachLive(v)
  PROVE  OnceInv(v)'
  <1>1. /\ v \in catchingUp /\ v \notin catchingUp' /\ IsEmpty(RingSince(offset[v]))
        /\ UNCHANGED <<session, subscribers, offset, pump, conn, wire, client, overran, abandoned>>
    BY DEF AttachLive
  <1>2. ClosedComesLast(v)'
    BY <1>1 DEF OnceInv, ClosedComesLast, Told, client, session
  <1>3. AttachedOnce(v)'
    BY <1>1 DEF OnceInv, AttachedOnce, Unserved, client, session
  <1>4. attaches[v] <= 1 => offset[v] = total
    BY <1>1, ViewerTypes, SinceNothing DEF OnceInv, AttachedOnce
  <1>5. Continues(v)'
    <2>1. attaches[v] <= 1 => Served(v)' = Served(v)
      BY <1>1, <1>4 DEF Served, session
    <2>2. UNCHANGED <<OnTheWay(v), Shown(v), screen[v], Up(v), attaches[v], total, overran[v],
                      subscribers, abandoned[v]>>
      BY <1>1 DEF OnTheWay, Shown, Up, client, session
    <2> QED
      BY <2>1, <2>2 DEF OnceInv, Continues
  <1> QED
    BY <1>2, <1>3, <1>5 DEF OnceInv

(* A frame goes from the queue to the wire. *)
LEMMA PumpSendsStep ==
  ASSUME Typed, Onward, NEW v \in Viewers, OnceInv(v), PumpSends(v)
  PROVE  OnceInv(v)'
  <1> DEFINE f == Head(pump[v].queue)
  <1>t. WiresTyped /\ PumpsTyped
    BY TypedParts
  <1>1. /\ pump[v].queue # <<>> /\ pump[v].task = "run"
        /\ UNCHANGED <<session, subscribers, catchingUp, offset, conn, client, overran, abandoned>>
    BY DEF PumpSends
  <1>2. wire'[v] = Append(wire[v], f)
    BY <1>t DEF WiresTyped, PumpSends, Sent
  <1>3. pump'[v].queue = Tail(pump[v].queue) /\ pump'[v].task = "sending"
    <2>1. pump' = [pump EXCEPT ![v] = PumpAfterSend(pump[v])]
      BY <1>t, PumpTurns
    <2>2. pump'[v] = PumpAfterSend(pump[v])
      BY <1>t, <2>1 DEF PumpsTyped
    <2> QED
      BY <2>2 DEF PumpAfterSend
  <1>4. f \in FrameSet /\ f = pump[v].queue[1]
    BY <1>1, ViewerTypes, TailFacts
  <1> HIDE DEF f
  <1>5. /\ NoneClosed(wire[v]) /\ ClosedLast(pump[v].queue) /\ ~toldClosed[v]
        /\ (Told(v) => reader # "reading" /\ v \notin catchingUp)
    BY <1>1 DEF OnceInv, ClosedComesLast
  <1>6. /\ ClosedLast(Tail(pump[v].queue))
        /\ NoneClosed(pump[v].queue) => NoneClosed(Tail(pump[v].queue))
        /\ f.kind = "closed" => Tail(pump[v].queue) = <<>> /\ ~NoneClosed(pump[v].queue)
    BY <1>1, <1>4, <1>5, ViewerTypes, ClosedTail
  <1>7. /\ ClosedLast(Append(wire[v], f))
        /\ f.kind # "closed" => NoneClosed(Append(wire[v], f))
    BY <1>4, <1>5, ViewerTypes, ClosedAppend
  <1>8. ClosedComesLast(v)'
    <2>1. Told(v)' => Told(v)
      BY <1>1, <1>2, <1>3, <1>6, <1>7 DEF Told, client
    <2> QED
      BY <1>1, <1>2, <1>3, <1>5, <1>6, <1>7, <2>1 DEF ClosedComesLast, client, session
  <1>9. AttachedOnce(v)'
    <2>1. ~Unserved(v)
      BY <1>1 DEF Unserved
    <2> QED
      BY <1>1, <2>1 DEF OnceInv, AttachedOnce, client, session
  <1>10. Continues(v)'
    <2>1. OnTheWay(v)' = OnTheWay(v)
      <3>1. Append(wire[v], f) \o Tail(pump[v].queue) = wire[v] \o pump[v].queue
        BY <1>1, ViewerTypes, Moved DEF f
      <3> QED
        BY <1>2, <1>3, <3>1 DEF OnTheWay
    <2>2. UNCHANGED <<Shown(v), screen[v], Up(v), attaches[v], total, overran[v],
                      subscribers, abandoned[v], Served(v)>>
      BY <1>1 DEF Shown, Up, Served, client, session
    <2> QED
      BY <2>1, <2>2 DEF OnceInv, Continues
  <1> QED
    BY <1>8, <1>9, <1>10 DEF OnceInv

(* The read loop queues a frame for it, of output or the last one. *)
Queues(v, f) ==
  /\ Kept(v) /\ reader = "reading" /\ f \in FrameSet
  /\ wire'[v] = wire[v] /\ pump'[v].queue = Append(pump[v].queue, f)
  /\ v \in Live /\ v \in subscribers' /\ v \notin catchingUp'
  /\ abandoned'[v] = abandoned[v]
  /\ \/ f.kind = "output" /\ f.lo = total + 1 /\ f.hi = total'
     \/ f.kind = "closed" /\ total' = total /\ reader' # "reading"

LEMMA QueuesStep ==
  ASSUME Typed, Ordered, Onward, NEW v \in Viewers, OnceInv(v), NEW f, Queues(v, f)
  PROVE  OnceInv(v)'
  <1>1. /\ Kept(v) /\ reader = "reading" /\ f \in FrameSet
        /\ wire'[v] = wire[v] /\ pump'[v].queue = Append(pump[v].queue, f)
        /\ v \in subscribers /\ v \notin catchingUp /\ v \in subscribers' /\ v \notin catchingUp'
        /\ abandoned'[v] = abandoned[v] /\ ~abandoned[v]
    BY DEF Queues, Live, Ordered
  <1>2. NoneClosed(wire[v]) /\ NoneClosed(pump[v].queue) /\ ~toldClosed[v]
    BY <1>1 DEF OnceInv, ClosedComesLast, Told
  <1>3. /\ ClosedLast(Append(pump[v].queue, f))
        /\ f.kind # "closed" => NoneClosed(Append(pump[v].queue, f))
    BY <1>1, <1>2, ViewerTypes, ClosedAppend
  <1>4. f.kind # "closed" \/ reader' # "reading"
    <2>1. f.kind = "output" \/ reader' # "reading"
      BY DEF Queues
    <2> QED
      BY <2>1
  <1>5. ClosedComesLast(v)'
    <2>1. ~toldClosed'[v]
      BY <1>1, <1>2 DEF Kept
    <2> QED
      BY <1>1, <1>2, <1>3, <1>4, <2>1 DEF OnceInv, ClosedComesLast, Told
  <1>6. AttachedOnce(v)'
    <2>1. ~Unserved(v)
      BY <1>1 DEF Unserved
    <2> QED
      BY <1>1, <2>1 DEF OnceInv, AttachedOnce, Kept
  <1>7. Continues(v)'
    <2> DEFINE fs == OnTheWay(v)
    <2>1. SUFFICES ASSUME attaches[v] <= 1, Up(v)
                   PROVE  /\ Flow(OnTheWay(v)', Shown(v)', screen'[v] = <<>>, overran'[v], total')
                          /\ Ends(OnTheWay(v)', Shown(v)') = total'
      BY <1>1 DEF Continues, Served, Kept
    <2>2. /\ Flow(fs, Shown(v), screen[v] = <<>>, overran[v], total)
          /\ Ends(fs, Shown(v)) = total
      BY <1>1, <2>1 DEF OnceInv, Continues, Served
    <2>3. OnTheWay(v)' = Append(fs, f)
      <3>1. wire[v] \in Seq(FrameSet) /\ pump[v].queue \in Seq(FrameSet)
        BY ViewerTypes
      <3>2. wire[v] \o Append(pump[v].queue, f) = Append(wire[v] \o pump[v].queue, f)
        <4>1. f \in FrameSet
          BY <1>1
        <4> DEFINE w == wire[v]
                   q == pump[v].queue
        <4>2. w \in Seq(FrameSet) /\ q \in Seq(FrameSet)
          BY <3>1
        <4> HIDE DEF w, q
        <4>3. w \o Append(q, f) = Append(w \o q, f)
          BY <4>1, <4>2, AppendToBoth
        <4> QED
          BY <4>3 DEF w, q
      <3> QED
        BY <1>1, <3>2 DEF OnTheWay
    <2>4. Shown(v)' = Shown(v) /\ screen'[v] = screen[v] /\ overran'[v] = overran[v]
      BY <1>1 DEF Shown, Kept
    <2>5. /\ fs \in Seq(FrameSet) /\ Shown(v) \in Nat /\ total \in Nat /\ total' \in Nat
          /\ total <= total' /\ overran[v] \in BOOLEAN
      BY ViewerTypes, ViewerFlags DEF Onward
    <2>6. NoneClosed(fs)
      <3>1. ClosedLast(wire[v]) /\ ClosedLast(pump[v].queue)
        BY <1>2, ViewerTypes DEF OnceInv, ClosedComesLast
      <3> QED
        BY <1>2, <3>1, ViewerTypes, ClosedBoth DEF OnTheWay
    <2>7. Flow(fs, Shown(v), screen[v] = <<>>, overran[v], total')
      BY <2>2, FlowGrows
    <2> DEFINE fresh == screen[v] = <<>>
    <2>f. fresh \in BOOLEAN /\ Flow(fs, Shown(v), fresh, overran[v], total')
      BY <2>7
    <2> HIDE DEF fs, fresh
    <2>8. CASE f.kind = "output" /\ f.lo = total + 1 /\ f.hi = total'
      <3>1. f.hi <= total' /\ f.lo = Ends(fs, Shown(v)) + 1
        BY <2>2, <2>5, <2>8
      <3>2. /\ Flow(Append(fs, f), Shown(v), fresh, overran[v], total')
            /\ Ends(Append(fs, f), Shown(v)) = f.hi
        BY <1>1, <2>5, <2>6, <2>f, <2>8, <3>1, FlowPush
      <3> QED
        BY <2>3, <2>4, <2>8, <3>2 DEF fresh
    <2>9. CASE f.kind = "closed" /\ total' = total /\ reader' # "reading"
      <3>1. /\ Flow(Append(fs, f), Shown(v), fresh, overran[v], total')
            /\ Ends(Append(fs, f), Shown(v)) = Ends(fs, Shown(v))
        BY <1>1, <2>5, <2>6, <2>f, <2>9, FlowPushClosed
      <3> QED
        BY <2>2, <2>3, <2>4, <2>9, <3>1 DEF fresh
    <2> QED
      BY <2>8, <2>9 DEF Queues
  <1> QED
    BY <1>5, <1>6, <1>7 DEF OnceInv

-----------------------------------------------------------------------------
(* Every step does one of these things to every viewer.                    *)

LEMMA EvictedStays ==
  ASSUME Typed, NEW vs, Evict(vs), NEW v \in Viewers
  PROVE  Up(v)' => Up(v)
  <1>1. ClientsTyped
    BY TypedParts
  <1> QED
    BY <1>1 DEF ClientsTyped, Evict, Up

LEMMA ReadOutputStep ==
  ASSUME Typed, Ordered, Onward, NEW v \in Viewers, Quiet(v), OnceInv(v),
         NEW n \in 1 .. MaxChunk, ReadOutput(n)
  PROVE  OnceInv(v)'
  <1> DEFINE f == Output(total + 1, total + n)
  <1>t. PumpsTyped /\ LoopTyped /\ Evict(Overflowing(f))
    BY TypedParts DEF ReadOutput
  <1>1. /\ f \in FrameSet /\ f.kind = "output" /\ f.lo = total + 1 /\ f.hi = total'
        /\ pump' = FannedOut(f) /\ reader = "reading" /\ total' = total + n
    BY <1>t, OutputIsFrame DEF LoopTyped, ReadOutput
  <1>2. UNCHANGED <<catchingUp, offset, wire, client, overran, abandoned>>
    BY DEF ReadOutput
  <1>3. subscribers' = subscribers \ Overflowing(f) /\ Kept(v)
    BY <1>t, <1>2, EvictedStays DEF Evict, Kept, client
  <1> HIDE DEF f
  <1>4. CASE v \in Overflowing(f)
    <2>1. pump'[v].queue = <<>> /\ pump'[v].task = "none" /\ v \in Live
      BY <1>t, <1>1, <1>4, FannedOutFacts, NoPumpTyped
    <2>2. Loses(v)
      BY <1>2, <1>3, <1>4, <2>1 DEF Loses, Live
    <2> QED
      BY <2>2, LosesStep
  <1>5. CASE v \in Live \ Overflowing(f)
    <2>1. pump'[v].queue = Append(pump[v].queue, f)
      <3>1. pump[v] \in PumpSet
        BY <1>t DEF PumpsTyped
      <3> QED
        <4>1. pump'[v] = Enqueued(pump[v], f)
          BY <1>t, <1>1, <1>5, FannedOutFacts
        <4> QED
          BY <1>1, <3>1, <4>1, EnqueuedFacts
    <2>2. Queues(v, f)
      BY <1>1, <1>2, <1>3, <1>5, <2>1 DEF Queues, Live
    <2> QED
      BY <2>2, QueuesStep
  <1>6. CASE v \notin Live
    <2>1. pump'[v] = pump[v] /\ v \notin Overflowing(f)
      BY <1>t, <1>1, <1>6, FannedOutFacts
    <2>2. Still(v)
      BY <1>2, <1>3, <1>6, <2>1 DEF Still, Live
    <2> QED
      BY <2>2, StillStep
  <1> QED
    BY <1>4, <1>5, <1>6

LEMMA LeaveLoopStep ==
  ASSUME Typed, Ordered, Onward, NEW v \in Viewers, Quiet(v), OnceInv(v), LeaveLoop
  PROVE  OnceInv(v)'
  <1> DEFINE f == TermClosed
             told == FannedOut(f)
  <1>t. PumpsTyped /\ Evict(Overflowing(f)) /\ pump[v] \in PumpSet
    BY TypedParts DEF LeaveLoop, PumpsTyped
  <1>1. f \in FrameSet /\ f.kind = "closed" /\ reader = "reading" /\ reader' # "reading"
    BY ClosedIsFrame DEF LeaveLoop
  <1>2. UNCHANGED <<total, catchingUp, offset, wire, client, overran, abandoned>>
    BY DEF LeaveLoop
  <1>3. subscribers' = subscribers \ Overflowing(f) /\ Kept(v)
    BY <1>t, <1>2, EvictedStays DEF Evict, Kept, client
  <1>4. told[v] \in PumpSet
    BY <1>t, <1>1, FannedOutTyped
  <1>5. /\ told[v].task = "none" => pump'[v].queue = <<>> /\ pump'[v].task = "none"
        /\ told[v].task # "none" => pump'[v].queue = told[v].queue /\ pump'[v].task = told[v].task
    <2>1. pump'[v] = IF told[v].task = "none" THEN NoPump
                     ELSE [told[v] EXCEPT !.closing = TRUE, !.wake = TRUE]
      BY DEF LeaveLoop
    <2>2. \A p \in PumpSet : /\ [p EXCEPT !.closing = TRUE, !.wake = TRUE].queue = p.queue
                             /\ [p EXCEPT !.closing = TRUE, !.wake = TRUE].task = p.task
      BY DEF PumpSet
    <2> HIDE DEF told
    <2> QED
      BY <1>4, <2>1, <2>2, NoPumpTyped
  <1> HIDE DEF f
  <1>6. CASE v \in Overflowing(f)
    <2>1. told[v].task = "none" /\ v \in Live
      BY <1>t, <1>1, <1>6, FannedOutFacts, NoPumpTyped
    <2>2. Loses(v)
      BY <1>2, <1>3, <1>5, <1>6, <2>1 DEF Loses, Live
    <2> QED
      BY <2>2, LosesStep
  <1>7. CASE v \in Live \ Overflowing(f)
    <2>1. told[v].queue = Append(pump[v].queue, f) /\ told[v].task # "none"
      <3>1. told[v] = Enqueued(pump[v], f)
        BY <1>t, <1>1, <1>7, FannedOutFacts
      <3>2. /\ Enqueued(pump[v], f).task = (IF pump[v].task = "none" THEN "run" ELSE pump[v].task)
            /\ Enqueued(pump[v], f).queue = Append(pump[v].queue, f)
        BY <1>t, <1>1, EnqueuedFacts
      <3> HIDE DEF told
      <3> QED
        BY <3>1, <3>2
    <2>2. Queues(v, f)
      BY <1>1, <1>2, <1>3, <1>5, <1>7, <2>1 DEF Queues, Live
    <2> QED
      BY <2>2, QueuesStep
  <1>8. CASE v \notin Live
    <2>1. told[v] = pump[v] /\ v \notin Overflowing(f)
      BY <1>t, <1>1, <1>8, FannedOutFacts
    <2>2. pump[v].task = "none" => pump[v].queue = <<>>
      BY DEF Quiet
    <2>3. pump'[v].queue = pump[v].queue /\ (pump[v].task = "none" => pump'[v].task = "none")
      BY <1>5, <2>1, <2>2
    <2>4. Still(v)
      BY <1>2, <1>3, <1>8, <2>1, <2>3 DEF Still, Live
    <2> QED
      BY <2>4, StillStep
  <1> QED
    BY <1>6, <1>7, <1>8

LEMMA FlushStep ==
  ASSUME Typed, Onward, NEW v \in Viewers, Quiet(v), OnceInv(v), FlushDone \/ FlushTimeout
  PROVE  OnceInv(v)'
  <1>1. /\ UNCHANGED <<total, subscribers, catchingUp, offset, conn, wire, client, overran>>
        /\ pump'[v] = NoPump
    BY DEF FlushDone, FlushTimeout
  <1>2. pump'[v].queue = <<>> /\ pump'[v].task = "none"
    BY <1>1, NoPumpTyped
  <1>3. Kept(v)
    BY <1>1 DEF Kept, Up, client
  <1>t. FlagsTyped
    BY TypedParts
  <1>4. CASE pump[v].task \in {"none", "finished"}
    <2>1. pump[v].queue = <<>>
      BY <1>4 DEF Quiet
    <2>2. abandoned'[v] = abandoned[v]
      BY <1>t, <1>4 DEF FlagsTyped, FlushDone, FlushTimeout
    <2>3. Still(v)
      BY <1>1, <1>2, <1>3, <2>1, <2>2 DEF Still
    <2> QED
      BY <2>3, StillStep
  <1>5. CASE pump[v].task \notin {"none", "finished"}
    <2>1. abandoned'[v]
      BY <1>5 DEF FlushDone, FlushTimeout
    <2>2. attaches[v] <= 1 => v \notin catchingUp
      BY <1>5 DEF OnceInv, AttachedOnce
    <2>3. Loses(v)
      BY <1>1, <1>2, <1>3, <2>1, <2>2 DEF Loses
    <2> QED
      BY <2>3, LosesStep
  <1> QED
    BY <1>4, <1>5

LEMMA OtherPump ==
  ASSUME Typed, NEW u \in Viewers, NEW v \in Viewers, u # v, ViewerStep(u)
  PROVE  pump'[v] = pump[v]
  <1>t. PumpsTyped
    BY TypedParts
  <1>1. CASE ClientAttach(u) \/ ClientReceive(u) \/ Disconnect(u)
    BY <1>1 DEF ClientAttach, ClientReceive, Disconnect
  <1>2. CASE Detach(u) \/ Release(u) \/ AttachFails(u) \/ PumpFails(u)
    BY <1>2 DEF Detach, Release, Unsubscribe, AttachFails, PumpFails, Dropped
  <1>3. CASE AttachUnknown(u) \/ AttachBegin(u) \/ AttachDelta(u) \/ AttachLive(u)
    BY <1>3 DEF AttachUnknown, AttachBegin, AttachDelta, AttachLive
  <1>4. CASE PumpSends(u) \/ PumpSent(u) \/ PumpIdles(u) \/ PumpWakes(u)
    BY <1>t, <1>4, PumpTurns DEF PumpsTyped
  <1> QED
    BY <1>1, <1>2, <1>3, <1>4 DEF ViewerStep, AttachStep, PumpStep

LEMMA OtherStays ==
  ASSUME Typed, NEW u \in Viewers, NEW v \in Viewers, u # v, ViewerStep(u)
  PROVE  Still(v)
  <1>t. PumpsTyped /\ WiresTyped /\ ClientsTyped /\ FlagsTyped
    BY TypedParts
  <1>1. /\ wire'[v] = wire[v] /\ offset'[v] = offset[v]
    <2>1. CASE ClientAttach(u) \/ ClientReceive(u) \/ Disconnect(u) \/ Detach(u) \/ Release(u)
      BY <1>t, <2>1 DEF WiresTyped, ClientAttach, ClientReceive, Disconnect, Detach, Release
    <2>2. CASE AttachStep(u)
      BY <1>t, <2>2 DEF WiresTyped, AttachStep, AttachUnknown, AttachBegin, AttachDelta,
                        AttachLive, AttachFails, Sent
    <2>3. CASE PumpStep(u)
      BY <1>t, <2>3 DEF WiresTyped, PumpStep, PumpSends, PumpSent, PumpIdles, PumpWakes,
                        PumpFails, Sent
    <2> QED
      BY <2>1, <2>2, <2>3 DEF ViewerStep
  <1>2. pump'[v] = pump[v]
    BY OtherPump
  <1>3. (v \in subscribers' <=> v \in subscribers) /\ (v \in catchingUp' <=> v \in catchingUp)
    <2>1. CASE ClientAttach(u) \/ ClientReceive(u) \/ Disconnect(u) \/ Detach(u) \/ Release(u)
      BY <2>1 DEF ClientAttach, ClientReceive, Disconnect, Detach, Release, Unsubscribe
    <2>2. CASE AttachUnknown(u) \/ AttachDelta(u) \/ AttachLive(u) \/ AttachFails(u)
      BY <2>2 DEF AttachUnknown, AttachDelta, AttachLive, AttachFails
    <2>3. CASE AttachBegin(u)
      BY <2>3 DEF AttachBegin
    <2>4. CASE PumpStep(u)
      BY <2>4 DEF PumpStep, PumpSends, PumpSent, PumpIdles, PumpWakes, PumpFails
    <2> QED
      BY <2>1, <2>2, <2>3, <2>4 DEF ViewerStep, AttachStep
  <1>4. /\ screen'[v] = screen[v] /\ attaches'[v] = attaches[v] /\ conn'[v] = conn[v]
        /\ total' = total
    <2>1. CASE ClientAttach(u) \/ ClientReceive(u) \/ Disconnect(u) \/ Detach(u) \/ Release(u)
      BY <1>t, <2>1 DEF ClientsTyped, ClientAttach, ClientReceive, Disconnect, Detach, Release,
                        client, session
    <2>2. CASE AttachStep(u)
      BY <2>2 DEF AttachStep, AttachUnknown, AttachBegin, AttachDelta, AttachLive, AttachFails,
                  client, session
    <2>3. CASE PumpStep(u)
      BY <2>3 DEF PumpStep, PumpSends, PumpSent, PumpIdles, PumpWakes, PumpFails, client, session
    <2> QED
      BY <2>1, <2>2, <2>3 DEF ViewerStep
  <1>5. /\ toldClosed'[v] = toldClosed[v] /\ overran'[v] = overran[v]
        /\ abandoned'[v] = abandoned[v] /\ request'[v] = request[v]
    <2>1. CASE ClientAttach(u) \/ ClientReceive(u) \/ Disconnect(u) \/ Detach(u) \/ Release(u)
      BY <1>t, <2>1 DEF FlagsTyped, ClientAttach, ClientReceive, Disconnect, Detach, Release,
                        client
    <2>2. CASE AttachUnknown(u) \/ AttachLive(u) \/ AttachFails(u)
      BY <1>t, <2>2 DEF FlagsTyped, AttachUnknown, AttachLive, AttachFails, client
    <2>3. CASE AttachBegin(u) \/ AttachDelta(u)
      BY <1>t, <2>3 DEF FlagsTyped, AttachBegin, AttachDelta, client
    <2>4. CASE PumpStep(u)
      BY <2>4 DEF PumpStep, PumpSends, PumpSent, PumpIdles, PumpWakes, PumpFails, client
    <2> QED
      BY <2>1, <2>2, <2>3, <2>4 DEF ViewerStep, AttachStep
  <1> QED
    BY <1>1, <1>2, <1>3, <1>4, <1>5 DEF Still, Kept, Up

LEMMA OwnStep ==
  ASSUME Typed, Typed', Ordered, Onward, NEW v \in Viewers, OnceInv(v), ViewerStep(v)
  PROVE  OnceInv(v)'
  <1>t. PumpsTyped /\ ClientsTyped /\ FlagsTyped
    BY TypedParts
  <1>1. CASE ClientAttach(v) \/ ClientReceive(v) \/ Disconnect(v)
    BY <1>1, ClientAttachStep, ClientReceiveStep, DisconnectStep
  <1>2. CASE AttachBegin(v) \/ AttachDelta(v) \/ AttachLive(v) \/ PumpSends(v)
    BY <1>2, AttachBeginStep, AttachDeltaStep, AttachLiveStep, PumpSendsStep
  <1>3. CASE AttachUnknown(v)
    <2>1. /\ UNCHANGED <<session, subscribers, catchingUp, offset, pump, conn, wire,
                         attaches, screen, toldClosed, overran, abandoned>>
          /\ ~request'[v]
      BY <1>t, <1>3 DEF FlagsTyped, AttachUnknown
    <2>2. Still(v)
      BY <2>1 DEF Still, Kept, Up, session
    <2> QED
      BY <2>2, StillStep
  <1>4. CASE PumpSent(v) \/ PumpIdles(v) \/ PumpWakes(v)
    <2>1. UNCHANGED <<session, subscribers, catchingUp, offset, conn, wire, client, overran,
                      abandoned>>
      BY <1>4 DEF PumpSent, PumpIdles, PumpWakes
    <2>2. pump'[v].queue = pump[v].queue /\ pump[v].task # "none"
      <3>1. pump[v].task # "none"
        BY <1>4 DEF PumpSent, PumpIdles, PumpWakes
      <3> QED
        BY <1>t, <1>4, <3>1, PumpTurns DEF PumpsTyped, PumpIn
    <2>3. Still(v)
      BY <2>1, <2>2 DEF Still, Kept, Up, client, session
    <2> QED
      BY <2>3, StillStep
  <1>5. ASSUME pump' = Dropped({v}), subscribers' = subscribers \ {v},
               v \in catchingUp' => v \in catchingUp,
               v \in catchingUp' => pump[v].task # "none",
               UNCHANGED <<session, wire, overran, abandoned, attaches, screen, toldClosed, offset>>,
               request'[v] => request[v], Up(v)' => Up(v)
        PROVE  OnceInv(v)'
    <2>1. pump'[v].queue = <<>> /\ pump'[v].task = "none"
      BY <1>5, NoPumpTyped DEF Dropped
    <2>2. attaches[v] <= 1 => v \notin catchingUp'
      BY <1>5 DEF OnceInv, AttachedOnce
    <2>3. Loses(v)
      BY <1>5, <2>1, <2>2 DEF Loses, Kept, session
    <2> QED
      BY <2>3, LosesStep
  <1>6. CASE AttachFails(v)
    BY <1>5, <1>6 DEF AttachFails, client, Up
  <1>7. CASE PumpFails(v)
    <2>1. pump[v].task # "none"
      BY <1>7 DEF PumpFails
    <2> QED
      BY <1>5, <1>7, <2>1 DEF PumpFails, client, Up
  <1>8. CASE Detach(v) \/ Release(v)
    <2>1. /\ v \notin catchingUp
          /\ UNCHANGED <<session, catchingUp, wire, overran, abandoned, attaches, screen,
                         toldClosed, offset>>
      BY <1>8 DEF Detach, Release, client
    <2>2. (request'[v] => request[v]) /\ (Up(v)' => Up(v))
      BY <1>t, <1>8 DEF ClientsTyped, FlagsTyped, Detach, Release, client, Up
    <2>3. CASE listed
      BY <1>5, <1>8, <2>1, <2>2, <2>3 DEF Detach, Release, Unsubscribe
    <2>4. CASE ~listed
      <3>1. UNCHANGED <<subscribers, pump>>
        BY <1>8, <2>4 DEF Detach, Release, Unsubscribe
      <3>2. Still(v)
        BY <2>1, <2>2, <3>1 DEF Still, Kept, session
      <3> QED
        BY <3>2, StillStep
    <2> QED
      BY <2>3, <2>4
  <1> QED
    BY <1>1, <1>2, <1>3, <1>4, <1>6, <1>7, <1>8 DEF ViewerStep, AttachStep, PumpStep

LEMMA OnceStep ==
  ASSUME SessionInv, [Next]_vars, NEW v \in Viewers
  PROVE  OnceInv(v)'
  <1>t. Typed /\ Typed' /\ Ordered /\ Onward /\ Quiet(v) /\ OnceInv(v)
    BY TypedStep, OnwardStep DEF SessionInv, ViewerInv, OnceInv
  <1>1. ASSUME UNCHANGED <<total, subscribers, catchingUp, offset, pump, conn, wire, client,
                           overran, abandoned>>
        PROVE  OnceInv(v)'
    <2>1. Still(v)
      BY <1>1 DEF Still, Kept, Up, client
    <2> QED
      BY <1>t, <2>1, StillStep
  <1>2. CASE UNCHANGED vars
    BY <1>1, <1>2 DEF vars, session
  <1>3. CASE Kill \/ ProcessExits
    BY <1>1, <1>3 DEF Kill, ProcessExits
  <1>4. ASSUME NEW n \in 1 .. MaxChunk, ReadOutput(n) PROVE OnceInv(v)'
    BY <1>t, <1>4, ReadOutputStep
  <1>5. CASE ReadEnd \/ ReadError
    BY <1>t, <1>5, LeaveLoopStep DEF ReadEnd, ReadError
  <1>6. CASE FlushDone \/ FlushTimeout
    BY <1>t, <1>6, FlushStep
  <1>7. ASSUME NEW u \in Viewers, ViewerStep(u) PROVE OnceInv(v)'
    <2>1. CASE u = v
      BY <1>t, <1>7, <2>1, OwnStep
    <2>2. CASE u # v
      BY <1>t, <1>7, <2>2, OtherStays, StillStep
    <2> QED
      BY <2>1, <2>2
  <1> QED
    BY <1>2, <1>3, <1>4, <1>5, <1>6, <1>7 DEF Next, ViewerStep, AttachStep, PumpStep

-----------------------------------------------------------------------------
(* The theorems.                                                           *)

LEMMA SessionInit ==
  ASSUME Init
  PROVE  SessionInv
  <1>1. Typed
    BY TypedInit
  <1>2. Ordered
    BY DEF Init, Ordered
  <1>3. ASSUME NEW v \in Viewers PROVE ViewerInv(v)
    <2>1. /\ pump[v] = NoPump /\ wire[v] = <<>> /\ screen[v] = <<>> /\ attaches[v] = 0
          /\ ~request[v] /\ ~toldClosed[v] /\ reader = "reading" /\ total = 0
          /\ v \notin subscribers /\ v \notin catchingUp
      BY DEF Init
    <2>2. pump[v].task = "none" /\ pump[v].queue = <<>> /\ pump[v].closing = FALSE
      BY <2>1, NoPumpTyped
    <2>3. Quiet(v)
      BY <2>1, <2>2 DEF Quiet
    <2>4. ClosedComesLast(v)
      BY <2>1, <2>2 DEF ClosedComesLast, Told, NoneClosed, ClosedLast
    <2>5. AttachedOnce(v)
      BY <2>1, <2>2 DEF AttachedOnce, Unserved
    <2>6. Continues(v)
      <3>1. OnTheWay(v) = <<>>
        BY <2>1, <2>2 DEF OnTheWay
      <3> QED
        BY <2>1, <3>1, FlowOfNone DEF Continues
    <2> QED
      BY <2>3, <2>4, <2>5, <2>6 DEF ViewerInv
  <1> QED
    BY <1>1, <1>2, <1>3 DEF SessionInv

LEMMA SessionNext ==
  ASSUME SessionInv, [Next]_vars
  PROVE  SessionInv'
  <1>1. Typed' /\ Ordered'
    BY TypedStep, OrderedStep DEF SessionInv
  <1>2. ASSUME NEW v \in Viewers PROVE ViewerInv(v)'
    <2>1. Quiet(v)'
      BY QuietStep DEF SessionInv, ViewerInv
    <2>2. OnceInv(v)'
      BY OnceStep
    <2> QED
      BY <2>1, <2>2 DEF ViewerInv, OnceInv
  <1> QED
    BY <1>1, <1>2 DEF SessionInv

(* The invariant of one session and its viewers.                           *)
THEOREM SessionInvariant == Spec => []SessionInv
  <1>1. Init => SessionInv
    BY SessionInit
  <1>2. SessionInv /\ [Next]_vars => SessionInv'
    BY SessionNext
  <1> QED
    BY <1>1, <1>2, PTL DEF Spec

(* A viewer's stream is complete: it goes on from its screen without holes *)
(* or repetitions, up to where the read loop, or its replay, has come.     *)
LEMMA StreamFromInv ==
  ASSUME SessionInv
  PROVE  StreamIsComplete
  <1> SUFFICES ASSUME NEW v \in subscribers, Up(v), attaches[v] = 1, ~abandoned[v]
               PROVE  /\ \A i \in 1 .. Len(OnTheWay(v)) : GoesOn(v, i)
                      /\ Reached(v, Outputs(v)) = Served(v)
    BY DEF StreamIsComplete
  <1>t. Typed /\ v \in Viewers
    BY TypedParts DEF SessionInv, SetsTyped
  <1> DEFINE fs == OnTheWay(v)
  <1>1. /\ Flow(fs, Shown(v), screen[v] = <<>>, overran[v], total)
        /\ Ends(fs, Shown(v)) = Served(v)
    BY <1>t DEF SessionInv, ViewerInv, Continues
  <1>2. fs \in Seq(FrameSet) /\ Len(fs) \in Nat
    BY <1>t, ViewerTypes
  <1>3. ASSUME NEW i \in 1 .. Len(fs) PROVE GoesOn(v, i)
    <2>1. Before(fs, Shown(v), i) = Reached(v, i - 1)
      BY <1>2 DEF Before, Reached
    <2>2. fs[i] \in FrameSet
      BY <1>2
    <2> QED
      BY <1>1, <2>1, <2>2, FrameFacts DEF Flow, GoesOn
  <1>4. Outputs(v) = Count(fs)
    BY DEF Outputs, Count
  <1>5. Reached(v, Count(fs)) = Ends(fs, Shown(v))
    BY DEF Reached, Ends
  <1> QED
    BY <1>1, <1>3, <1>4, <1>5

(* A live viewer holds, on its way and on its screen, every byte from the *)
(* one its screen begins with to the last, in order: no hole between the   *)
(* replay and the live output, however the two interleave.                 *)
THEOREM StreamComplete == Spec => []StreamIsComplete
  BY SessionInvariant, StreamFromInv, PTL

(* No byte is drawn after term_closed.                                     *)
LEMMA NothingAfter ==
  ASSUME SessionInv, [Next]_vars, NEW v \in Viewers, toldClosed[v]
  PROVE  screen'[v] = screen[v] \/ screen'[v] = <<>>
  <1>t. Typed
    BY DEF SessionInv
  <1>s. ClientsTyped
    BY <1>t, TypedParts
  <1>1. wire[v] = <<>>
    BY DEF SessionInv, ViewerInv, ClosedComesLast
  <1>2. CASE UNCHANGED client
    BY <1>2 DEF client
  <1>3. CASE UNCHANGED vars
    BY <1>2, <1>3 DEF vars
  <1>4. ASSUME NEW n \in 1 .. MaxChunk, ReadOutput(n) PROVE UNCHANGED client
    BY <1>4 DEF ReadOutput
  <1>5. CASE ReadEnd \/ ReadError
    BY <1>2, <1>5 DEF ReadEnd, ReadError, LeaveLoop
  <1>6. CASE FlushDone \/ FlushTimeout \/ Kill \/ ProcessExits
    BY <1>2, <1>6 DEF FlushDone, FlushTimeout, Kill, ProcessExits
  <1>7. ASSUME NEW u \in Viewers, ViewerStep(u)
        PROVE  screen'[v] = screen[v] \/ screen'[v] = <<>>
    <2>1. CASE u # v
      BY <1>t, <1>7, <2>1, OtherStays DEF Still, Kept
    <2>2. CASE u = v /\ ClientAttach(v)
      BY <1>s, <2>2 DEF ClientsTyped, ClientAttach
    <2>3. CASE u = v /\ ClientReceive(v)
      BY <1>1, <2>3 DEF ClientReceive
    <2>4. CASE Disconnect(u) \/ Detach(u) \/ Release(u)
      BY <2>4 DEF Disconnect, Detach, Release, client
    <2>5. CASE AttachStep(u)
      BY <2>5 DEF AttachStep, AttachUnknown, AttachBegin, AttachDelta, AttachLive, AttachFails,
                  client
    <2>6. CASE PumpStep(u)
      BY <2>6 DEF PumpStep, PumpSends, PumpSent, PumpIdles, PumpWakes, PumpFails, client
    <2> QED
      BY <1>7, <2>1, <2>2, <2>3, <2>4, <2>5, <2>6 DEF ViewerStep
  <1> QED
    BY <1>2, <1>3, <1>4, <1>5, <1>6, <1>7 DEF Next, ViewerStep, AttachStep, PumpStep

(* Nothing of a session is queued or drawn for a viewer after its          *)
(* term_closed.                                                            *)
THEOREM ClosedIsLast == Spec => NothingAfterClosed
  <1>1. SessionInv /\ [Next]_vars =>
          [\A v \in Viewers : toldClosed[v] => (screen'[v] = screen[v] \/ screen'[v] = <<>>)]_vars
    BY NothingAfter
  <1> QED
    BY <1>1, SessionInvariant, PTL DEF Spec, NothingAfterClosed

(* Nothing is kept of a connection that was released.                      *)
LEMMA PumpOfNone ==
  ASSUME Typed, [Next]_vars, NEW v \in Viewers, v \notin subscribers, ~HasPump(v), conn[v] = "gone"
  PROVE  v \notin subscribers' /\ ~HasPump(v)'
  <1>t. PumpsTyped /\ LoopTyped
    BY TypedParts
  <1>n. NoPump.task = "none" /\ pump[v].task = "none"
    BY NoPumpTyped DEF HasPump
  <1>1. ASSUME v \in subscribers' => v \in subscribers, pump'[v] = pump[v] \/ pump'[v] = NoPump
        PROVE  v \notin subscribers' /\ ~HasPump(v)'
    BY <1>n, <1>1 DEF HasPump
  <1>2. CASE UNCHANGED vars
    BY <1>1, <1>2 DEF vars
  <1>3. ASSUME NEW n \in 1 .. MaxChunk, ReadOutput(n) PROVE v \notin subscribers' /\ ~HasPump(v)'
    <2> DEFINE f == Output(total + 1, total + n)
    <2>1. f \in FrameSet /\ pump' = FannedOut(f) /\ v \notin Live /\ subscribers' \subseteq subscribers
      BY <1>t, <1>3, OutputIsFrame DEF LoopTyped, ReadOutput, Live, Evict
    <2> HIDE DEF f
    <2> QED
      BY <1>t, <1>1, <2>1, FannedOutFacts
  <1>4. CASE ReadEnd \/ ReadError
    <2>1. FannedOut(TermClosed)[v] = pump[v]
      BY <1>t, ClosedIsFrame, FannedOutFacts DEF Live
    <2>2. pump'[v] = NoPump /\ subscribers' \subseteq subscribers
      BY <1>n, <1>4, <2>1 DEF ReadEnd, ReadError, LeaveLoop, Evict
    <2> QED
      BY <1>1, <2>2
  <1>5. CASE FlushDone \/ FlushTimeout \/ Kill \/ ProcessExits
    BY <1>1, <1>5 DEF FlushDone, FlushTimeout, Kill, ProcessExits
  <1>6. ASSUME NEW u \in Viewers, ViewerStep(u) PROVE v \notin subscribers' /\ ~HasPump(v)'
    <2>1. CASE u # v
      <3>1. (v \in subscribers' <=> v \in subscribers) /\ pump'[v] = pump[v]
        BY <1>6, <2>1, OtherStays, OtherPump DEF Still
      <3> QED
        BY <1>1, <3>1
    <2>2. CASE u = v
      <3>1. CASE ClientAttach(v) \/ ClientReceive(v) \/ Disconnect(v)
        BY <1>1, <3>1 DEF ClientAttach, ClientReceive, Disconnect
      <3>2. CASE Detach(v) \/ Release(v) \/ AttachFails(v) \/ PumpFails(v)
        BY <1>1, <3>2 DEF Detach, Release, Unsubscribe, AttachFails, PumpFails, Dropped
      <3>3. CASE AttachUnknown(v) \/ AttachBegin(v) \/ AttachDelta(v) \/ AttachLive(v)
        BY <1>1, <3>3 DEF AttachUnknown, AttachBegin, AttachDelta, AttachLive
      <3>4. ~(PumpSends(v) \/ PumpSent(v) \/ PumpIdles(v) \/ PumpWakes(v))
        BY <1>n DEF PumpSends, PumpSent, PumpIdles, PumpWakes
      <3> QED
        BY <1>6, <2>2, <3>1, <3>2, <3>3, <3>4 DEF ViewerStep, AttachStep, PumpStep
    <2> QED
      BY <2>1, <2>2
  <1> QED
    BY <1>2, <1>3, <1>4, <1>5, <1>6 DEF Next, ViewerStep, AttachStep, PumpStep

LEMMA ReleasedStep ==
  ASSUME Typed, ReleasedIsForgotten, [Next]_vars
  PROVE  ReleasedIsForgotten'
  <1> SUFFICES ASSUME NEW v \in Viewers, conn'[v] = "gone", listed'
               PROVE  v \notin subscribers' /\ v \notin catchingUp' /\ ~HasPump(v)'
    BY DEF ReleasedIsForgotten, HasPump
  <1>t. ClientsTyped
    BY TypedParts
  <1>1. listed
    <2>1. CASE UNCHANGED session
      BY <2>1 DEF session
    <2>2. CASE UNCHANGED vars
      BY <2>1, <2>2 DEF vars
    <2>3. CASE ReadEnd \/ ReadError \/ Kill
      BY <2>3 DEF ReadEnd, ReadError, LeaveLoop, Kill
    <2>4. ASSUME NEW n \in 1 .. MaxChunk, ReadOutput(n) PROVE listed
      BY <2>4 DEF ReadOutput
    <2>5. CASE FlushDone \/ FlushTimeout \/ ProcessExits
      BY <2>5 DEF FlushDone, FlushTimeout, ProcessExits
    <2>6. ASSUME NEW u \in Viewers, ViewerStep(u) PROVE UNCHANGED session
      BY <2>6, SessionOfViewers
    <2> QED
      BY <2>1, <2>2, <2>3, <2>4, <2>5, <2>6 DEF Next, ViewerStep, AttachStep, PumpStep
  <1>2. CASE conn[v] = "gone"
    <2>1. v \notin subscribers /\ v \notin catchingUp /\ ~HasPump(v)
      BY <1>1, <1>2 DEF ReleasedIsForgotten
    <2>2. v \notin subscribers' /\ ~HasPump(v)'
      BY <1>2, <2>1, PumpOfNone
    <2>3. v \notin catchingUp'
      <3>1. CASE UNCHANGED catchingUp
        BY <2>1, <3>1
      <3>2. CASE UNCHANGED vars
        BY <3>1, <3>2 DEF vars
      <3>3. ASSUME NEW n \in 1 .. MaxChunk, ReadOutput(n) PROVE UNCHANGED catchingUp
        BY <3>3 DEF ReadOutput
      <3>4. CASE ReadEnd \/ ReadError \/ FlushDone \/ FlushTimeout \/ Kill \/ ProcessExits
        BY <3>1, <3>4 DEF ReadEnd, ReadError, LeaveLoop, FlushDone, FlushTimeout, Kill,
                          ProcessExits
      <3>5. ASSUME NEW u \in Viewers,
                   \/ ClientAttach(u) \/ ClientReceive(u) \/ Disconnect(u) \/ Detach(u)
                   \/ Release(u) \/ AttachUnknown(u) \/ AttachDelta(u)
                   \/ PumpSends(u) \/ PumpSent(u) \/ PumpIdles(u) \/ PumpWakes(u) \/ PumpFails(u)
            PROVE  UNCHANGED catchingUp
        BY <3>5 DEF ClientAttach, ClientReceive, Disconnect, Detach, Release, AttachUnknown,
                    AttachDelta, PumpSends, PumpSent, PumpIdles, PumpWakes, PumpFails
      <3>6. ASSUME NEW u \in Viewers, AttachLive(u) \/ AttachFails(u)
            PROVE  v \notin catchingUp'
        BY <2>1, <3>6 DEF AttachLive, AttachFails
      <3>7. ASSUME NEW u \in Viewers, AttachBegin(u)
            PROVE  v \notin catchingUp'
        <4>1. u # v
          BY <1>2, <3>7 DEF AttachBegin
        <4> QED
          BY <2>1, <3>7, <4>1 DEF AttachBegin
      <3> QED
        BY <3>1, <3>2, <3>3, <3>4, <3>5, <3>6, <3>7 DEF Next
    <2> QED
      BY <2>2, <2>3
  <1>3. CASE conn[v] # "gone"
    <2>1. Release(v)
      <3>1. CASE UNCHANGED conn
        BY <1>3, <3>1
      <3>2. CASE UNCHANGED vars
        BY <3>1, <3>2 DEF vars
      <3>3. ASSUME NEW vs, Evict(vs) PROVE conn'[v] # "gone"
        BY <1>3, <3>3 DEF Evict
      <3>4. ASSUME NEW n \in 1 .. MaxChunk, ReadOutput(n) PROVE FALSE
        BY <3>3, <3>4 DEF ReadOutput
      <3>5. CASE ReadEnd \/ ReadError
        BY <3>3, <3>5 DEF ReadEnd, ReadError, LeaveLoop
      <3>6. CASE FlushDone \/ FlushTimeout \/ Kill \/ ProcessExits
        BY <3>1, <3>6 DEF FlushDone, FlushTimeout, Kill, ProcessExits
      <3>7. ASSUME NEW u \in Viewers, ViewerStep(u) PROVE Release(v)
        <4>1. CASE ClientAttach(u) \/ ClientReceive(u) \/ Detach(u)
          BY <3>1, <4>1 DEF ClientAttach, ClientReceive, Detach
        <4>2. CASE AttachStep(u)
          BY <3>1, <4>2 DEF AttachStep, AttachUnknown, AttachBegin, AttachDelta, AttachLive,
                            AttachFails
        <4>3. CASE PumpStep(u)
          BY <3>1, <4>3 DEF PumpStep, PumpSends, PumpSent, PumpIdles, PumpWakes, PumpFails
        <4>4. CASE Disconnect(u)
          BY <1>t, <1>3, <4>4 DEF ClientsTyped, Disconnect
        <4>5. CASE Release(u)
          BY <1>t, <1>3, <4>5 DEF ClientsTyped, Release
        <4> QED
          BY <3>7, <4>1, <4>2, <4>3, <4>4, <4>5 DEF ViewerStep
      <3> QED
        BY <3>1, <3>2, <3>4, <3>5, <3>6, <3>7 DEF Next, ViewerStep, AttachStep, PumpStep
    <2>2. v \notin subscribers' /\ v \notin catchingUp' /\ pump'[v] = NoPump
      BY <1>1, <2>1 DEF Release, Unsubscribe, Dropped
    <2> QED
      BY <2>2, NoPumpTyped DEF HasPump
  <1> QED
    BY <1>2, <1>3

(* A connection that has been released is in no listed session, whatever   *)
(* its requests were doing when it ended.                                  *)
THEOREM ReleasedForgotten == Spec => []ReleasedIsForgotten
  <1>1. Init => ReleasedIsForgotten
    <2>1. Init => \A v \in Viewers : conn[v] = "open"
      BY DEF Init
    <2> QED
      BY <2>1 DEF ReleasedIsForgotten
  <1>2. SessionInv /\ ReleasedIsForgotten /\ [Next]_vars => ReleasedIsForgotten'
    BY ReleasedStep DEF SessionInv
  <1> QED
    BY <1>1, <1>2, SessionInvariant, PTL DEF Spec

-----------------------------------------------------------------------------
(* No wake-up is lost.                                                     *)

Sound(v) ==
  /\ HasPump(v) => v \in subscribers
  /\ pump[v].task = "waiting" /\ ~pump[v].wake => pump[v].queue = <<>> /\ ~pump[v].closing

LEMMA SoundStep ==
  ASSUME Typed, [Next]_vars, NEW v \in Viewers, Sound(v)
  PROVE  Sound(v)'
  <1>t. PumpsTyped /\ LoopTyped /\ pump[v] \in PumpSet /\ pump \in [Viewers -> PumpSet]
    BY TypedParts DEF PumpsTyped
  <1>1. ASSUME pump'[v] = pump[v], v \in subscribers => v \in subscribers' PROVE Sound(v)'
    BY <1>1 DEF Sound, HasPump
  <1>2. CASE pump'[v] = NoPump
    BY <1>2, NoPumpTyped DEF Sound, HasPump
  <1>3. ASSUME pump'[v].wake = TRUE, v \in subscribers' PROVE Sound(v)'
    BY <1>3 DEF Sound
  <1>4. CASE UNCHANGED vars
    BY <1>1, <1>4 DEF vars
  <1>5. ASSUME NEW n \in 1 .. MaxChunk, ReadOutput(n) PROVE Sound(v)'
    <2> DEFINE f == Output(total + 1, total + n)
    <2>1. f \in FrameSet /\ pump' = FannedOut(f) /\ subscribers' = subscribers \ Overflowing(f)
      BY <1>t, <1>5, OutputIsFrame DEF LoopTyped, ReadOutput, Evict
    <2> HIDE DEF f
    <2>2. CASE v \in Overflowing(f)
      BY <1>t, <1>2, <2>1, <2>2, FannedOutFacts
    <2>3. CASE v \in Live \ Overflowing(f)
      <3>1. pump'[v] = Enqueued(pump[v], f) /\ v \in subscribers'
        BY <1>t, <2>1, <2>3, FannedOutFacts DEF Live
      <3>2. Enqueued(pump[v], f).wake = TRUE
        BY <1>t, <2>1, EnqueuedFacts
      <3> QED
        BY <1>3, <3>1, <3>2
    <2>4. CASE v \notin Live
      <3>1. pump'[v] = pump[v] /\ v \notin Overflowing(f)
        BY <1>t, <2>1, <2>4, FannedOutFacts
      <3> QED
        BY <1>1, <2>1, <3>1
    <2> QED
      BY <2>2, <2>3, <2>4
  <1>6. CASE ReadEnd \/ ReadError
    <2> DEFINE told == FannedOut(TermClosed)
    <2>1. /\ subscribers' = subscribers \ Overflowing(TermClosed)
          /\ pump'[v] = IF told[v].task = "none" THEN NoPump
                        ELSE [told[v] EXCEPT !.closing = TRUE, !.wake = TRUE]
      BY <1>6 DEF ReadEnd, ReadError, LeaveLoop, Evict
    <2>2. told[v] \in PumpSet /\ TermClosed \in FrameSet
      BY <1>t, ClosedIsFrame, FannedOutTyped
    <2>3. CASE told[v].task = "none"
      BY <1>2, <2>1, <2>3
    <2>4. CASE told[v].task # "none"
      <3>1. v \in subscribers'
        <4>1. CASE v \in Live
          <5>1. v \notin Overflowing(TermClosed)
            BY <1>t, <2>2, <2>4, FannedOutFacts, NoPumpTyped
          <5> QED
            BY <2>1, <4>1, <5>1 DEF Live
        <4>2. CASE v \notin Live
          <5>1. told[v] = pump[v] /\ v \notin Overflowing(TermClosed)
            BY <1>t, <2>2, <4>2, FannedOutFacts
          <5> QED
            BY <2>1, <2>4, <5>1 DEF Sound, HasPump
        <4> QED
          BY <4>1, <4>2
      <3>2. \A p \in PumpSet : [p EXCEPT !.closing = TRUE, !.wake = TRUE].wake = TRUE
        BY DEF PumpSet
      <3> HIDE DEF told
      <3> QED
        BY <1>3, <2>1, <2>2, <2>4, <3>1, <3>2
    <2> QED
      BY <2>3, <2>4
  <1>7. CASE FlushDone \/ FlushTimeout
    BY <1>2, <1>7 DEF FlushDone, FlushTimeout
  <1>8. CASE Kill \/ ProcessExits
    BY <1>1, <1>8 DEF Kill, ProcessExits
  <1>9. ASSUME NEW u \in Viewers,
               \/ ClientAttach(u) \/ ClientReceive(u) \/ Disconnect(u)
               \/ AttachUnknown(u) \/ AttachBegin(u) \/ AttachDelta(u) \/ AttachLive(u)
        PROVE  Sound(v)'
    <2>1. UNCHANGED pump
      BY <1>9 DEF ClientAttach, ClientReceive, Disconnect, AttachUnknown, AttachBegin,
                  AttachDelta, AttachLive
    <2>2. subscribers \subseteq subscribers'
      BY <1>9 DEF ClientAttach, ClientReceive, Disconnect, AttachUnknown, AttachBegin,
                  AttachDelta, AttachLive
    <2> QED
      BY <1>1, <2>1, <2>2
  <1>10. ASSUME NEW u \in Viewers, Detach(u) \/ Release(u) \/ AttachFails(u) \/ PumpFails(u)
         PROVE  Sound(v)'
    <2>1. \/ UNCHANGED <<pump, subscribers>>
          \/ pump' = Dropped({u}) /\ subscribers' = subscribers \ {u}
      BY <1>10 DEF Detach, Release, Unsubscribe, AttachFails, PumpFails
    <2>2. CASE UNCHANGED <<pump, subscribers>>
      BY <1>1, <2>2
    <2>3. CASE pump' = Dropped({u}) /\ subscribers' = subscribers \ {u}
      BY <1>1, <1>2, <2>3 DEF Dropped
    <2> QED
      BY <2>1, <2>2, <2>3
  <1>11. ASSUME NEW u \in Viewers, PumpSends(u) \/ PumpSent(u) \/ PumpIdles(u) \/ PumpWakes(u)
         PROVE  Sound(v)'
    <2>1. UNCHANGED subscribers
      BY <1>11 DEF PumpSends, PumpSent, PumpIdles, PumpWakes
    <2>2. CASE u # v
      <3>1. pump'[v] = pump[v]
        BY <1>t, <1>11, <2>2, PumpTurns
      <3> QED
        BY <1>1, <2>1, <3>1
    <2>3. CASE u = v
      <3>1. v \in subscribers'
        BY <1>11, <2>1, <2>3 DEF Sound, HasPump, PumpSends, PumpSent, PumpIdles, PumpWakes
      <3>2. ASSUME pump'[v].task # "waiting" PROVE Sound(v)'
        BY <3>1, <3>2 DEF Sound
      <3>3. CASE PumpSends(v)
        <4>1. pump'[v] = PumpAfterSend(pump[v])
          BY <1>t, <3>3, PumpTurns
        <4>2. pump'[v].task = "sending"
          BY <4>1 DEF PumpAfterSend
        <4> QED
          BY <3>2, <4>2
      <3>4. CASE PumpSent(v) \/ PumpWakes(v)
        <4>1. pump'[v] = PumpIn(pump[v], "run", pump[v].wake)
          BY <1>t, <3>4, PumpTurns
        <4>2. pump'[v].task = "run"
          BY <4>1 DEF PumpIn
        <4> QED
          BY <3>2, <4>2
      <3>5. CASE PumpIdles(v)
        <4>1. pump'[v] = IF pump[v].closing THEN PumpIn(pump[v], "finished", pump[v].wake)
                         ELSE PumpIn(pump[v], "waiting", FALSE)
          BY <1>t, <3>5, PumpTurns
        <4>2. pump[v].queue = <<>>
          BY <3>5 DEF PumpIdles
        <4>3. CASE pump[v].closing
          BY <3>2, <4>1, <4>3 DEF PumpIn
        <4>4. CASE ~pump[v].closing
          BY <3>1, <4>1, <4>2, <4>4 DEF PumpIn, Sound
        <4> QED
          BY <4>3, <4>4
      <3> QED
        BY <1>11, <2>3, <3>3, <3>4, <3>5
    <2> QED
      BY <2>2, <2>3
  <1> QED
    BY <1>4, <1>5, <1>6, <1>7, <1>8, <1>9, <1>10, <1>11 DEF Next

(* A pump exists only for a subscriber, and a task that sleeps has nothing *)
(* to do.                                                                  *)
THEOREM SleepSound == Spec => []SleepIsSound
  <1>1. SleepIsSound <=> \A v \in Viewers : Sound(v)
    BY DEF SleepIsSound, Sound
  <1>2. Init => SleepIsSound
    <2> SUFFICES ASSUME Init, NEW v \in Viewers PROVE Sound(v)
      BY <1>1
    <2>1. pump[v] = NoPump
      BY DEF Init
    <2> QED
      BY <2>1, NoPumpTyped DEF Sound, HasPump
  <1>3. ASSUME SessionInv, SleepIsSound, [Next]_vars PROVE SleepIsSound'
    <2> SUFFICES ASSUME NEW v \in Viewers PROVE Sound(v)'
      BY DEF SleepIsSound, Sound
    <2>1. Sound(v)
      BY <1>1, <1>3
    <2> QED
      BY <1>3, <2>1, SoundStep DEF SessionInv
  <1>4. SessionInv /\ SleepIsSound /\ [Next]_vars => SleepIsSound'
    BY <1>3
  <1> QED
    BY <1>2, <1>4, SessionInvariant, PTL DEF Spec

-----------------------------------------------------------------------------
(* The bytes of the queues.                                                *)

(* A queue and its bytes, counted from the end: what is left after a frame *)
(* was sent never exceeds what there was.                                  *)
LeftOf(queue, n, left) ==
  /\ left \in [1 .. Len(queue) + 1 -> Nat]
  /\ left[1] = n /\ left[Len(queue) + 1] = 0
  /\ \A i \in 1 .. Len(queue) : left[i] = Size(queue[i]) + left[i + 1]
  /\ \A i, j \in 1 .. Len(queue) + 1 : i <= j => left[j] <= left[i]
Counted(queue, n) == \E left : LeftOf(queue, n, left)

LEMMA CountedNone == Counted(<<>>, 0)
  <1> DEFINE left == [i \in 1 .. 1 |-> 0]
  <1>1. LeftOf(<<>>, 0, left)
    BY DEF LeftOf
  <1> QED
    BY <1>1 DEF Counted

(* A frame is queued, and counts with all the frames before it. *)
LEMMA CountedPush ==
  ASSUME NEW queue \in Seq(FrameSet), NEW n \in Int, NEW f \in FrameSet, Counted(queue, n)
  PROVE  Counted(Append(queue, f), n + Size(f))
  <1> PICK left : LeftOf(queue, n, left)
    BY DEF Counted
  <1> DEFINE k == Len(queue)
             size == Size(f)
             more == Append(queue, f)
             sum == [i \in 1 .. k + 2 |-> IF i = k + 2 THEN 0 ELSE left[i] + size]
  <1>1. /\ left \in [1 .. k + 1 -> Nat] /\ left[1] = n /\ left[k + 1] = 0
        /\ \A i \in 1 .. k : left[i] = Size(queue[i]) + left[i + 1]
        /\ \A i, j \in 1 .. k + 1 : i <= j => left[j] <= left[i]
    BY DEF LeftOf
  <1>2. size \in Nat \ {0} /\ k \in Nat
    BY FrameFacts
  <1>3. /\ Len(more) = k + 1 /\ more[k + 1] = f
        /\ \A i \in 1 .. k : more[i] = queue[i]
    BY AppendFacts
  <1>s. \A i \in 1 .. k : Size(queue[i]) \in Nat
    BY FrameFacts
  <1>z. Size(more[k + 1]) = size
    BY <1>3
  <1> HIDE DEF k, size, more
  <1>4. /\ sum \in [1 .. k + 2 -> Nat] /\ sum[1] = n + size /\ sum[k + 2] = 0
        /\ sum[k + 1] = size
        /\ \A i \in 1 .. k + 1 : sum[i] = left[i] + size
    BY <1>1, <1>2
  <1> HIDE DEF sum
  <1>5. ASSUME NEW i \in 1 .. k + 1 PROVE sum[i] = Size(more[i]) + sum[i + 1]
    <2>1. CASE i = k + 1
      BY <1>2, <1>4, <1>z, <2>1
    <2>2. CASE i \in 1 .. k
      <3>1. /\ i + 1 \in 1 .. k + 1 /\ left[i] = Size(queue[i]) + left[i + 1]
            /\ left[i + 1] \in Nat /\ Size(queue[i]) \in Nat /\ more[i] = queue[i]
        BY <1>1, <1>2, <1>3, <1>s, <2>2
      <3>2. sum[i] = left[i] + size /\ sum[i + 1] = left[i + 1] + size
        BY <1>4, <3>1
      <3>3. Size(more[i]) = Size(queue[i])
        BY <3>1
      <3> QED
        BY <1>2, <3>1, <3>2, <3>3
    <2> QED
      BY <1>2, <2>1, <2>2
  <1>6. ASSUME NEW i \in 1 .. k + 2, NEW j \in 1 .. k + 2, i <= j PROVE sum[j] <= sum[i]
    <2>1. CASE j = k + 2
      BY <1>4, <2>1
    <2>2. CASE j # k + 2
      <3>1. i \in 1 .. k + 1 /\ j \in 1 .. k + 1
        BY <1>2, <1>6, <2>2
      <3>2. left[j] <= left[i] /\ left[i] \in Nat /\ left[j] \in Nat
        BY <1>1, <1>6, <3>1
      <3> QED
        BY <1>2, <1>4, <3>1, <3>2
    <2> QED
      BY <2>1, <2>2
  <1>7. Len(more) + 1 = k + 2
    BY <1>2, <1>3
  <1>8. LeftOf(more, n + size, sum)
    BY <1>3, <1>4, <1>5, <1>6, <1>7 DEF LeftOf
  <1> QED
    BY <1>8 DEF Counted, more, size

(* The first frame is taken, and what is left is what the others hold. *)
LEMMA CountedPop ==
  ASSUME NEW queue \in Seq(FrameSet), NEW n \in Int, queue # <<>>, Counted(queue, n)
  PROVE  Counted(Tail(queue), n - Size(Head(queue))) /\ n - Size(Head(queue)) <= n
  <1> PICK left : LeftOf(queue, n, left)
    BY DEF Counted
  <1> DEFINE k == Len(queue)
             rest == Tail(queue)
             size == Size(Head(queue))
             sum == [i \in 1 .. k |-> left[i + 1]]
  <1>1. /\ left \in [1 .. k + 1 -> Nat] /\ left[1] = n /\ left[k + 1] = 0
        /\ \A i \in 1 .. k : left[i] = Size(queue[i]) + left[i + 1]
        /\ \A i, j \in 1 .. k + 1 : i <= j => left[j] <= left[i]
    BY DEF LeftOf
  <1>2. /\ k \in Nat \ {0} /\ Len(rest) = k - 1 /\ Head(queue) = queue[1] /\ Head(queue) \in FrameSet
        /\ \A i \in 1 .. k - 1 : rest[i] = queue[i + 1]
    BY TailFacts
  <1>3. size \in Nat /\ size = Size(queue[1])
    BY <1>2, FrameFacts
  <1> HIDE DEF k, size, rest
  <1>4. /\ sum \in [1 .. k -> Nat] /\ sum[1] = n - size /\ sum[k] = 0
        /\ \A i \in 1 .. k : sum[i] = left[i + 1]
    <2>1. 1 \in 1 .. k /\ left[1] = size + left[2] /\ left[2] \in Nat
      BY <1>1, <1>2, <1>3
    <2> QED
      BY <1>1, <1>2, <1>3, <2>1
  <1> HIDE DEF sum
  <1>5. ASSUME NEW i \in 1 .. k - 1 PROVE sum[i] = Size(rest[i]) + sum[i + 1]
    <2>1. i + 1 \in 1 .. k /\ i \in 1 .. k
      BY <1>2
    <2> QED
      BY <1>1, <1>2, <1>4, <2>1
  <1>6. ASSUME NEW i \in 1 .. k, NEW j \in 1 .. k, i <= j PROVE sum[j] <= sum[i]
    BY <1>1, <1>2, <1>4, <1>6
  <1>7. Len(rest) + 1 = k
    BY <1>2
  <1>8. LeftOf(rest, n - size, sum)
    BY <1>2, <1>4, <1>5, <1>6, <1>7 DEF LeftOf
  <1> QED
    BY <1>3, <1>8 DEF Counted, rest, size

LEMMA CountedHolds ==
  ASSUME NEW queue \in Seq(FrameSet), NEW n, Counted(queue, n)
  PROVE  n \in Nat /\ Holds(queue, n)
  <1> PICK left : LeftOf(queue, n, left)
    BY DEF Counted
  <1>1. Len(queue) \in Nat /\ 1 \in 1 .. Len(queue) + 1
    OBVIOUS
  <1>2. n \in Nat /\ \A i \in 1 .. Len(queue) + 1 : left[i] \in 0 .. n
    BY <1>1 DEF LeftOf
  <1>3. left \in [1 .. Len(queue) + 1 -> 0 .. n]
    BY <1>2 DEF LeftOf
  <1> QED
    BY <1>2, <1>3 DEF LeftOf, Holds

(* What a step does to a queue: a frame comes, if there is room for it, or *)
(* goes, or the queue is given up.                                         *)
Comes(v, f) ==
  /\ pump'[v].queue = Append(pump[v].queue, f)
  /\ pump'[v].queued = pump[v].queued + Size(f)
  /\ pump[v].queued + Size(f) <= MaxQueued
  /\ f.hi <= total'
Goes(v) ==
  /\ pump[v].queue # <<>>
  /\ pump'[v].queue = Tail(pump[v].queue)
  /\ pump'[v].queued = pump[v].queued - Size(Head(pump[v].queue))
QueueTurns(v) ==
  \/ pump'[v].queue = pump[v].queue /\ pump'[v].queued = pump[v].queued
  \/ pump'[v] = NoPump
  \/ \E f \in FrameSet : Comes(v, f)
  \/ Goes(v)

LEMMA FanOutTurns ==
  ASSUME PumpsTyped, NEW v \in Viewers, NEW f \in FrameSet, f.hi <= total'
  PROVE  \/ FannedOut(f)[v] = NoPump
         \/ FannedOut(f)[v] = pump[v]
         \/ /\ FannedOut(f)[v].queue = Append(pump[v].queue, f)
            /\ FannedOut(f)[v].queued = pump[v].queued + Size(f)
            /\ pump[v].queued + Size(f) <= MaxQueued
  <1>t. pump[v] \in PumpSet
    BY DEF PumpsTyped
  <1>1. CASE v \in Live \ Overflowing(f)
    <2>1. FannedOut(f)[v] = Enqueued(pump[v], f)
      BY <1>1, FannedOutFacts
    <2>2. /\ Enqueued(pump[v], f).queue = Append(pump[v].queue, f)
          /\ Enqueued(pump[v], f).queued = pump[v].queued + Size(f)
      BY <1>t, EnqueuedFacts
    <2>3. ~(pump[v].queued + Size(f) > MaxQueued)
      BY <1>1 DEF Overflowing
    <2>4. pump[v].queued \in Int /\ Size(f) \in Int
      BY <1>t, FrameFacts DEF PumpSet
    <2> QED
      BY <2>1, <2>2, <2>3, <2>4
  <1>2. CASE v \notin Live \ Overflowing(f)
    BY <1>2, FannedOutFacts
  <1> QED
    BY <1>1, <1>2

LEMMA QueueStep ==
  ASSUME Typed, [Next]_vars, NEW v \in Viewers
  PROVE  QueueTurns(v)
  <1>t. PumpsTyped /\ LoopTyped /\ pump[v] \in PumpSet /\ pump \in [Viewers -> PumpSet]
    BY TypedParts DEF PumpsTyped
  <1>1. CASE pump'[v] = pump[v]
    BY <1>1 DEF QueueTurns
  <1>2. CASE pump'[v] = NoPump
    BY <1>2 DEF QueueTurns
  <1>3. CASE UNCHANGED vars
    BY <1>1, <1>3 DEF vars
  <1>4. ASSUME NEW n \in 1 .. MaxChunk, ReadOutput(n) PROVE QueueTurns(v)
    <2> DEFINE f == Output(total + 1, total + n)
    <2>1. f \in FrameSet /\ f.hi <= total' /\ pump' = FannedOut(f)
      BY <1>t, <1>4, OutputIsFrame DEF LoopTyped, ReadOutput
    <2> HIDE DEF f
    <2> QED
      BY <1>t, <1>1, <1>2, <2>1, FanOutTurns DEF QueueTurns, Comes
  <1>5. CASE ReadEnd \/ ReadError
    <2> DEFINE told == FannedOut(TermClosed)
    <2>1. /\ total' = total
          /\ pump'[v] = IF told[v].task = "none" THEN NoPump
                        ELSE [told[v] EXCEPT !.closing = TRUE, !.wake = TRUE]
      BY <1>5 DEF ReadEnd, ReadError, LeaveLoop
    <2>2. TermClosed \in FrameSet /\ TermClosed.hi <= total'
      BY <1>t, <2>1, ClosedIsFrame DEF TermClosed, LoopTyped
    <2>3. told[v] \in PumpSet
      BY <1>t, <2>2, FannedOutTyped
    <2>4. \/ told[v] = NoPump
          \/ told[v] = pump[v]
          \/ /\ told[v].queue = Append(pump[v].queue, TermClosed)
             /\ told[v].queued = pump[v].queued + Size(TermClosed)
             /\ pump[v].queued + Size(TermClosed) <= MaxQueued
      BY <1>t, <2>2, FanOutTurns
    <2> HIDE DEF told
    <2>5. CASE told[v].task = "none"
      BY <1>2, <2>1, <2>5
    <2>6. CASE told[v].task # "none"
      <3>1. pump'[v].queue = told[v].queue /\ pump'[v].queued = told[v].queued
        BY <2>1, <2>3, <2>6 DEF PumpSet
      <3>2. told[v] # NoPump
        BY <2>6, NoPumpTyped
      <3> QED
        BY <2>2, <2>4, <3>1, <3>2 DEF QueueTurns, Comes
    <2> QED
      BY <2>5, <2>6
  <1>6. CASE FlushDone \/ FlushTimeout
    BY <1>2, <1>6 DEF FlushDone, FlushTimeout
  <1>7. CASE Kill \/ ProcessExits
    BY <1>1, <1>7 DEF Kill, ProcessExits
  <1>8. ASSUME NEW u \in Viewers,
               \/ ClientAttach(u) \/ ClientReceive(u) \/ Disconnect(u)
               \/ AttachUnknown(u) \/ AttachBegin(u) \/ AttachDelta(u) \/ AttachLive(u)
        PROVE  UNCHANGED pump
    BY <1>8 DEF ClientAttach, ClientReceive, Disconnect, AttachUnknown, AttachBegin,
                AttachDelta, AttachLive
  <1>9. ASSUME NEW u \in Viewers, Detach(u) \/ Release(u) \/ AttachFails(u) \/ PumpFails(u)
        PROVE  QueueTurns(v)
    <2>1. UNCHANGED pump \/ pump' = Dropped({u})
      BY <1>9 DEF Detach, Release, Unsubscribe, AttachFails, PumpFails
    <2> QED
      BY <1>1, <1>2, <2>1 DEF Dropped
  <1>10. ASSUME NEW u \in Viewers, PumpSends(u) \/ PumpSent(u) \/ PumpIdles(u) \/ PumpWakes(u)
         PROVE  QueueTurns(v)
    <2>1. CASE u # v
      <3>1. pump'[v] = pump[v]
        BY <1>t, <1>10, <2>1, PumpTurns
      <3> QED
        BY <1>1, <3>1
    <2>2. CASE u = v
      <3>1. CASE PumpSends(v)
        <4>1. pump'[v] = PumpAfterSend(pump[v]) /\ pump[v].queue # <<>>
          BY <1>t, <3>1, PumpTurns DEF PumpSends
        <4> QED
          BY <4>1 DEF PumpAfterSend, QueueTurns, Goes
      <3>2. CASE PumpSent(v) \/ PumpIdles(v) \/ PumpWakes(v)
        BY <1>t, <2>2, <3>2, PumpTurns DEF QueueTurns, PumpIn
      <3> QED
        BY <1>10, <2>2, <3>1, <3>2
    <2> QED
      BY <2>1, <2>2
  <1> QED
    BY <1>1, <1>3, <1>4, <1>5, <1>6, <1>7, <1>8, <1>9, <1>10 DEF Next

(* The bytes of a queue are counted, and within the limit. *)
Booked(v) == pump[v].queued <= MaxQueued /\ Counted(pump[v].queue, pump[v].queued)

LEMMA BookedInit ==
  ASSUME Init, NEW v \in Viewers
  PROVE  Booked(v)
  <1>1. pump[v] = NoPump
    BY DEF Init
  <1> QED
    BY <1>1, NoPumpTyped, CountedNone DEF Booked

LEMMA BookedStep ==
  ASSUME Typed, [Next]_vars, NEW v \in Viewers, Booked(v)
  PROVE  Booked(v)'
  <1>t. pump[v].queue \in Seq(FrameSet) /\ pump[v].queued \in Int
    BY TypedParts DEF PumpsTyped, PumpSet
  <1>1. CASE pump'[v].queue = pump[v].queue /\ pump'[v].queued = pump[v].queued
    BY <1>1 DEF Booked
  <1>2. CASE pump'[v] = NoPump
    BY <1>2, NoPumpTyped, CountedNone DEF Booked
  <1>3. ASSUME NEW f \in FrameSet, Comes(v, f) PROVE Booked(v)'
    <2>1. Counted(Append(pump[v].queue, f), pump[v].queued + Size(f))
      BY <1>t, CountedPush DEF Booked
    <2> QED
      BY <1>3, <2>1 DEF Booked, Comes
  <1>4. CASE Goes(v)
    <2> DEFINE n == pump[v].queued - Size(Head(pump[v].queue))
    <2>1. pump[v].queue # <<>> /\ pump'[v].queue = Tail(pump[v].queue) /\ pump'[v].queued = n
      BY <1>4 DEF Goes
    <2>2. Counted(Tail(pump[v].queue), n) /\ n <= pump[v].queued
      BY <1>t, <2>1, CountedPop DEF Booked
    <2>3. n \in Int
      BY <1>t, <2>1, TailFacts, FrameFacts
    <2> HIDE DEF n
    <2>4. n <= MaxQueued
      BY <1>t, <2>2, <2>3 DEF Booked
    <2> QED
      BY <2>1, <2>2, <2>4 DEF Booked
  <1> QED
    BY <1>1, <1>2, <1>3, <1>4, QueueStep DEF QueueTurns

(* The byte counts against which the fan-out decides whom to evict are     *)
(* those of the queues, and no queue holds more than MAX_QUEUED_BYTES.     *)
THEOREM BytesCounted == Spec => []BytesAreCounted
  <1> DEFINE AllBooked == \A v \in Viewers : Booked(v)
  <1>1. Init => AllBooked
    BY BookedInit
  <1>2. SessionInv /\ AllBooked /\ [Next]_vars => AllBooked'
    BY BookedStep DEF SessionInv
  <1>3. SessionInv /\ AllBooked => BytesAreCounted
    <2> SUFFICES ASSUME SessionInv, AllBooked, NEW v \in Viewers
                 PROVE  pump[v].queued <= MaxQueued /\ Holds(pump[v].queue, pump[v].queued)
      BY DEF BytesAreCounted
    <2>1. pump[v].queue \in Seq(FrameSet)
      BY TypedParts DEF SessionInv, PumpsTyped, PumpSet
    <2> QED
      BY <2>1, CountedHolds DEF Booked
  <1> HIDE DEF AllBooked
  <1> QED
    BY <1>1, <1>2, <1>3, SessionInvariant, PTL DEF Spec

(* The session keeps nothing of a viewer it should not: no pump without a  *)
(* subscriber and no wake-up lost, no byte uncounted, and nothing of a     *)
(* connection that was released.                                           *)
THEOREM Accounted == Spec => []ViewersAreAccounted
  <1>1. SleepIsSound /\ BytesAreCounted /\ ReleasedIsForgotten => ViewersAreAccounted
    BY DEF ViewersAreAccounted, PumpsAreSound
  <1> QED
    BY <1>1, SleepSound, BytesCounted, ReleasedForgotten, PTL

-----------------------------------------------------------------------------
(* The types of TypeOK, with the bounds of the output.                     *)

FrameIn == {f \in FrameSet : f.hi <= MaxBytes}

LEMMA FrameInFacts ==
  ASSUME NEW f \in FrameIn
  PROVE  f \in FrameSet /\ f \in Frames /\ Positions(f) \in Seq(1 .. MaxBytes)
  <1>1. f \in FrameSet /\ f.hi <= MaxBytes
    BY DEF FrameIn
  <1>2. /\ f.kind \in {"output", "closed"} /\ f.lo \in Nat /\ f.hi \in Nat /\ f.lo <= f.hi
        /\ f.kind = "output" => f.lo >= 1
    BY <1>1 DEF FrameSet
  <1>3. f \in Frames
    BY <1>1, <1>2 DEF Frames, FrameSet
  <1>4. CASE f.kind = "output"
    <2> DEFINE n == Size(f)
    <2>1. n \in Nat /\ n = f.hi - f.lo + 1
      BY <1>2, <1>4 DEF Size
    <2> HIDE DEF n
    <2>2. \A i \in 1 .. n : f.lo + i - 1 \in 1 .. MaxBytes
      BY <1>1, <1>2, <1>4, <2>1
    <2>3. [i \in 1 .. n |-> f.lo + i - 1] \in Seq(1 .. MaxBytes)
      BY <2>1, <2>2
    <2> QED
      BY <1>1, <1>3, <1>4, <2>3 DEF Positions, n
  <1>5. CASE f.kind # "output"
    <2>1. <<>> \in Seq(1 .. MaxBytes)
      OBVIOUS
    <2> QED
      BY <1>1, <1>3, <1>5, <2>1 DEF Positions
  <1> QED
    BY <1>4, <1>5

(* The counters are within their bounds, and so is every frame.            *)
CountersIn ==
  /\ total \in 0 .. MaxBytes /\ process \in {"running", "exited"}
  /\ offset \in [Viewers -> 0 .. MaxBytes] /\ attaches \in [Viewers -> 0 .. MaxAttach]
QueuesIn == \A v \in Viewers : pump[v].queue \in Seq(FrameIn)
WiresIn == \A v \in Viewers : wire[v] \in Seq(FrameIn)
ScreensIn == \A v \in Viewers : screen[v] \in Seq(1 .. MaxBytes)
Within == CountersIn /\ QueuesIn /\ WiresIn /\ ScreensIn

LEMMA CountersStep ==
  ASSUME Typed, CountersIn, [Next]_vars
  PROVE  CountersIn'
  <1> DEFINE counters == <<total, process, offset, attaches>>
  <1>1. CASE UNCHANGED counters
    BY <1>1 DEF CountersIn
  <1>2. CASE UNCHANGED vars
    BY <1>1, <1>2 DEF vars, session, client
  <1>3. ASSUME NEW n \in 1 .. MaxChunk, ReadOutput(n) PROVE CountersIn'
    BY <1>3 DEF CountersIn, ReadOutput, client
  <1>4. CASE ReadEnd \/ ReadError \/ FlushDone \/ FlushTimeout \/ Kill
    BY <1>1, <1>4 DEF ReadEnd, ReadError, LeaveLoop, FlushDone, FlushTimeout, Kill, client
  <1>5. CASE ProcessExits
    BY <1>5 DEF CountersIn, ProcessExits, client
  <1>6. ASSUME NEW v \in Viewers,
               \/ ClientReceive(v) \/ Disconnect(v) \/ Detach(v) \/ Release(v)
               \/ AttachUnknown(v) \/ AttachLive(v) \/ AttachFails(v)
               \/ PumpSends(v) \/ PumpSent(v) \/ PumpIdles(v) \/ PumpWakes(v) \/ PumpFails(v)
        PROVE  UNCHANGED counters
    BY <1>6 DEF ClientReceive, Disconnect, Detach, Release, AttachUnknown, AttachLive, AttachFails,
                PumpSends, PumpSent, PumpIdles, PumpWakes, PumpFails, session, client
  <1>7. ASSUME NEW v \in Viewers, ClientAttach(v) PROVE CountersIn'
    BY <1>7 DEF CountersIn, ClientAttach, session
  <1>8. ASSUME NEW v \in Viewers, AttachBegin(v) \/ AttachDelta(v) PROVE CountersIn'
    <2>1. /\ UNCHANGED <<session, attaches>>
          /\ offset' = offset \/ offset' = [offset EXCEPT ![v] = total]
      BY <1>8 DEF AttachBegin, AttachDelta, client
    <2> QED
      BY <2>1 DEF CountersIn, session
  <1> QED
    BY <1>1, <1>2, <1>3, <1>4, <1>5, <1>6, <1>7, <1>8 DEF Next

LEMMA QueuesInStep ==
  ASSUME Typed, CountersIn, QueuesIn, [Next]_vars
  PROVE  QueuesIn'
  <1> SUFFICES ASSUME NEW v \in Viewers PROVE pump'[v].queue \in Seq(FrameIn)
    BY DEF QueuesIn
  <1>1. pump[v].queue \in Seq(FrameIn) /\ QueueTurns(v)
    BY QueueStep DEF QueuesIn
  <1>2. total' <= MaxBytes /\ total' \in Nat
    BY CountersStep DEF CountersIn
  <1>3. ASSUME NEW f \in FrameSet, Comes(v, f) PROVE pump'[v].queue \in Seq(FrameIn)
    <2>1. f.hi \in Nat /\ f.hi <= total'
      BY <1>3, FrameFacts DEF Comes
    <2>2. f \in FrameIn
      BY <1>2, <2>1 DEF FrameIn
    <2> QED
      BY <1>1, <1>3, <2>2, AppendFacts DEF Comes
  <1>4. CASE Goes(v)
    BY <1>1, <1>4, TailFacts DEF Goes
  <1>5. CASE pump'[v] = NoPump
    <2>1. <<>> \in Seq(FrameIn)
      OBVIOUS
    <2> QED
      BY <1>5, <2>1, NoPumpTyped
  <1> QED
    BY <1>1, <1>3, <1>4, <1>5 DEF QueueTurns

LEMMA WiresInStep ==
  ASSUME Typed, CountersIn, QueuesIn, WiresIn, [Next]_vars
  PROVE  WiresIn'
  <1> SUFFICES ASSUME NEW v \in Viewers PROVE wire'[v] \in Seq(FrameIn)
    BY DEF WiresIn
  <1>t. /\ wire[v] \in Seq(FrameIn) /\ wire \in [Viewers -> Seq(FrameSet)]
        /\ total \in Nat /\ total <= MaxBytes
    BY TypedParts DEF WiresIn, WiresTyped, CountersIn
  <1>1. CASE wire'[v] = wire[v]
    BY <1>t, <1>1
  <1>2. CASE UNCHANGED vars
    BY <1>1, <1>2 DEF vars
  <1>3. ASSUME NEW n \in 1 .. MaxChunk, ReadOutput(n) PROVE UNCHANGED wire
    BY <1>3 DEF ReadOutput
  <1>4. CASE ReadEnd \/ ReadError \/ FlushDone \/ FlushTimeout \/ Kill \/ ProcessExits
    BY <1>1, <1>4 DEF ReadEnd, ReadError, LeaveLoop, FlushDone, FlushTimeout, Kill, ProcessExits
  <1>5. ASSUME NEW u \in Viewers,
               \/ ClientAttach(u) \/ Detach(u) \/ Release(u)
               \/ AttachUnknown(u) \/ AttachLive(u) \/ AttachFails(u)
               \/ PumpSent(u) \/ PumpIdles(u) \/ PumpWakes(u) \/ PumpFails(u)
        PROVE  UNCHANGED wire
    BY <1>5 DEF ClientAttach, Detach, Release, AttachUnknown, AttachLive, AttachFails,
                PumpSent, PumpIdles, PumpWakes, PumpFails
  <1>6. ASSUME NEW u \in Viewers, NEW f \in FrameSet, f.hi <= MaxBytes, Sent(u, f)
        PROVE  wire'[v] \in Seq(FrameIn)
    <2>1. f \in FrameIn
      BY <1>6 DEF FrameIn
    <2>2. Append(wire[v], f) \in Seq(FrameIn)
      BY <1>t, <2>1, AppendFacts
    <2> QED
      BY <1>t, <1>6, <2>2 DEF Sent
  <1>7. ASSUME NEW n \in Nat, ~IsEmpty(RingSince(n))
        PROVE  RingSince(n) \in FrameSet /\ RingSince(n).hi <= MaxBytes
    BY <1>t, <1>7, SinceFacts
  <1>8. ASSUME NEW u \in Viewers, ClientReceive(u) \/ Disconnect(u) PROVE wire'[v] \in Seq(FrameIn)
    <2>1. \/ wire' = [wire EXCEPT ![u] = Tail(wire[u])] /\ wire[u] # <<>>
          \/ wire' = [wire EXCEPT ![u] = <<>>]
      BY <1>8 DEF ClientReceive, Disconnect
    <2>2. wire[v] # <<>> => Tail(wire[v]) \in Seq(FrameIn)
      BY <1>t, TailFacts
    <2>3. <<>> \in Seq(FrameIn)
      OBVIOUS
    <2> QED
      BY <1>t, <2>1, <2>2, <2>3
  <1>9. ASSUME NEW u \in Viewers, AttachBegin(u) PROVE wire'[v] \in Seq(FrameIn)
    <2>1. UNCHANGED wire \/ (~IsEmpty(RingSince(0)) /\ Sent(u, RingSince(0)))
      BY <1>9 DEF AttachBegin
    <2> QED
      BY <1>t, <1>6, <1>7, <2>1
  <1>10. ASSUME NEW u \in Viewers, AttachDelta(u) PROVE wire'[v] \in Seq(FrameIn)
    <2>1. ~IsEmpty(RingSince(offset[u])) /\ Sent(u, RingSince(offset[u])) /\ offset[u] \in Nat
      BY <1>10 DEF AttachDelta, CountersIn
    <2> QED
      BY <1>6, <1>7, <2>1
  <1>11. ASSUME NEW u \in Viewers, PumpSends(u) PROVE wire'[v] \in Seq(FrameIn)
    <2>1. pump[u].queue \in Seq(FrameIn) /\ pump[u].queue # <<>> /\ Sent(u, Head(pump[u].queue))
      BY <1>11 DEF PumpSends, QueuesIn
    <2>2. Head(pump[u].queue) \in FrameIn
      BY <2>1, TailFacts
    <2> QED
      BY <1>6, <2>1, <2>2 DEF FrameIn
  <1> QED
    BY <1>1, <1>2, <1>3, <1>4, <1>5, <1>8, <1>9, <1>10, <1>11 DEF Next

LEMMA ScreensInStep ==
  ASSUME Typed, WiresIn, ScreensIn, [Next]_vars
  PROVE  ScreensIn'
  <1> SUFFICES ASSUME NEW v \in Viewers PROVE screen'[v] \in Seq(1 .. MaxBytes)
    BY DEF ScreensIn
  <1>t. screen[v] \in Seq(1 .. MaxBytes) /\ screen \in [Viewers -> Seq(Nat)]
    BY TypedParts DEF ScreensIn, ClientsTyped
  <1>1. CASE UNCHANGED screen
    BY <1>t, <1>1
  <1>2. CASE UNCHANGED vars
    BY <1>1, <1>2 DEF vars, client
  <1>3. ASSUME NEW n \in 1 .. MaxChunk, ReadOutput(n) PROVE UNCHANGED screen
    BY <1>3 DEF ReadOutput, client
  <1>4. CASE ReadEnd \/ ReadError \/ FlushDone \/ FlushTimeout \/ Kill \/ ProcessExits
    BY <1>1, <1>4 DEF ReadEnd, ReadError, LeaveLoop, FlushDone, FlushTimeout, Kill, ProcessExits,
                      client
  <1>5. ASSUME NEW u \in Viewers,
               \/ Disconnect(u) \/ Detach(u) \/ Release(u) \/ AttachUnknown(u) \/ AttachBegin(u)
               \/ AttachDelta(u) \/ AttachLive(u) \/ AttachFails(u)
               \/ PumpSends(u) \/ PumpSent(u) \/ PumpIdles(u) \/ PumpWakes(u) \/ PumpFails(u)
        PROVE  UNCHANGED screen
    BY <1>5 DEF Disconnect, Detach, Release, AttachUnknown, AttachBegin, AttachDelta, AttachLive,
                AttachFails, PumpSends, PumpSent, PumpIdles, PumpWakes, PumpFails, client
  <1>6. ASSUME NEW u \in Viewers, ClientAttach(u) PROVE screen'[v] \in Seq(1 .. MaxBytes)
    <2>1. screen' = [screen EXCEPT ![u] = <<>>] /\ <<>> \in Seq(1 .. MaxBytes)
      BY <1>6 DEF ClientAttach
    <2> QED
      BY <1>t, <2>1
  <1>7. ASSUME NEW u \in Viewers, ClientReceive(u) PROVE screen'[v] \in Seq(1 .. MaxBytes)
    <2>1. /\ screen' = [screen EXCEPT ![u] = screen[u] \o Positions(Head(wire[u]))]
          /\ wire[u] # <<>> /\ wire[u] \in Seq(FrameIn)
      BY <1>7 DEF ClientReceive, WiresIn
    <2>2. Positions(Head(wire[u])) \in Seq(1 .. MaxBytes)
      BY <2>1, TailFacts, FrameInFacts
    <2>3. screen[v] \o Positions(Head(wire[u])) \in Seq(1 .. MaxBytes)
      BY <1>t, <2>2, Concatenation
    <2> QED
      BY <1>t, <2>1, <2>3
  <1> QED
    BY <1>1, <1>2, <1>3, <1>4, <1>5, <1>6, <1>7 DEF Next

LEMMA WithinInit ==
  ASSUME Init
  PROVE  Within
  <1>1. \A S : <<>> \in Seq(S)
    OBVIOUS
  <1>2. CountersIn /\ WiresIn /\ ScreensIn
    BY <1>1 DEF Init, CountersIn, WiresIn, ScreensIn
  <1>3. QueuesIn
    BY <1>1, NoPumpTyped DEF Init, QueuesIn
  <1> QED
    BY <1>2, <1>3 DEF Within

LEMMA TypeFromParts ==
  ASSUME Typed, Within, \A v \in Viewers : Booked(v)
  PROVE  TypeOK
  <1>t. LoopTyped /\ SetsTyped /\ PumpsTyped /\ WiresTyped /\ ClientsTyped /\ FlagsTyped
    BY TypedParts
  <1>s. ASSUME NEW s \in Seq(FrameIn) PROVE s \in Seq(Frames)
    <2>1. \A i \in 1 .. Len(s) : s[i] \in Frames
      BY FrameInFacts
    <2> QED
      BY <2>1
  <1>1. \A v \in Viewers : pump[v].queue \in Seq(Frames) /\ wire[v] \in Seq(Frames)
    BY <1>s DEF Within, QueuesIn, WiresIn
  <1>2. \A v \in Viewers : pump[v].queued \in Nat
    <2> SUFFICES ASSUME NEW v \in Viewers PROVE pump[v].queued \in Nat
      OBVIOUS
    <2>1. pump[v].queue \in Seq(FrameSet)
      BY <1>t DEF PumpsTyped, PumpSet
    <2> QED
      BY <2>1, CountedHolds DEF Booked
  <1> DEFINE Q == [task : {"none", "run", "sending", "waiting", "finished"},
                   queue : Seq(Frames), queued : Nat, wake : BOOLEAN, closing : BOOLEAN]
  <1>3. \A p \in PumpSet : p.queue \in Seq(Frames) /\ p.queued \in Nat => p \in Q
    BY DEF PumpSet
  <1>4. pump \in [Viewers -> Q]
    <2> HIDE DEF Q
    <2> QED
      BY <1>t, <1>1, <1>2, <1>3 DEF PumpsTyped
  <1>5. wire \in [Viewers -> Seq(Frames)]
    BY <1>t, <1>1 DEF WiresTyped
  <1>6. screen \in [Viewers -> Seq(1 .. MaxBytes)]
    BY <1>t DEF ClientsTyped, Within, ScreensIn
  <1> QED
    BY <1>t, <1>4, <1>5, <1>6 DEF TypeOK, Within, CountersIn, LoopTyped, SetsTyped, ClientsTyped,
                                  FlagsTyped

(* Every variable of the session keeps its type: no count of a queue goes  *)
(* below zero, and no frame, offset or screen is beyond the output.        *)
THEOREM TypeCorrect == Spec => []TypeOK
  <1> DEFINE AllBooked == \A v \in Viewers : Booked(v)
  <1>1. Init => AllBooked /\ Within
    BY BookedInit, WithinInit
  <1>2. SessionInv /\ AllBooked /\ Within /\ [Next]_vars => AllBooked' /\ Within'
    <2> SUFFICES ASSUME SessionInv, AllBooked, Within, [Next]_vars PROVE AllBooked' /\ Within'
      OBVIOUS
    <2>1. Typed
      BY DEF SessionInv
    <2>2. AllBooked'
      BY <2>1, BookedStep
    <2>3. Within'
      BY <2>1, CountersStep, QueuesInStep, WiresInStep, ScreensInStep DEF Within
    <2> QED
      BY <2>2, <2>3
  <1>3. SessionInv /\ AllBooked /\ Within => TypeOK
    BY TypeFromParts DEF SessionInv
  <1> HIDE DEF AllBooked
  <1> QED
    BY <1>1, <1>2, <1>3, SessionInvariant, PTL DEF Spec

-----------------------------------------------------------------------------
(* The refinement.                                                         *)

LEMMA StreamStarts ==
  ASSUME Init, NEW v \in Viewers
  PROVE  Stream(v)!Init
  BY DEF Init, Stream!Init

(* What is shown once the frame f has been drawn. *)
LEMMA FrameShown ==
  ASSUME SessionInv, NEW v \in Viewers, ClientReceive(v)
  PROVE  [Stream(v)!Next]_(Stream(v)!vars)
  <1> DEFINE f == Head(wire[v])
  <1>t. Typed
    BY DEF SessionInv
  <1>s. ClientsTyped
    BY <1>t, TypedParts
  <1>1. /\ wire[v] # <<>> /\ Up(v)
        /\ total' = total /\ attaches' = attaches /\ overran' = overran
    BY DEF ClientReceive, Up, session
  <1>2. screen'[v] = screen[v] \o Positions(f)
    BY <1>s DEF ClientsTyped, ClientReceive
  <1>3. f \in FrameSet /\ f = wire[v][1] /\ wire[v] \in Seq(FrameSet) /\ pump[v].queue \in Seq(FrameSet)
    BY <1>t, <1>1, ViewerTypes, TailFacts
  <1>4. screen[v] \in Seq(Nat) /\ total \in Nat
    BY <1>t, ViewerTypes
  <1> HIDE DEF f
  <1>5. CASE attaches[v] <= 1 /\ f.kind = "output"
    <2> DEFINE fs == wire[v] \o pump[v].queue
    <2>1. fs[1] = f /\ 1 \in 1 .. Len(fs)
      <3>s. fs \in Seq(FrameSet)
        BY <1>3, Concatenation
      <3>1. fs # <<>> /\ Head(wire[v]) = fs[1] /\ fs \in Seq(FrameSet)
        BY <1>1, <1>3, <3>s, TailOfBoth
      <3> HIDE DEF fs
      <3>2. Len(fs) \in Nat \ {0}
        BY <3>1, TailFacts
      <3> QED
        BY <3>1, <3>2 DEF f
    <2>2. Flow(fs, Shown(v), screen[v] = <<>>, overran[v], total)
      BY <1>1, <1>5 DEF SessionInv, ViewerInv, Continues, OnTheWay
    <2> HIDE DEF fs
    <2>3. /\ f.hi <= total
          /\ \/ f.lo = Shown(v) + 1
             \/ overran[v] /\ f.lo > Shown(v)
             \/ screen[v] = <<>>
      BY <1>5, <2>1, <2>2 DEF Flow, Before
    <2>4. f.lo \in 1 .. total /\ f.hi \in 1 .. total /\ f.lo <= f.hi
      BY <1>3, <1>4, <1>5, <2>3 DEF FrameSet
    <2>5. \/ screen[v] = <<>>
          \/ f.lo = screen[v][Len(screen[v])] + 1
          \/ overran[v] /\ f.lo > screen[v][Len(screen[v])]
      BY <2>3 DEF Shown
    <2>6. Positions(f) = [i \in 1 .. f.hi - f.lo + 1 |-> f.lo + i - 1]
      BY <1>5 DEF Positions, Size
    <2>7. Stream(v)!Show
      BY <1>1, <1>2, <1>5, <2>4, <2>5, <2>6 DEF Stream!Show, Stream!Follows, Stream!Run
    <2> QED
      BY <2>7 DEF Stream!Next
  <1>6. CASE attaches[v] <= 1 /\ f.kind # "output"
    <2>1. Positions(f) = <<>>
      BY <1>6 DEF Positions
    <2>2. screen'[v] = screen[v]
      BY <1>2, <1>4, <2>1, EmptySequence
    <2> QED
      BY <1>1, <2>2 DEF Stream!vars
  <1>7. CASE ~(attaches[v] <= 1)
    BY <1>1, <1>7 DEF Stream!vars
  <1> QED
    BY <1>5, <1>6, <1>7

LEMMA StreamStep ==
  ASSUME SessionInv, [Next]_vars, NEW v \in Viewers
  PROVE  [Stream(v)!Next]_(Stream(v)!vars)
  <1>t. Typed /\ LoopTyped /\ ClientsTyped /\ FlagsTyped
    BY TypedParts DEF SessionInv
  <1>1. ASSUME total' = total, attaches'[v] = attaches[v], screen'[v] = screen[v],
               overran'[v] = overran[v]
        PROVE  UNCHANGED Stream(v)!vars
    BY <1>1 DEF Stream!vars
  <1>2. CASE UNCHANGED vars
    BY <1>1, <1>2 DEF vars, session, client
  <1>3. ASSUME NEW n \in 1 .. MaxChunk, ReadOutput(n) PROVE Stream(v)!Produce
    <2>1. total' = total + n /\ total + n <= MaxBytes /\ total \in Nat /\ n \in Nat \ {0}
      BY <1>t, <1>3 DEF ReadOutput, LoopTyped
    <2>2. total' \in total + 1 .. MaxBytes
      BY <2>1
    <2>3. UNCHANGED <<attaches, screen, overran>>
      BY <1>3 DEF ReadOutput, client
    <2> QED
      BY <2>2, <2>3 DEF Stream!Produce
  <1>4. CASE ReadEnd \/ ReadError
    BY <1>1, <1>4 DEF ReadEnd, ReadError, LeaveLoop, client
  <1>5. CASE FlushDone \/ FlushTimeout \/ Kill \/ ProcessExits
    BY <1>1, <1>5 DEF FlushDone, FlushTimeout, Kill, ProcessExits, client
  <1>6. ASSUME NEW u \in Viewers, u # v, ViewerStep(u) PROVE UNCHANGED Stream(v)!vars
    <2>1. total' = total
      BY <1>6, SessionOfViewers DEF session
    <2>2. Still(v)
      BY <1>t, <1>6, OtherStays
    <2> QED
      BY <1>1, <2>1, <2>2 DEF Still, Kept
  <1>7. CASE ClientAttach(v)
    <2>1. /\ total' = total /\ overran' = overran
          /\ screen'[v] = <<>>
      BY <1>t, <1>7 DEF ClientAttach, session, ClientsTyped
    <2> QED
      BY <2>1 DEF Stream!Next, Stream!Reset
  <1>8. CASE ClientReceive(v)
    BY <1>8, FrameShown
  <1>9. CASE AttachBegin(v) \/ AttachDelta(v)
    <2>1. total' = total /\ attaches' = attaches /\ screen' = screen
      BY <1>9 DEF AttachBegin, AttachDelta, session, client
    <2>2. overran'[v] \in BOOLEAN
      <3>1. FlagsTyped'
        BY <1>t, FlagsStep
      <3> QED
        BY <3>1 DEF FlagsTyped
    <2> QED
      BY <2>1, <2>2 DEF Stream!Next, Stream!Overrun
  <1>10. CASE Disconnect(v) \/ Detach(v) \/ Release(v)
    BY <1>1, <1>10 DEF Disconnect, Detach, Release, session, client
  <1>11. CASE AttachUnknown(v) \/ AttachLive(v) \/ AttachFails(v)
    BY <1>1, <1>11 DEF AttachUnknown, AttachLive, AttachFails, session, client
  <1>12. CASE PumpStep(v)
    BY <1>1, <1>12 DEF PumpStep, PumpSends, PumpSent, PumpIdles, PumpWakes, PumpFails,
                       session, client
  <1>13. ASSUME NEW u \in Viewers, ViewerStep(u) PROVE [Stream(v)!Next]_(Stream(v)!vars)
    <2>1. CASE u # v
      BY <1>6, <1>13, <2>1
    <2>2. CASE u = v
      BY <1>7, <1>8, <1>9, <1>10, <1>11, <1>12, <1>13, <2>2 DEF ViewerStep, AttachStep
    <2> QED
      BY <2>1, <2>2
  <1>14. Stream(v)!Produce => Stream(v)!Next
    BY DEF Stream!Next
  <1> QED
    BY <1>2, <1>3, <1>4, <1>5, <1>13, <1>14 DEF Next, ViewerStep, AttachStep, PumpStep

(* Through everything that happens to the session, to the connection and   *)
(* to the other viewers, the screen of a client that attached once is the  *)
(* stream that ViewerStream promises.                                      *)
THEOREM Implements == Spec => ScreensAreStreams
  <1> DEFINE Starts == \A v \in Viewers : Stream(v)!Init
             Moves == \A v \in Viewers : [Stream(v)!Next]_(Stream(v)!vars)
  <1>1. Init => Starts
    BY StreamStarts
  <1>2. SessionInv /\ [Next]_vars => Moves
    BY StreamStep
  <1>3. SessionInv /\ [Next]_vars => [Moves]_vars
    BY <1>2
  <1> HIDE DEF Starts, Moves
  <1>4. Spec => Starts /\ [][Moves]_vars
    BY <1>1, <1>3, SessionInvariant, PTL DEF Spec
  <1> QED
    BY <1>4 DEF ScreensAreStreams, Starts, Moves

=============================================================================
