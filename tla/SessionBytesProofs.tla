------------------------ MODULE SessionBytesProofs ------------------------
(***************************************************************************)
(* Where the bytes of a session are kept in order: the ring buffer of the  *)
(* output and the write queue of the input.  First the properties of       *)
(* RingBuffer.tla for every ring size, every set of chunks and every       *)
(* length of the exploration, then the safety properties of PtyWriter.tla  *)
(* for every limit, every length of an input and every number of           *)
(* characters typed.                                                       *)
(***************************************************************************)
EXTENDS RingBuffer, PtyWriter, Integers, TLAPS

-----------------------------------------------------------------------------
(* The ring buffer.                                                        *)

USE ChunksAssumption, MaxSizeAssumption, MaxTotalAssumption

(* The bytearray is a suffix of what was written; its dead prefix is       *)
(* shorter than MaxSize, was filled since the last move, and leaves as     *)
(* content whatever was written since the last clear, up to MaxSize bytes. *)
RingInv ==
  /\ TypeOK
  /\ start < MaxSize
  /\ start <= total - movedAt
  /\ Len(buf) <= total - clearedAt
  /\ Length = IF total - clearedAt <= MaxSize THEN total - clearedAt ELSE MaxSize
  /\ Len(written) = total
  /\ \A i \in 1 .. Len(buf) : buf[i] = written[total - Len(buf) + i]

(* Cutting a prefix off a sequence. *)
LEMMA CutPrefix ==
  ASSUME NEW S, NEW s \in Seq(S), NEW n \in 0 .. Len(s)
  PROVE  /\ SubSeq(s, n + 1, Len(s)) \in Seq(S)
         /\ Len(SubSeq(s, n + 1, Len(s))) = Len(s) - n
         /\ \A i \in 1 .. Len(s) - n : SubSeq(s, n + 1, Len(s))[i] = s[n + i]
  OBVIOUS

(* The last n elements of a sequence. *)
LEMMA LastElements ==
  ASSUME NEW S, NEW s \in Seq(S), NEW n \in 0 .. Len(s)
  PROVE  /\ SubSeq(s, Len(s) - n + 1, Len(s)) \in Seq(S)
         /\ Len(SubSeq(s, Len(s) - n + 1, Len(s))) = n
         /\ \A i \in 1 .. n : SubSeq(s, Len(s) - n + 1, Len(s))[i] = s[(Len(s) - n) + i]
  <1> DEFINE k == Len(s) - n
  <1>1. k \in 0 .. Len(s) /\ Len(s) - k = n
    OBVIOUS
  <1> HIDE DEF k
  <1>2. /\ SubSeq(s, k + 1, Len(s)) \in Seq(S)
        /\ Len(SubSeq(s, k + 1, Len(s))) = n
        /\ \A i \in 1 .. n : SubSeq(s, k + 1, Len(s))[i] = s[k + i]
    BY <1>1, CutPrefix
  <1> QED
    BY <1>2 DEF k

(* What a concatenation is made of. *)
LEMMA Concatenation ==
  ASSUME NEW S, NEW s \in Seq(S), NEW t \in Seq(S)
  PROVE  /\ s \o t \in Seq(S) /\ Len(s \o t) = Len(s) + Len(t)
         /\ \A i \in 1 .. Len(s) : (s \o t)[i] = s[i]
         /\ \A i \in 1 .. Len(t) : (s \o t)[Len(s) + i] = t[i]
  OBVIOUS

(* Two sequences with the same length and the same elements are equal. *)
LEMMA SameSequence ==
  ASSUME NEW S, NEW s \in Seq(S), NEW t \in Seq(S), Len(s) = Len(t),
         \A i \in 1 .. Len(s) : s[i] = t[i]
  PROVE  s = t
  OBVIOUS

(* Keeping at most MaxSize of c + n bytes, when c is already what is kept  *)
(* of w, is keeping at most MaxSize of w + n.                              *)
LEMMA KeptLength ==
  ASSUME NEW c \in Nat, NEW w \in Nat, NEW n \in Nat,
         c = IF w <= MaxSize THEN w ELSE MaxSize
  PROVE  (IF c + n <= MaxSize THEN c + n ELSE MaxSize)
           = IF w + n <= MaxSize THEN w + n ELSE MaxSize
  OBVIOUS

(* The initial state satisfies the invariant. *)
LEMMA RingStarts == Init => RingInv
  BY DEF Init, RingInv, TypeOK, Length

(* What an append leaves of buf \o data: a suffix, with the dead prefix    *)
(* `first` bytes into it.                                                  *)
SuffixOf(all, kept, first) ==
  /\ kept \in Seq(Byte) /\ Len(kept) \in 0 .. Len(all)
  /\ \A i \in 1 .. Len(kept) : kept[i] = all[(Len(all) - Len(kept)) + i]
  /\ first \in 0 .. Len(kept) /\ first < MaxSize
  /\ Len(kept) - first =
       IF Len(all) - start <= MaxSize THEN Len(all) - start ELSE MaxSize
  /\ Len(kept) = Len(all) => first <= start + (Len(all) - Len(buf))
  /\ Len(kept) # Len(all) =>
       /\ first = 0
       /\ MaxSize <= Len(all) - Len(kept)
       /\ Len(all) - Len(kept) <= start + (Len(all) - Len(buf))

LEMMA GrownIsSuffix ==
  ASSUME RingInv, NEW data \in Chunks, data # <<>>
  PROVE  SuffixOf(buf \o data, Grown(data).buf, Grown(data).start)
  <1> DEFINE all == buf \o data
             excess == Len(all) - MaxSize
  <1>1. /\ data \in Seq(Byte) /\ Len(data) \in Nat \ {0}
        /\ all \in Seq(Byte) /\ Len(all) = Len(buf) + Len(data)
    BY DEF RingInv, TypeOK
  <1>2. /\ start \in 0 .. Len(buf) /\ start < MaxSize
        /\ Len(buf) \in Nat /\ Len(buf) - start <= MaxSize
        /\ Len(all) \in Nat /\ excess \in Int
    BY <1>1 DEF RingInv, TypeOK, Length
  <1>3. Grown(data) = IF Len(all) - start > MaxSize
                      THEN Compacted(all, start + (Len(all) - start - MaxSize))
                      ELSE [buf |-> all, start |-> start]
    BY DEF Grown
  <1>4. start + (Len(all) - start - MaxSize) = excess
    BY <1>1, <1>2
  <1> HIDE DEF all
  <1>5. CASE Len(all) - start <= MaxSize
    <2>1. Grown(data).buf = all /\ Grown(data).start = start
      BY <1>1, <1>2, <1>3, <1>5
    <2>2. SuffixOf(all, Grown(data).buf, Grown(data).start)
      BY <1>1, <1>2, <1>5, <2>1 DEF SuffixOf
    <2> QED
      BY <2>2 DEF all
  <1>6. CASE Len(all) - start > MaxSize /\ excess < MaxSize
    <2>1. Grown(data).buf = all /\ Grown(data).start = excess
      BY <1>1, <1>2, <1>3, <1>4, <1>6 DEF Compacted
    <2>2. SuffixOf(all, Grown(data).buf, Grown(data).start)
      BY <1>1, <1>2, <1>6, <2>1, SMTT(30) DEF SuffixOf
    <2> QED
      BY <2>2 DEF all
  <1>7. CASE Len(all) - start > MaxSize /\ excess >= MaxSize
    <2> DEFINE cut == SubSeq(all, excess + 1, Len(all))
    <2>1. Grown(data).buf = cut /\ Grown(data).start = 0
      <3>1. Grown(data) = Compacted(all, excess)
        BY <1>1, <1>2, <1>3, <1>4, <1>7
      <3> QED
        BY <1>7, <3>1 DEF Compacted
    <2>2. excess \in 0 .. Len(all)
      BY <1>1, <1>2, <1>7
    <2>3. /\ cut \in Seq(Byte) /\ Len(cut) = Len(all) - excess
          /\ \A i \in 1 .. Len(all) - excess : cut[i] = all[excess + i]
      BY <1>1, <2>2, CutPrefix
    <2> HIDE DEF cut
    <2>4. SuffixOf(all, cut, 0)
      BY <1>1, <1>2, <1>7, <2>2, <2>3 DEF SuffixOf
    <2> QED
      BY <2>1, <2>4 DEF all
  <1> QED
    BY <1>1, <1>2, <1>5, <1>6, <1>7

LEMMA WritePreserves ==
  ASSUME RingInv, NEW data \in Chunks, Write(data)
  PROVE  RingInv'
  <1> DEFINE all == buf \o data
             dead == Len(all) - Len(buf')
  <1>1. /\ total' = total + Len(data)
        /\ written' = written \o data /\ clearedAt' = clearedAt
        /\ movedAt' = IF Len(buf') < Len(all) THEN total' ELSE movedAt
        /\ data # <<>>
    BY DEF Write
  <1>2. SuffixOf(all, buf', start')
    BY GrownIsSuffix DEF Write
  <1>3. /\ data \in Seq(Byte) /\ Len(data) \in Nat \ {0}
        /\ all \in Seq(Byte) /\ Len(all) = Len(buf) + Len(data)
        /\ Len(written) = total /\ written \in Seq(Byte) /\ buf \in Seq(Byte)
        /\ total \in Nat /\ clearedAt \in 0 .. total /\ movedAt \in 0 .. total
        /\ Len(buf) <= total - clearedAt /\ start \in 0 .. Len(buf)
        /\ start <= total - movedAt
        /\ Len(buf) - start =
             IF total - clearedAt <= MaxSize THEN total - clearedAt ELSE MaxSize
    BY <1>1 DEF RingInv, TypeOK, Length
  <1>4. \A i \in 1 .. Len(buf) : buf[i] = written[total - Len(buf) + i]
    BY DEF RingInv
  <1>a. written' \in Seq(Byte) /\ Len(written') = total' /\ total' \in Nat
    <2>1. /\ written \o data \in Seq(Byte)
          /\ Len(written \o data) = Len(written) + Len(data)
      BY <1>3, Concatenation
    <2> QED
      BY <1>1, <1>3, <2>1
  <1>5. \A i \in 1 .. Len(all) : all[i] = written'[total' - Len(all) + i]
    <2> SUFFICES ASSUME NEW i \in 1 .. Len(all)
                 PROVE  all[i] = written'[total' - Len(all) + i]
      OBVIOUS
    <2>1. CASE i <= Len(buf)
      <3>0. i \in 1 .. Len(buf)
        BY <1>3, <2>1
      <3>1. all[i] = buf[i] /\ buf[i] = written[total - Len(buf) + i]
        <4>1. (buf \o data)[i] = buf[i]
          BY <1>3, <3>0, Concatenation
        <4> QED
          BY <1>4, <3>0, <4>1
      <3>2. total' - Len(all) + i = total - Len(buf) + i
            /\ total - Len(buf) + i \in 1 .. Len(written)
        BY <1>1, <1>3, <2>1
      <3>3. (written \o data)[total - Len(buf) + i] = written[total - Len(buf) + i]
        BY <1>3, <3>2, Concatenation
      <3> QED
        BY <1>1, <3>1, <3>2, <3>3
    <2>2. CASE i > Len(buf)
      <3> DEFINE j == i - Len(buf)
      <3>1. j \in 1 .. Len(data) /\ i = Len(buf) + j
        BY <1>3, <2>2
      <3>2. all[i] = data[j]
        BY <1>3, <3>1, Concatenation
      <3>3. total' - Len(all) + i = Len(written) + j
        BY <1>1, <1>3, <3>1
      <3>4. (written \o data)[Len(written) + j] = data[j]
        BY <1>3, <3>1, Concatenation
      <3> QED
        BY <1>1, <3>2, <3>3, <3>4
    <2> QED
      BY <1>3, <2>1, <2>2
  <1> HIDE DEF all
  <1>6. \A i \in 1 .. Len(buf') : buf'[i] = written'[total' - Len(buf') + i]
    <2> SUFFICES ASSUME NEW i \in 1 .. Len(buf')
                 PROVE  buf'[i] = written'[total' - Len(buf') + i]
      OBVIOUS
    <2>1. dead + i \in 1 .. Len(all) /\ total' - Len(all) + (dead + i) = total' - Len(buf') + i
      BY <1>1, <1>2, <1>3 DEF SuffixOf
    <2> QED
      BY <1>2, <1>5, <2>1 DEF SuffixOf
  <1>7. TypeOK'
    <2>1. buf' \in Seq(Byte) /\ start' \in 0 .. Len(buf')
      BY <1>2 DEF SuffixOf
    <2>2. clearedAt' \in 0 .. total' /\ movedAt' \in 0 .. total'
      BY <1>1, <1>3
    <2> QED
      BY <1>a, <2>1, <2>2 DEF TypeOK
  <1>8. start' < MaxSize /\ start' <= total' - movedAt'
    <2>1. CASE Len(buf') = Len(all)
      <3>1. movedAt' = movedAt /\ start' <= start + Len(data) /\ start' < MaxSize
        BY <1>1, <1>2, <1>3, <2>1 DEF SuffixOf
      <3>2. start' \in Nat
        BY <1>2 DEF SuffixOf
      <3>3. start <= total - movedAt /\ {start, total, movedAt, Len(data)} \subseteq Nat
        BY <1>3
      <3> QED
        BY <1>1, <3>1, <3>2, <3>3
    <2>2. CASE Len(buf') # Len(all)
      <3>1. start' = 0 /\ Len(buf') < Len(all)
        BY <1>2, <1>3, <2>2 DEF SuffixOf
      <3> QED
        BY <1>1, <1>a, <3>1
    <2> QED
      BY <2>1, <2>2
  <1>9. /\ Len(buf') <= total' - clearedAt'
        /\ Len(buf') - start' = IF total' - clearedAt' <= MaxSize
                               THEN total' - clearedAt' ELSE MaxSize
    <2>1. /\ Len(buf') \in 0 .. Len(all) /\ start' \in Nat
          /\ Len(buf') - start' =
               IF Len(all) - start <= MaxSize THEN Len(all) - start ELSE MaxSize
      BY <1>2 DEF SuffixOf
    <2>2. Len(buf') <= total' - clearedAt'
      BY <1>1, <1>3, <2>1
    <2>3. /\ Len(all) - start = Length + Len(data)
          /\ total' - clearedAt' = (total - clearedAt) + Len(data)
          /\ total - clearedAt \in Nat /\ Length \in Nat
          /\ Length = IF total - clearedAt <= MaxSize THEN total - clearedAt ELSE MaxSize
      BY <1>1, <1>3 DEF Length
    <2>4. (IF Length + Len(data) <= MaxSize THEN Length + Len(data) ELSE MaxSize)
            = IF (total - clearedAt) + Len(data) <= MaxSize
              THEN (total - clearedAt) + Len(data) ELSE MaxSize
      BY <1>3, <2>3, KeptLength
    <2> QED
      BY <2>1, <2>2, <2>3, <2>4
  <1> QED
    BY <1>a, <1>6, <1>7, <1>8, <1>9 DEF RingInv, Length

LEMMA RingSteps == RingInv /\ [Next]_vars => RingInv'
  <1> SUFFICES ASSUME RingInv, [Next]_vars PROVE RingInv'
    OBVIOUS
  <1>1. CASE Clear
    BY <1>1 DEF Clear, RingInv, TypeOK, Length
  <1>2. CASE \E data \in Chunks : Write(data)
    BY <1>2, WritePreserves
  <1>3. CASE UNCHANGED vars
    BY <1>3 DEF vars, RingInv, TypeOK, Length
  <1> QED
    BY <1>1, <1>2, <1>3 DEF Next

(* The invariant holds in every state append() and clear() can reach.      *)
THEOREM RingInvariant == Spec => []RingInv
  BY RingStarts, RingSteps, PTL DEF Spec

-----------------------------------------------------------------------------
(* The types, and a dead prefix that never exceeds the buffer: `_start` of *)
(* append() stays an index into `_buf`.                                    *)
THEOREM RingTypeCorrect == Spec => []TypeOK
  <1>1. RingInv => TypeOK
    BY DEF RingInv
  <1> QED
    BY <1>1, RingInvariant, PTL

(* The bytearray stays below twice the ring's size: the dead prefix that   *)
(* append() leaves in front of the content is shorter than MaxSize.        *)
THEOREM Memory == Spec => []MemoryBounded
  <1>1. RingInv => MemoryBounded
    BY DEF RingInv, TypeOK, Length, MemoryBounded
  <1> QED
    BY <1>1, RingInvariant, PTL

(* The n newest bytes of the buffer are the n newest bytes written.        *)
LEMMA NewestBytes ==
  ASSUME RingInv, NEW n \in 0 .. Len(buf)
  PROVE  SubSeq(buf, Len(buf) - n + 1, Len(buf)) = SubSeq(written, total - n + 1, total)
  <1> DEFINE b == SubSeq(buf, (Len(buf) - n) + 1, Len(buf))
             w == SubSeq(written, (total - n) + 1, Len(written))
  <1>1. /\ buf \in Seq(Byte) /\ written \in Seq(Byte) /\ Len(written) = total
        /\ Len(buf) <= total /\ total \in Nat /\ Len(buf) \in Nat
        /\ Len(buf) - n \in 0 .. Len(buf) /\ total - n \in 0 .. Len(written)
    BY DEF RingInv, TypeOK
  <1>2. /\ b \in Seq(Byte) /\ Len(b) = n
        /\ \A i \in 1 .. n : b[i] = buf[(Len(buf) - n) + i]
    BY <1>1, LastElements
  <1>3. /\ w \in Seq(Byte) /\ Len(w) = n
        /\ \A i \in 1 .. n : w[i] = written[(total - n) + i]
    BY <1>1, LastElements
  <1> HIDE DEF b, w
  <1>4. ASSUME NEW i \in 1 .. n PROVE b[i] = w[i]
    <2>1. /\ (Len(buf) - n) + i \in 1 .. Len(buf)
          /\ (total - Len(buf)) + ((Len(buf) - n) + i) = (total - n) + i
      BY <1>1
    <2>2. \A j \in 1 .. Len(buf) : buf[j] = written[(total - Len(buf)) + j]
      BY DEF RingInv
    <2> QED
      BY <1>2, <1>3, <2>1, <2>2
  <1>5. b = w
    BY <1>2, <1>3, <1>4, SameSequence
  <1> QED
    BY <1>1, <1>5 DEF b, w

(* since() hands out exactly the bytes written after the offset, or the    *)
(* newest MaxSize of them: what attach() relies on to leave no hole and    *)
(* repeat nothing between the replay and the live output.                  *)
THEOREM SinceCorrect == Spec => []SinceIsExact
  <1>1. ASSUME RingInv PROVE SinceIsExact
    <2> SUFFICES ASSUME NEW offset \in clearedAt .. total
                 PROVE  LET missed == total - offset
                            n == IF missed <= MaxSize THEN missed ELSE MaxSize
                        IN  Since(offset) = SubSeq(written, total - n + 1, total)
      BY DEF SinceIsExact
    <2> DEFINE missed == total - offset
               n == IF missed <= MaxSize THEN missed ELSE MaxSize
    <2>1. /\ total \in Nat /\ offset \in Nat /\ offset <= total /\ missed \in Nat
          /\ missed <= total - clearedAt /\ clearedAt \in Nat
          /\ Len(buf) \in Nat /\ Length \in 0 .. Len(buf)
          /\ Length = IF total - clearedAt <= MaxSize THEN total - clearedAt ELSE MaxSize
      BY <1>1 DEF RingInv, TypeOK, Length
    <2>2. (IF offset >= total THEN 0 ELSE total - offset) = missed
      BY <2>1
    <2>3. (IF missed <= Length THEN missed ELSE Length) = n
      BY <2>1
    <2>4. n \in 0 .. Len(buf)
      BY <2>1
    <2>5. Since(offset) = SubSeq(buf, Len(buf) - n + 1, Len(buf))
      BY <2>2, <2>3 DEF Since
    <2> QED
      BY <1>1, <2>4, <2>5, NewestBytes
  <1> QED
    BY <1>1, RingInvariant, PTL

(* Between two moves of the buffer in memory append() receives at least    *)
(* MaxSize bytes.                                                          *)
THEOREM Amortised == Spec => MovesAreAmortised
  <1>1. ASSUME RingInv, [Next]_vars, movedAt' # movedAt
        PROVE  movedAt' - movedAt >= MaxSize
    <2>1. PICK data \in Chunks : Write(data)
      BY <1>1 DEF Next, Clear, vars
    <2> DEFINE all == buf \o data
    <2>2. data # <<>> /\ Len(buf') < Len(all) /\ movedAt' = total + Len(data)
      BY <1>1, <2>1 DEF Write
    <2>3. SuffixOf(all, buf', start')
      BY <1>1, <2>1, GrownIsSuffix DEF Write
    <2>4. /\ data \in Seq(Byte) /\ Len(data) \in Nat /\ Len(buf) \in Nat
          /\ Len(all) = Len(buf) + Len(data)
          /\ start \in Nat /\ total \in Nat /\ movedAt \in Nat
          /\ start <= total - movedAt
      BY <1>1 DEF RingInv, TypeOK
    <2> HIDE DEF all
    <2>5. Len(buf') \in Nat /\ MaxSize <= start + Len(data)
      BY <2>2, <2>3, <2>4 DEF SuffixOf
    <2> QED
      BY <2>2, <2>4, <2>5
  <1>2. RingInv /\ [Next]_vars
          => [movedAt' # movedAt => movedAt' - movedAt >= MaxSize]_vars
    BY <1>1
  <1> QED
    BY <1>2, RingInvariant, PTL DEF Spec, MovesAreAmortised

(* The content after an append is what LastBytes keeps.                    *)
LEMMA SnapshotAfterWrite ==
  ASSUME RingInv, NEW data \in Chunks, Write(data)
  PROVE  Snapshot' = Kept!LastOf(Snapshot \o data, MaxSize)
  <1> DEFINE all == buf \o data
             long == Snapshot \o data
             cut == SubSeq(long, (Len(long) - MaxSize) + 1, Len(long))
  <1>1. SuffixOf(all, buf', start') /\ data # <<>>
    BY GrownIsSuffix DEF Write
  <1>2. /\ buf \in Seq(Byte) /\ data \in Seq(Byte) /\ start \in 0 .. Len(buf)
        /\ all \in Seq(Byte) /\ Len(all) = Len(buf) + Len(data)
        /\ Len(buf) \in Nat /\ Len(data) \in Nat /\ Len(all) \in Nat
        /\ Len(buf) - start \in Nat
    BY DEF RingInv, TypeOK
  <1>3. /\ Snapshot \in Seq(Byte) /\ Len(Snapshot) = Len(buf) - start
        /\ \A i \in 1 .. Len(buf) - start : Snapshot[i] = buf[start + i]
    BY <1>2, CutPrefix DEF Snapshot
  <1>4. /\ buf' \in Seq(Byte) /\ start' \in 0 .. Len(buf') /\ Len(buf') \in 0 .. Len(all)
        /\ \A i \in 1 .. Len(buf') : buf'[i] = all[(Len(all) - Len(buf')) + i]
        /\ Len(buf') - start' =
             IF Len(all) - start <= MaxSize THEN Len(all) - start ELSE MaxSize
    BY <1>1 DEF SuffixOf
  <1>5. /\ Snapshot' \in Seq(Byte) /\ Len(Snapshot') = Len(buf') - start'
        /\ \A i \in 1 .. Len(buf') - start' : Snapshot'[i] = buf'[start' + i]
    BY <1>4, CutPrefix DEF Snapshot
  <1>6. \A i \in 1 .. Len(Snapshot') :
          Snapshot'[i] = all[(Len(all) - Len(Snapshot')) + i]
    <2> SUFFICES ASSUME NEW i \in 1 .. Len(Snapshot')
                 PROVE  Snapshot'[i] = all[(Len(all) - Len(Snapshot')) + i]
      OBVIOUS
    <2>1. /\ start' + i \in 1 .. Len(buf')
          /\ (Len(all) - Len(buf')) + (start' + i)
               = (Len(all) - (Len(buf') - start')) + i
      <3> DEFINE a == Len(all)
                 b == Len(buf')
                 c == start'
      <3>1. i \in 1 .. b - c
        BY <1>5
      <3>2. a \in Nat /\ b \in Nat /\ c \in Nat
        BY <1>2, <1>4
      <3> HIDE DEF a, b, c
      <3>3. c + i \in 1 .. b /\ (a - b) + (c + i) = (a - (b - c)) + i
        BY <3>1, <3>2
      <3> QED
        BY <3>3 DEF a, b, c
    <2>2. Snapshot'[i] = buf'[start' + i]
      BY <1>5
    <2>3. buf'[start' + i] = all[(Len(all) - Len(buf')) + (start' + i)]
      BY <1>4, <2>1
    <2> QED
      BY <1>5, <2>1, <2>2, <2>3
  <1>7. long \in Seq(Byte) /\ Len(long) = Len(all) - start
    <2>1. long \in Seq(Byte) /\ Len(long) = Len(Snapshot) + Len(data)
      BY <1>2, <1>3, Concatenation
    <2> QED
      BY <1>2, <1>3, <2>1
  <1>8. \A i \in 1 .. Len(long) : long[i] = all[start + i]
    <2> SUFFICES ASSUME NEW i \in 1 .. Len(long) PROVE long[i] = all[start + i]
      OBVIOUS
    <2>1. CASE i <= Len(Snapshot)
      <3>1. long[i] = Snapshot[i] /\ Snapshot[i] = buf[start + i]
        BY <1>2, <1>3, <2>1
      <3>2. start + i \in 1 .. Len(buf)
        BY <1>2, <1>3, <2>1
      <3> QED
        BY <1>2, <3>1, <3>2
    <2>2. CASE i > Len(Snapshot)
      <3> DEFINE j == i - Len(Snapshot)
      <3>1. /\ j \in 1 .. Len(data) /\ i = Len(Snapshot) + j
            /\ start + i = Len(buf) + j
        BY <1>2, <1>3, <1>7, <2>2
      <3> HIDE DEF j
      <3>2. long[i] = data[j]
        BY <1>2, <1>3, <3>1, Concatenation
      <3>3. all[Len(buf) + j] = data[j]
        BY <1>2, <3>1, Concatenation
      <3> QED
        BY <3>1, <3>2, <3>3
    <2> QED
      BY <1>2, <1>3, <1>7, <2>1, <2>2
  <1> HIDE DEF all, long
  <1>9. CASE Len(long) <= MaxSize
    <2>1. Snapshot' = long
      <3>1. Len(Snapshot') = Len(long) /\ Len(all) - Len(Snapshot') = start
        BY <1>2, <1>4, <1>5, <1>7, <1>9
      <3> QED
        BY <1>5, <1>6, <1>7, <1>8, <3>1, SameSequence
    <2> QED
      BY <1>9, <2>1 DEF Kept!LastOf, long
  <1>10. CASE Len(long) > MaxSize
    <2>1. Len(Snapshot') = MaxSize /\ Len(long) - MaxSize \in 0 .. Len(long)
      BY <1>2, <1>4, <1>5, <1>7, <1>10
    <2>2. /\ cut \in Seq(Byte) /\ Len(cut) = MaxSize
          /\ \A i \in 1 .. MaxSize : cut[i] = long[(Len(long) - MaxSize) + i]
      <3>1. MaxSize \in 0 .. Len(long)
        BY <1>7, <1>10
      <3> QED
        BY <1>7, <3>1, LastElements
    <2>3. ASSUME NEW i \in 1 .. MaxSize PROVE Snapshot'[i] = cut[i]
      <3>1. /\ (Len(long) - MaxSize) + i \in 1 .. Len(long)
            /\ start + ((Len(long) - MaxSize) + i) = (Len(all) - MaxSize) + i
        BY <1>2, <1>7, <2>1
      <3> QED
        BY <1>6, <1>8, <2>1, <2>2, <3>1
    <2> HIDE DEF cut
    <2>4. Snapshot' = cut
      BY <1>5, <2>1, <2>2, <2>3, SameSequence
    <2> QED
      BY <1>7, <1>10, <2>4 DEF Kept!LastOf, cut, long
  <1> QED
    BY <1>7, <1>9, <1>10

(* What append() pays for its dead prefix is bounded in memory and in      *)
(* moves.                                                                  *)
THEOREM Cheap == Spec => CompactionIsCheap
  BY Memory, Amortised, PTL DEF CompactionIsCheap

(* Seen through snapshot() and total, the buffer is the one of LastBytes:  *)
(* the index and the lazy compaction are invisible to attach().            *)
THEOREM Implements == Spec => KeepsLastBytes
  <1>1. Init => Kept!Init
    BY DEF Init, Kept!Init, Snapshot
  <1>2. RingInv /\ [Next]_vars => [Kept!Next]_(Kept!vars)
    <2> SUFFICES ASSUME RingInv, [Next]_vars PROVE [Kept!Next]_(Kept!vars)
      OBVIOUS
    <2>1. CASE Clear
      <3>1. Snapshot' = <<>> /\ total' = total
        BY <2>1 DEF Clear, Snapshot
      <3> QED
        BY <3>1 DEF Kept!Next, Kept!Clear
    <2>2. CASE \E data \in Chunks : Write(data)
      <3>1. PICK data \in Chunks : Write(data)
        BY <2>2
      <3>2. Kept!Write(data)
        BY <3>1, SnapshotAfterWrite DEF Kept!Write, Write
      <3> QED
        BY <3>2 DEF Kept!Next
    <2>3. CASE UNCHANGED vars
      BY <2>3 DEF vars, Kept!vars, Snapshot
    <2> QED
      BY <2>1, <2>2, <2>3 DEF Next
  <1> QED
    BY <1>1, <1>2, RingInvariant, PTL DEF Spec, KeepsLastBytes, Kept!Spec

-----------------------------------------------------------------------------
(* The write queue.                                                        *)

USE WriterAssumption

(* What was accepted and has not been dropped, in the order in which it is *)
(* in the PTY, in the thread and in the queue.                             *)
Arrived == received \o chunk \o pending

(* A sequence of numbers of accepted characters, in the order of arrival.  *)
Numbered(s, n) ==
  /\ s \in Seq(1 .. n)
  /\ \A i, j \in 1 .. Len(s) : i < j => s[i] < s[j]

Everything(n) == [i \in 1 .. n |-> i]

(* After a failed write or at the end some accepted characters are gone,   *)
(* and characters may be accepted again: the order alone says nothing of   *)
(* the next one, the numbers must also not exceed what was accepted.       *)
WriterInv ==
  /\ WriterTypeOK
  /\ QueueIsServed
  /\ Numbered(Arrived, accepted)
  /\ (alive /\ ~failed) => Arrived = Everything(accepted)

(* The same, for an index of the result. *)
LEMMA ConcatenationByIndex ==
  ASSUME NEW S, NEW s \in Seq(S), NEW t \in Seq(S)
  PROVE  /\ s \o t \in Seq(S) /\ Len(s \o t) = Len(s) + Len(t)
         /\ \A i \in 1 .. Len(s \o t) :
              (s \o t)[i] = IF i <= Len(s) THEN s[i] ELSE t[i - Len(s)]
  OBVIOUS

(* A sequence is one over any set that holds its elements. *)
LEMMA Retyped ==
  ASSUME NEW S, NEW s \in Seq(S), NEW T, \A i \in 1 .. Len(s) : s[i] \in T
  PROVE  s \in Seq(T)
  OBVIOUS

(* A concatenation may be read from either side. *)
LEMMA Associative ==
  ASSUME NEW S, NEW s \in Seq(S), NEW t \in Seq(S), NEW u \in Seq(S)
  PROVE  (s \o t) \o u = s \o (t \o u)
  <1> DEFINE l == (s \o t) \o u
             r == s \o (t \o u)
  <1>1. l \in Seq(S) /\ r \in Seq(S) /\ Len(l) = Len(r)
    BY ConcatenationByIndex
  <1>2. \A i \in 1 .. Len(l) : l[i] = r[i]
    BY ConcatenationByIndex
  <1> HIDE DEF l, r
  <1>3. l = r
    BY <1>1, <1>2, SameSequence
  <1> QED
    BY <1>3 DEF l, r

(* An empty sequence adds nothing. *)
LEMMA EmptyAddsNothing ==
  ASSUME NEW S, NEW s \in Seq(S)
  PROVE  s \o <<>> = s /\ <<>> \o s = s
  OBVIOUS

(* A sequence that is the beginning of another has its type. *)
LEMMA BeginningIsTyped ==
  ASSUME NEW S, NEW s \in Seq(S), NEW T, NEW t \in Seq(T), Len(t) <= Len(s),
         \A i \in 1 .. Len(t) : t[i] = s[i]
  PROVE  t \in Seq(S)
  <1>1. ASSUME NEW i \in 1 .. Len(t) PROVE t[i] \in S
    <2>1. i \in 1 .. Len(s) /\ t[i] = s[i]
      OBVIOUS
    <2> QED
      BY <2>1
  <1> QED
    BY <1>1, Retyped

(* The first elements of a sequence. *)
LEMMA Beginning ==
  ASSUME NEW S, NEW s \in Seq(S), NEW n \in 0 .. Len(s)
  PROVE  /\ SubSeq(s, 1, n) \in Seq(S) /\ Len(SubSeq(s, 1, n)) = n
         /\ \A i \in 1 .. n : SubSeq(s, 1, n)[i] = s[i]
  OBVIOUS

(* A part of the chunk after what was received is the beginning of all that *)
(* was kept.                                                               *)
LEMMA PartialWrite ==
  ASSUME NEW S, NEW w \in Seq(S), NEW c \in Seq(S), NEW q \in Seq(S),
         NEW n \in 0 .. Len(c),
         NEW now, now = w \o SubSeq(c, 1, n),
         NEW all, all = (w \o c) \o q
  PROVE  /\ now \in Seq(S) /\ Len(now) <= Len(all)
         /\ \A i \in 1 .. Len(now) : now[i] = all[i]
  <1> DEFINE part == SubSeq(c, 1, n)
             taken == w \o c
             lw == Len(w)
             lc == Len(c)
             lq == Len(q)
  <1>1. part \in Seq(S) /\ Len(part) = n /\ \A i \in 1 .. n : part[i] = c[i]
    BY Beginning
  <1>n. now = w \o part
    OBVIOUS
  <1>a. all = taken \o q
    OBVIOUS
  <1> HIDE DEF part
  <1>2. /\ now \in Seq(S) /\ Len(now) = lw + n
        /\ \A i \in 1 .. lw : now[i] = w[i]
        /\ \A i \in 1 .. n : now[lw + i] = part[i]
    <2>1. w \o part \in Seq(S) /\ Len(w \o part) = Len(w) + Len(part)
      BY <1>1, Concatenation
    <2>2. \A i \in 1 .. Len(w) : (w \o part)[i] = w[i]
      BY <1>1, Concatenation
    <2>3. \A i \in 1 .. Len(part) : (w \o part)[Len(w) + i] = part[i]
      BY <1>1, Concatenation
    <2> QED
      BY <1>1, <1>n, <2>1, <2>2, <2>3
  <1>3. /\ taken \in Seq(S) /\ Len(taken) = lw + lc
        /\ \A i \in 1 .. lw : taken[i] = w[i]
        /\ \A i \in 1 .. lc : taken[lw + i] = c[i]
    BY Concatenation
  <1> HIDE DEF taken
  <1>4. /\ Len(all) = (lw + lc) + lq
        /\ \A i \in 1 .. lw + lc : all[i] = taken[i]
    <2>1. Len(taken \o q) = Len(taken) + Len(q)
      BY <1>3, Concatenation
    <2>2. \A i \in 1 .. Len(taken) : (taken \o q)[i] = taken[i]
      BY <1>3, Concatenation
    <2> QED
      BY <1>3, <1>a, <2>1, <2>2
  <1>5. lw \in Nat /\ lc \in Nat /\ lq \in Nat /\ n \in 0 .. lc
    OBVIOUS
  <1> HIDE DEF lw, lc, lq
  <1>6. Len(now) <= Len(all)
    BY <1>2, <1>4, <1>5
  <1>7. ASSUME NEW i \in 1 .. Len(now) PROVE now[i] = all[i]
    <2>1. CASE i <= lw
      BY <1>2, <1>3, <1>4, <1>5, <2>1
    <2>2. CASE i > lw
      <3> DEFINE j == i - lw
      <3>1. j \in 1 .. n /\ j \in 1 .. lc /\ i = lw + j /\ i \in 1 .. lw + lc
        BY <1>2, <1>5, <2>2
      <3> HIDE DEF j
      <3> QED
        BY <1>1, <1>2, <1>3, <1>4, <3>1
    <2> QED
      BY <1>2, <1>5, <2>1, <2>2
  <1> QED
    BY <1>2, <1>6, <1>7

(* What the next n accepted characters add to a numbered sequence. *)
LEMMA NumberedGrows ==
  ASSUME NEW a \in Nat, NEW n \in Nat, NEW s, Numbered(s, a),
         NEW t \in Seq(Nat), Len(t) = n, \A i \in 1 .. n : t[i] = a + i
  PROVE  /\ Numbered(s \o t, a + n)
         /\ s = Everything(a) => s \o t = Everything(a + n)
  <1> DEFINE k == Len(s)
             u == s \o t
             m == Len(u)
  <1>1. s \in Seq(1 .. a) /\ \A i, j \in 1 .. k : i < j => s[i] < s[j]
    BY DEF Numbered
  <1>2. k \in Nat /\ \A i \in 1 .. k : s[i] \in 1 .. a
    BY <1>1
  <1>3. t \in Seq(Nat) /\ Len(t) = n /\ \A i \in 1 .. n : t[i] = a + i
    OBVIOUS
  <1>4. s \in Seq(Nat)
    BY <1>1
  <1>5. /\ u \in Seq(Nat) /\ m = k + n
        /\ \A i \in 1 .. k : u[i] = s[i]
        /\ \A i \in 1 .. n : u[k + i] = a + i
    <2>1. s \o t \in Seq(Nat) /\ Len(s \o t) = Len(s) + Len(t)
      BY <1>3, <1>4, Concatenation
    <2>2. \A i \in 1 .. Len(s) : (s \o t)[i] = s[i]
      BY <1>3, <1>4, Concatenation
    <2>3. \A i \in 1 .. Len(t) : (s \o t)[Len(s) + i] = t[i]
      BY <1>3, <1>4, Concatenation
    <2> QED
      BY <1>3, <2>1, <2>2, <2>3
  <1> HIDE DEF k, u, m
  <1>6. \A i \in 1 .. m : i > k => u[i] = a + (i - k)
    <2> SUFFICES ASSUME NEW i \in 1 .. m, i > k PROVE u[i] = a + (i - k)
      OBVIOUS
    <2>1. i - k \in 1 .. n /\ i = k + (i - k)
      BY <1>2, <1>5
    <2> QED
      BY <1>5, <2>1
  <1>7. \A i \in 1 .. m : u[i] \in 1 .. a + n
    <2> SUFFICES ASSUME NEW i \in 1 .. m PROVE u[i] \in 1 .. a + n
      OBVIOUS
    <2>1. CASE i <= k
      <3>1. i \in 1 .. k
        BY <1>2, <1>5, <2>1
      <3>2. u[i] = s[i] /\ s[i] \in 1 .. a
        BY <1>2, <1>5, <3>1
      <3> QED
        BY <3>2
    <2>2. CASE i > k
      <3>1. u[i] = a + (i - k) /\ i - k \in 1 .. n
        BY <1>2, <1>5, <1>6, <2>2
      <3> QED
        BY <3>1
    <2> QED
      BY <1>2, <2>1, <2>2
  <1>8. \A i, j \in 1 .. m : i < j => u[i] < u[j]
    <2> SUFFICES ASSUME NEW i \in 1 .. m, NEW j \in 1 .. m, i < j
                 PROVE  u[i] < u[j]
      OBVIOUS
    <2>1. CASE j <= k
      BY <1>1, <1>2, <1>5, <2>1
    <2>2. CASE i <= k /\ j > k
      <3>1. i \in 1 .. k /\ j - k \in 1 .. n
        BY <1>2, <1>5, <2>2
      <3>2. u[i] = s[i] /\ s[i] \in 1 .. a /\ u[j] = a + (j - k)
        BY <1>2, <1>5, <1>6, <2>2, <3>1
      <3> QED
        BY <3>1, <3>2
    <2>3. CASE i > k
      BY <1>2, <1>6, <2>3
    <2> QED
      BY <1>2, <2>1, <2>2, <2>3
  <1>9. u \in Seq(1 .. a + n)
    <2>1. u \in Seq(Nat) /\ \A i \in 1 .. Len(u) : u[i] \in 1 .. a + n
      BY <1>5, <1>7 DEF m
    <2> QED
      BY <2>1, Retyped
  <1>10. Numbered(u, a + n)
    BY <1>8, <1>9 DEF Numbered, m
  <1>11. ASSUME s = Everything(a)
         PROVE  u = Everything(a + n)
    <2>1. k = a /\ \A i \in 1 .. a : s[i] = i
      BY <1>11 DEF Everything, k
    <2>2. \A i \in 1 .. m : u[i] = i
      BY <1>5, <1>6, <2>1
    <2>3. /\ Everything(a + n) \in Seq(1 .. a + n)
          /\ Len(Everything(a + n)) = a + n
          /\ \A i \in 1 .. a + n : Everything(a + n)[i] = i
      BY DEF Everything
    <2> QED
      <3>1. m = a + n /\ Len(u) = Len(Everything(a + n))
        BY <1>5, <2>1, <2>3 DEF m
      <3>2. \A i \in 1 .. Len(u) : u[i] = Everything(a + n)[i]
        BY <2>2, <2>3, <3>1 DEF m
      <3>3. u \in Seq(1 .. a + n) /\ Everything(a + n) \in Seq(1 .. a + n)
        BY <1>9, <2>3
      <3> HIDE DEF Everything
      <3> QED
        BY <3>1, <3>2, <3>3, SameSequence
  <1> QED
    BY <1>10, <1>11 DEF u

(* Dropping the end of a numbered sequence leaves it numbered. *)
LEMMA NumberedPrefix ==
  ASSUME NEW a \in Nat, NEW s, Numbered(s, a), NEW t \in Seq(1 .. a),
         Len(t) <= Len(s), \A i \in 1 .. Len(t) : t[i] = s[i]
  PROVE  Numbered(t, a)
  <1> DEFINE k == Len(s)
             m == Len(t)
  <1>1. k \in Nat /\ m \in Nat /\ m <= k /\ \A i \in 1 .. m : t[i] = s[i]
    BY DEF Numbered
  <1>2. \A i, j \in 1 .. k : i < j => s[i] < s[j]
    BY DEF Numbered
  <1> HIDE DEF k, m
  <1>3. \A i, j \in 1 .. m : i < j => t[i] < t[j]
    BY <1>1, <1>2
  <1> QED
    BY <1>3 DEF Numbered, m

(* Nothing is accepted yet. *)
LEMMA WriterStarts == WriterInit => WriterInv
  <1> SUFFICES ASSUME WriterInit PROVE WriterInv
    OBVIOUS
  <1>1. WriterTypeOK
    <2>1. alive \in BOOLEAN /\ failed \in BOOLEAN
      BY DEF WriterInit
    <2>2. /\ bytes \in 0 .. MaxPending /\ accepted \in 0 .. MaxTyped
          /\ writer \in {"none", "ready", "writing"}
      BY DEF WriterInit
    <2>3. <<>> \in Seq(1 .. MaxTyped)
      OBVIOUS
    <2> QED
      BY <2>1, <2>2, <2>3 DEF WriterInit, WriterTypeOK
  <1>1a. QueueIsServed
    BY DEF WriterInit, QueueIsServed
  <1>2. Arrived = <<>> /\ accepted = 0
    BY DEF WriterInit, Arrived
  <1>3. Everything(0) = <<>>
    BY DEF Everything
  <1> QED
    BY <1>1, <1>1a, <1>2, <1>3 DEF WriterInv, Numbered

(* The three parts are sequences of numbers that do not exceed what was    *)
(* accepted, because they are parts of Arrived.                               *)
LEMMA PartsAreNumbers ==
  ASSUME WriterInv
  PROVE  /\ accepted \in Nat /\ accepted <= MaxTyped
         /\ received \in Seq(1 .. MaxTyped)
         /\ chunk \in Seq(1 .. MaxTyped)
         /\ pending \in Seq(1 .. MaxTyped)
         /\ Arrived \in Seq(1 .. accepted)
  BY DEF WriterInv, WriterTypeOK, Numbered

(* An input that is accepted comes last, and a task is there to write it. *)
LEMMA SendPreserves ==
  ASSUME WriterInv, NEW n \in 1 .. MaxInput, Send(n)
  PROVE  WriterInv'
  <1>0. /\ accepted \in Nat /\ accepted <= MaxTyped
        /\ received \in Seq(1 .. MaxTyped)
        /\ chunk \in Seq(1 .. MaxTyped)
        /\ pending \in Seq(1 .. MaxTyped)
        /\ Arrived \in Seq(1 .. accepted)
    BY PartsAreNumbers
  <1> DEFINE t == Typed(n)
  <1>n. n \in Nat \ {0} /\ accepted' = accepted + n /\ accepted' <= MaxTyped
    BY DEF Send
  <1>1. t = [i \in 1 .. n |-> accepted + i] /\ t \in Seq(1 .. MaxTyped) /\ Len(t) = n
    BY <1>n, <1>0 DEF Typed
  <1>2. pending' = pending \o t
    BY DEF Send
  <1> HIDE DEF t
  <1>3. pending' \in Seq(1 .. MaxTyped) /\ Len(pending') = Len(pending) + n
    BY <1>0, <1>1, <1>2, Concatenation
  <1>4. WriterTypeOK'
    BY <1>n, <1>0, <1>3 DEF WriterInv, WriterTypeOK, Send, Started
  <1>5. QueueIsServed'
    BY <1>n, <1>0, <1>3 DEF WriterInv, WriterTypeOK, QueueIsServed, Send, Started
  <1>6. Arrived' = Arrived \o t
    <2>1. received \o chunk \in Seq(1 .. MaxTyped)
      BY <1>0, Concatenation
    <2>2. Arrived' = (received \o chunk) \o (pending \o t)
      BY <1>2 DEF Arrived, Send
    <2>3. ((received \o chunk) \o pending) \o t = (received \o chunk) \o (pending \o t)
      <3> DEFINE wc == received \o chunk
      <3>1. /\ wc \in Seq(1 .. MaxTyped)
            /\ pending \in Seq(1 .. MaxTyped)
            /\ t \in Seq(1 .. MaxTyped)
        BY <1>0, <1>1, <2>1
      <3> HIDE DEF wc
      <3>2. (wc \o pending) \o t = wc \o (pending \o t)
        BY <3>1, Associative
      <3> QED
        BY <3>2 DEF wc
    <2> QED
      BY <2>2, <2>3 DEF Arrived
  <1>7. /\ Numbered(Arrived', accepted')
        /\ Arrived = Everything(accepted) => Arrived' = Everything(accepted')
    <2>1. accepted \in Nat /\ n \in Nat /\ Numbered(Arrived, accepted)
      BY <1>n, <1>0 DEF WriterInv
    <2>2. /\ Numbered(Arrived \o t, accepted + n)
          /\ Arrived = Everything(accepted) => Arrived \o t = Everything(accepted + n)
      <3>1. t \in Seq(Nat) /\ Len(t) = n /\ \A i \in 1 .. n : t[i] = accepted + i
        BY <1>n, <1>0, <1>1
      <3> QED
        BY <2>1, <3>1, NumberedGrows
    <2> QED
      BY <1>n, <1>6, <2>2
  <1> QED
    BY <1>4, <1>5, <1>7 DEF WriterInv, Send

(* The queue becomes the chunk, which was empty. *)
LEMMA TakePreserves ==
  ASSUME WriterInv, WriterTakes
  PROVE  WriterInv'
  <1>0. /\ accepted \in Nat /\ accepted <= MaxTyped
        /\ received \in Seq(1 .. MaxTyped)
        /\ chunk \in Seq(1 .. MaxTyped)
        /\ pending \in Seq(1 .. MaxTyped)
        /\ Arrived \in Seq(1 .. accepted)
    BY PartsAreNumbers
  <1>1. chunk = <<>>
    BY <1>0 DEF WriterInv, QueueIsServed, WriterTakes
  <1>2. WriterTypeOK' /\ QueueIsServed'
    BY <1>0 DEF WriterInv, WriterTypeOK, QueueIsServed, WriterTakes
  <1>3. Arrived' = Arrived
    <2>1. received \o chunk = received
      BY <1>0, <1>1, EmptyAddsNothing
    <2>2. received \o pending \in Seq(1 .. MaxTyped)
      BY <1>0, Concatenation
    <2>3. (received \o pending) \o <<>> = received \o pending
      BY <1>0, <2>2, EmptyAddsNothing
    <2> QED
      BY <1>0, <2>1, <2>3 DEF Arrived, WriterTakes
  <1> QED
    BY <1>0, <1>2, <1>3 DEF WriterInv, WriterTakes

(* The task ends with an empty queue, or drops the queue of a session that *)
(* is dead.                                                                *)
LEMMA EndPreserves ==
  ASSUME WriterInv, WriterEnds
  PROVE  WriterInv'
  <1>0. /\ accepted \in Nat /\ accepted <= MaxTyped
        /\ received \in Seq(1 .. MaxTyped)
        /\ chunk \in Seq(1 .. MaxTyped)
        /\ pending \in Seq(1 .. MaxTyped)
        /\ Arrived \in Seq(1 .. accepted)
    BY PartsAreNumbers
  <1>1. chunk = <<>>
    BY <1>0 DEF WriterInv, QueueIsServed, WriterEnds
  <1>2. WriterTypeOK' /\ QueueIsServed'
    BY <1>0, <1>1 DEF WriterInv, WriterTypeOK, QueueIsServed, WriterEnds
  <1>3. Arrived = received \o pending /\ Arrived' = received
    BY <1>0, <1>1, EmptyAddsNothing DEF Arrived, WriterEnds
  <1>4. Numbered(Arrived', accepted)
    <2>1. Len(received) <= Len(Arrived) /\ \A i \in 1 .. Len(received) : received[i] = Arrived[i]
      BY <1>0, <1>3, Concatenation
    <2>2. received \in Seq(1 .. accepted)
      BY <1>0, <2>1, BeginningIsTyped
    <2> QED
      BY <1>0, <1>3, <2>1, <2>2, NumberedPrefix DEF WriterInv
  <1>5. alive => Arrived' = Arrived
    BY <1>0, <1>3, EmptyAddsNothing DEF WriterEnds
  <1> QED
    BY <1>0, <1>2, <1>4, <1>5 DEF WriterInv, WriterEnds

(* The chunk is now in the PTY. *)
LEMMA ReturnPreserves ==
  ASSUME WriterInv, WriteReturns
  PROVE  WriterInv'
  <1>0. /\ accepted \in Nat /\ accepted <= MaxTyped
        /\ received \in Seq(1 .. MaxTyped)
        /\ chunk \in Seq(1 .. MaxTyped)
        /\ pending \in Seq(1 .. MaxTyped)
        /\ Arrived \in Seq(1 .. accepted)
    BY PartsAreNumbers
  <1>1. received \o chunk \in Seq(1 .. MaxTyped)
    BY <1>0, Concatenation
  <1>2. WriterTypeOK' /\ QueueIsServed'
    BY <1>0, <1>1 DEF WriterInv, WriterTypeOK, QueueIsServed, WriteReturns
  <1>3. Arrived' = Arrived
    BY <1>0, <1>1, EmptyAddsNothing DEF Arrived, WriteReturns
  <1> QED
    BY <1>0, <1>2, <1>3 DEF WriterInv, WriteReturns

(* A part of the chunk is in the PTY, the rest is dropped with the queue. *)
LEMMA RaisePreserves ==
  ASSUME WriterInv, WriteRaises
  PROVE  WriterInv'
  <1>0. /\ accepted \in Nat /\ accepted <= MaxTyped
        /\ received \in Seq(1 .. MaxTyped)
        /\ chunk \in Seq(1 .. MaxTyped)
        /\ pending \in Seq(1 .. MaxTyped)
        /\ Arrived \in Seq(1 .. accepted)
    BY PartsAreNumbers
  <1> PICK n \in 0 .. Len(chunk) : received' = received \o SubSeq(chunk, 1, n)
    BY <1>0 DEF WriteRaises
  <1>1. /\ received' \in Seq(1 .. MaxTyped) /\ Len(received') <= Len(Arrived)
        /\ \A i \in 1 .. Len(received') : received'[i] = Arrived[i]
    <2>1. received' = received \o SubSeq(chunk, 1, n)
      OBVIOUS
    <2>2. Arrived = (received \o chunk) \o pending
      BY DEF Arrived
    <2>3. n \in 0 .. Len(chunk)
      OBVIOUS
    <2> DEFINE now == received'
               all == Arrived
               T == 1 .. MaxTyped
               w == received
               c == chunk
               q == pending
    <2>4. /\ w \in Seq(T) /\ c \in Seq(T) /\ q \in Seq(T) /\ n \in 0 .. Len(c)
          /\ now = w \o SubSeq(c, 1, n) /\ all = (w \o c) \o q
      BY <1>0, <2>1, <2>2, <2>3
    <2> HIDE DEF now, all, T, w, c, q
    <2>5. now \in Seq(T) /\ Len(now) <= Len(all)
      BY <2>4, PartialWrite
    <2>6. \A i \in 1 .. Len(now) : now[i] = all[i]
      BY <2>4, PartialWrite
    <2> QED
      BY <2>5, <2>6 DEF now, all, T
  <1>2. WriterTypeOK' /\ QueueIsServed'
    BY <1>0, <1>1 DEF WriterInv, WriterTypeOK, QueueIsServed, WriteRaises
  <1>3. Arrived' = received'
    <2>1. pending' = <<>> /\ chunk' = <<>>
      BY <1>0 DEF WriteRaises
    <2> QED
      BY <1>0, <1>1, <2>1, EmptyAddsNothing DEF Arrived
  <1>4. received' \in Seq(1 .. accepted)
    BY <1>0, <1>1, BeginningIsTyped
  <1>5. Numbered(Arrived', accepted)
    BY <1>0, <1>1, <1>3, <1>4, NumberedPrefix DEF WriterInv
  <1> QED
    BY <1>2, <1>5 DEF WriterInv, WriteRaises

(* Every step preserves the invariant. *)
LEMMA WriterSteps == WriterInv /\ [WriterNext]_writerVars => WriterInv'
  <1> SUFFICES ASSUME WriterInv, [WriterNext]_writerVars PROVE WriterInv'
    OBVIOUS
  <1>1. CASE \E n \in 1 .. MaxInput : Send(n)
    BY <1>1, SendPreserves
  <1>2. CASE WriterTakes
    BY <1>2, TakePreserves
  <1>3. CASE WriterEnds
    BY <1>3, EndPreserves
  <1>4. CASE WriteReturns
    BY <1>4, ReturnPreserves
  <1>5. CASE WriteRaises
    BY <1>5, RaisePreserves
  <1>6. CASE Die
    BY <1>6 DEF Die, WriterInv, WriterTypeOK, QueueIsServed, Arrived
  <1>7. CASE UNCHANGED writerVars
    BY <1>7 DEF writerVars, WriterInv, WriterTypeOK, QueueIsServed, Arrived
  <1> QED
    BY <1>1, <1>2, <1>3, <1>4, <1>5, <1>6, <1>7 DEF WriterNext

(* The invariant holds in every reachable state. *)
THEOREM WriterInvariant == WriterSpec => []WriterInv
  BY WriterStarts, WriterSteps, PTL DEF WriterSpec

(* The variables of the input side keep their types, and the queue its     *)
(* limit.                                                                  *)
THEOREM WriterTypeCorrect == WriterSpec => []WriterTypeOK
  <1>1. WriterInv => WriterTypeOK
    BY DEF WriterInv
  <1> QED
    BY <1>1, WriterInvariant, PTL

(* No queue is left without a task, and a session has one write at a time. *)
THEOREM Served == WriterSpec => []QueueIsServed
  <1>1. WriterInv => QueueIsServed
    BY DEF WriterInv
  <1> QED
    BY <1>1, WriterInvariant, PTL

(* The PTY receives the characters in the order of arrival, and all of     *)
(* them while the session lives and no write raises.                       *)
THEOREM InOrder == WriterSpec => []KeysInOrder
  <1>1. WriterInv => KeysInOrder
    BY DEF WriterInv, KeysInOrder, Arrived, Numbered, Everything
  <1> QED
    BY <1>1, WriterInvariant, PTL
=============================================================================
