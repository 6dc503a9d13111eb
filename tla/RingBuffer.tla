----------------------------- MODULE RingBuffer -----------------------------
(***************************************************************************)
(* RingBuffer of terminal/ringbuffer.py: a bytearray whose dead prefix is  *)
(* skipped by an index and cut away only when it has grown to MaxSize.     *)
(*                                                                         *)
(* The last three variables are history: the bytes ever written, and the   *)
(* value of the counter at the last clear and at the last time the buffer  *)
(* was moved in memory.  No action reads them.                             *)
(***************************************************************************)
EXTENDS Naturals, Sequences

CONSTANTS
  Byte,       (* the byte values                                           *)
  Chunks,     (* the byte strings a caller may append                      *)
  MaxSize,    (* `maxsize`                                                 *)
  MaxTotal    (* bound of the exploration: bytes written in all            *)

ASSUME ChunksAssumption == Chunks \subseteq Seq(Byte)

(* The constructor raises on anything else. *)
ASSUME MaxSizeAssumption == MaxSize \in Nat \ {0}

ASSUME MaxTotalAssumption == MaxTotal \in Nat

VARIABLES
  buf,          (* `_buf`                                                  *)
  start,        (* `_start`: the length of the dead prefix                 *)
  total,        (* `_total`                                                *)
  written, clearedAt, movedAt

history == <<written, clearedAt, movedAt>>
vars == <<buf, start, total, written, clearedAt, movedAt>>

(* __len__ *)
Length == Len(buf) - start

(* snapshot: the bytes kept, oldest first. *)
Snapshot == SubSeq(buf, start + 1, Len(buf))

(* A variant of since(): len(buf) taken for len(self), dead prefix         *)
(* included.                                                               *)
SinceOverDeadPrefix(offset) ==
  LET fresh == IF offset >= total THEN 0 ELSE total - offset
      n == IF fresh <= Len(buf) THEN fresh ELSE Len(buf)
  IN  SubSeq(buf, Len(buf) - n + 1, Len(buf))

(* since(offset): what was written after `offset`, or what is left of it.  *)
(* min(total - offset, len) is clipped at zero as the code does.           *)
Since(offset) ==
  LET fresh == IF offset >= total THEN 0 ELSE total - offset
      n == IF fresh <= Length THEN fresh ELSE Length
  IN  SubSeq(buf, Len(buf) - n + 1, Len(buf))

(* Variants of the compaction: the cut comes at every chunk (the version   *)
(* the module's docstring replaced), or at the wrong place.                *)
CompactedAlways(grown, dead) ==
  [buf |-> SubSeq(grown, dead + 1, Len(grown)), start |-> 0]
CompactedByMaxSize(grown, dead) ==
  IF dead >= MaxSize
  THEN [buf |-> SubSeq(grown, MaxSize + 1, Len(grown)), start |-> 0]
  ELSE [buf |-> grown, start |-> dead]

(* A grown buffer with its new dead prefix; it moves only when that prefix *)
(* has reached MaxSize bytes.                                              *)
Compacted(grown, dead) ==
  IF dead >= MaxSize
  THEN [buf |-> SubSeq(grown, dead + 1, Len(grown)), start |-> 0]
  ELSE [buf |-> grown, start |-> dead]

Grown(data) ==
  LET grown == buf \o data
      kept  == Len(grown) - start
  IN  IF kept > MaxSize THEN Compacted(grown, start + (kept - MaxSize))
                        ELSE [buf |-> grown, start |-> start]

Init ==
  /\ buf = <<>> /\ start = 0 /\ total = 0
  /\ written = <<>> /\ clearedAt = 0 /\ movedAt = 0

(* append: an empty chunk returns early and changes nothing. *)
Write(data) ==
  /\ data # <<>>
  /\ total + Len(data) <= MaxTotal
  /\ buf' = Grown(data).buf
  /\ start' = Grown(data).start
  /\ total' = total + Len(data)
  /\ written' = written \o data
  /\ movedAt' = IF Len(buf') < Len(buf \o data) THEN total' ELSE movedAt
  /\ UNCHANGED clearedAt

Clear ==
  /\ buf' = <<>> /\ start' = 0
  /\ clearedAt' = total
  /\ UNCHANGED <<total, written, movedAt>>

Next == Clear \/ \E data \in Chunks : Write(data)

Spec == Init /\ [][Next]_vars

-----------------------------------------------------------------------------
(* The types, and the shape of the dead prefix. *)
TypeOK ==
  /\ buf \in Seq(Byte)
  /\ start \in 0 .. Len(buf)
  /\ total \in Nat
  /\ written \in Seq(Byte)
  /\ clearedAt \in 0 .. total
  /\ movedAt \in 0 .. total

(* Whoever took a snapshot when the counter was `offset` and later asks    *)
(* since(offset) gets exactly the bytes written in between, in order, or   *)
(* the newest MaxSize of them when the ring has dropped the older ones: a  *)
(* gap can only be at the front and nothing is handed out twice.  This is  *)
(* what attach() relies on to go from the replay to the live output.       *)
SinceIsExact ==
  \A offset \in clearedAt .. total :
    LET missed == total - offset
        n == IF missed <= MaxSize THEN missed ELSE MaxSize
    IN  Since(offset) = SubSeq(written, total - n + 1, total)

(* The dead prefix never costs more memory than the content: the bytearray *)
(* stays below twice MaxSize whatever sequence of appends it has seen.     *)
MemoryBounded == Len(buf) < 2 * MaxSize

(* "La compattazione avviene una volta ogni `maxsize` byte scritti":       *)
(* between two moves of the buffer at least MaxSize bytes are written,     *)
(* which is why append is amortised constant time.                         *)
MovesAreAmortised ==
  [][movedAt' # movedAt => movedAt' - movedAt >= MaxSize]_vars

(* Keeping a dead prefix costs neither memory nor time: the two halves of  *)
(* the bargain append() makes.                                             *)
CompactionIsCheap == []MemoryBounded /\ MovesAreAmortised

(* The index and the lazy cut are invisible: seen through snapshot() and   *)
(* total, the buffer is the one of LastBytes.                              *)
Kept == INSTANCE LastBytes WITH content <- Snapshot, count <- total
KeepsLastBytes == Kept!Spec
=============================================================================
