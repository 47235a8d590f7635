------------------------------- MODULE Bitmap -------------------------------
(***************************************************************************)
(* kernel/bitmap.c.  A bitmap_t is a record [bits, length, offset]: the    *)
(* indices whose bit is set, the number of bits, and the index the first   *)
(* bit stands for.                                                         *)
(***************************************************************************)
EXTENDS Integers, FiniteSetsExt

EOF == -1

bitmap_init(length, offset) == [bits |-> {}, length |-> length, offset |-> offset]

\* The two assertions of bitmap_test.
InRange(map, idx) == idx \in map.offset .. map.offset + map.length - 1

bitmap_test(map, idx) == idx \in map.bits

\* The map after bitmap_set; the call returns EOF where the bit was so before.
bitmap_set(map, idx, status) ==
  [map EXCEPT !.bits = IF status THEN @ \cup {idx} ELSE @ \ {idx}]

\* The first index of the first run of count clear bits, or EOF.  The caller
\* sets the run (MarkRun), which the code does in the same function.
bitmap_scan(map, count) ==
  LET Starts == {i \in map.offset .. map.offset + map.length - count :
                   map.bits \cap (i .. i + count - 1) = {}}
  IN  IF Starts = {} THEN EOF ELSE Min(Starts)

MarkRun(map, start, count) == [map EXCEPT !.bits = @ \cup (start .. start + count - 1)]
=============================================================================
