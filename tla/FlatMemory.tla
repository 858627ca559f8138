----------------------------- MODULE FlatMemory -----------------------------
(* Ram of memory/ram.rs by itself: what the bus promises a program that     *)
(* loads and stores, and the debugger that takes and loads images.          *)
EXTENDS Integers, Sequences

CONSTANTS Size,       \* cells of RAM; the addresses from Size on are no memory
          Loads,      \* <<address, cells>>
          Stores,     \* <<address, value>>
          Images      \* the memory contents the debugger loads

VARIABLES data,       \* Ram.data
          reply       \* what the last access answered

vars == <<data, reply>>

Cells == 0..(Size - 1)

contains(a) == a \in Cells

\* A value, or a bus error.
Answer(ok, v) == [ok |-> ok, value |-> v]

Init == data = [a \in Cells |-> 0] /\ reply = Answer(TRUE, <<>>)

\* read_halfword .. read_doubleword: a byte at a time, up to the first that
\* is not in RAM.
Read(a, n) ==
  /\ reply' = LET ok == \A i \in a..(a + n - 1) : contains(i)
              IN  Answer(ok, IF ok THEN [i \in 1..n |-> data[a + i - 1]] ELSE <<>>)
  /\ UNCHANGED data

\* write_halfword .. write_doubleword: the bytes before the fault stay written.
Write(a, d) ==
  LET n == Len(d)
  IN  /\ data' = [i \in Cells |-> IF i \in a..(a + n - 1) THEN d[i - a + 1] ELSE data[i]]
      /\ reply' = Answer(\A i \in a..(a + n - 1) : contains(i), <<>>)

\* write_image_into
Image == reply' = Answer(TRUE, [i \in 1..Size |-> data[i - 1]]) /\ UNCHANGED data

\* load_image
LoadImage(img) == data' = img /\ reply' = Answer(TRUE, <<>>)

Next ==
  \/ \E r \in Loads : Read(r[1], r[2])
  \/ \E w \in Stores : Write(w[1], w[2])
  \/ Image
  \/ \E img \in Images : LoadImage(img)

Spec == Init /\ [][Next]_vars
=============================================================================
