------------------------------ MODULE BatchScan ------------------------------
(***************************************************************************)
(* What a FastScan of one batch after another promises, whichever          *)
(* instructions do it: for every slot, the 16-bit sum of the table entries *)
(* its own code selects, one byte or two of the codes at a time.           *)
(***************************************************************************)
EXTENDS Integers, FastScanLayout

VARIABLES
  code,      \* the bytes of the vector in each slot
  table,     \* the rows of the query's table
  length,    \* how many bytes a code has
  done,      \* how many of them are in the sums
  sum        \* by slot, modulo 2^16

vars == <<code, table, length, done, sum>>

Zero == [s \in Slots |-> 0]

Init == done = 0 /\ sum = Zero

\* A batch is there to be scanned, or a query for it.
Load == done = 0 /\ sum = Zero /\ done' = 0 /\ sum' = Zero

\* What byte c of a code selects, in two rows of the table.
Selected(s, c) ==
  table[2*c][Nibble(code[s], 2*c)] + table[2*c + 1][Nibble(code[s], 2*c + 1)]

AddOne ==
  /\ done + 1 <= length
  /\ done' = done + 1
  /\ sum' = [s \in Slots |-> (sum[s] + Selected(s, done)) % 65536]
  /\ UNCHANGED <<code, table, length>>

AddTwo ==
  /\ done + 2 <= length
  /\ done' = done + 2
  /\ sum' = [s \in Slots |->
               (sum[s] + Selected(s, done) + Selected(s, done + 1)) % 65536]
  /\ UNCHANGED <<code, table, length>>

\* All of every code is in its sum: on to the next batch.
Finish ==
  /\ done = length
  /\ done' = 0 /\ sum' = Zero

Next == Load \/ AddOne \/ AddTwo \/ Finish

Spec == Init /\ [][Next]_vars
=============================================================================
