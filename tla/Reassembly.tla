----------------------------- MODULE Reassembly -----------------------------
(***************************************************************************)
(* What a receive buffer promises, on the positions 0, 1, ... of the byte  *)
(* stream the peer sends: it keeps what arrives in any order and hands it  *)
(* out once, in order, without a hole.                                     *)
(***************************************************************************)
EXTENDS Integers

CONSTANTS Size,      \* how far past the reader a byte is kept
          StreamLen  \* the number of bytes the peer sends

VARIABLES read, \* the number of bytes handed out
          have  \* the positions that are kept

Init == read = 0 /\ have = {}

\* A segment that starts before the reader or ends past the buffer is dropped
\* whole.
Put(pos, len) ==
  /\ have' = IF pos >= read /\ pos + len <= read + Size
               THEN have \cup pos .. pos + len - 1 ELSE have
  /\ UNCHANGED read

Take(n) ==
  /\ read .. read + n - 1 \subseteq have
  /\ read' = read + n
  /\ have' = have \ (read .. read + n - 1)

Next == \E pos \in 0 .. StreamLen - 1, n \in 1 .. StreamLen : Put(pos, n) \/ Take(n)

Spec == Init /\ [][Next]_<<read, have>>
==============================================================================
