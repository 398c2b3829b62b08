---------------------------------- MODULE Fifo ---------------------------------
(***************************************************************************)
(* What a bounded buffer promises, whatever it does with its indices: what *)
(* is put in comes out once, in the order it went in, and nothing is put   *)
(* in beyond the capacity.                                                 *)
(***************************************************************************)
EXTENDS Naturals, Sequences

CONSTANTS Items, Capacity

VARIABLES contents,  \* what is in the buffer, the oldest item first
          out        \* the items that the last Remove handed out

Init == contents = <<>> /\ out = <<>>

\* The block put in is what the buffer has grown by.
Insert ==
  LET n == Len(contents)
      b == SubSeq(contents', n + 1, Len(contents'))
  IN  /\ Len(contents') \in n .. Capacity
      /\ \A i \in 1 .. Len(b) : b[i] \in Items
      /\ contents' = contents \o b
      /\ out' = out

Remove == \E n \in 0 .. Len(contents) :
  /\ out' = SubSeq(contents, 1, n)
  /\ contents' = SubSeq(contents, n + 1, Len(contents))

Next == Insert \/ Remove

Spec == Init /\ [][Next]_<<contents, out>>

=============================================================================
