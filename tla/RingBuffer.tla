------------------------------- MODULE RingBuffer ------------------------------
(***************************************************************************)
(* btstack_ring_buffer.c: the byte buffer between the controller's task    *)
(* and the run loop, with its indices.  A block is copied in two chunks    *)
(* when it reaches the end of the storage; one flag tells a full buffer    *)
(* from an empty one.  RunLoop says who writes and who reads.              *)
(***************************************************************************)
EXTENDS Naturals, Sequences

CONSTANTS Bytes,      \* the values of a byte
          Zero,       \* the byte 0
          size        \* ring_buffer->size

ASSUME SizeAssumption == size \in Nat \ {0} /\ Zero \in Bytes

VARIABLES storage, last_read_index, last_written_index, full,
          out         \* the block that the last read returned

ringVars == <<storage, last_read_index, last_written_index, full, out>>

Indices == 0 .. size - 1
Min2(a, b) == IF a < b THEN a ELSE b

RingInit ==
  /\ storage = [i \in Indices |-> Zero]
  /\ last_read_index = 0 /\ last_written_index = 0
  /\ full = FALSE
  /\ out = <<>>

-----------------------------------------------------------------------------
bytes_available ==
  IF full THEN size
  ELSE IF last_written_index >= last_read_index
       THEN last_written_index - last_read_index
       ELSE last_written_index - last_read_index + size

bytes_free == size - bytes_available

\* Mistake: an index that reaches the end is not set back to 0.
Advance_no_wrap(index, n) ==
  IF index + n > size THEN index + n - size ELSE index + n

\* The first chunk takes the index to the end of the storage at most and back to
\* 0 there, the second one counts from 0.
Advance(index, n) ==
  LET first == Min2(size - index, n)
      there == IF index + first = size THEN 0 ELSE index + first
  IN  there + (n - first)

\* Mistake: a buffer filled to the last byte is not marked.
FullAfter_forgotten(n) == full

\* A write of at least one byte that catches up with the reader fills the buffer.
FullAfter(n) == full \/ (n > 0 /\ Advance(last_written_index, n) = last_read_index)

\* A block that is longer than what is free is refused.
btstack_ring_buffer_write(data) ==
  LET n     == Len(data)
      first == Min2(size - last_written_index, n)
  IN  IF n > bytes_free THEN UNCHANGED ringVars ELSE
      /\ storage' = [i \in Indices |->
           IF i \in last_written_index .. last_written_index + first - 1
           THEN data[i - last_written_index + 1]
           ELSE IF i < n - first THEN data[first + i + 1] ELSE storage[i]]
      /\ last_written_index' =
           IF n = 0 THEN last_written_index ELSE Advance(last_written_index, n)
      /\ full' = FullAfter(n)
      /\ UNCHANGED <<last_read_index, out>>

\* A read returns what there is, at most what is asked for.
btstack_ring_buffer_read(data_length) ==
  LET n     == Min2(data_length, bytes_available)
      first == Min2(size - last_read_index, n)
  IN  /\ out' = [i \in 1 .. n |-> IF i <= first
                                  THEN storage[last_read_index + i - 1]
                                  ELSE storage[i - first - 1]]
      /\ IF n = 0 THEN UNCHANGED <<last_read_index, full>>
         ELSE last_read_index' = Advance(last_read_index, n) /\ full' = FALSE
      /\ UNCHANGED <<storage, last_written_index>>

-----------------------------------------------------------------------------
\* The bytes between the two indices, the oldest first.
Contents == [i \in 1 .. bytes_available |-> storage[(last_read_index + i - 1) % size]]

Queue == INSTANCE Fifo WITH Items <- Bytes, Capacity <- size, contents <- Contents

\* Whatever the lengths of the blocks and wherever they meet the end of the
\* storage, the ring buffer is a queue of up to size bytes: nothing is lost,
\* doubled or overtaken, and a full buffer is not taken for an empty one.
IsFifo == Queue!Spec

=============================================================================
