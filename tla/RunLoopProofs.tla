----------------------------- MODULE RunLoopProofs -----------------------------
(***************************************************************************)
(* What RunLoop checks for a ring buffer of 8 bytes, three packets and     *)
(* three calls, for every size, number of registrations and packet lengths.*)
(***************************************************************************)
EXTENDS RunLoop, SequenceTheorems, TLAPS

-------------------------------------------------------------------------------
(* The ring buffer is a queue. *)

\* The indices stay in the storage, and a full buffer has equal ones.
RingOK == /\ storage \in [Indices -> Bytes]
          /\ last_read_index \in Indices /\ last_written_index \in Indices
          /\ full \in BOOLEAN /\ (full => last_read_index = last_written_index)

LEMMA ModOnce ==
  ASSUME NEW x \in Nat, x < 2 * size
  PROVE  x % size = IF x < size THEN x ELSE x - size
BY SizeAssumption

LEMMA AvailableIs ==
  ASSUME RingOK
  PROVE  /\ bytes_available \in 0 .. size /\ bytes_free \in 0 .. size
         /\ bytes_available = size <=> full
         /\ bytes_free = size - bytes_available
         /\ last_read_index + bytes_available
              \in {last_written_index, last_written_index + size}
BY SizeAssumption DEF RingOK, Indices, bytes_available, bytes_free

\* The index goes round.
LEMMA AdvanceIs ==
  ASSUME NEW x \in Indices, NEW n \in 0 .. size
  PROVE  /\ Advance(x, n) \in Indices
         /\ Advance(x, n) = IF x + n < size THEN x + n ELSE x + n - size
BY SizeAssumption DEF Advance, Min2, Indices

\* The place in the storage of the byte i of the contents.
Place(i) == IF last_read_index + i - 1 < size THEN last_read_index + i - 1
                                              ELSE last_read_index + i - 1 - size

Laid == /\ Contents \in Seq(Bytes) /\ Len(Contents) = bytes_available
        /\ \A i \in 1 .. bytes_available : /\ Place(i) \in Indices
                                           /\ Contents[i] = storage[Place(i)]

LEMMA ContentsIs == RingOK => Laid
<1> SUFFICES ASSUME RingOK PROVE Laid
  OBVIOUS
<1>1. bytes_available \in Nat /\ bytes_available <= size
  BY AvailableIs, SizeAssumption
<1>2. ASSUME NEW i \in 1 .. bytes_available
      PROVE  /\ (last_read_index + i - 1) % size = Place(i)
             /\ Place(i) \in Indices /\ storage[Place(i)] \in Bytes
  <2>1. /\ last_read_index \in Nat /\ i \in Nat /\ last_read_index + i - 1 \in Nat
        /\ last_read_index + i - 1 < 2 * size
    BY <1>1, SizeAssumption DEF RingOK, Indices
  <2>2. Place(i) \in Indices
    BY <2>1, SizeAssumption DEF Place, Indices
  <2>3. (last_read_index + i - 1) % size = Place(i)
    BY <2>1, SizeAssumption DEF Place
  <2>4. QED
    BY <2>2, <2>3 DEF RingOK
<1>3. Contents = [i \in 1 .. bytes_available |-> storage[Place(i)]]
  BY <1>2 DEF Contents
<1>4. Contents \in [1 .. bytes_available -> Bytes]
  BY <1>2, <1>3
<1>5. QED
  BY <1>1, <1>2, <1>3, <1>4 DEF Laid

\* A block that fits goes to the end of the queue, in two chunks or in one.
LEMMA WriteAppends ==
  ASSUME RingOK, NEW data \in Seq(Bytes), Len(data) <= bytes_free,
         btstack_ring_buffer_write(data)
  PROVE  RingOK' /\ Contents' = Contents \o data /\ out' = out
<1> DEFINE n == Len(data)
           r == last_read_index
           w == last_written_index
           first == Min2(size - w, n)
           b == bytes_available
<1>1. /\ size \in Nat /\ size > 0 /\ n \in Nat /\ b \in 0 .. size /\ n + b <= size
      /\ r \in 0 .. size - 1 /\ w \in 0 .. size - 1
      /\ r + b \in {w, w + size} /\ (b = size <=> full)
  BY AvailableIs, SizeAssumption DEF RingOK, Indices
<1>2. first \in 0 .. n /\ w + first <= size /\ (first < n => w + first = size)
  BY <1>1 DEF Min2
<1>3. /\ storage' = [i \in Indices |->
           IF i \in w .. w + first - 1
           THEN data[i - w + 1]
           ELSE IF i < n - first THEN data[first + i + 1] ELSE storage[i]]
      /\ last_written_index' = IF n = 0 THEN w ELSE Advance(w, n)
      /\ full' = FullAfter(n)
      /\ UNCHANGED <<last_read_index, out>>
  BY <1>1, AvailableIs DEF btstack_ring_buffer_write
<1>a. /\ Laid /\ data \in [1 .. n -> Bytes] /\ n = Len(data) /\ b = bytes_available
      /\ r = last_read_index /\ w = last_written_index
  BY ContentsIs
<1> HIDE DEF n, r, w, first, b
<1>4. last_written_index' = IF w + n < size THEN w + n ELSE w + n - size
  <2>1. w \in Indices /\ n \in 0 .. size
    BY <1>1 DEF Indices
  <2>2. QED
    BY <1>1, <1>3, <2>1, AdvanceIs
<1>5. storage' \in [Indices -> Bytes]
  <2>1. ASSUME NEW i \in Indices PROVE storage'[i] \in Bytes
    <3>1. CASE i \in w .. w + first - 1
      <4>1. i - w + 1 \in 1 .. n
        BY <1>1, <1>2, <3>1 DEF Indices
      <4>2. QED
        BY <1>a, <1>3, <3>1, <4>1
    <3>2. CASE i \notin w .. w + first - 1 /\ i < n - first
      <4>1. first + i + 1 \in 1 .. n
        BY <1>1, <1>2, <3>2 DEF Indices
      <4>2. QED
        BY <1>a, <1>3, <3>2, <4>1
    <3>3. CASE i \notin w .. w + first - 1 /\ ~(i < n - first)
      BY <1>3, <3>3 DEF RingOK
    <3>4. QED
      BY <3>1, <3>2, <3>3
  <2>2. QED
    BY <2>1, <1>3
<1>6. full' <=> (full \/ (n > 0 /\ last_written_index' = r))
  <2>1. full' <=> (full \/ (n > 0 /\ Advance(w, n) = r))
    BY <1>a, <1>3 DEF FullAfter
  <2>2. n > 0 => last_written_index' = Advance(w, n)
    BY <1>1, <1>3
  <2>3. QED
    BY <2>1, <2>2
<1>7. RingOK'
  <2>1. full' \in BOOLEAN
    BY <1>3 DEF FullAfter, RingOK
  <2>2. last_written_index' \in Indices
    BY <1>1, <1>4 DEF Indices
  <2>3. full' => last_read_index' = last_written_index'
    BY <1>a, <1>1, <1>3, <1>4, <1>6 DEF RingOK
  <2>4. QED
    BY <1>3, <1>5, <2>1, <2>2, <2>3 DEF RingOK
<1>8. bytes_available' = b + n
  <2>1. CASE full'
    <3>1. bytes_available' = size
      BY <2>1 DEF bytes_available
    <3>2. QED
      BY <1>a, <1>1, <1>3, <1>4, <1>6, <2>1, <3>1
  <2>2. CASE ~full'
    <3>1. bytes_available' = IF last_written_index' >= r THEN last_written_index' - r
                             ELSE last_written_index' - r + size
      BY <1>a, <1>3, <2>2 DEF bytes_available
    <3>2. ~full /\ ~(n > 0 /\ last_written_index' = r)
      BY <1>6, <2>2
    <3>3. QED
      BY <1>1, <1>4, <3>1, <3>2
  <2>3. QED
    BY <2>1, <2>2
<1>9. \A i \in 1 .. b : storage'[Place(i)] = storage[Place(i)]
  <2> SUFFICES ASSUME NEW i \in 1 .. b PROVE storage'[Place(i)] = storage[Place(i)]
    OBVIOUS
  <2>1. Place(i) \in Indices
    BY <1>a DEF Laid
  <2>2. Place(i) \notin w .. w + first - 1 /\ ~(Place(i) < n - first)
    BY <1>a, <1>1, <1>2 DEF Place
  <2>3. QED
    BY <1>3, <2>1, <2>2
<1>10. \A i \in 1 .. n : storage'[Place(b + i)] = data[i]
  <2> SUFFICES ASSUME NEW i \in 1 .. n PROVE storage'[Place(b + i)] = data[i]
    OBVIOUS
  <2>1. Place(b + i) \in Indices
    BY <1>a, <1>1 DEF Place, Indices
  <2>2. CASE i <= first
    <3>1. Place(b + i) = w + i - 1
      BY <1>a, <1>1, <1>2, <2>2 DEF Place
    <3>2. QED
      BY <1>1, <1>2, <1>3, <2>1, <2>2, <3>1
  <2>3. CASE i > first
    <3>1. Place(b + i) = i - first - 1
      BY <1>a, <1>1, <1>2, <2>3 DEF Place
    <3>2. QED
      <4>1. i - first - 1 < n - first /\ first + (i - first - 1) + 1 = i
            /\ i - first - 1 \notin w .. w + first - 1
        BY <1>1, <1>2, <2>3
      <4>2. QED
        BY <1>3, <2>1, <3>1, <4>1
  <2>4. QED
    BY <1>1, <1>2, <2>2, <2>3
<1>11. \A i \in 1 .. b + n : Place(i)' = Place(i)
  BY <1>3 DEF Place
<1>12. /\ Contents' \in Seq(Bytes) /\ Len(Contents') = b + n
       /\ \A i \in 1 .. b + n : Contents'[i] = storage'[Place(i)]
  <2>1. /\ Contents' \in Seq(Bytes) /\ Len(Contents') = bytes_available'
        /\ \A i \in 1 .. bytes_available' : Contents'[i] = storage'[Place(i)']
    <3>1. Laid'
      BY <1>7, ContentsIs, PTL
    <3>2. QED
      BY <3>1 DEF Laid
  <2>2. QED
    BY <1>a, <1>8, <1>11, <2>1
<1>13. /\ Contents \in Seq(Bytes) /\ Len(Contents) = b
       /\ \A i \in 1 .. b : Contents[i] = storage[Place(i)]
  BY <1>a DEF Laid
<1>14. Contents' = Contents \o data
  <2> DEFINE c == Contents \o data
  <2>1. /\ c \in Seq(Bytes) /\ Len(c) = b + n
        /\ \A i \in 1 .. b + n : c[i] = IF i <= b THEN Contents[i] ELSE data[i - b]
    BY <1>a, <1>1, <1>13
  <2> HIDE DEF c
  <2>2. ASSUME NEW i \in 1 .. b + n PROVE Contents'[i] = c[i]
    <3>1. CASE i <= b
      <4>1. i \in 1 .. b
        BY <1>1, <3>1
      <4>2. c[i] = Contents[i]
        BY <2>1, <3>1
      <4>3. Contents'[i] = storage'[Place(i)]
        BY <1>12
      <4>4. storage'[Place(i)] = storage[Place(i)] /\ Contents[i] = storage[Place(i)]
        BY <1>9, <1>13, <4>1
      <4>5. QED
        BY <4>2, <4>3, <4>4
    <3>2. CASE i > b
      <4>1. i - b \in 1 .. n /\ b + (i - b) = i
        BY <1>1, <3>2
      <4>2. c[i] = data[i - b]
        BY <1>1, <2>1, <3>2
      <4>3. Contents'[i] = storage'[Place(i)]
        BY <1>12
      <4>4. storage'[Place(b + (i - b))] = data[i - b]
        BY <1>10, <4>1
      <4>5. QED
        BY <4>1, <4>2, <4>3, <4>4
    <3>3. QED
      BY <1>1, <3>1, <3>2
  <2>3. QED
    BY <1>12, <2>1, <2>2, SeqEqual DEF c
<1>15. QED
  BY <1>3, <1>7, <1>14

\* A read takes from the front of the queue what there is.
LEMMA ReadTakes ==
  ASSUME RingOK, NEW len \in Nat, btstack_ring_buffer_read(len)
  PROVE  /\ RingOK'
         /\ \E n \in 0 .. Len(Contents) :
               /\ n = Min2(len, Len(Contents))
               /\ out' = SubSeq(Contents, 1, n)
               /\ Contents' = SubSeq(Contents, n + 1, Len(Contents))
<1> DEFINE b == bytes_available
           n == Min2(len, b)
           r == last_read_index
           w == last_written_index
           first == Min2(size - r, n)
<1>1. /\ size \in Nat /\ size > 0 /\ b \in 0 .. size
      /\ r \in 0 .. size - 1 /\ w \in 0 .. size - 1
      /\ r + b \in {w, w + size} /\ (b = size <=> full)
  BY AvailableIs, SizeAssumption DEF RingOK, Indices
<1>2. n \in 0 .. b
  BY <1>1 DEF Min2
<1>3. first \in 0 .. n /\ r + first <= size /\ (first < n => r + first = size)
  BY <1>1, <1>2 DEF Min2
<1>4. /\ out' = [i \in 1 .. n |-> IF i <= first THEN storage[r + i - 1]
                                                ELSE storage[i - first - 1]]
      /\ IF n = 0 THEN UNCHANGED <<last_read_index, full>>
         ELSE last_read_index' = Advance(r, n) /\ full' = FALSE
      /\ UNCHANGED <<storage, last_written_index>>
  BY DEF btstack_ring_buffer_read
<1>a. /\ Contents \in Seq(Bytes) /\ Len(Contents) = b
      /\ \A i \in 1 .. b : /\ Place(i) \in Indices
                           /\ Contents[i] = storage[Place(i)]
  BY ContentsIs DEF Laid
<1>b. b = bytes_available /\ r = last_read_index /\ w = last_written_index
      /\ n = Min2(len, b)
  OBVIOUS
<1> HIDE DEF n, r, w, first, b
<1>5. last_read_index' = IF r + n < size THEN r + n ELSE r + n - size
  <2>1. r \in Indices /\ n \in 0 .. size
    BY <1>1, <1>2 DEF Indices
  <2>2. QED
    BY <1>1, <1>2, <1>4, <1>b, <2>1, AdvanceIs
<1>6. full' <=> full /\ n = 0
  BY <1>1, <1>2, <1>4
<1>7. RingOK'
  <2>1. full' \in BOOLEAN
    BY <1>4 DEF RingOK
  <2>2. last_read_index' \in Indices
    BY <1>1, <1>2, <1>5 DEF Indices
  <2>3. full' => last_read_index' = last_written_index'
    BY <1>1, <1>4, <1>6 DEF RingOK
  <2>4. QED
    BY <1>4, <2>1, <2>2, <2>3 DEF RingOK
<1>8. bytes_available' = b - n
  <2>1. CASE full'
    <3>1. bytes_available' = size
      BY <2>1 DEF bytes_available
    <3>2. QED
      BY <1>1, <1>6, <2>1, <3>1
  <2>2. CASE ~full'
    <3>1. bytes_available' = IF w >= last_read_index' THEN w - last_read_index'
                             ELSE w - last_read_index' + size
      BY <1>b, <1>4, <2>2 DEF bytes_available
    <3>2. ~(full /\ n = 0)
      BY <1>6, <2>2
    <3>3. QED
      BY <1>1, <1>2, <1>5, <3>1, <3>2
  <2>3. QED
    BY <2>1, <2>2
<1>9. out' = SubSeq(Contents, 1, n)
  <2> DEFINE c == SubSeq(Contents, 1, n)
  <2>1. /\ c \in Seq(Bytes) /\ Len(c) = n
        /\ \A i \in 1 .. n : c[i] = Contents[i]
    BY <1>a, <1>1, <1>2
  <2> HIDE DEF c
  <2>2. ASSUME NEW i \in 1 .. n PROVE out'[i] = c[i] /\ c[i] \in Bytes
    <3>1. Place(i) = IF i <= first THEN r + i - 1 ELSE i - first - 1
      BY <1>1, <1>2, <1>3, <1>b DEF Place
    <3>2. out'[i] = storage[Place(i)]
      BY <1>4, <3>1
    <3>3. i \in 1 .. b
      BY <1>1, <1>2
    <3>4. Contents[i] = storage[Place(i)] /\ Contents[i] \in Bytes
      BY <1>a, <3>3
    <3>5. QED
      BY <2>1, <3>2, <3>4
  <2>3. out' \in [1 .. n -> Bytes] /\ n \in Nat
    BY <2>2, <1>4, <1>1, <1>2
  <2>4. out' \in Seq(Bytes) /\ Len(out') = n
    BY <2>3
  <2>5. QED
    BY <2>1, <2>2, <2>4, SeqEqual DEF c
<1>10. Contents' = SubSeq(Contents, n + 1, b)
  <2> DEFINE c == SubSeq(Contents, n + 1, b)
  <2>1. /\ c \in Seq(Bytes) /\ Len(c) = b - n
        /\ \A i \in 1 .. b - n : c[i] = Contents[n + i]
    <3>1. n + 1 \in 1 .. b + 1 /\ b \in 0 .. Len(Contents)
      BY <1>a, <1>1, <1>2
    <3>2. c \in Seq(Bytes)
      BY <1>a, <1>1, <1>2
    <3>3. Len(c) = b - n
      BY <1>a, <1>1, <1>2, SubSeqProperties
    <3>4. ASSUME NEW i \in 1 .. b - n PROVE c[i] = Contents[n + i]
      <4>1. c[i] = Contents[n + 1 + i - 1]
        BY <1>a, <1>1, <1>2, SubSeqProperties
      <4>2. n + 1 + i - 1 = n + i
        BY <1>1, <1>2
      <4>3. QED
        BY <4>1, <4>2
    <3>5. QED
      BY <3>2, <3>3, <3>4
  <2> HIDE DEF c
  <2>2. Laid'
    BY <1>7, ContentsIs, PTL
  <2>3. /\ Contents' \in Seq(Bytes) /\ Len(Contents') = b - n
        /\ \A i \in 1 .. b - n : Contents'[i] = storage'[Place(i)']
    BY <1>8, <2>2 DEF Laid
  <2>4. ASSUME NEW i \in 1 .. b - n PROVE Contents'[i] = c[i]
    <3>1. Place(i)' = Place(n + i)
      BY <1>1, <1>2, <1>5, <1>b DEF Place
    <3>2. n + i \in 1 .. b
      BY <1>1, <1>2
    <3>3. Contents[n + i] = storage[Place(n + i)]
      BY <1>a, <3>2
    <3>4. Contents'[i] = storage[Place(n + i)]
      BY <2>3, <3>1, <1>4
    <3>5. QED
      BY <2>1, <3>3, <3>4
  <2>5. QED
    BY <2>1, <2>3, <2>4, SeqEqual DEF c
<1>11. QED
  BY <1>7, <1>9, <1>10, <1>2, <1>a, <1>b

-------------------------------------------------------------------------------
(* RunLoop's tasks use it as a queue. *)

Packets == (1 .. MaxPackets) \X Lens

TransportOK ==
    /\ RingOK /\ out \in Seq(Bytes) /\ accepted \in Seq(Packets)
    /\ recv \in {"tag", "packet"} => accepted # <<>> /\ Last(accepted)[2] <= size

LEMMA SeqOfLength ==
  ASSUME NEW S, NEW n \in Nat, NEW f \in [1 .. n -> S]
  PROVE  f \in Seq(S) /\ Len(f) = n
OBVIOUS

\* The bytes of a packet and of its tag.
LEMMA PartsAre ==
  ASSUME NEW p \in Packets, p[2] <= size
  PROVE  /\ p[2] \in Nat
         /\ Part(p, -1, 0) \in Seq(Bytes) /\ Len(Part(p, -1, 0)) = 2
         /\ \A i \in 1 .. 2 : Part(p, -1, 0)[i] = <<p, i - 2>>
         /\ Part(p, 1, p[2]) \in Seq(Bytes) /\ Len(Part(p, 1, p[2])) = p[2]
         /\ \A i \in 1 .. p[2] : Part(p, 1, p[2])[i] = <<p, i>>
<1>1. p[1] \in 1 .. MaxPackets /\ p[2] \in Lens /\ p = <<p[1], p[2]>> /\ p[2] \in Nat
  <2>1. p[1] \in 1 .. MaxPackets /\ p[2] \in Lens /\ p = <<p[1], p[2]>>
    BY DEF Packets
  <2>2. Lens \subseteq Nat
    BY TransportAssumption
  <2>3. QED
    BY <2>1, <2>2
<1>2. \A i \in -1 .. size : i <= p[2] => <<p, i>> \in Bytes
  BY <1>1, TransportAssumption
<1>3. /\ Part(p, -1, 0) = [i \in 1 .. 2 |-> <<p, i - 2>>]
      /\ Part(p, 1, p[2]) = [i \in 1 .. p[2] |-> <<p, i>>]
  <2>1. -1 - -1 + 1 = 1 /\ 0 - -1 + 1 = 2 /\ p[2] - 1 + 1 = p[2]
    BY <1>1
  <2>2. \A i \in 1 .. 2 : -1 + i - 1 = i - 2
    OBVIOUS
  <2>3. \A i \in 1 .. p[2] : 1 + i - 1 = i
    BY <1>1
  <2>4. QED
    BY <2>1, <2>2, <2>3 DEF Part
<1>4. /\ \A i \in 1 .. 2 : <<p, i - 2>> \in Bytes
      /\ \A i \in 1 .. p[2] : <<p, i>> \in Bytes
  BY <1>1, <1>2, SizeAssumption
<1>5. /\ Part(p, -1, 0) \in [1 .. 2 -> Bytes]
      /\ Part(p, 1, p[2]) \in [1 .. p[2] -> Bytes]
  BY <1>3, <1>4
<1>6. /\ \A i \in 1 .. 2 : Part(p, -1, 0)[i] = <<p, i - 2>>
      /\ \A i \in 1 .. p[2] : Part(p, 1, p[2])[i] = <<p, i>>
  BY <1>3
<1>7. Part(p, -1, 0) \in Seq(Bytes) /\ Len(Part(p, -1, 0)) = 2
  <2>1. 2 \in Nat
    OBVIOUS
  <2>2. QED
    BY <1>5, <2>1, SeqOfLength, Zenon
<1>8. Part(p, 1, p[2]) \in Seq(Bytes) /\ Len(Part(p, 1, p[2])) = p[2]
  BY <1>1, <1>5
<1>9. QED
  BY <1>1, <1>6, <1>7, <1>8

\* What a step of the tasks does to the queue: nothing, or it puts a block in that
\* fits, or it takes out some bytes.
QueueStep ==
    \/ UNCHANGED <<Contents, out>>
    \/ \E d \in Seq(Bytes) : /\ Len(Contents) + Len(d) <= size
                             /\ Contents' = Contents \o d /\ out' = out
    \/ \E n \in 0 .. Len(Contents) :
          /\ out' = SubSeq(Contents, 1, n)
          /\ Contents' = SubSeq(Contents, n + 1, Len(Contents))

LEMMA WriteIsStep ==
  ASSUME RingOK, NEW data \in Seq(Bytes), btstack_ring_buffer_write(data)
  PROVE  RingOK' /\ QueueStep /\ out' = out
<1>1. CASE Len(data) <= bytes_free
  <2>1. RingOK' /\ Contents' = Contents \o data /\ out' = out
    BY <1>1, WriteAppends
  <2>2. Len(Contents) + Len(data) <= size
    <3>1. Len(Contents) = bytes_available
      BY ContentsIs DEF Laid
    <3>2. QED
      BY <1>1, <3>1, AvailableIs, SizeAssumption
  <2>3. QED
    BY <2>1, <2>2 DEF QueueStep
<1>2. CASE ~(Len(data) <= bytes_free)
  <2>1. Len(data) > bytes_free
    BY <1>2, AvailableIs, SizeAssumption
  <2>2. UNCHANGED ringVars
    BY <2>1 DEF btstack_ring_buffer_write
  <2>3. QED
    BY <2>2 DEF ringVars, RingOK, QueueStep, Contents, bytes_available
<1>3. QED
  BY <1>1, <1>2

LEMMA ReadIsStep ==
  ASSUME RingOK, NEW len \in Nat, btstack_ring_buffer_read(len)
  PROVE  RingOK' /\ QueueStep /\ out' \in Seq(Bytes)
<1>1. Contents \in Seq(Bytes)
  BY ContentsIs DEF Laid
<1>2. PICK n \in 0 .. Len(Contents) :
        /\ out' = SubSeq(Contents, 1, n)
        /\ Contents' = SubSeq(Contents, n + 1, Len(Contents))
  BY ReadTakes
<1>3. QED
  BY <1>1, <1>2, ReadTakes DEF QueueStep

LEMMA QueueStepIs ==
  ASSUME RingOK, QueueStep
  PROVE  [Queue!Next]_<<Contents, out>>
<1>1. Contents \in Seq(Bytes)
  BY ContentsIs DEF Laid
<1>2. ASSUME NEW d \in Seq(Bytes), Len(Contents) + Len(d) <= size,
             Contents' = Contents \o d, out' = out
      PROVE  Queue!Insert
  <2> DEFINE n == Len(Contents)
             b == SubSeq(Contents', n + 1, Len(Contents'))
  <2>1. Len(Contents') = n + Len(d) /\ b = d
    BY <1>1, <1>2, ConcatProperties, SubSeqOfConcat2
  <2>2. Len(Contents') \in n .. size
    BY <1>1, <1>2, <2>1, SizeAssumption
  <2>3. \A i \in 1 .. Len(b) : b[i] \in Bytes
    BY <2>1
  <2>4. QED
    BY <1>2, <2>1, <2>2, <2>3 DEF Queue!Insert
<1>3. ASSUME NEW n \in 0 .. Len(Contents), out' = SubSeq(Contents, 1, n),
             Contents' = SubSeq(Contents, n + 1, Len(Contents))
      PROVE  Queue!Remove
  BY <1>3 DEF Queue!Remove
<1>4. QED
  BY <1>2, <1>3 DEF QueueStep, Queue!Next

LEMMA LastPacket ==
  ASSUME accepted \in Seq(Packets), accepted # <<>>
  PROVE  /\ Len(accepted) \in Nat \ {0}
         /\ Last(accepted) = accepted[Len(accepted)] /\ Last(accepted) \in Packets
BY DEF Last

\* The receiver, the reader, and everyone else.
LEMMA TransportStep ==
  ASSUME TransportOK, [Next]_vars
  PROVE  TransportOK' /\ QueueStep
<1>1. ASSUME UNCHANGED <<ringVars, accepted>>,
             recv' \in {"tag", "packet"} => recv' = recv
      PROVE  TransportOK' /\ QueueStep
  BY <1>1 DEF TransportOK, RingOK, ringVars, QueueStep, Contents, bytes_available
<1>2. ASSUME NEW len \in Lens, host_recv_pkt_cb(len) PROVE TransportOK' /\ QueueStep
  <2>1. /\ UNCHANGED ringVars /\ bytes_free >= len /\ Len(accepted) < MaxPackets
        /\ accepted' = Append(accepted, <<Len(accepted) + 1, len>>)
    BY <1>2 DEF host_recv_pkt_cb
  <2>2. len \in Nat /\ len <= size
    BY <2>1, AvailableIs, TransportAssumption, SizeAssumption DEF TransportOK
  <2>3. <<Len(accepted) + 1, len>> \in Packets
    BY <2>1, TransportAssumption DEF Packets, TransportOK
  <2>4. /\ accepted' \in Seq(Packets) /\ accepted' # <<>>
        /\ Last(accepted') = <<Len(accepted) + 1, len>>
    BY <2>1, <2>3, AppendProperties DEF Last, TransportOK
  <2>5. QED
    BY <2>1, <2>2, <2>4
    DEF TransportOK, RingOK, ringVars, QueueStep, Contents, bytes_available
<1>3. ASSUME recv_tag \/ recv_packet PROVE TransportOK' /\ QueueStep
  <2> DEFINE p == Last(accepted)
  <2>1. p \in Packets /\ p[2] <= size
    BY <1>3, LastPacket DEF TransportOK, recv_tag, recv_packet
  <2>2. Part(p, -1, 0) \in Seq(Bytes) /\ Part(p, 1, p[2]) \in Seq(Bytes)
    BY <2>1, PartsAre
  <2>3. RingOK' /\ QueueStep /\ out' = out
    BY <1>3, <2>2, WriteIsStep DEF recv_tag, recv_packet, TransportOK
  <2>4. /\ UNCHANGED accepted /\ recv' \in {"packet", "add"}
        /\ recv \in {"tag", "packet"}
    BY <1>3 DEF recv_tag, recv_packet
  <2>5. QED
    BY <2>3, <2>4 DEF TransportOK
<1>4. CASE deliver_tag
  <2>1. RingOK' /\ QueueStep /\ out' \in Seq(Bytes)
    BY <1>4, ReadIsStep DEF deliver_tag, TransportOK
  <2>2. QED
    BY <1>4, <2>1 DEF deliver_tag, TransportOK
<1>5. CASE deliver_packet
  <2>1. PICK len \in IF out = Part(out[1][1], -1, 0) THEN {out[1][1][2]}
                                                     ELSE 0 .. bytes_available :
          btstack_ring_buffer_read(len)
    BY <1>5 DEF deliver_packet
  <2>2. len \in Nat
    <3>1. CASE out = Part(out[1][1], -1, 0)
      <4>1. out = [i \in 1 .. 2 |-> <<out[1][1], -1 + i - 1>>]
        BY <3>1 DEF Part
      <4>2. 1 \in DOMAIN out
        BY <4>1
      <4>3. out[1] \in Bytes
        BY <4>2 DEF TransportOK
      <4>4. out[1] \in (Nat \X Nat) \X Int
        BY <4>3, TransportAssumption
      <4>5. out[1][1][2] \in Nat
        BY <4>4
      <4>6. QED
        BY <2>1, <3>1, <4>5
    <3>2. CASE out # Part(out[1][1], -1, 0)
      BY <2>1, <3>2, AvailableIs, SizeAssumption DEF TransportOK
    <3>3. QED
      BY <3>1, <3>2
  <2>3. RingOK' /\ QueueStep /\ out' \in Seq(Bytes)
    BY <2>1, <2>2, ReadIsStep DEF TransportOK
  <2>4. QED
    BY <1>5, <2>3 DEF deliver_packet, TransportOK
<1>6. ASSUME \/ recv_add \/ recv_trigger \/ safe_call \/ call_add \/ call_trigger
             \/ pop_callback \/ no_callback \/ wake_up \/ timer_due \/ run_command
             \/ deliver_done \/ UNCHANGED vars
      PROVE  TransportOK' /\ QueueStep
  BY <1>1, <1>6
  DEF recv_add, recv_trigger, safe_call, call_add, call_trigger, pop_callback,
      no_callback, wake_up, timer_due, run_command, deliver_done, vars, transport
<1>7. QED
  BY <1>2, <1>3, <1>4, <1>5, <1>6
  DEF Next, LoopNext, RecvNext, RecvGoesOn, CallNext

\* The queue is empty at the start.
LEMMA TransportStart == Init => TransportOK /\ Queue!Init
<1> SUFFICES ASSUME Init PROVE TransportOK /\ Queue!Init
  OBVIOUS
<1>1. RingOK /\ out = <<>> /\ accepted = <<>> /\ recv = "idle"
  <2>1. 0 \in Indices
    BY SizeAssumption DEF Indices
  <2>2. storage \in [Indices -> Bytes]
    BY SizeAssumption DEF Init, RingInit
  <2>3. QED
    BY <2>1, <2>2 DEF Init, RingInit, RingOK
<1>2. bytes_available = 0
  BY DEF Init, RingInit, bytes_available
<1>3. Contents \in Seq(Bytes) /\ Len(Contents) = 0
  BY <1>1, <1>2, ContentsIs DEF Laid
<1>4. QED
  BY <1>1, <1>3 DEF TransportOK, Queue!Init

\* The ring buffer between the controller's task and the run loop is a queue of up
\* to size bytes, whatever its size, the lengths of the packets and the steps of
\* the two tasks: nothing is lost, doubled or overtaken.
THEOREM RingBufferIsFifo == Spec => IsFifo
<1>1. Init => TransportOK /\ Queue!Init
  BY TransportStart
<1>2. TransportOK /\ [Next]_vars => TransportOK' /\ [Queue!Next]_<<Contents, out>>
  BY TransportStep, QueueStepIs DEF TransportOK
<1>3. QED
  BY <1>1, <1>2, PTL DEF Spec, IsFifo, Queue!Spec

-------------------------------------------------------------------------------
(* The safe calls. *)

\* How many calls ago a registration was taken, the registrations being taken in turn.
Age(r) == IF r <= idx THEN idx - r ELSE idx - r + CmdMax

InUse(r) == Contains(callbacks, r) \/ current = r \/ (caller = "add" /\ idx = r)

CallTypes ==
    /\ idx \in Registrations /\ ctx \in [Registrations -> Nat] /\ calls \in Nat
    /\ executed \in Seq(Nat) /\ callbacks \in Seq(Registrations \cup {Receive})
    /\ current \in Registrations \cup {NoReg, Receive}
    /\ overrun \in BOOLEAN
    /\ loop \in {"callbacks", "wait"} => current = NoReg

\* Every registration holds the last call that took it.
ContextsInv == \A r \in Registrations :
    ctx[r] = IF calls > Age(r) THEN calls - Age(r) ELSE 0

OnceInv == \A i, j \in 1 .. Len(callbacks) : callbacks[i] = callbacks[j] => i = j

\* Until a registration is taken too early: the calls up to some number have been
\* executed, the later ones are in use, and the list holds them in order.
UnfinishedInv ==
    /\ Len(executed) <= calls /\ calls - Len(executed) <= CmdMax
    /\ \A r \in Registrations : InUse(r) <=> ctx[r] > Len(executed)
    /\ \A r \in Registrations : current = r =>
          ctx[r] = Len(executed) + 1 /\ ~Contains(callbacks, r)
    /\ caller = "add" => ~Contains(callbacks, idx) /\ current # idx

OrderInv ==
    /\ \A i \in 1 .. Len(executed) : executed[i] = i
    /\ \A i, j \in 1 .. Len(callbacks) :
          i < j /\ callbacks[i] \in Registrations /\ callbacks[j] \in Registrations
            => ctx[callbacks[i]] < ctx[callbacks[j]]

CallsInv == /\ CallTypes /\ ContextsInv /\ OnceInv
            /\ overrun \/ (UnfinishedInv /\ OrderInv)

LEMMA RegistrationsAre ==
  /\ CmdMax \in Nat /\ CmdMax > 0
  /\ \A r \in Registrations : r \in Nat /\ r < CmdMax /\ r # Receive /\ r # NoReg
  /\ \A r \in Nat : r < CmdMax => r \in Registrations
  /\ Receive # NoReg
BY CallAssumption DEF Registrations, Receive, NoReg

\* The latest call is at idx, and no two registrations hold the same call.
LEMMA ContextsDiffer ==
  ASSUME CallTypes, ContextsInv
  PROVE  /\ \A r \in Registrations : ctx[r] \in Nat /\ ctx[r] <= calls
         /\ ctx[idx] = calls
         /\ \A r, q \in Registrations : ctx[r] = ctx[q] /\ ctx[r] > 0 => r = q
<1>1. \A r \in Registrations : Age(r) \in 0 .. CmdMax - 1
  BY RegistrationsAre DEF CallTypes, Age
<1>2. Age(idx) = 0
  BY RegistrationsAre DEF CallTypes, Age
<1>3. \A r, q \in Registrations : Age(r) = Age(q) => r = q
  BY RegistrationsAre DEF CallTypes, Age
<1>4. \A r \in Registrations : ctx[r] \in Nat /\ ctx[r] <= calls
  BY <1>1 DEF CallTypes, ContextsInv
<1>5. ctx[idx] = calls
  BY <1>2 DEF CallTypes, ContextsInv
<1>6. ASSUME NEW r \in Registrations, NEW q \in Registrations,
             ctx[r] = ctx[q], ctx[r] > 0
      PROVE  r = q
  <2>1. Age(r) \in Nat /\ Age(q) \in Nat /\ calls \in Nat
    BY <1>1, RegistrationsAre DEF CallTypes
  <2>2. /\ ctx[r] = IF calls > Age(r) THEN calls - Age(r) ELSE 0
        /\ ctx[q] = IF calls > Age(q) THEN calls - Age(q) ELSE 0
    BY DEF ContextsInv
  <2>3. ctx[r] = calls - Age(r) /\ ctx[q] = calls - Age(q)
    <3>1. calls > Age(r)
      BY <1>6, <2>2
    <3>2. ctx[q] > 0
      BY <1>6
    <3>3. calls > Age(q)
      BY <2>2, <3>2
    <3>4. QED
      BY <2>2, <3>1, <3>3
  <2>4. calls - Age(r) = calls - Age(q)
    BY <1>6, <2>3
  <2>5. Age(r) = Age(q)
    BY <2>1, <2>4
  <2>6. QED
    BY <1>3, <2>5
<1>7. QED
  BY <1>4, <1>5, <1>6

\* A recent call is held by some registration.
LEMMA CallHeld ==
  ASSUME CallTypes, ContextsInv, NEW n \in 1 .. calls, calls - n < CmdMax
  PROVE  \E r \in Registrations : ctx[r] = n
<1> DEFINE r == IF idx >= calls - n THEN idx - (calls - n) ELSE idx - (calls - n) + CmdMax
<1>1. calls \in Nat /\ n \in Nat /\ idx \in Nat /\ idx < CmdMax /\ CmdMax \in Nat
  BY RegistrationsAre DEF CallTypes
<1>2. r \in Nat /\ r < CmdMax
  BY <1>1
<1>3. r \in Registrations
  BY <1>2, RegistrationsAre
<1>4. Age(r) = calls - n
  BY <1>1 DEF Age
<1>5. ctx[r] = n
  BY <1>1, <1>3, <1>4 DEF ContextsInv
<1>6. QED
  BY <1>3, <1>5

\* A step that leaves the calls and the list alone.
LEMMA CallsFrame ==
  ASSUME CallsInv, UNCHANGED <<idx, ctx, calls, executed, callbacks, overrun>>,
         \/ current' = current
         \/ current = Receive /\ current' = NoReg,
         caller' = "add" <=> caller = "add",
         loop' \in {"callbacks", "wait"} => current' = NoReg
  PROVE  CallsInv'
<1>1. \A r \in Registrations : current' = r <=> current = r
  BY RegistrationsAre
<1>2. CallTypes'
  BY DEF CallsInv, CallTypes
<1>3. ContextsInv' /\ OnceInv'
  BY DEF CallsInv, ContextsInv, OnceInv, Age
<1>4. \A r \in Registrations : InUse(r)' <=> InUse(r)
  BY <1>1 DEF InUse, Contains
<1>5. UnfinishedInv => UnfinishedInv'
  <2>1. idx \in Registrations
    BY DEF CallsInv, CallTypes
  <2>2. QED
    BY <1>1, <1>4, <2>1 DEF UnfinishedInv, Contains
<1>6. OrderInv => OrderInv'
  BY DEF OrderInv
<1>7. QED
  BY <1>2, <1>3, <1>5, <1>6 DEF CallsInv

LEMMA AppendIs ==
  ASSUME NEW S, NEW s \in Seq(S), NEW x \in S
  PROVE  /\ Append(s, x) \in Seq(S) /\ Len(Append(s, x)) = Len(s) + 1
         /\ \A i \in 1 .. Len(s) : Append(s, x)[i] = s[i]
         /\ Append(s, x)[Len(s) + 1] = x
         /\ \A y : Contains(Append(s, x), y) <=> Contains(s, y) \/ y = x
BY DEF Contains

\* What an item at the end of the list changes, if it was not there.
LEMMA AddedAtEnd ==
  ASSUME CallTypes, OnceInv, NEW reg \in Registrations \cup {Receive},
         AddCallback(reg)
  PROVE  \/ callbacks' = callbacks /\ Contains(callbacks, reg)
         \/ /\ callbacks' = Append(callbacks, reg) /\ ~Contains(callbacks, reg)
            /\ callbacks' \in Seq(Registrations \cup {Receive})
            /\ Len(callbacks') = Len(callbacks) + 1 /\ Len(callbacks) \in Nat
            /\ \A i \in 1 .. Len(callbacks) : callbacks'[i] = callbacks[i]
            /\ callbacks'[Len(callbacks) + 1] = reg
            /\ \A y : Contains(callbacks', y) <=> Contains(callbacks, y) \/ y = reg
            /\ OnceInv'
<1>1. CASE Contains(callbacks, reg)
  BY <1>1 DEF AddCallback
<1>2. CASE ~Contains(callbacks, reg)
  <2>1. callbacks' = Append(callbacks, reg)
    BY <1>2 DEF AddCallback
  <2>2. callbacks \in Seq(Registrations \cup {Receive}) /\ Len(callbacks) \in Nat
    BY DEF CallTypes
  <2>3. /\ callbacks' \in Seq(Registrations \cup {Receive})
        /\ Len(callbacks') = Len(callbacks) + 1
        /\ \A i \in 1 .. Len(callbacks) : callbacks'[i] = callbacks[i]
        /\ callbacks'[Len(callbacks) + 1] = reg
        /\ \A y : Contains(callbacks', y) <=> Contains(callbacks, y) \/ y = reg
    BY <2>1, <2>2, AppendIs
  <2>4. \A i \in 1 .. Len(callbacks) : callbacks[i] # reg
    BY <1>2 DEF Contains
  <2>5. OnceInv'
    BY <2>2, <2>3, <2>4 DEF OnceInv
  <2>6. QED
    BY <1>2, <2>1, <2>2, <2>3, <2>5
<1>3. QED
  BY <1>1, <1>2

LEMMA ReceiveAddedKeeps ==
  ASSUME CallsInv, recv_add
  PROVE  CallsInv'
<1>1. /\ AddCallback(Receive)
      /\ UNCHANGED <<loop, current, caller, idx, ctx, calls, executed, overrun>>
  BY DEF recv_add, commands
<1>2. CASE UNCHANGED callbacks
  BY <1>1, <1>2, CallsFrame DEF CallsInv, CallTypes
<1>3. CASE callbacks' # callbacks
  <2>1. /\ callbacks' \in Seq(Registrations \cup {Receive}) /\ OnceInv'
        /\ Len(callbacks') = Len(callbacks) + 1 /\ Len(callbacks) \in Nat
        /\ \A i \in 1 .. Len(callbacks) : callbacks'[i] = callbacks[i]
        /\ callbacks'[Len(callbacks) + 1] = Receive
        /\ \A y : Contains(callbacks', y) <=> Contains(callbacks, y) \/ y = Receive
    BY <1>1, <1>3, AddedAtEnd DEF CallsInv
  <2>2. CallTypes'
    BY <1>1, <2>1 DEF CallsInv, CallTypes
  <2>3. ContextsInv'
    BY <1>1 DEF CallsInv, ContextsInv, Age
  <2>4. \A r \in Registrations : /\ Contains(callbacks', r) <=> Contains(callbacks, r)
                                 /\ r # Receive
    BY <2>1, RegistrationsAre
  <2>5. \A r \in Registrations : InUse(r)' <=> InUse(r)
    BY <1>1, <2>4 DEF InUse
  <2>6. idx \in Registrations
    BY DEF CallsInv, CallTypes
  <2>7. UnfinishedInv => UnfinishedInv'
    BY <1>1, <2>4, <2>5, <2>6 DEF UnfinishedInv
  <2>8. OrderInv => OrderInv'
    BY <1>1, <2>1, <2>4 DEF OrderInv
  <2>9. QED
    BY <1>1, <2>1, <2>2, <2>3, <2>7, <2>8 DEF CallsInv
<1>4. QED
  BY <1>2, <1>3

\* The call that was made last goes behind all others.
LEMMA CallAddedKeeps ==
  ASSUME CallsInv, call_add
  PROVE  CallsInv'
<1>1. /\ AddCallback(idx) /\ caller = "add" /\ caller' = "trigger"
      /\ UNCHANGED <<loop, current, idx, ctx, calls, executed, overrun>>
  BY DEF call_add
<1>a. idx \in Registrations /\ calls \in Nat /\ Len(executed) \in Nat
  BY DEF CallsInv, CallTypes
<1>2. CallTypes' /\ OnceInv'
  <2>1. callbacks' \in Seq(Registrations \cup {Receive}) /\ OnceInv'
    BY <1>1, <1>a, AddedAtEnd DEF CallsInv, CallTypes, OnceInv
  <2>2. QED
    BY <1>1, <2>1 DEF CallsInv, CallTypes
<1>3. ContextsInv'
  BY <1>1 DEF CallsInv, ContextsInv, Age
<1>4. ASSUME UnfinishedInv, OrderInv PROVE UnfinishedInv' /\ OrderInv'
  <2>1. ~Contains(callbacks, idx) /\ current # idx
    BY <1>1, <1>4 DEF UnfinishedInv
  <2>2. /\ Len(callbacks') = Len(callbacks) + 1 /\ Len(callbacks) \in Nat
        /\ \A i \in 1 .. Len(callbacks) : callbacks'[i] = callbacks[i]
        /\ callbacks'[Len(callbacks) + 1] = idx
        /\ \A y : Contains(callbacks', y) <=> Contains(callbacks, y) \/ y = idx
    BY <1>1, <1>a, <2>1, AddedAtEnd DEF CallsInv
  <2>3. \A r \in Registrations : InUse(r)' <=> InUse(r)
    BY <1>1, <2>2 DEF InUse
  <2>4. UnfinishedInv'
    BY <1>1, <1>4, <2>1, <2>2, <2>3 DEF UnfinishedInv
  <2>5. \A i \in 1 .. Len(callbacks) : callbacks[i] \in Registrations =>
            ctx[callbacks[i]] < ctx[idx]
    <3> SUFFICES ASSUME NEW i \in 1 .. Len(callbacks), callbacks[i] \in Registrations
                 PROVE  ctx[callbacks[i]] < ctx[idx]
      OBVIOUS
    <3> DEFINE r == callbacks[i]
    <3>1. r # idx /\ InUse(r)
      BY <2>1 DEF Contains, InUse
    <3>2. ctx[r] > Len(executed) /\ ctx[r] \in Nat /\ ctx[r] <= calls /\ ctx[idx] = calls
      BY <1>4, <3>1, ContextsDiffer DEF UnfinishedInv, CallsInv
    <3>3. ctx[r] # ctx[idx]
      BY <1>a, <3>1, <3>2, ContextsDiffer DEF CallsInv
    <3>4. QED
      BY <1>a, <3>2, <3>3
  <2>6. OrderInv'
    <3>1. ASSUME NEW i \in 1 .. Len(callbacks'), NEW j \in 1 .. Len(callbacks'), i < j,
                 callbacks'[i] \in Registrations, callbacks'[j] \in Registrations
          PROVE  ctx[callbacks'[i]] < ctx[callbacks'[j]]
      <4>1. i \in 1 .. Len(callbacks) /\ callbacks'[i] = callbacks[i]
        BY <2>2, <3>1
      <4>2. CASE j = Len(callbacks) + 1
        BY <2>2, <2>5, <3>1, <4>1, <4>2
      <4>3. CASE j # Len(callbacks) + 1
        <5>1. j \in 1 .. Len(callbacks) /\ callbacks'[j] = callbacks[j]
          BY <2>2, <4>3
        <5>2. QED
          BY <1>4, <3>1, <4>1, <5>1 DEF OrderInv
      <4>4. QED
        BY <4>2, <4>3
    <3>2. QED
      BY <1>1, <1>4, <3>1 DEF OrderInv
  <2>7. QED
    BY <2>4, <2>6
<1>5. QED
  BY <1>1, <1>2, <1>3, <1>4 DEF CallsInv

\* A call takes the next registration: the one taken longest ago.
LEMMA NextRegistration ==
  ASSUME CallTypes, ContextsInv, safe_call
  PROVE  /\ idx' \in Registrations /\ calls' = calls + 1
         /\ ctx[idx'] = IF calls >= CmdMax THEN calls + 1 - CmdMax ELSE 0
         /\ ctx' \in [Registrations -> Nat]
         /\ ctx'[idx'] = calls + 1
         /\ \A r \in Registrations : r # idx' => ctx'[r] = ctx[r]
         /\ ContextsInv'
<1>1. /\ idx \in 0 .. CmdMax - 1 /\ CmdMax \in Nat /\ CmdMax > 0 /\ calls \in Nat
      /\ ctx \in [Registrations -> Nat]
  BY RegistrationsAre DEF CallTypes, Registrations
<1>2. /\ idx' = next_registration /\ calls' = calls + 1
      /\ ctx' = [ctx EXCEPT ![idx'] = calls']
  BY DEF safe_call
<1>3. idx' = IF idx + 1 < CmdMax THEN idx + 1 ELSE 0
  BY <1>1, <1>2 DEF next_registration
<1>4. idx' \in Registrations
  BY <1>1, <1>3 DEF Registrations
<1>5. Age(idx') = CmdMax - 1
  BY <1>1, <1>3 DEF Age
<1>6. ctx[idx'] = IF calls > CmdMax - 1 THEN calls - (CmdMax - 1) ELSE 0
  BY <1>4, <1>5 DEF ContextsInv
<1>7. /\ ctx' \in [Registrations -> Nat] /\ ctx'[idx'] = calls + 1
      /\ \A r \in Registrations : r # idx' => ctx'[r] = ctx[r]
  BY <1>1, <1>2, <1>4
<1>8. ContextsInv'
  <2>1. ASSUME NEW r \in Registrations
        PROVE  ctx'[r] = IF calls' > Age(r)' THEN calls' - Age(r)' ELSE 0
    <3>1. r \in 0 .. CmdMax - 1
      BY DEF Registrations
    <3>2. Age(r)' = IF r = idx' THEN 0 ELSE Age(r) + 1
      BY <1>1, <1>3, <3>1 DEF Age
    <3>3. Age(r) \in Nat
      BY <1>1, <3>1 DEF Age
    <3>4. ctx[r] = IF calls > Age(r) THEN calls - Age(r) ELSE 0
      BY DEF ContextsInv
    <3>5. CASE r = idx'
      BY <1>1, <1>2, <1>7, <3>2, <3>5
    <3>6. CASE r # idx'
      <4>1. ctx'[r] = ctx[r] /\ Age(r)' = Age(r) + 1
        BY <1>7, <3>2, <3>6
      <4>2. QED
        BY <1>1, <1>2, <3>3, <3>4, <4>1
    <3>7. QED
      BY <3>5, <3>6
  <2>2. QED
    BY <2>1 DEF ContextsInv
<1>9. QED
  BY <1>1, <1>2, <1>4, <1>6, <1>7, <1>8

LEMMA SafeCallKeeps ==
  ASSUME CallsInv, safe_call
  PROVE  CallsInv' /\ OverrunStep
<1>1. /\ caller = "idle" /\ caller' = "add"
      /\ overrun' = (overrun \/ Contains(callbacks, idx') \/ current = idx')
      /\ UNCHANGED <<callbacks, loop, current, executed>>
  BY DEF safe_call
<1>2. /\ idx' \in Registrations /\ calls' = calls + 1
      /\ ctx[idx'] = IF calls >= CmdMax THEN calls + 1 - CmdMax ELSE 0
      /\ ctx' \in [Registrations -> Nat]
      /\ ctx'[idx'] = calls + 1
      /\ \A r \in Registrations : r # idx' => ctx'[r] = ctx[r]
      /\ ContextsInv'
  BY NextRegistration DEF CallsInv
<1>3. calls \in Nat /\ Len(executed) \in Nat /\ CmdMax \in Nat /\ CmdMax > 0
  BY RegistrationsAre DEF CallsInv, CallTypes
<1>4. CallTypes' /\ OnceInv'
  BY <1>1, <1>2, <1>3 DEF CallsInv, CallTypes, OnceInv
<1>5. ASSUME ~overrun, overrun' PROVE calls - Len(executed) >= CmdMax
  <2>1. InUse(idx') /\ UnfinishedInv
    BY <1>1, <1>5 DEF InUse, CallsInv
  <2>2. ctx[idx'] > Len(executed)
    BY <1>2, <2>1 DEF UnfinishedInv
  <2>3. QED
    BY <1>2, <1>3, <2>2
<1>6. ASSUME ~overrun, ~overrun' PROVE UnfinishedInv' /\ OrderInv'
  <2>1. /\ UnfinishedInv /\ OrderInv
        /\ ~Contains(callbacks, idx') /\ current # idx'
    BY <1>1, <1>6 DEF CallsInv
  <2>2. ~InUse(idx')
    BY <1>1, <2>1 DEF InUse
  <2>3. ~(ctx[idx'] > Len(executed))
    BY <1>2, <2>1, <2>2 DEF UnfinishedInv
  <2>4. Len(executed) <= calls + 1 /\ calls + 1 - Len(executed) <= CmdMax
    BY <1>2, <1>3, <2>1, <2>3 DEF UnfinishedInv
  <2>5. ASSUME NEW r \in Registrations PROVE InUse(r)' <=> ctx'[r] > Len(executed)
    <3>1. CASE r = idx'
      <4>1. InUse(r)'
        BY <1>1, <3>1 DEF InUse
      <4>2. ctx'[r] > Len(executed)
        BY <1>2, <1>3, <2>1, <3>1 DEF UnfinishedInv
      <4>3. QED
        BY <4>1, <4>2
    <3>2. CASE r # idx'
      <4>1. InUse(r)' <=> InUse(r)
        BY <1>1, <3>2 DEF InUse
      <4>2. QED
        BY <1>2, <2>1, <3>2, <4>1 DEF UnfinishedInv
    <3>3. QED
      BY <3>1, <3>2
  <2>6. UnfinishedInv'
    <3>1. \A r \in Registrations : current' = r =>
              ctx'[r] = Len(executed') + 1 /\ ~Contains(callbacks', r)
      BY <1>1, <1>2, <2>1 DEF UnfinishedInv
    <3>2. ~Contains(callbacks', idx') /\ current' # idx'
      BY <1>1, <2>1
    <3>3. Len(executed') <= calls' /\ calls' - Len(executed') <= CmdMax
      <4>1. Len(executed') = Len(executed) /\ calls' = calls + 1
        BY <1>1, <1>2
      <4>2. QED
        BY <1>3, <2>4, <4>1
    <3>4. \A r \in Registrations : InUse(r)' <=> ctx'[r] > Len(executed')
      BY <1>1, <2>5
    <3>5. QED
      BY <3>1, <3>2, <3>3, <3>4 DEF UnfinishedInv
  <2>7. \A i \in 1 .. Len(callbacks) : callbacks[i] \in Registrations =>
            ctx'[callbacks[i]] = ctx[callbacks[i]]
    BY <1>2, <2>1 DEF Contains
  <2>8. OrderInv'
    BY <1>1, <2>1, <2>7 DEF OrderInv
  <2>9. QED
    BY <2>6, <2>8
<1>7. overrun \in BOOLEAN /\ overrun' \in BOOLEAN /\ (overrun => overrun')
  BY <1>1, <1>4 DEF CallsInv, CallTypes
<1>8. QED
  BY <1>2, <1>4, <1>5, <1>6, <1>7 DEF CallsInv, OverrunStep

\* The loop takes the oldest call that is not finished.
LEMMA PopKeeps ==
  ASSUME CallsInv, pop_callback
  PROVE  CallsInv'
<1>1. /\ loop = "callbacks" /\ callbacks # <<>> /\ loop' = "call"
      /\ current' = Head(callbacks) /\ callbacks' = Tail(callbacks)
      /\ UNCHANGED <<caller, idx, ctx, calls, executed, overrun>>
  BY DEF pop_callback, commands
<1>2. /\ callbacks \in Seq(Registrations \cup {Receive}) /\ current = NoReg
      /\ idx \in Registrations /\ calls \in Nat /\ Len(executed) \in Nat
  BY <1>1 DEF CallsInv, CallTypes
<1>3. /\ Len(callbacks) \in Nat /\ Len(callbacks) > 0
      /\ Head(callbacks) = callbacks[1] /\ callbacks[1] \in Registrations \cup {Receive}
      /\ callbacks' \in Seq(Registrations \cup {Receive})
      /\ Len(callbacks') = Len(callbacks) - 1
      /\ \A i \in 1 .. Len(callbacks) - 1 : callbacks'[i] = callbacks[i + 1]
  BY <1>1, <1>2
<1>4. CallTypes'
  BY <1>1, <1>3 DEF CallsInv, CallTypes
<1>5. ContextsInv'
  BY <1>1 DEF CallsInv, ContextsInv, Age
<1>6. OnceInv'
  BY <1>3 DEF CallsInv, OnceInv
<1>7. /\ ~Contains(callbacks', callbacks[1])
      /\ \A y : Contains(callbacks, y) <=> Contains(callbacks', y) \/ y = callbacks[1]
  <2>1. ASSUME Contains(callbacks', callbacks[1]) PROVE FALSE
    <3>1. PICK i \in 1 .. Len(callbacks) - 1 : callbacks[i + 1] = callbacks[1]
      BY <1>3, <2>1 DEF Contains
    <3>2. i + 1 = 1
      BY <1>3, <3>1 DEF CallsInv, OnceInv
    <3>3. QED
      BY <3>2
  <2>2. ASSUME NEW y, Contains(callbacks, y), y # callbacks[1]
        PROVE  Contains(callbacks', y)
    <3>1. PICK i \in 1 .. Len(callbacks) : callbacks[i] = y
      BY <2>2 DEF Contains
    <3>2. i - 1 \in 1 .. Len(callbacks) - 1 /\ callbacks'[i - 1] = y
      BY <1>3, <2>2, <3>1
    <3>3. QED
      BY <1>3, <3>2 DEF Contains
  <2>3. ASSUME NEW y, Contains(callbacks', y) \/ y = callbacks[1]
        PROVE  Contains(callbacks, y)
    BY <1>3, <2>3 DEF Contains
  <2>4. QED
    BY <2>1, <2>2, <2>3
<1>8. ASSUME UnfinishedInv, OrderInv PROVE UnfinishedInv' /\ OrderInv'
  <2>1. \A r \in Registrations : InUse(r)' <=> InUse(r)
    BY <1>1, <1>2, <1>3, <1>7, RegistrationsAre DEF InUse
  <2>2. ASSUME NEW r \in Registrations, r = callbacks[1]
        PROVE  ctx[r] = Len(executed) + 1
    <3>1. InUse(r)
      BY <1>7, <2>2 DEF InUse
    <3>2. ctx[r] > Len(executed) /\ ctx[r] \in Nat /\ ctx[r] <= calls
      BY <1>8, <3>1, ContextsDiffer DEF UnfinishedInv, CallsInv
    <3>3. ASSUME ctx[r] # Len(executed) + 1 PROVE FALSE
      <4> DEFINE n == Len(executed) + 1
      <4>1. n \in 1 .. calls /\ calls - n < CmdMax /\ n < ctx[r]
        BY <1>2, <1>8, <3>2, <3>3, RegistrationsAre DEF UnfinishedInv
      <4>2. PICK q \in Registrations : ctx[q] = n
        BY <4>1, CallHeld DEF CallsInv
      <4>3. InUse(q) /\ q # r
        BY <1>2, <1>8, <4>1, <4>2 DEF UnfinishedInv
      <4>4. CASE Contains(callbacks, q)
        <5>1. PICK i \in 1 .. Len(callbacks) : callbacks[i] = q
          BY <4>4 DEF Contains
        <5>2. 1 \in 1 .. Len(callbacks) /\ 1 < i
          BY <1>3, <2>2, <4>3, <5>1
        <5>3. ctx[r] < ctx[q]
          BY <1>8, <2>2, <5>1, <5>2 DEF OrderInv
        <5>4. QED
          BY <1>2, <3>2, <4>1, <4>2, <5>3
      <4>5. CASE caller = "add" /\ idx = q
        <5>1. n = calls
          BY <4>2, <4>5, ContextsDiffer DEF CallsInv
        <5>2. QED
          BY <1>2, <3>2, <4>1, <5>1
      <4>6. QED
        BY <1>2, <4>3, <4>4, <4>5, RegistrationsAre DEF InUse
    <3>4. QED
      BY <3>3
  <2>3. caller = "add" => ~Contains(callbacks', idx) /\ current' # idx
    BY <1>1, <1>3, <1>7, <1>8 DEF UnfinishedInv
  <2>4. \A r \in Registrations : current' = r =>
            ctx[r] = Len(executed) + 1 /\ ~Contains(callbacks', r)
    BY <1>1, <1>3, <1>7, <2>2
  <2>5. UnfinishedInv'
    BY <1>1, <1>8, <2>1, <2>3, <2>4 DEF UnfinishedInv
  <2>6. OrderInv'
    BY <1>1, <1>3, <1>8 DEF OrderInv
  <2>7. QED
    BY <2>5, <2>6
<1>9. QED
  BY <1>1, <1>4, <1>5, <1>6, <1>8 DEF CallsInv

\* The oldest call is finished.
LEMMA RunKeeps ==
  ASSUME CallsInv, run_command
  PROVE  CallsInv'
<1>1. /\ current \in Registrations /\ executed' = Append(executed, ctx[current])
      /\ current' = NoReg
      /\ UNCHANGED <<callbacks, caller, idx, ctx, calls, overrun>>
  BY DEF run_command
<1>2. /\ executed \in Seq(Nat) /\ ctx[current] \in Nat /\ calls \in Nat
      /\ idx \in Registrations /\ current # NoReg
  BY <1>1, RegistrationsAre DEF CallsInv, CallTypes
<1>3. /\ executed' \in Seq(Nat) /\ Len(executed') = Len(executed) + 1
      /\ Len(executed) \in Nat
      /\ \A i \in 1 .. Len(executed) : executed'[i] = executed[i]
      /\ executed'[Len(executed) + 1] = ctx[current]
  BY <1>1, <1>2, AppendIs
<1>4. CallTypes'
  BY <1>1, <1>3 DEF CallsInv, CallTypes
<1>5. ContextsInv' /\ OnceInv'
  BY <1>1 DEF CallsInv, ContextsInv, OnceInv, Age
<1>6. ASSUME UnfinishedInv, OrderInv PROVE UnfinishedInv' /\ OrderInv'
  <2>1. /\ ctx[current] = Len(executed) + 1 /\ ~Contains(callbacks, current)
        /\ ~(caller = "add" /\ idx = current)
    BY <1>1, <1>6 DEF UnfinishedInv
  <2>2. ASSUME NEW r \in Registrations
        PROVE  InUse(r)' <=> ctx[r] > Len(executed) + 1
    <3>1. InUse(r)' <=> InUse(r) /\ r # current
      BY <1>1, <1>2, <2>1, RegistrationsAre DEF InUse
    <3>2. InUse(r) <=> ctx[r] > Len(executed)
      BY <1>6 DEF UnfinishedInv
    <3>3. ctx[r] \in Nat /\ (ctx[r] = Len(executed) + 1 <=> r = current)
      BY <1>1, <1>3, <2>1, ContextsDiffer DEF CallsInv
    <3>4. QED
      BY <1>3, <3>1, <3>2, <3>3
  <2>3. Len(executed) + 1 <= calls
    BY <1>1, <2>1, ContextsDiffer DEF CallsInv
  <2>4. /\ Len(executed') <= calls' /\ calls' - Len(executed') <= CmdMax
    BY <1>1, <1>2, <1>3, <1>6, <2>3, RegistrationsAre DEF UnfinishedInv
  <2>5. \A r \in Registrations : current' # r
    BY <1>1, RegistrationsAre
  <2>6. UnfinishedInv'
    BY <1>1, <1>2, <1>3, <1>6, <2>2, <2>4, <2>5 DEF UnfinishedInv
  <2>7. OrderInv'
    BY <1>1, <1>3, <1>6, <2>1 DEF OrderInv
  <2>8. QED
    BY <2>6, <2>7
<1>7. QED
  BY <1>1, <1>4, <1>5, <1>6 DEF CallsInv

LEMMA CallsStep ==
  ASSUME CallsInv, [Next]_vars
  PROVE  CallsInv' /\ (OverrunStep \/ UNCHANGED vars)
<1>1. CASE safe_call
  BY <1>1, SafeCallKeeps
<1>2. ASSUME UNCHANGED overrun PROVE OverrunStep
  BY <1>2 DEF OverrunStep
<1>3. CASE call_add
  BY <1>2, <1>3, CallAddedKeeps DEF call_add
<1>4. CASE recv_add
  BY <1>2, <1>4, ReceiveAddedKeeps DEF recv_add, commands
<1>5. CASE pop_callback
  BY <1>2, <1>5, PopKeeps DEF pop_callback, commands
<1>6. CASE run_command
  BY <1>2, <1>6, RunKeeps DEF run_command
<1>7. CASE \/ \E len \in Lens : host_recv_pkt_cb(len)
           \/ recv_tag \/ recv_packet \/ recv_trigger \/ call_trigger
           \/ no_callback \/ wake_up \/ timer_due
           \/ deliver_tag \/ deliver_packet \/ deliver_done \/ UNCHANGED vars
  <2>1. /\ UNCHANGED <<idx, ctx, calls, executed, callbacks, overrun>>
        /\ current' = current \/ (current = Receive /\ current' = NoReg)
        /\ caller' = "add" <=> caller = "add"
    BY <1>7 DEF host_recv_pkt_cb, recv_tag, recv_packet, recv_trigger, call_trigger,
                no_callback, wake_up, timer_due, deliver_tag, deliver_packet,
                deliver_done, vars, commands
  <2>2. loop' \in {"callbacks", "wait"} => current' = NoReg
    BY <1>7 DEF host_recv_pkt_cb, recv_tag, recv_packet, recv_trigger, call_trigger,
                no_callback, wake_up, timer_due, deliver_tag, deliver_packet,
                deliver_done, vars, CallsInv, CallTypes
  <2>3. QED
    BY <1>2, <2>1, <2>2, CallsFrame
<1>8. QED
  BY <1>1, <1>3, <1>4, <1>5, <1>6, <1>7
  DEF Next, LoopNext, RecvNext, RecvGoesOn, CallNext

LEMMA CallsStart == Init => CallsInv
<1> SUFFICES ASSUME Init PROVE CallsInv
  OBVIOUS
<1>1. /\ callbacks = <<>> /\ current = NoReg /\ caller = "idle" /\ idx = 0
      /\ ctx = [i \in Registrations |-> 0] /\ calls = 0 /\ executed = <<>>
      /\ overrun = FALSE
  BY DEF Init
<1>2. 0 \in Registrations
  BY RegistrationsAre
<1>3. CallTypes
  BY <1>1, <1>2 DEF CallTypes
<1>4. ContextsInv
  <2>1. \A r \in Registrations : Age(r) \in Nat
    BY <1>1, RegistrationsAre DEF Age
  <2>2. QED
    BY <1>1, <2>1 DEF ContextsInv
<1>5. OnceInv /\ OrderInv
  BY <1>1 DEF OnceInv, OrderInv
<1>6. UnfinishedInv
  BY <1>1, RegistrationsAre DEF UnfinishedInv, InUse, Contains
<1>7. QED
  BY <1>3, <1>4, <1>5, <1>6 DEF CallsInv

\* As long as no registration was taken while in use, the safe calls of the other
\* task are executed once and in the order they were made, whatever the number of
\* registrations and of calls, although a call's context is read after the list's
\* mutex is given back.
THEOREM SafeCallsInOrder == Spec => []CallsInOrder
<1>1. CallsInv => CallsInOrder
  <2> SUFFICES ASSUME CallsInv, ~overrun
               PROVE  executed = [i \in 1 .. Len(executed) |-> i]
    BY DEF CallsInOrder
  <2>1. executed \in Seq(Nat) /\ \A i \in 1 .. Len(executed) : executed[i] = i
    BY DEF CallsInv, CallTypes, OrderInv
  <2>2. executed = [i \in 1 .. Len(executed) |-> executed[i]]
    BY <2>1
  <2>3. QED
    BY <2>1, <2>2
<1>2. CallsInv /\ [Next]_vars => CallsInv'
  BY CallsStep
<1>3. QED
  BY <1>1, <1>2, CallsStart, PTL DEF Spec

\* A registration is taken while in use only by a call that finds as many unfinished
\* ones as there are registrations.
THEOREM SafeCallsFit == Spec => OverrunOnlyWhenFull
<1>1. CallsInv /\ [Next]_vars => CallsInv' /\ [OverrunStep]_vars
  BY CallsStep
<1>2. QED
  BY <1>1, CallsStart, PTL DEF Spec, OverrunOnlyWhenFull

-------------------------------------------------------------------------------
(* The packets. *)

\* pos[k] is the place in the queue of the first byte of packet k of a, the bytes
\* that were taken out being before place 1.
Spaced(a, pos) ==
    /\ pos \in [1 .. Len(a) + 1 -> Int]
    /\ \A k \in 1 .. Len(a) : pos[k + 1] = pos[k] + 2 + a[k][2]
    /\ \A k, l \in 1 .. Len(a) + 1 : k < l => pos[k] + 2 + a[k][2] <= pos[l]

\* What is in the queue c are the tags and the bytes of those packets, at their places.
Framed(c, a, pos) ==
    \A k \in 1 .. Len(a) : \A j \in -1 .. a[k][2] :
        pos[k] + j + 1 \in 1 .. Len(c) => c[pos[k] + j + 1] = <<a[k], j>>

\* The mutex keeps the two tasks from being inside a packet at the same time.
MutexInv ==
    /\ taken <=> recv \in {"tag", "packet"} \/ loop = "packet"
    /\ recv \in {"tag", "packet"} => loop # "packet"

\* The receiver has put in the last packet up to here, and the rest of it fits.
BackInv(pos) ==
    LET n == Len(accepted) IN
    /\ recv = "tag" => /\ Len(Contents) + 1 = pos[n]
                       /\ bytes_free >= accepted[n][2] + 2
    /\ recv = "packet" => /\ Len(Contents) + 1 = pos[n] + 2
                          /\ bytes_free >= accepted[n][2]
    /\ recv \notin {"tag", "packet"} => Len(Contents) + 1 = pos[n + 1]

\* The loop takes out the first packet that it has not delivered.
FrontInv(pos) ==
    LET d == Len(delivered) IN
    /\ delivered \in Seq(Packets)
    /\ d <= Len(accepted) /\ \A k \in 1 .. d : delivered[k] = accepted[k]
    /\ loop # "packet" => pos[d + 1] = 1
    /\ loop = "packet" => /\ d < Len(accepted) /\ pos[d + 1] = -1
                          /\ out = Part(accepted[d + 1], -1, 0)

StreamInv ==
    \E pos : /\ Spaced(accepted, pos) /\ Framed(Contents, accepted, pos)
             /\ BackInv(pos) /\ FrontInv(pos)

PacketsInv == /\ TransportOK /\ MutexInv
              /\ \A k \in 1 .. Len(accepted) : accepted[k][2] <= size
              /\ squeezed \in BOOLEAN /\ (squeezed \/ StreamInv)

LEMMA PacketLength ==
  ASSUME NEW a \in Seq(Packets)
  PROVE  /\ Len(a) \in Nat
         /\ \A k \in 1 .. Len(a) : a[k] \in Packets /\ a[k][2] \in Nat
<1>1. Lens \subseteq Nat
  BY TransportAssumption
<1>2. \A p \in Packets : p[2] \in Nat
  BY <1>1 DEF Packets
<1>3. QED
  BY <1>2

\* A packet is accepted: its place is behind all others.
LEMMA FramedAccept ==
  ASSUME NEW a \in Seq(Packets), NEW p \in Packets, NEW c, NEW pos,
         Spaced(a, pos), Framed(c, a, pos), Len(c) \in Nat, Len(c) + 1 = pos[Len(a) + 1]
  PROVE  \E q : /\ Spaced(Append(a, p), q) /\ Framed(c, Append(a, p), q)
                /\ \A k \in 1 .. Len(a) + 1 : q[k] = pos[k]
<1> DEFINE n == Len(a)
           b == Append(a, p)
           q == [k \in 1 .. n + 2 |-> IF k <= n + 1 THEN pos[k] ELSE pos[n + 1] + 2 + p[2]]
<1>1. /\ n \in Nat /\ b \in Seq(Packets) /\ Len(b) = n + 1 /\ b[n + 1] = p
      /\ \A k \in 1 .. n : b[k] = a[k] /\ a[k][2] \in Nat
      /\ p[2] \in Nat
  <2>1. p[2] \in Nat
    BY TransportAssumption DEF Packets
  <2>2. QED
    BY <2>1, PacketLength, AppendIs
<1>2. /\ pos \in [1 .. n + 1 -> Int]
      /\ \A k \in 1 .. n : pos[k + 1] = pos[k] + 2 + a[k][2]
      /\ \A k, l \in 1 .. n + 1 : k < l => pos[k] + 2 + a[k][2] <= pos[l]
  BY DEF Spaced
<1>a. Len(c) + 1 = pos[n + 1]
  OBVIOUS
<1> HIDE DEF n, b
<1>3. /\ \A k \in 1 .. n + 1 : q[k] = pos[k] /\ q[k] \in Int
      /\ q[n + 2] = pos[n + 1] + 2 + p[2] /\ q[n + 2] \in Int
  BY <1>1, <1>2
<1>4. q \in [1 .. n + 2 -> Int]
  BY <1>1, <1>2
<1> HIDE DEF q
<1>5. Spaced(b, q)
  <2>1. \A k \in 1 .. n + 1 : q[k + 1] = q[k] + 2 + b[k][2]
    <3> SUFFICES ASSUME NEW k \in 1 .. n + 1 PROVE q[k + 1] = q[k] + 2 + b[k][2]
      OBVIOUS
    <3>1. CASE k = n + 1
      BY <1>1, <1>3, <3>1
    <3>2. CASE k # n + 1
      <4>1. k \in 1 .. n /\ k + 1 \in 1 .. n + 1
        BY <1>1, <3>2
      <4>2. QED
        BY <1>1, <1>2, <1>3, <4>1
    <3>3. QED
      BY <3>1, <3>2
  <2>2. ASSUME NEW k \in 1 .. n + 2, NEW l \in 1 .. n + 2, k < l
        PROVE  q[k] + 2 + b[k][2] <= q[l]
    <3>1. CASE l <= n + 1
      <4>1. k \in 1 .. n /\ l \in 1 .. n + 1 /\ k \in 1 .. n + 1
        BY <1>1, <2>2, <3>1
      <4>2. QED
        BY <1>1, <1>2, <1>3, <2>2, <4>1
    <3>2. CASE l = n + 2 /\ k = n + 1
      BY <1>1, <1>3, <3>2
    <3>3. CASE l = n + 2 /\ k <= n
      <4>1. k \in 1 .. n /\ k \in 1 .. n + 1 /\ n + 1 \in 1 .. n + 1 /\ k < n + 1
        BY <1>1, <3>3
      <4>2. pos[k] + 2 + a[k][2] <= pos[n + 1]
        BY <1>2, <4>1
      <4>3. /\ q[k] = pos[k] /\ b[k][2] = a[k][2] /\ q[l] = pos[n + 1] + 2 + p[2]
            /\ pos[k] \in Int /\ pos[n + 1] \in Int /\ a[k][2] \in Nat
        BY <1>1, <1>2, <1>3, <3>3, <4>1
      <4>4. pos[k] + 2 + a[k][2] <= pos[n + 1] + 2 + p[2]
        <5> DEFINE x == pos[k]
                   y == pos[n + 1]
                   z == a[k][2]
                   u == p[2]
        <5>1. x \in Int /\ y \in Int /\ z \in Nat /\ u \in Nat
          BY <1>1, <4>3
        <5>2. x + 2 + z <= y
          BY <4>2
        <5> HIDE DEF x, y, z, u
        <5>3. x + 2 + z <= y + 2 + u
          BY <5>1, <5>2
        <5>4. QED
          BY <5>3 DEF x, y, z, u
      <4>5. QED
        BY <4>3, <4>4
    <3>4. QED
      BY <1>1, <2>2, <3>1, <3>2, <3>3
  <2>3. Len(b) + 1 = n + 2
    BY <1>1
  <2>4. QED
    BY <1>1, <1>4, <2>1, <2>2, <2>3 DEF Spaced
<1>6. Framed(c, b, q)
  <2> SUFFICES ASSUME NEW k \in 1 .. n + 1, NEW j \in -1 .. b[k][2],
                      q[k] + j + 1 \in 1 .. Len(c)
               PROVE  c[q[k] + j + 1] = <<b[k], j>>
    BY <1>1 DEF Framed
  <2>1. CASE k = n + 1
    BY <1>1, <1>2, <1>3, <1>a, <2>1
  <2>2. CASE k # n + 1
    <3>1. k \in 1 .. n /\ q[k] = pos[k] /\ b[k] = a[k]
      BY <1>1, <1>3, <2>2
    <3>2. QED
      BY <3>1 DEF Framed, n
  <2>3. QED
    BY <2>1, <2>2
<1>7. QED
  BY <1>3, <1>5, <1>6 DEF n, b

\* Bytes are taken out: every place moves.
LEMMA FramedTake ==
  ASSUME NEW a \in Seq(Packets), NEW c \in Seq(Bytes), NEW pos, NEW m \in 0 .. Len(c),
         Spaced(a, pos), Framed(c, a, pos)
  PROVE  \E q : /\ Spaced(a, q) /\ Framed(SubSeq(c, m + 1, Len(c)), a, q)
                /\ \A k \in 1 .. Len(a) + 1 : q[k] = pos[k] - m
<1> DEFINE n == Len(a)
           e == SubSeq(c, m + 1, Len(c))
           q == [k \in 1 .. n + 1 |-> pos[k] - m]
<1>1. n \in Nat /\ \A k \in 1 .. n : a[k][2] \in Nat
  BY PacketLength
<1>2. /\ pos \in [1 .. n + 1 -> Int]
      /\ \A k \in 1 .. n : pos[k + 1] = pos[k] + 2 + a[k][2]
      /\ \A k, l \in 1 .. n + 1 : k < l => pos[k] + 2 + a[k][2] <= pos[l]
  BY DEF Spaced
<1>3. /\ m \in Nat /\ Len(c) \in Nat /\ Len(e) = Len(c) - m
      /\ \A i \in 1 .. Len(c) - m : e[i] = c[i + m]
  <2>1. m \in Nat /\ Len(c) \in Nat /\ m <= Len(c)
    OBVIOUS
  <2>2. Len(e) = Len(c) - m
    BY <2>1, SubSeqProperties
  <2>3. ASSUME NEW i \in 1 .. Len(c) - m PROVE e[i] = c[i + m]
    <3>1. e[i] = c[m + 1 + i - 1]
      BY <2>1, SubSeqProperties
    <3>2. m + 1 + i - 1 = i + m
      BY <2>1
    <3>3. QED
      BY <3>1, <3>2
  <2>4. QED
    BY <2>1, <2>2, <2>3
<1>a. Framed(c, a, pos) /\ n = Len(a)
  OBVIOUS
<1> HIDE DEF n, e
<1>4. q \in [1 .. n + 1 -> Int] /\ \A k \in 1 .. n + 1 : q[k] = pos[k] - m
  BY <1>2, <1>3
<1> HIDE DEF q
<1>5. Spaced(a, q)
  <2>1. \A k \in 1 .. n : q[k + 1] = q[k] + 2 + a[k][2]
    <3> SUFFICES ASSUME NEW k \in 1 .. n PROVE q[k + 1] = q[k] + 2 + a[k][2]
      OBVIOUS
    <3>1. k \in 1 .. n + 1 /\ k + 1 \in 1 .. n + 1
      BY <1>1
    <3>2. /\ pos[k + 1] = pos[k] + 2 + a[k][2] /\ pos[k] \in Int /\ a[k][2] \in Nat
          /\ q[k + 1] = pos[k + 1] - m /\ q[k] = pos[k] - m
      BY <1>1, <1>2, <1>4, <3>1
    <3>3. pos[k] + 2 + a[k][2] - m = pos[k] - m + 2 + a[k][2]
      <4> DEFINE x == pos[k]
                 z == a[k][2]
      <4>1. m \in Nat /\ x \in Int /\ z \in Nat
        BY <1>3, <3>2
      <4> HIDE DEF x, z
      <4>2. x + 2 + z - m = x - m + 2 + z
        BY <4>1
      <4>3. QED
        BY <4>2 DEF x, z
    <3>4. QED
      BY <3>2, <3>3
  <2>2. ASSUME NEW k \in 1 .. n + 1, NEW l \in 1 .. n + 1, k < l
        PROVE  q[k] + 2 + a[k][2] <= q[l]
    <3>1. k \in 1 .. n
      BY <1>1, <2>2
    <3>2. pos[k] + 2 + a[k][2] <= pos[l] /\ pos[k] \in Int /\ pos[l] \in Int
      BY <1>2, <2>2
    <3>3. a[k][2] \in Nat /\ q[k] = pos[k] - m /\ q[l] = pos[l] - m
      BY <1>1, <1>4, <3>1
    <3>4. pos[k] - m + 2 + a[k][2] <= pos[l] - m
      <4> DEFINE x == pos[k]
                 y == pos[l]
                 z == a[k][2]
      <4>1. m \in Nat /\ x \in Int /\ y \in Int /\ z \in Nat
        BY <1>3, <3>2, <3>3
      <4>2. x + 2 + z <= y
        BY <3>2
      <4> HIDE DEF x, y, z
      <4>3. x - m + 2 + z <= y - m
        BY <4>1, <4>2
      <4>4. QED
        BY <4>3 DEF x, y, z
    <3>5. QED
      BY <3>3, <3>4
  <2>3. QED
    BY <1>4, <1>a, <2>1, <2>2 DEF Spaced
<1>6. Framed(e, a, q)
  <2> SUFFICES ASSUME NEW k \in 1 .. n, NEW j \in -1 .. a[k][2],
                      q[k] + j + 1 \in 1 .. Len(e)
               PROVE  e[q[k] + j + 1] = <<a[k], j>>
    BY <1>a DEF Framed
  <2>a. a[k][2] \in Nat /\ k \in 1 .. n + 1
    BY <1>1
  <2>1. pos[k] \in Int /\ a[k][2] \in Nat /\ j \in Int /\ k \in 1 .. n + 1
    BY <1>2, <2>a
  <2>2. q[k] = pos[k] - m
    BY <1>4, <2>1
  <2>3. /\ q[k] + j + 1 + m = pos[k] + j + 1
        /\ pos[k] + j + 1 \in 1 .. Len(c)
        /\ q[k] + j + 1 \in 1 .. Len(c) - m
    <3>1. pos[k] - m + j + 1 \in 1 .. Len(c) - m
      BY <1>3, <2>2
    <3>2. /\ pos[k] - m + j + 1 + m = pos[k] + j + 1
          /\ pos[k] + j + 1 \in 1 .. Len(c)
      <4> DEFINE x == pos[k]
                 y == Len(c)
      <4>1. m \in Nat /\ y \in Nat /\ x \in Int /\ j \in Int
        BY <1>3, <2>1
      <4>2. x - m + j + 1 \in 1 .. y - m
        BY <3>1
      <4> HIDE DEF x, y
      <4>3. x - m + j + 1 + m = x + j + 1 /\ x + j + 1 \in 1 .. y
        BY <4>1, <4>2
      <4>4. QED
        BY <4>3 DEF x, y
    <3>3. QED
      BY <2>2, <3>1, <3>2
  <2>4. e[q[k] + j + 1] = c[pos[k] + j + 1]
    BY <1>3, <2>3
  <2>5. QED
    BY <1>a, <2>3, <2>4 DEF Framed
<1>7. QED
  BY <1>4, <1>5, <1>6 DEF n, e

\* Bytes of the last packet are put in at their place.
LEMMA FramedPut ==
  ASSUME NEW a \in Seq(Packets), a # <<>>, NEW c \in Seq(Bytes), NEW d \in Seq(Bytes),
         NEW pos, Spaced(a, pos), Framed(c, a, pos), NEW from \in Int, from >= -1,
         Len(c) + 1 = pos[Len(a)] + from + 1,
         \A i \in 1 .. Len(d) : d[i] = <<a[Len(a)], from + i - 1>>
  PROVE  Framed(c \o d, a, pos)
<1> DEFINE n == Len(a)
           e == c \o d
<1>1. /\ n \in Nat /\ n > 0 /\ \A k \in 1 .. n : a[k][2] \in Nat
  BY PacketLength
<1>2. /\ pos \in [1 .. n + 1 -> Int]
      /\ \A k, l \in 1 .. n + 1 : k < l => pos[k] + 2 + a[k][2] <= pos[l]
  BY DEF Spaced
<1>3. /\ Len(c) \in Nat /\ Len(d) \in Nat /\ Len(e) = Len(c) + Len(d)
      /\ \A i \in 1 .. Len(c) + Len(d) :
            e[i] = IF i <= Len(c) THEN c[i] ELSE d[i - Len(c)]
  BY ConcatProperties
<1>a. Framed(c, a, pos) /\ n = Len(a) /\ Len(c) + 1 = pos[n] + from + 1
      /\ \A i \in 1 .. Len(d) : d[i] = <<a[n], from + i - 1>>
  OBVIOUS
<1> HIDE DEF n, e
<1>4. SUFFICES ASSUME NEW k \in 1 .. n, NEW j \in -1 .. a[k][2],
                      pos[k] + j + 1 \in 1 .. Len(e)
               PROVE  e[pos[k] + j + 1] = <<a[k], j>>
  BY <1>a DEF Framed, e
<1> DEFINE i == pos[k] + j + 1
<1>5. i \in 1 .. Len(c) + Len(d) /\ j \in Int /\ pos[k] \in Int /\ pos[n] \in Int
  BY <1>1, <1>2, <1>3, <1>4
<1>b. i = pos[k] + j + 1
  OBVIOUS
<1> HIDE DEF i
<1>6. CASE i <= Len(c)
  <2>1. i \in 1 .. Len(c)
    BY <1>3, <1>5, <1>6
  <2>2. QED
    BY <1>3, <1>5, <1>6, <1>a, <1>b, <2>1 DEF Framed
<1>7. CASE i > Len(c)
  <2>1. k = n
    <3>1. ASSUME k < n PROVE FALSE
      <4>1. k \in 1 .. n + 1 /\ n \in 1 .. n + 1
        BY <1>1
      <4>2. pos[k] + 2 + a[k][2] <= pos[n]
        BY <1>2, <3>1, <4>1
      <4>3. a[k][2] \in Nat /\ j <= a[k][2] /\ Len(c) + 1 = pos[n] + from + 1
        BY <1>1, <1>a
      <4>4. pos[k] + j + 1 <= Len(c)
        <5> DEFINE x == pos[k]
                   y == pos[n]
                   z == a[k][2]
                   u == Len(c)
        <5>1. x \in Int /\ y \in Int /\ z \in Nat /\ u \in Nat /\ j \in Int
          BY <1>3, <1>5, <4>3
        <5>2. x + 2 + z <= y /\ j <= z /\ u + 1 = y + from + 1
          BY <4>2, <4>3
        <5> HIDE DEF x, y, z, u
        <5>3. x + j + 1 <= u
          BY <5>1, <5>2
        <5>4. QED
          BY <5>3 DEF x, u
      <4>5. QED
        BY <1>3, <1>5, <1>7, <1>b, <4>4
    <3>2. QED
      BY <1>1, <3>1
  <2>2. i - Len(c) \in 1 .. Len(d) /\ from + (i - Len(c)) - 1 = j
    <3>1. i = pos[n] + j + 1 /\ Len(c) + 1 = pos[n] + from + 1
      BY <1>a, <1>b, <2>1
    <3>2. i \in Int /\ i <= Len(c) + Len(d)
      BY <1>3, <1>5
    <3> DEFINE y == pos[n]
               u == Len(c)
               v == Len(d)
    <3>3. y \in Int /\ u \in Nat /\ v \in Nat /\ j \in Int
      BY <1>3, <1>5
    <3>4. i = y + j + 1 /\ u + 1 = y + from + 1 /\ i > u /\ i <= u + v
      BY <1>7, <3>1, <3>2
    <3> HIDE DEF y, u, v
    <3>5. i - u \in 1 .. v /\ from + (i - u) - 1 = j
      BY <3>2, <3>3, <3>4
    <3>6. QED
      BY <3>5 DEF u, v
  <2>3. e[i] = d[i - Len(c)]
    BY <1>3, <1>5, <1>7
  <2>4. d[i - Len(c)] = <<a[n], from + (i - Len(c)) - 1>>
    BY <1>a, <2>2
  <2>5. QED
    BY <1>b, <2>1, <2>2, <2>3, <2>4
<1>8. QED
  BY <1>3, <1>5, <1>6, <1>7, <1>b

\* A step of neither the receiver nor the reader.
LEMMA StreamFrame ==
  ASSUME StreamInv, UNCHANGED <<ringVars, accepted, delivered>>,
         recv' \in {"tag", "packet"} \/ recv \in {"tag", "packet"} => recv' = recv,
         loop' = "packet" <=> loop = "packet"
  PROVE  StreamInv'
<1>1. /\ Contents' = Contents /\ bytes_free' = bytes_free /\ out' = out
  BY DEF ringVars, Contents, bytes_available, bytes_free
<1>2. PICK pos : /\ Spaced(accepted, pos) /\ Framed(Contents, accepted, pos)
                 /\ BackInv(pos) /\ FrontInv(pos)
  BY DEF StreamInv
<1>3. Spaced(accepted', pos) /\ Framed(Contents', accepted', pos)
  BY <1>1, <1>2
<1>4. BackInv(pos)'
  BY <1>1, <1>2 DEF BackInv
<1>5. FrontInv(pos)'
  BY <1>1, <1>2 DEF FrontInv
<1>6. QED
  BY <1>3, <1>4, <1>5 DEF StreamInv

\* The lengths in the queue's terms.
LEMMA RoomIs ==
  ASSUME RingOK
  PROVE  /\ Contents \in Seq(Bytes) /\ Len(Contents) \in Nat
         /\ bytes_free \in Nat /\ bytes_free = size - Len(Contents)
<1>1. Contents \in Seq(Bytes) /\ Len(Contents) = bytes_available
  BY ContentsIs DEF Laid
<1>2. QED
  BY <1>1, AvailableIs, SizeAssumption

Room == bytes_free = size - Len(Contents)

LEMMA RoomAlways == RingOK => Room
BY RoomIs DEF Room

\* host_recv_pkt_cb: the packet and its tag fit.
LEMMA AcceptKeeps ==
  ASSUME PacketsInv, StreamInv, NEW len \in Lens, host_recv_pkt_cb(len), ~squeezed'
  PROVE  StreamInv'
<1>1. /\ UNCHANGED <<ringVars, loop, delivered>> /\ recv = "idle" /\ recv' = "tag"
      /\ squeezed' = (squeezed \/ bytes_free < len + 2)
      /\ accepted' = Append(accepted, <<Len(accepted) + 1, len>>)
      /\ Len(accepted) < MaxPackets /\ ~taken
  BY DEF host_recv_pkt_cb, xSemaphoreTake
<1>2. accepted \in Seq(Packets) /\ RingOK /\ Len(accepted) \in Nat /\ len \in Nat
  BY TransportAssumption DEF PacketsInv, TransportOK
<1> DEFINE p == <<Len(accepted) + 1, len>>
           n == Len(accepted)
<1>3. p \in Packets /\ p[2] = len
  BY <1>1, <1>2, TransportAssumption DEF Packets
<1>4. /\ accepted' \in Seq(Packets) /\ Len(accepted') = n + 1
      /\ \A k \in 1 .. n : accepted'[k] = accepted[k]
      /\ accepted'[n + 1] = p
  BY <1>1, <1>2, <1>3, AppendIs
<1>5. /\ Contents' = Contents /\ bytes_free' = bytes_free /\ out' = out
  BY <1>1 DEF ringVars, Contents, bytes_available, bytes_free
<1>6. bytes_free >= len + 2
  <2>1. ~(bytes_free < len + 2)
    BY <1>1
  <2>2. QED
    BY <1>2, <2>1, RoomIs
<1>7. PICK pos : /\ Spaced(accepted, pos) /\ Framed(Contents, accepted, pos)
                 /\ BackInv(pos) /\ FrontInv(pos)
  BY DEF StreamInv
<1>8. Len(Contents) + 1 = pos[n + 1] /\ Len(Contents) \in Nat
  BY <1>1, <1>2, <1>7, RoomIs DEF BackInv
<1>9. PICK q : /\ Spaced(accepted', q) /\ Framed(Contents, accepted', q)
               /\ \A k \in 1 .. n + 1 : q[k] = pos[k]
  BY <1>1, <1>2, <1>3, <1>7, <1>8, FramedAccept
<1> HIDE DEF p, n
<1>10. BackInv(q)'
  <2>1. Len(Contents') + 1 = q[n + 1]
    BY <1>2, <1>5, <1>8, <1>9 DEF n
  <2>2. bytes_free' >= accepted'[n + 1][2] + 2
    BY <1>3, <1>4, <1>5, <1>6
  <2>3. QED
    BY <1>1, <1>4, <2>1, <2>2 DEF BackInv
<1>11. FrontInv(q)'
  <2> DEFINE d == Len(delivered)
  <2>1. /\ delivered \in Seq(Packets) /\ d \in Nat /\ d <= n
        /\ \A k \in 1 .. d : delivered[k] = accepted[k]
        /\ loop # "packet" => pos[d + 1] = 1
    BY <1>7 DEF FrontInv, n
  <2>2. loop # "packet"
    BY <1>1 DEF PacketsInv, MutexInv
  <2>3. d + 1 \in 1 .. n + 1 /\ d <= n + 1 /\ \A k \in 1 .. d : k \in 1 .. n
    BY <1>2, <2>1 DEF n
  <2>4. q[d + 1] = 1 /\ \A k \in 1 .. d : delivered[k] = accepted'[k]
    BY <1>4, <1>9, <2>1, <2>2, <2>3
  <2>5. QED
    BY <1>1, <1>4, <2>1, <2>2, <2>3, <2>4 DEF FrontInv
<1>12. QED
  BY <1>5, <1>9, <1>10, <1>11 DEF StreamInv

\* The tag and the packet go in at the packet's place.
LEMMA PutKeeps ==
  ASSUME PacketsInv, StreamInv, recv_tag \/ recv_packet
  PROVE  StreamInv'
<1> DEFINE n == Len(accepted)
           p == accepted[n]
           d == IF recv = "tag" THEN Part(p, -1, 0) ELSE Part(p, 1, p[2])
           from == IF recv = "tag" THEN -1 ELSE 1
<1>1. /\ recv \in {"tag", "packet"} /\ btstack_ring_buffer_write(d)
      /\ recv' = IF recv = "tag" THEN "packet" ELSE "add"
      /\ UNCHANGED <<accepted, delivered, loop>>
  BY DEF recv_tag, recv_packet, Last
<1>2. /\ RingOK /\ accepted \in Seq(Packets) /\ accepted # <<>>
      /\ n \in Nat /\ n > 0 /\ p \in Packets /\ p[2] <= size
  BY <1>1, LastPacket DEF PacketsInv, TransportOK, Last
<1>3. PICK pos : /\ Spaced(accepted, pos) /\ Framed(Contents, accepted, pos)
                 /\ BackInv(pos) /\ FrontInv(pos)
  BY DEF StreamInv
<1>4. /\ p[2] \in Nat /\ d \in Seq(Bytes)
      /\ Len(d) = IF recv = "tag" THEN 2 ELSE p[2]
      /\ \A i \in 1 .. Len(d) : d[i] = <<p, from + i - 1>>
  <2>1. /\ p[2] \in Nat
        /\ Part(p, -1, 0) \in Seq(Bytes) /\ Len(Part(p, -1, 0)) = 2
        /\ \A i \in 1 .. 2 : Part(p, -1, 0)[i] = <<p, i - 2>>
        /\ Part(p, 1, p[2]) \in Seq(Bytes) /\ Len(Part(p, 1, p[2])) = p[2]
        /\ \A i \in 1 .. p[2] : Part(p, 1, p[2])[i] = <<p, i>>
    BY <1>2, PartsAre
  <2>2. CASE recv = "tag"
    <3>1. d = Part(p, -1, 0) /\ from = -1
      BY <2>2
    <3>2. \A i \in 1 .. 2 : -1 + i - 1 = i - 2
      OBVIOUS
    <3> HIDE DEF d, from
    <3>3. QED
      BY <2>1, <2>2, <3>1, <3>2
  <2>3. CASE recv = "packet"
    <3>1. d = Part(p, 1, p[2]) /\ from = 1
      BY <2>3
    <3>2. \A i \in 1 .. p[2] : 1 + i - 1 = i
      BY <2>1
    <3> HIDE DEF d, from
    <3>3. QED
      BY <2>1, <2>3, <3>1, <3>2
  <2>4. QED
    BY <1>1, <2>2, <2>3
<1>5. Len(d) <= bytes_free
  BY <1>1, <1>2, <1>3, <1>4, RoomIs DEF BackInv
<1>a. from \in Int /\ from >= -1 /\ (recv = "tag" => from = -1)
      /\ (recv = "packet" => from = 1) /\ n = Len(accepted) /\ p = accepted[n]
  BY <1>1
<1> HIDE DEF d, n, p, from
<1>6. RingOK' /\ Contents' = Contents \o d /\ out' = out
  BY <1>1, <1>2, <1>4, <1>5, WriteAppends
<1>7. pos \in [1 .. n + 1 -> Int] /\ pos[n + 1] = pos[n] + 2 + p[2]
  BY <1>2, <1>3, <1>a DEF Spaced
<1>8. Len(Contents) + 1 = pos[n] + from + 1
  <2> DEFINE x == pos[n]
             y == Len(Contents)
  <2>1. x \in Int /\ y \in Nat
    BY <1>2, <1>7, RoomIs
  <2>2. y + 1 = IF recv = "tag" THEN x ELSE x + 2
    BY <1>1, <1>3, <1>a DEF BackInv
  <2> HIDE DEF x, y
  <2>3. y + 1 = x + from + 1
    BY <1>1, <1>a, <2>1, <2>2
  <2>4. QED
    BY <2>3 DEF x, y
<1>9. Framed(Contents', accepted', pos)
  <2>1. Contents \in Seq(Bytes)
    BY <1>2, RoomIs
  <2>2. Framed(Contents \o d, accepted, pos)
    BY <1>2, <1>3, <1>4, <1>8, <1>a, <2>1, FramedPut
  <2>3. QED
    BY <1>1, <1>6, <2>2
<1>10. BackInv(pos)'
  <2> DEFINE x == pos[n]
             y == Len(Contents)
             z == p[2]
             w == Len(d)
  <2>1. /\ x \in Int /\ y \in Nat /\ z \in Nat /\ w \in Nat
        /\ w = IF recv = "tag" THEN 2 ELSE z
        /\ y + 1 = x + from + 1 /\ pos[n + 1] = x + 2 + z
        /\ bytes_free = size - y /\ bytes_free' = size - Len(Contents')
        /\ Len(Contents') = y + w /\ size \in Nat
    <3>1. Contents \in Seq(Bytes) /\ Len(Contents) \in Nat
          /\ bytes_free = size - Len(Contents)
      BY <1>2, RoomIs
    <3>2. bytes_free' = size - Len(Contents')
      <4>1. Room'
        BY <1>6, RoomAlways, PTL
      <4>2. QED
        BY <4>1 DEF Room
    <3>3. Len(Contents') = Len(Contents) + Len(d)
      BY <1>4, <1>6, <3>1, ConcatProperties
    <3>4. QED
      BY <1>2, <1>4, <1>7, <1>8, <3>1, <3>2, <3>3, SizeAssumption
  <2>2. recv = "tag" => bytes_free >= z + 2
    BY <1>3, <1>a DEF BackInv
  <2> HIDE DEF x, y, z, w
  <2>3. CASE recv = "tag"
    <3>1. Len(Contents') + 1 = x + 2 /\ bytes_free' >= z
      BY <1>a, <2>1, <2>2, <2>3
    <3>2. QED
      BY <1>1, <1>a, <2>3, <3>1 DEF BackInv, x, z
  <2>4. CASE recv = "packet"
    <3>1. Len(Contents') + 1 = x + 2 + z
      BY <1>a, <2>1, <2>4
    <3>2. QED
      BY <1>1, <1>a, <2>1, <2>4, <3>1 DEF BackInv
  <2>5. QED
    BY <1>1, <2>3, <2>4
<1>11. FrontInv(pos)'
  BY <1>1, <1>3, <1>6 DEF FrontInv
<1>12. QED
  BY <1>1, <1>3, <1>9, <1>10, <1>11 DEF StreamInv

\* While no packet is being put in, the first packet that is not delivered is whole.
LEMMA FrontFits ==
  ASSUME PacketsInv, NEW pos, Spaced(accepted, pos), Framed(Contents, accepted, pos),
         BackInv(pos), FrontInv(pos), recv \notin {"tag", "packet"},
         Len(delivered) < Len(accepted)
  PROVE  LET d == Len(delivered) p == accepted[d + 1] x == pos[d + 1] IN
         /\ d \in Nat /\ Len(accepted) \in Nat /\ d + 1 \in 1 .. Len(accepted)
         /\ p \in Packets /\ p[2] \in Nat /\ p[2] <= size /\ x \in Int
         /\ Contents \in Seq(Bytes) /\ Len(Contents) \in Nat
         /\ x + 1 + p[2] <= Len(Contents)
         /\ pos[d + 2] = x + 2 + p[2]
         /\ \A j \in -1 .. p[2] :
               x + j + 1 \in 1 .. Len(Contents) => Contents[x + j + 1] = <<p, j>>
<1> DEFINE d == Len(delivered)
           n == Len(accepted)
           p == accepted[d + 1]
           x == pos[d + 1]
<1>1. /\ accepted \in Seq(Packets) /\ RingOK /\ n \in Nat /\ d \in Nat /\ d < n
      /\ d + 1 \in 1 .. n /\ d + 1 \in 1 .. n + 1 /\ n + 1 \in 1 .. n + 1 /\ d + 1 < n + 1
  BY DEF PacketsInv, TransportOK, FrontInv
<1>2. p \in Packets /\ p[2] \in Nat /\ p[2] <= size
  BY <1>1, PacketLength DEF PacketsInv
<1>3. Contents \in Seq(Bytes) /\ Len(Contents) \in Nat
  BY <1>1, RoomIs
<1>4. /\ x \in Int /\ pos[n + 1] \in Int /\ pos[(d + 1) + 1] = x + 2 + p[2]
      /\ x + 2 + p[2] <= pos[n + 1]
  BY <1>1 DEF Spaced
<1>5. Len(Contents) + 1 = pos[n + 1]
  BY DEF BackInv
<1>6. \A j \in -1 .. p[2] :
         x + j + 1 \in 1 .. Len(Contents) => Contents[x + j + 1] = <<p, j>>
  BY <1>1 DEF Framed
<1>7. x + 1 + p[2] <= Len(Contents)
  <2> DEFINE y == Len(Contents)
             z == p[2]
             u == pos[n + 1]
  <2>1. x \in Int /\ y \in Nat /\ z \in Nat /\ u \in Int /\ x + 2 + z <= u /\ y + 1 = u
    BY <1>2, <1>3, <1>4, <1>5
  <2> HIDE DEF x, y, z, u
  <2>2. x + 1 + z <= y
    BY <2>1
  <2>3. QED
    BY <2>2 DEF y, z
<1>8. (d + 1) + 1 = d + 2
  BY <1>1
<1>9. QED
  BY <1>1, <1>2, <1>3, <1>4, <1>6, <1>7, <1>8

\* The tag is taken out.
LEMMA DeliverTagKeeps ==
  ASSUME PacketsInv, StreamInv, deliver_tag
  PROVE  StreamInv'
<1>1. /\ loop = "call" /\ loop' = "packet" /\ ~taken /\ bytes_available > 0
      /\ btstack_ring_buffer_read(2)
      /\ UNCHANGED <<recv, accepted, delivered>>
  BY DEF deliver_tag, xSemaphoreTake
<1>2. recv \notin {"tag", "packet"} /\ RingOK /\ accepted \in Seq(Packets)
      /\ Len(accepted) \in Nat
  BY <1>1 DEF PacketsInv, MutexInv, TransportOK
<1>3. PICK pos : /\ Spaced(accepted, pos) /\ Framed(Contents, accepted, pos)
                 /\ BackInv(pos) /\ FrontInv(pos)
  BY DEF StreamInv
<1> DEFINE d == Len(delivered)
           n == Len(accepted)
           p == accepted[d + 1]
<1>4. pos[d + 1] = 1 /\ d \in Nat /\ d <= n /\ delivered \in Seq(Packets)
      /\ \A k \in 1 .. d : delivered[k] = accepted[k]
  BY <1>1, <1>3 DEF FrontInv
<1>5. d < n
  <2>1. Len(Contents) > 0 /\ Len(Contents) \in Nat
    BY <1>1, <1>2, ContentsIs, RoomIs DEF Laid
  <2>2. Len(Contents) + 1 = pos[n + 1]
    BY <1>2, <1>3 DEF BackInv
  <2>3. QED
    BY <1>2, <1>4, <2>1, <2>2
<1>6. /\ p \in Packets /\ p[2] \in Nat /\ p[2] <= size
      /\ Contents \in Seq(Bytes) /\ Len(Contents) \in Nat
      /\ 1 + 1 + p[2] <= Len(Contents)
      /\ \A j \in -1 .. p[2] :
            1 + j + 1 \in 1 .. Len(Contents) => Contents[1 + j + 1] = <<p, j>>
  BY <1>2, <1>3, <1>4, <1>5, FrontFits
<1>a. d + 1 \in 1 .. n /\ d + 1 \in 1 .. n + 1 /\ n + 1 \in 1 .. n + 1 /\ n \in 1 .. n + 1
  BY <1>2, <1>4, <1>5
<1> HIDE DEF d, n, p
<1>7. PICK m \in 0 .. Len(Contents) :
         /\ m = 2 /\ out' = SubSeq(Contents, 1, m)
         /\ Contents' = SubSeq(Contents, m + 1, Len(Contents))
  <2>1. PICK m \in 0 .. Len(Contents) :
               /\ m = Min2(2, Len(Contents))
               /\ out' = SubSeq(Contents, 1, m)
               /\ Contents' = SubSeq(Contents, m + 1, Len(Contents))
    BY <1>1, <1>2, ReadTakes
  <2> DEFINE y == Len(Contents)
             z == p[2]
  <2>2. y \in Nat /\ z \in Nat /\ 1 + 1 + z <= y
    BY <1>6
  <2> HIDE DEF y, z
  <2>3. Min2(2, y) = 2
    BY <2>2 DEF Min2
  <2>4. QED
    BY <2>1, <2>3 DEF y
<1>8. out' = Part(p, -1, 0)
  <2>1. /\ Part(p, -1, 0) \in Seq(Bytes) /\ Len(Part(p, -1, 0)) = 2
        /\ \A i \in 1 .. 2 : Part(p, -1, 0)[i] = <<p, i - 2>>
    BY <1>6, PartsAre
  <2>2. /\ out' \in Seq(Bytes) /\ Len(out') = 2
        /\ \A i \in 1 .. 2 : out'[i] = Contents[i]
    BY <1>6, <1>7
  <2>3. Contents[1] = <<p, -1>> /\ Contents[2] = <<p, 0>>
    <3>1. /\ -1 \in -1 .. p[2] /\ 0 \in -1 .. p[2]
          /\ 1 + (-1) + 1 = 1 /\ 1 + 0 + 1 = 2
          /\ 1 \in 1 .. Len(Contents) /\ 2 \in 1 .. Len(Contents)
      BY <1>6
    <3>2. QED
      BY <1>6, <3>1
  <2>4. ASSUME NEW i \in 1 .. 2 PROVE out'[i] = Part(p, -1, 0)[i]
    <3>1. CASE i = 1
      <4>1. 1 - 2 = -1
        OBVIOUS
      <4>2. QED
        BY <2>1, <2>2, <2>3, <3>1, <4>1
    <3>2. CASE i = 2
      <4>1. 2 - 2 = 0
        OBVIOUS
      <4>2. QED
        BY <2>1, <2>2, <2>3, <3>2, <4>1
    <3>3. QED
      BY <3>1, <3>2
  <2> DEFINE s == out'
             t == Part(p, -1, 0)
  <2>5. s \in Seq(Bytes) /\ t \in Seq(Bytes) /\ Len(s) = 2 /\ Len(s) = Len(t)
    BY <2>1, <2>2
  <2>6. \A i \in 1 .. Len(s) : s[i] = t[i]
    BY <2>5, <2>4
  <2> HIDE DEF s, t
  <2>7. s = t
    BY <2>5, <2>6, SeqEqual, Zenon
  <2>8. QED
    BY <2>7 DEF s, t
<1>9. PICK q : /\ Spaced(accepted, q) /\ Framed(Contents', accepted, q)
               /\ \A k \in 1 .. n + 1 : q[k] = pos[k] - 2
  <2>1. Contents \in Seq(Bytes)
    BY <1>6
  <2>2. \E q : /\ Spaced(accepted, q)
               /\ Framed(SubSeq(Contents, m + 1, Len(Contents)), accepted, q)
               /\ \A k \in 1 .. Len(accepted) + 1 : q[k] = pos[k] - m
    <3>1. accepted \in Seq(Packets) /\ m \in 0 .. Len(Contents)
      BY <1>2
    <3>2. Spaced(accepted, pos) /\ Framed(Contents, accepted, pos)
      BY <1>3
    <3>3. QED
      BY <2>1, <3>1, <3>2, FramedTake
  <2>3. QED
    BY <1>7, <2>2 DEF n
<1>10. BackInv(q)'
  <2>1. Len(Contents) + 1 = pos[n + 1] /\ Len(Contents') = Len(Contents) - 2
    BY <1>2, <1>3, <1>6, <1>7 DEF BackInv, n
  <2>2. Len(Contents') + 1 = pos[n + 1] - 2
    BY <1>6, <2>1
  <2>3. q[n + 1] = pos[n + 1] - 2
    BY <1>9, <1>a
  <2>4. QED
    BY <1>1, <1>2, <2>2, <2>3 DEF BackInv, n
<1>11. FrontInv(q)'
  <2>1. q[d + 1] = -1
    BY <1>4, <1>9, <1>a
  <2>2. QED
    BY <1>1, <1>4, <1>5, <1>8, <2>1 DEF FrontInv, d, n, p
<1>12. QED
  BY <1>1, <1>9, <1>10, <1>11 DEF StreamInv

\* The packet behind the tag is taken out, and nothing else.
LEMMA DeliverPacketKeeps ==
  ASSUME PacketsInv, StreamInv, deliver_packet
  PROVE  StreamInv'
<1>1. /\ loop = "packet" /\ loop' = "call" /\ UNCHANGED <<recv, accepted>>
  BY DEF deliver_packet
<1>2. recv \notin {"tag", "packet"} /\ RingOK /\ accepted \in Seq(Packets)
      /\ Len(accepted) \in Nat
  BY <1>1 DEF PacketsInv, MutexInv, TransportOK
<1>3. PICK pos : /\ Spaced(accepted, pos) /\ Framed(Contents, accepted, pos)
                 /\ BackInv(pos) /\ FrontInv(pos)
  BY DEF StreamInv
<1> DEFINE d == Len(delivered)
           n == Len(accepted)
           p == accepted[d + 1]
<1>4. /\ pos[d + 1] = -1 /\ d \in Nat /\ d < n /\ delivered \in Seq(Packets)
      /\ \A k \in 1 .. d : delivered[k] = accepted[k]
      /\ out = Part(p, -1, 0)
  BY <1>1, <1>3 DEF FrontInv
<1>5. /\ p \in Packets /\ p[2] \in Nat /\ p[2] <= size
      /\ Contents \in Seq(Bytes) /\ Len(Contents) \in Nat
      /\ -1 + 1 + p[2] <= Len(Contents) /\ pos[d + 2] = -1 + 2 + p[2]
      /\ \A j \in -1 .. p[2] :
            -1 + j + 1 \in 1 .. Len(Contents) => Contents[-1 + j + 1] = <<p, j>>
  BY <1>2, <1>3, <1>4, FrontFits
<1>a. /\ d + 1 \in 1 .. n /\ d + 2 \in 1 .. n + 1 /\ n + 1 \in 1 .. n + 1
      /\ d = Len(delivered) /\ n = Len(accepted) /\ p = accepted[d + 1]
  BY <1>2, <1>4
<1>6. out[1][1] = p
  <2>1. Part(p, -1, 0)[1] = <<p, 1 - 2>>
    <3>1. \A i \in 1 .. 2 : Part(p, -1, 0)[i] = <<p, i - 2>>
      BY <1>5, PartsAre
    <3>2. QED
      BY <3>1
  <2>2. QED
    BY <1>4, <2>1
<1> HIDE DEF d, n, p
<1>7. /\ btstack_ring_buffer_read(p[2])
      /\ delivered' = Append(delivered, IF out' = Part(p, 1, p[2]) THEN p ELSE Garbage)
  BY <1>4, <1>6 DEF deliver_packet
<1>8. PICK m \in 0 .. Len(Contents) :
         /\ m = p[2] /\ out' = SubSeq(Contents, 1, m)
         /\ Contents' = SubSeq(Contents, m + 1, Len(Contents))
  <2>1. PICK m \in 0 .. Len(Contents) :
               /\ m = Min2(p[2], Len(Contents))
               /\ out' = SubSeq(Contents, 1, m)
               /\ Contents' = SubSeq(Contents, m + 1, Len(Contents))
    BY <1>2, <1>5, <1>7, ReadTakes
  <2> DEFINE y == Len(Contents)
             z == p[2]
  <2>2. y \in Nat /\ z \in Nat /\ -1 + 1 + z <= y
    BY <1>5
  <2> HIDE DEF y, z
  <2>3. Min2(z, y) = z
    BY <2>2 DEF Min2
  <2>4. QED
    BY <2>1, <2>3 DEF y, z
<1>9. out' = Part(p, 1, p[2])
  <2>1. /\ Part(p, 1, p[2]) \in Seq(Bytes) /\ Len(Part(p, 1, p[2])) = p[2]
        /\ \A i \in 1 .. p[2] : Part(p, 1, p[2])[i] = <<p, i>>
    BY <1>5, PartsAre
  <2>2. /\ out' \in Seq(Bytes) /\ Len(out') = m
        /\ \A i \in 1 .. m : out'[i] = Contents[i]
    BY <1>5, <1>8
  <2>3. ASSUME NEW i \in 1 .. m PROVE out'[i] = Part(p, 1, p[2])[i]
    <3>1. i \in 1 .. p[2] /\ i \in -1 .. p[2] /\ -1 + i + 1 = i /\ i \in 1 .. Len(Contents)
      BY <1>5, <1>8
    <3>2. Contents[i] = <<p, i>>
      BY <1>5, <3>1
    <3>3. QED
      BY <2>1, <2>2, <3>1, <3>2
  <2> DEFINE s == out'
             t == Part(p, 1, p[2])
  <2>4. s \in Seq(Bytes) /\ t \in Seq(Bytes) /\ Len(s) = m /\ Len(s) = Len(t)
    BY <1>8, <2>1, <2>2
  <2>5. \A i \in 1 .. Len(s) : s[i] = t[i]
    BY <2>4, <2>3
  <2> HIDE DEF s, t
  <2>6. s = t
    BY <2>4, <2>5, SeqEqual, Zenon
  <2>7. QED
    BY <2>6 DEF s, t
<1>10. /\ delivered' \in Seq(Packets) /\ Len(delivered') = d + 1
       /\ \A k \in 1 .. d + 1 : delivered'[k] = accepted[k]
  <2>1. delivered' = Append(delivered, p)
    BY <1>7, <1>9
  <2>2. /\ delivered' \in Seq(Packets) /\ Len(delivered') = d + 1
        /\ \A k \in 1 .. d : delivered'[k] = delivered[k]
        /\ delivered'[d + 1] = p
    BY <1>4, <1>5, <1>a, <2>1, AppendIs
  <2>3. QED
    BY <1>4, <1>a, <2>2
<1>11. PICK q : /\ Spaced(accepted, q) /\ Framed(Contents', accepted, q)
                /\ \A k \in 1 .. n + 1 : q[k] = pos[k] - m
  <2>1. Contents \in Seq(Bytes)
    BY <1>5
  <2>2. \E q : /\ Spaced(accepted, q)
               /\ Framed(SubSeq(Contents, m + 1, Len(Contents)), accepted, q)
               /\ \A k \in 1 .. Len(accepted) + 1 : q[k] = pos[k] - m
    <3>1. accepted \in Seq(Packets) /\ m \in 0 .. Len(Contents)
      BY <1>2
    <3>2. Spaced(accepted, pos) /\ Framed(Contents, accepted, pos)
      BY <1>3
    <3>3. QED
      BY <2>1, <3>1, <3>2, FramedTake
  <2>3. QED
    BY <1>8, <2>2 DEF n
<1>12. BackInv(q)'
  <2>1. Len(Contents) + 1 = pos[n + 1] /\ Len(Contents') = Len(Contents) - m
    BY <1>2, <1>3, <1>5, <1>8 DEF BackInv, n
  <2>2. Len(Contents') + 1 = pos[n + 1] - m
    BY <1>5, <2>1
  <2>3. q[n + 1] = pos[n + 1] - m
    BY <1>11, <1>a
  <2>4. QED
    BY <1>1, <1>2, <2>2, <2>3 DEF BackInv, n
<1>13. FrontInv(q)'
  <2>1. q[d + 2] = 1
    <3>1. q[d + 2] = pos[d + 2] - m /\ pos[d + 2] = -1 + 2 + m /\ m \in Nat
      BY <1>5, <1>8, <1>11, <1>a
    <3>2. QED
      BY <3>1
  <2>2. (d + 1) + 1 = d + 2 /\ d + 1 <= n
    BY <1>2, <1>4, <1>a
  <2>3. QED
    BY <1>1, <1>10, <1>a, <2>1, <2>2 DEF FrontInv
<1>14. QED
  BY <1>1, <1>11, <1>12, <1>13 DEF StreamInv

LEMMA MutexStep ==
  ASSUME MutexInv, [Next]_vars
  PROVE  MutexInv'
<1>1. ASSUME UNCHANGED taken,
             recv' \in {"tag", "packet"} <=> recv \in {"tag", "packet"},
             loop' = "packet" <=> loop = "packet"
      PROVE  MutexInv'
  BY <1>1 DEF MutexInv
<1>2. ASSUME NEW len \in Lens, host_recv_pkt_cb(len) PROVE MutexInv'
  BY <1>2 DEF host_recv_pkt_cb, xSemaphoreTake, MutexInv
<1>3. CASE recv_tag
  BY <1>3 DEF recv_tag, MutexInv
<1>4. CASE recv_packet
  BY <1>4 DEF recv_packet, MutexInv
<1>5. CASE deliver_tag
  BY <1>5 DEF deliver_tag, xSemaphoreTake, MutexInv
<1>6. CASE deliver_packet
  BY <1>6 DEF deliver_packet, MutexInv
<1>7. ASSUME \/ recv_add \/ recv_trigger \/ safe_call \/ call_add \/ call_trigger
             \/ pop_callback \/ no_callback \/ wake_up \/ timer_due \/ run_command
             \/ deliver_done \/ UNCHANGED vars
      PROVE  MutexInv'
  BY <1>1, <1>7
  DEF recv_add, recv_trigger, safe_call, call_add, call_trigger, pop_callback,
      no_callback, wake_up, timer_due, run_command, deliver_done, vars, transport
<1>8. QED
  BY <1>2, <1>3, <1>4, <1>5, <1>6, <1>7
  DEF Next, LoopNext, RecvNext, RecvGoesOn, CallNext

LEMMA PacketsStep ==
  ASSUME PacketsInv, [Next]_vars
  PROVE  PacketsInv'
<1>1. TransportOK' /\ MutexInv'
  BY TransportStep, MutexStep DEF PacketsInv
<1>2. ASSUME UNCHANGED <<ringVars, accepted, delivered, squeezed>>,
             recv' \in {"tag", "packet"} \/ recv \in {"tag", "packet"} => recv' = recv,
             loop' = "packet" <=> loop = "packet"
      PROVE  PacketsInv'
  <2>1. StreamInv => StreamInv'
    BY <1>2, StreamFrame
  <2>2. QED
    BY <1>1, <1>2, <2>1 DEF PacketsInv
<1>3. ASSUME UNCHANGED <<accepted, squeezed>>, StreamInv => StreamInv'
      PROVE  PacketsInv'
  BY <1>1, <1>3 DEF PacketsInv
<1>4. ASSUME NEW len \in Lens, host_recv_pkt_cb(len) PROVE PacketsInv'
  <2>1. /\ accepted' = Append(accepted, <<Len(accepted) + 1, len>>)
        /\ squeezed' = (squeezed \/ bytes_free < len + 2) /\ bytes_free >= len
        /\ Len(accepted) < MaxPackets
    BY <1>4 DEF host_recv_pkt_cb
  <2>2. /\ accepted \in Seq(Packets) /\ RingOK /\ Len(accepted) \in Nat /\ len \in Nat
        /\ \A k \in 1 .. Len(accepted) : accepted[k][2] <= size
    BY TransportAssumption DEF PacketsInv, TransportOK
  <2>3. len <= size
    BY <2>1, <2>2, RoomIs, SizeAssumption
  <2>4. <<Len(accepted) + 1, len>> \in Packets
    BY <2>1, <2>2, TransportAssumption DEF Packets
  <2>5. /\ Len(accepted') = Len(accepted) + 1
        /\ \A k \in 1 .. Len(accepted) : accepted'[k] = accepted[k]
        /\ accepted'[Len(accepted) + 1] = <<Len(accepted) + 1, len>>
    BY <2>1, <2>2, <2>4, AppendIs
  <2>6. \A k \in 1 .. Len(accepted') : accepted'[k][2] <= size
    BY <2>2, <2>3, <2>5
  <2>7. squeezed' \in BOOLEAN
    BY <2>1
  <2>8. ~squeezed' => StreamInv'
    <3>1. ~squeezed' => ~squeezed
      BY <2>1
    <3>2. ~squeezed => StreamInv
      BY DEF PacketsInv
    <3>3. QED
      BY <1>4, <3>1, <3>2, AcceptKeeps
  <2>9. QED
    BY <1>1, <2>6, <2>7, <2>8 DEF PacketsInv
<1>5. ASSUME recv_tag \/ recv_packet PROVE PacketsInv'
  <2>1. StreamInv => StreamInv'
    BY <1>5, PutKeeps
  <2>2. UNCHANGED <<accepted, squeezed>>
    BY <1>5 DEF recv_tag, recv_packet
  <2>3. QED
    BY <1>3, <2>1, <2>2
<1>6. CASE deliver_tag
  <2>1. StreamInv => StreamInv'
    BY <1>6, DeliverTagKeeps
  <2>2. UNCHANGED <<accepted, squeezed>>
    BY <1>6 DEF deliver_tag
  <2>3. QED
    BY <1>3, <2>1, <2>2
<1>7. CASE deliver_packet
  <2>1. StreamInv => StreamInv'
    BY <1>7, DeliverPacketKeeps
  <2>2. UNCHANGED <<accepted, squeezed>>
    BY <1>7 DEF deliver_packet
  <2>3. QED
    BY <1>3, <2>1, <2>2
<1>8. ASSUME \/ recv_add \/ recv_trigger \/ safe_call \/ call_add \/ call_trigger
             \/ pop_callback \/ no_callback \/ wake_up \/ timer_due \/ run_command
             \/ deliver_done \/ UNCHANGED vars
      PROVE  PacketsInv'
  <2>1. /\ UNCHANGED <<ringVars, accepted, delivered, squeezed>>
        /\ recv' \in {"tag", "packet"} \/ recv \in {"tag", "packet"} => recv' = recv
        /\ loop' = "packet" <=> loop = "packet"
    BY <1>8
    DEF recv_add, recv_trigger, safe_call, call_add, call_trigger, pop_callback,
        no_callback, wake_up, timer_due, run_command, deliver_done, vars, transport
  <2>2. QED
    BY <1>2, <2>1
<1>9. QED
  BY <1>4, <1>5, <1>6, <1>7, <1>8
  DEF Next, LoopNext, RecvNext, RecvGoesOn, CallNext

LEMMA PacketsStart == Init => PacketsInv
<1> SUFFICES ASSUME Init PROVE PacketsInv
  OBVIOUS
<1>1. /\ RingOK /\ out = <<>> /\ accepted = <<>> /\ recv = "idle" /\ taken = FALSE
      /\ loop = "callbacks" /\ delivered = <<>> /\ squeezed = FALSE
  <2>1. 0 \in Indices
    BY SizeAssumption DEF Indices
  <2>2. storage \in [Indices -> Bytes]
    BY SizeAssumption DEF Init, RingInit
  <2>3. QED
    BY <2>1, <2>2 DEF Init, RingInit, RingOK
<1>2. bytes_available = 0
  BY DEF Init, RingInit, bytes_available
<1>3. Contents \in Seq(Bytes) /\ Len(Contents) = 0
  BY <1>1, <1>2, ContentsIs DEF Laid
<1>4. TransportOK /\ MutexInv
  BY <1>1 DEF TransportOK, MutexInv
<1>5. StreamInv
  <2> DEFINE pos == [k \in 1 .. 1 |-> 1]
  <2>1. Len(accepted) = 0 /\ Len(delivered) = 0 /\ delivered \in Seq(Packets)
    BY <1>1
  <2>2. pos \in [1 .. 1 -> Int] /\ pos[1] = 1
    OBVIOUS
  <2> HIDE DEF pos
  <2>3. Spaced(accepted, pos) /\ Framed(Contents, accepted, pos)
    BY <2>1, <2>2 DEF Spaced, Framed
  <2>4. BackInv(pos) /\ FrontInv(pos)
    BY <1>1, <1>3, <2>1, <2>2 DEF BackInv, FrontInv
  <2>5. QED
    BY <2>3, <2>4 DEF StreamInv
<1>6. \A k \in 1 .. Len(accepted) : accepted[k][2] <= size
  <2>1. Len(accepted) = 0
    BY <1>1
  <2>2. QED
    BY <2>1
<1>7. squeezed \in BOOLEAN
  BY <1>1
<1>8. QED
  BY <1>4, <1>5, <1>6, <1>7 DEF PacketsInv

LEMMA PacketsMean == PacketsInv => PacketsWhole
<1> SUFFICES ASSUME PacketsInv, ~squeezed PROVE IsPrefix(delivered, accepted)
  BY DEF PacketsWhole
<1>1. PICK pos : FrontInv(pos)
  BY DEF PacketsInv, StreamInv
<1> DEFINE d == Len(delivered)
<1>2. /\ delivered \in Seq(Packets) /\ accepted \in Seq(Packets) /\ d \in Nat
      /\ d <= Len(accepted) /\ \A k \in 1 .. d : delivered[k] = accepted[k]
  BY <1>1 DEF FrontInv, PacketsInv, TransportOK
<1>3. /\ SubSeq(accepted, 1, d) \in Seq(Packets) /\ Len(SubSeq(accepted, 1, d)) = d
      /\ \A k \in 1 .. d : SubSeq(accepted, 1, d)[k] = accepted[k]
  BY <1>2, SubSeqProperties
<1>4. delivered = SubSeq(accepted, 1, d)
  <2> DEFINE s == delivered
             t == SubSeq(accepted, 1, d)
  <2>1. s \in Seq(Packets) /\ t \in Seq(Packets) /\ Len(s) = d /\ Len(s) = Len(t)
    BY <1>2, <1>3
  <2>2. \A i \in 1 .. Len(s) : s[i] = t[i]
    BY <2>1, <1>2, <1>3
  <2> HIDE DEF s, t
  <2>3. s = t
    BY <2>1, <2>2, SeqEqual, Zenon
  <2>4. QED
    BY <2>3 DEF s, t
<1>5. QED
  BY <1>2, <1>4 DEF IsPrefix

\* Whatever the lengths and the number of the packets, the size of the buffer and the
\* steps of the two tasks, BTstack gets the packets that found space, whole and in
\* order, as long as every one of them found space for its tag too.
THEOREM PacketsAreWhole == Spec => []PacketsWhole
<1>1. PacketsInv /\ [Next]_vars => PacketsInv'
  BY PacketsStep
<1>2. QED
  BY <1>1, PacketsStart, PacketsMean, PTL DEF Spec

-------------------------------------------------------------------------------
(* No wake-up is lost. *)

\* Work in the list keeps the loop awake or is about to wake it, and bytes in the ring
\* buffer are in the loop's hands, in its list or on their way into it.
ListAwake == callbacks # <<>> => \/ loop # "wait" \/ notified
                                 \/ recv = "trigger" \/ caller = "trigger"

RingAwake == bytes_available > 0 => \/ current = Receive
                                    \/ Contains(callbacks, Receive)
                                    \/ recv \in {"packet", "add"}

AwakeInv == ListAwake /\ RingAwake /\ (loop = "packet" => current = Receive)

\* The loop sleeps and no task is in the middle of handing it work.
Asleep == loop = "wait" /\ ~notified /\ recv = "idle" /\ caller = "idle"

\* The run loop never sleeps on work: neither bytes in the ring buffer nor a safe call.
NeverSleepsOnWork ==
    Asleep => /\ callbacks = <<>> /\ bytes_available = 0
              /\ overrun \/ Len(executed) = calls

\* An item that was added is in the list.
LEMMA AddedIsIn ==
  ASSUME callbacks \in Seq(Registrations \cup {Receive}),
         NEW reg \in Registrations \cup {Receive}, AddCallback(reg)
  PROVE  /\ Contains(callbacks', reg)
         /\ Contains(callbacks, Receive) => Contains(callbacks', Receive)
<1>1. CASE Contains(callbacks, reg)
  BY <1>1 DEF AddCallback
<1>2. CASE ~Contains(callbacks, reg)
  <2>1. callbacks' = Append(callbacks, reg)
    BY <1>2 DEF AddCallback
  <2> QED
    BY <2>1, AppendIs
<1> QED
  BY <1>1, <1>2

\* The first item is popped, the others stay.
LEMMA PoppedOrIn ==
  ASSUME callbacks \in Seq(Registrations \cup {Receive}), callbacks # <<>>,
         Contains(callbacks, Receive), Head(callbacks) # Receive
  PROVE  Contains(Tail(callbacks), Receive)
<1> DEFINE t == Tail(callbacks)
           n == Len(callbacks)
<1>1. PICK i \in 1 .. n : callbacks[i] = Receive
  BY DEF Contains
<1>2. /\ n \in Nat \ {0} /\ Head(callbacks) = callbacks[1] /\ Len(t) = n - 1
      /\ \A k \in 1 .. n - 1 : t[k] = callbacks[k + 1]
      /\ t \in Seq(Registrations \cup {Receive})
  OBVIOUS
<1> HIDE DEF t, n
<1>3. i # 1
  BY <1>1, <1>2
<1>4. i - 1 \in 1 .. n - 1 /\ (i - 1) + 1 = i
  BY <1>2, <1>3
<1>5. t[i - 1] = Receive
  BY <1>1, <1>2, <1>4
<1>6. i - 1 \in 1 .. Len(t)
  BY <1>2, <1>4
<1>7. Contains(t, Receive)
  BY <1>2, <1>5, <1>6 DEF Contains
<1> QED
  BY <1>7 DEF t


\* Whoever adds to the list still has the notification before it, and the loop
\* goes to sleep only on an empty list.
LEMMA ListAwakeStep ==
  ASSUME ListAwake, [Next]_vars
  PROVE  ListAwake'
<1>1. CASE recv_trigger \/ call_trigger
  BY <1>1 DEF recv_trigger, call_trigger, trigger, ListAwake
<1>2. CASE recv_add \/ call_add
  <2>1. recv' = "trigger" \/ caller' = "trigger"
    BY <1>2 DEF recv_add, call_add
  <2> QED
    BY <2>1 DEF ListAwake
<1>3. CASE no_callback
  BY <1>3 DEF no_callback, ListAwake
<1>4. CASE \/ pop_callback \/ wake_up \/ timer_due \/ run_command
           \/ deliver_tag \/ deliver_packet \/ deliver_done
  <2>1. loop' # "wait"
    BY <1>4 DEF pop_callback, wake_up, timer_due, run_command, deliver_tag,
                deliver_packet, deliver_done
  <2> QED
    BY <2>1 DEF ListAwake
<1>5. CASE \/ \E len \in Lens : host_recv_pkt_cb(len)
           \/ recv_tag \/ recv_packet \/ safe_call \/ UNCHANGED vars
  <2>1. /\ UNCHANGED <<callbacks, loop, notified>>
        /\ recv = "trigger" => recv' = recv
        /\ caller = "trigger" => caller' = caller
    BY <1>5 DEF host_recv_pkt_cb, recv_tag, recv_packet, safe_call, vars, commands,
                transport
  <2> QED
    BY <2>1 DEF ListAwake
<1> QED
  BY <1>1, <1>2, <1>3, <1>4, <1>5
  DEF Next, LoopNext, RecvNext, RecvGoesOn, CallNext

\* A byte is written before it is announced and the announcement taken back only
\* when no byte is left.
LEMMA RingAwakeStep ==
  ASSUME CallTypes, AwakeInv, [Next]_vars
  PROVE  RingAwake' /\ (loop' = "packet" => current' = Receive)
<1>1. /\ callbacks \in Seq(Registrations \cup {Receive})
      /\ idx \in Registrations
  BY DEF CallTypes
<1>2. RingAwake /\ (loop = "packet" => current = Receive)
  BY DEF AwakeInv
<1>3. CASE recv_tag \/ recv_packet
  BY <1>2, <1>3 DEF recv_tag, recv_packet, RingAwake
<1>4. CASE recv_add
  <2>1. Contains(callbacks', Receive)
    BY <1>1, <1>4, AddedIsIn DEF recv_add
  <2> QED
    BY <1>2, <1>4, <2>1 DEF recv_add, RingAwake
<1>5. CASE call_add
  <2>1. Contains(callbacks, Receive) => Contains(callbacks', Receive)
    BY <1>1, <1>5, AddedIsIn DEF call_add
  <2>2. UNCHANGED <<bytes_available, current, loop, recv>>
    BY <1>5 DEF call_add, transport, ringVars, bytes_available
  <2> QED
    BY <1>2, <2>1, <2>2 DEF RingAwake
<1>6. CASE pop_callback
  <2>1. /\ callbacks # <<>> /\ current' = Head(callbacks)
        /\ callbacks' = Tail(callbacks) /\ loop = "callbacks" /\ loop' = "call"
        /\ UNCHANGED <<bytes_available, recv>>
    BY <1>6 DEF pop_callback, transport, ringVars, bytes_available
  <2>2. current # Receive
    BY <2>1, RegistrationsAre DEF CallTypes
  <2>3. Contains(callbacks, Receive) =>
          current' = Receive \/ Contains(callbacks', Receive)
    BY <1>1, <2>1, PoppedOrIn
  <2> QED
    BY <1>2, <2>1, <2>2, <2>3 DEF RingAwake
<1>7. CASE deliver_tag \/ deliver_packet
  <2>1. current' = Receive
    BY <1>2, <1>7 DEF deliver_tag, deliver_packet
  <2> QED
    BY <2>1 DEF RingAwake
<1>8. CASE deliver_done
  <2>1. bytes_available = 0 /\ UNCHANGED bytes_available /\ loop' = "callbacks"
    BY <1>8 DEF deliver_done, transport, ringVars, bytes_available
  <2> QED
    BY <2>1 DEF RingAwake
<1>9. CASE run_command
  <2>1. /\ current \in Registrations /\ loop' = "callbacks"
        /\ UNCHANGED <<callbacks, bytes_available, recv>>
    BY <1>9 DEF run_command, transport, ringVars, bytes_available
  <2> QED
    BY <1>2, <2>1, RegistrationsAre DEF RingAwake
<1>10. CASE \/ \E len \in Lens : host_recv_pkt_cb(len)
            \/ recv_trigger \/ safe_call \/ call_trigger
            \/ no_callback \/ wake_up \/ timer_due \/ UNCHANGED vars
  <2>1. /\ UNCHANGED <<ringVars, callbacks, current>>
        /\ recv \in {"packet", "add"} => recv' = recv
        /\ loop' = "packet" => loop = "packet"
    BY <1>10 DEF host_recv_pkt_cb, recv_trigger, safe_call, call_trigger, no_callback,
                 wake_up, timer_due, vars, transport
  <2>2. UNCHANGED bytes_available
    BY <2>1 DEF ringVars, bytes_available
  <2> QED
    BY <1>2, <2>1, <2>2 DEF RingAwake
<1> QED
  BY <1>3, <1>4, <1>5, <1>6, <1>7, <1>8, <1>9, <1>10
  DEF Next, LoopNext, RecvNext, RecvGoesOn, CallNext

\* Whatever the order of the three tasks' steps, the loop never sleeps while a packet
\* is in the ring buffer or a safe call is not executed: no wake-up is lost
\* between btstack_run_loop_base_execute_on_main_thread, the notification bit and
\* xTaskNotifyWait, with no timer's help.
THEOREM NoLostWakeUp == Spec => []NeverSleepsOnWork
<1> DEFINE Inv == TransportOK /\ CallsInv /\ AwakeInv
<1>1. Init => Inv
  <2> SUFFICES ASSUME Init PROVE AwakeInv /\ TransportOK
    BY CallsStart
  <2>1. callbacks = <<>> /\ loop = "callbacks" /\ bytes_available = 0
    BY DEF Init, RingInit, bytes_available
  <2>2. AwakeInv
    BY <2>1 DEF AwakeInv, ListAwake, RingAwake
  <2>3. TransportOK
    BY TransportStart
  <2> QED
    BY <2>2, <2>3
<1>2. Inv /\ [Next]_vars => Inv'
  <2> SUFFICES ASSUME Inv, [Next]_vars PROVE Inv'
    OBVIOUS
  <2>1. TransportOK'
    BY TransportStep
  <2>2. CallsInv'
    BY CallsStep
  <2>3. ListAwake'
    BY ListAwakeStep DEF AwakeInv
  <2>4. RingAwake' /\ (loop' = "packet" => current' = Receive)
    BY RingAwakeStep DEF CallsInv
  <2> QED
    BY <2>1, <2>2, <2>3, <2>4 DEF AwakeInv
<1>3. Inv => NeverSleepsOnWork
  <2> SUFFICES ASSUME Inv, Asleep
               PROVE  /\ callbacks = <<>> /\ bytes_available = 0
                      /\ overrun \/ Len(executed) = calls
    BY DEF NeverSleepsOnWork
  <2>1. /\ loop = "wait" /\ ~notified /\ recv = "idle" /\ caller = "idle"
        /\ CallTypes /\ ContextsInv /\ (overrun \/ UnfinishedInv)
    BY DEF Asleep, CallsInv
  <2>2. callbacks = <<>> /\ current = NoReg
    BY <2>1 DEF AwakeInv, ListAwake, CallTypes
  <2>3. \A r : ~Contains(callbacks, r)
    BY <2>2 DEF Contains
  <2>4. ~(bytes_available > 0)
    BY <2>1, <2>2, <2>3, RegistrationsAre DEF AwakeInv, RingAwake
  <2>5. bytes_available = 0
    BY <2>4, AvailableIs, SizeAssumption DEF TransportOK
  <2>6. ASSUME ~overrun PROVE Len(executed) = calls
    <3>1. UnfinishedInv
      BY <2>1, <2>6
    <3>2. idx \in Registrations /\ executed \in Seq(Nat) /\ calls \in Nat
      BY <2>1 DEF CallTypes
    <3>3. ~InUse(idx)
      BY <2>1, <2>2, <2>3, <3>2, RegistrationsAre DEF InUse
    <3>4. ctx[idx] = calls
      BY <2>1, ContextsDiffer
    <3>5. ~(calls > Len(executed)) /\ Len(executed) <= calls
      BY <3>1, <3>2, <3>3, <3>4 DEF UnfinishedInv
    <3> QED
      BY <3>2, <3>5
  <2> QED
    BY <2>2, <2>5, <2>6
<1> QED
  BY <1>1, <1>2, <1>3, PTL DEF Spec

===============================================================================
