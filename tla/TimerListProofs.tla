---------------------------- MODULE TimerListProofs ----------------------------
(***************************************************************************)
(* Proofs about TimerList, for every set of timers, every width of the     *)
(* clock and every bound on the loop's delay that leaves half of the       *)
(* clock's range: the list is sorted, no timer is called early, and none   *)
(* late.                                                                   *)
(***************************************************************************)
EXTENDS TimerList, SequenceTheorems, WellFoundedInduction, TLAPS

TimeTypes ==
    /\ now \in 0 .. W - 1 /\ at \in 0 .. W - 1
    /\ timers \in Seq(Timers)
    /\ timeout \in [Timers -> 0 .. W - 1] /\ due \in [Timers -> Int]
    /\ phase \in {"callbacks", "timers", "wait"}
    /\ late \in 0 .. MaxLate /\ sleep \in Int /\ sleep >= -1

OnceInv == \A i, j \in 1 .. Len(timers) : timers[i] = timers[j] => i = j

\* The timeout is the point in time at which the timer is due, on a clock that wraps,
\* and that is never half of the clock's range ahead.
OnClock(t) == /\ timeout[t] \in {now + due[t], now + due[t] + W, now + due[t] - W}
              /\ due[t] + 3 * MaxLate < W \div 2

ClockInv == \A i \in 1 .. Len(timers) : OnClock(timers[i])

\* The copy of the time is behind the clock by no more than the loop is late.
CopyInv == phase = "timers" => \E lag \in 0 .. late : at \in {now - lag, now - lag + W}

\* How late a timer can be where the loop is.
LateBound == IF phase = "wait" THEN sleep - MaxLate - late ELSE -2 * MaxLate - late

LateInv == /\ \A i \in 1 .. Len(timers) : due[timers[i]] >= LateBound
           /\ phase = "wait" /\ timers # <<>> => sleep >= 0

TimeInv == TimeTypes /\ OnceInv /\ ClockInv /\ InOrder /\ CopyInv /\ LateInv

-------------------------------------------------------------------------------
(* The clock. *)

LEMMA ClockRange ==
  ASSUME TimeTypes
  PROVE  /\ W \in Nat /\ W > 0 /\ MaxLate \in Nat /\ W \div 2 \in Nat
         /\ 2 * (W \div 2) = W /\ 3 * MaxLate < W \div 2
<1>1. W \in Nat /\ W > 0 /\ MaxLate \in Nat /\ W \div 2 \in Nat /\ 2 * (W \div 2) = W
  BY TimeAssumption DEF TimeTypes
<1>2. PICK d \in Delays : d \in Nat /\ d + 1 + 3 * MaxLate < W \div 2
  BY TimeAssumption
<1>3. QED
  BY <1>1, <1>2

\* As long as two points in time are less than half of the range apart,
\* btstack_time_delta is the time between them.
LEMMA DeltaIs ==
  ASSUME TimeTypes, NEW a \in 0 .. W - 1, NEW b \in 0 .. W - 1, NEW e \in Int,
         -(W \div 2) <= e, e < W \div 2, a - b \in {e, e + W, e - W}
  PROVE  btstack_time_delta(a, b) = e
<1> DEFINE h == W \div 2
           d == (a - b) % W
<1>1. W \in Nat /\ W > 0 /\ h \in Nat /\ 2 * h = W
  BY ClockRange
<1>2. /\ a - b >= 0 => d = a - b
      /\ a - b < 0 => d = a - b + W
  BY <1>1
<1>a. btstack_time_delta(a, b) = IF d < h THEN d ELSE d - W
  BY DEF btstack_time_delta
<1>b. -h <= e /\ e < h
  OBVIOUS
<1> HIDE DEF h, d
<1>3. QED
  BY <1>1, <1>2, <1>a, <1>b

LEMMA DelayFits ==
  ASSUME TimeTypes, NEW d \in Delays
  PROVE  d \in Nat /\ d + 1 + 3 * MaxLate < W \div 2 /\ d + 1 < W
<1>1. d \in Nat /\ d + 1 + 3 * MaxLate < W \div 2
  BY TimeAssumption
<1>2. QED
  BY <1>1, ClockRange

LEMMA ExpiryIs ==
  ASSUME TimeTypes, NEW d \in Delays
  PROVE  /\ Expiry(d) \in 0 .. W - 1
         /\ Expiry(d) \in {now + (d + 1), now + (d + 1) - W}
<1>1. /\ d \in Nat /\ d + 1 < W /\ now \in 0 .. W - 1 /\ W \in Nat /\ W > 0
  BY DelayFits, ClockRange DEF TimeTypes
<1>2. /\ now + d + 1 < W => (now + d + 1) % W = now + d + 1
      /\ now + d + 1 >= W => (now + d + 1) % W = now + d + 1 - W
  BY <1>1
<1>3. QED
  BY <1>1, <1>2 DEF Expiry

-------------------------------------------------------------------------------
(* The list. *)

LEMMA Least ==
  ASSUME NEW S \in SUBSET Nat, S # {}
  PROVE  \E n \in S : \A m \in S : n <= m
<1>1. PICK x \in S : \A y \in S : ~(<<y, x>> \in OpToRel(<, Nat))
  BY NatLessThanWellFounded, WFMin
<1>2. ASSUME NEW y \in S, y < x PROVE <<y, x>> \in OpToRel(<, Nat)
  <2> DEFINE p == <<y, x>>
  <2>1. p \in Nat \X Nat /\ p[1] = y /\ p[2] = x
    OBVIOUS
  <2>2. p[1] < p[2]
    BY <2>1, <1>2
  <2> HIDE DEF p
  <2>3. p \in OpToRel(<, Nat)
    BY <2>1, <2>2, Zenon DEF OpToRel
  <2>4. QED
    BY <2>3 DEF p
<1>3. \A y \in S : ~(y < x)
  BY <1>1, <1>2, Zenon
<1>4. QED
  BY <1>3

\* What is known of a timer in the list.
LEMMA Listed ==
  ASSUME TimeInv, NEW i \in 1 .. Len(timers)
  PROVE  /\ timers[i] \in Timers
         /\ due[timers[i]] \in Int /\ timeout[timers[i]] \in 0 .. W - 1
         /\ timeout[timers[i]] \in {now + due[timers[i]], now + due[timers[i]] + W,
                                    now + due[timers[i]] - W}
         /\ due[timers[i]] + 3 * MaxLate < W \div 2
         /\ due[timers[i]] >= -3 * MaxLate
<1>1. timers[i] \in Timers /\ due[timers[i]] \in Int /\ timeout[timers[i]] \in 0 .. W - 1
  BY DEF TimeInv, TimeTypes
<1>2. OnClock(timers[i])
  BY DEF TimeInv, ClockInv
<1>3. due[timers[i]] >= -3 * MaxLate
  <2> DEFINE x == due[timers[i]]
  <2>1. /\ late \in 0 .. MaxLate /\ sleep \in Int /\ MaxLate \in Nat /\ x \in Int
        /\ x >= IF phase = "wait" THEN sleep - MaxLate - late ELSE -2 * MaxLate - late
        /\ phase = "wait" => sleep >= 0
    <3>1. /\ late \in 0 .. MaxLate /\ sleep \in Int /\ MaxLate \in Nat
          /\ timers \in Seq(Timers)
      BY ClockRange DEF TimeInv, TimeTypes
    <3>2. timers # <<>>
      BY <3>1
    <3>3. x >= LateBound /\ (phase = "wait" => sleep >= 0)
      BY <3>2 DEF TimeInv, LateInv
    <3>4. QED
      BY <1>1, <3>1, <3>3 DEF LateBound
  <2> HIDE DEF x
  <2>2. x >= -3 * MaxLate
    BY <2>1
  <2>3. QED
    BY <2>2 DEF x
<1>4. QED
  BY <1>1, <1>2, <1>3 DEF OnClock

\* The comparison that add_timer makes is one of the times that are left.
LEMMA CompareIs ==
  ASSUME TimeInv, NEW d \in Delays, NEW i \in 1 .. Len(timers)
  PROVE  btstack_time_delta(Expiry(d), timeout[timers[i]]) = d + 1 - due[timers[i]]
<1> DEFINE x == due[timers[i]]
           y == timeout[timers[i]]
           h == W \div 2
           z == Expiry(d)
<1>1. /\ W \in Nat /\ W > 0 /\ MaxLate \in Nat /\ h \in Nat /\ 2 * h = W
      /\ d \in Nat /\ d + 1 + 3 * MaxLate < h /\ now \in 0 .. W - 1
  BY ClockRange, DelayFits DEF TimeInv, TimeTypes
<1>2. /\ x \in Int /\ y \in 0 .. W - 1 /\ y \in {now + x, now + x + W, now + x - W}
      /\ x + 3 * MaxLate < h /\ x >= -3 * MaxLate
  BY Listed
<1>3. z \in 0 .. W - 1 /\ z \in {now + (d + 1), now + (d + 1) - W}
  BY ExpiryIs DEF TimeInv
<1> HIDE DEF x, y, z, h
<1> DEFINE e == d + 1 - x
<1>4. e \in Int /\ -h <= e /\ e < h /\ z - y \in {e, e + W, e - W}
  BY <1>1, <1>2, <1>3
<1>5. TimeTypes
  BY DEF TimeInv
<1> HIDE DEF e
<1>6. btstack_time_delta(z, y) = e
  <2>1. -(W \div 2) <= e /\ e < W \div 2
    BY <1>4 DEF h
  <2>2. QED
    BY <1>2, <1>3, <1>4, <1>5, <2>1, DeltaIs
<1>7. QED
  BY <1>6 DEF x, y, z, e

\* add_timer puts the new timer behind those that are due no later.
LEMMA PassedIs ==
  ASSUME TimeInv, NEW d \in Delays
  PROVE  LET k == Passed(Expiry(d)) IN
         /\ k \in 0 .. Len(timers)
         /\ \A i \in 1 .. k : due[timers[i]] <= d + 1
         /\ k < Len(timers) => d + 1 < due[timers[k + 1]]
<1> DEFINE n == Len(timers)
           x == Expiry(d)
           S == {k \in 0 .. n : k < n => d + 1 < due[timers[k + 1]]}
           Stops(k) == /\ \A i \in 1 .. k : btstack_time_delta(x, timeout[timers[i]]) >= 0
                       /\ k < n => btstack_time_delta(x, timeout[timers[k + 1]]) < 0
<1>1. n \in Nat /\ d \in Nat
  BY DelayFits DEF TimeInv, TimeTypes
<1>2. \A i \in 1 .. n : /\ due[timers[i]] \in Int
                        /\ btstack_time_delta(x, timeout[timers[i]]) = d + 1 - due[timers[i]]
  BY Listed, CompareIs
<1>a. \A i \in 1 .. n :
         /\ btstack_time_delta(x, timeout[timers[i]]) >= 0 <=> due[timers[i]] <= d + 1
         /\ btstack_time_delta(x, timeout[timers[i]]) < 0 <=> d + 1 < due[timers[i]]
  BY <1>1, <1>2
<1> HIDE DEF n, x
<1>3. PICK k \in S : \A m \in S : k <= m
  <2>1. n \in S
    BY <1>1
  <2>2. S \in SUBSET Nat
    BY <1>1
  <2> HIDE DEF S
  <2>3. QED
    BY <2>1, <2>2, Least
<1>4. Stops(k)
  <2>1. ASSUME NEW i \in 1 .. k PROVE btstack_time_delta(x, timeout[timers[i]]) >= 0
    <3>1. /\ i - 1 \in 0 .. n /\ i - 1 < n /\ i - 1 < k /\ k \in 0 .. n
          /\ (i - 1) + 1 = i /\ i \in 1 .. n
      BY <1>1, <1>3
    <3>2. i - 1 \notin S
      BY <1>3, <3>1
    <3>3. ~(d + 1 < due[timers[i]])
      BY <3>1, <3>2
    <3>4. QED
      BY <1>1, <1>2, <1>a, <3>1, <3>3
  <2>2. ASSUME k < n PROVE btstack_time_delta(x, timeout[timers[k + 1]]) < 0
    <3>1. k + 1 \in 1 .. n /\ d + 1 < due[timers[k + 1]]
      BY <1>1, <1>3, <2>2
    <3>2. QED
      BY <1>a, <3>1
  <2>3. QED
    BY <2>1, <2>2
<1>b. k \in 0 .. n
  BY <1>3
<1> DEFINE c == Passed(x)
<1>5. c \in 0 .. n /\ Stops(c)
  <2>1. c = CHOOSE j \in 0 .. n : Stops(j)
    BY DEF Passed, n
  <2> HIDE DEF Stops, c
  <2>2. QED
    BY <1>4, <1>b, <2>1
<1>6. \A i \in 1 .. c : i \in 1 .. n
  BY <1>1, <1>5
<1>7. c < n => c + 1 \in 1 .. n
  BY <1>1, <1>5
<1> HIDE DEF c
<1>8. QED
  BY <1>5, <1>6, <1>7, <1>a DEF c, n, x

-------------------------------------------------------------------------------
(* One lemma for each kind of step. *)

\* A timer leaves the list: the others stay in their order.
LEMMA LeaveKeeps ==
  ASSUME TimeInv, NEW r \in 1 .. Len(timers), Awake, timers' \in Seq(Timers),
         Len(timers') = Len(timers) - 1,
         \A j \in 1 .. Len(timers') : timers'[j] = timers[IF j < r THEN j ELSE j + 1],
         Forget(timers[r]), UNCHANGED <<now, phase, at, sleep, late>>
  PROVE  TimeInv'
<1> DEFINE n == Len(timers)
           f(j) == IF j < r THEN j ELSE j + 1
<1>1. n \in Nat /\ n > 0 /\ r \in 1 .. n /\ timers[r] \in Timers /\ Len(timers') = n - 1
  BY DEF TimeInv, TimeTypes
<1>2. \A j \in 1 .. n - 1 : f(j) \in 1 .. n /\ f(j) # r
  BY <1>1
<1>3. \A i, j \in 1 .. n - 1 : i < j => f(i) < f(j)
  BY <1>1
<1>4. \A j \in 1 .. n - 1 : timers'[j] = timers[f(j)]
  BY <1>1
<1>a. TimeTypes /\ TimeTypes'
  <2>1. TimeTypes
    BY DEF TimeInv
  <2>2. 0 \in 0 .. W - 1
    BY <2>1, ClockRange
  <2>3. QED
    BY <1>1, <2>1, <2>2 DEF TimeTypes, Forget
<1>b. /\ \A i \in 1 .. n : timers[i] \in Timers
      /\ \A i, j \in 1 .. n : timers[i] = timers[j] => i = j
  <2>1. timers \in Seq(Timers)
    BY <1>a DEF TimeTypes
  <2>2. \A i \in 1 .. n : timers[i] \in Timers
    BY <2>1
  <2>3. \A i, j \in 1 .. n : timers[i] = timers[j] => i = j
    BY DEF TimeInv, OnceInv
  <2>4. QED
    BY <2>2, <2>3
<1> HIDE DEF f, n
<1>5. \A j \in 1 .. n - 1 : /\ timers'[j] \in Timers /\ timers'[j] # timers[r]
                            /\ due'[timers'[j]] = due[timers[f(j)]]
                            /\ timeout'[timers'[j]] = timeout[timers[f(j)]]
  <2> SUFFICES ASSUME NEW j \in 1 .. n - 1
               PROVE  /\ timers'[j] \in Timers /\ timers'[j] # timers[r]
                      /\ due'[timers'[j]] = due[timers[f(j)]]
                      /\ timeout'[timers'[j]] = timeout[timers[f(j)]]
    OBVIOUS
  <2>1. timers'[j] = timers[f(j)] /\ f(j) \in 1 .. n /\ f(j) # r
    BY <1>2, <1>4
  <2>2. timers[f(j)] \in Timers /\ timers[f(j)] # timers[r]
    BY <1>1, <1>b, <2>1
  <2>3. QED
    BY <1>1, <1>a, <2>1, <2>2 DEF Forget, TimeTypes
<1>6. OnceInv'
  <2> SUFFICES ASSUME NEW i \in 1 .. n - 1, NEW j \in 1 .. n - 1, timers'[i] = timers'[j]
               PROVE  i = j
    BY <1>1 DEF OnceInv
  <2>1. f(i) = f(j)
    BY <1>2, <1>4 DEF TimeInv, OnceInv, n
  <2>2. QED
    BY <1>1, <1>2, <1>3, <2>1
<1>7. ClockInv'
  <2> SUFFICES ASSUME NEW j \in 1 .. n - 1 PROVE OnClock(timers[j])'
    BY <1>1 DEF ClockInv
  <2>1. OnClock(timers[f(j)])
    BY <1>2 DEF TimeInv, ClockInv, n
  <2>2. QED
    BY <1>5, <2>1 DEF OnClock
<1>8. InOrder'
  <2> SUFFICES ASSUME NEW i \in 1 .. n - 1, NEW j \in 1 .. n - 1, i < j
               PROVE  due'[timers'[i]] <= due'[timers'[j]]
    BY <1>1 DEF InOrder
  <2>1. f(i) \in 1 .. n /\ f(j) \in 1 .. n /\ f(i) < f(j)
    BY <1>2, <1>3
  <2>2. due[timers[f(i)]] <= due[timers[f(j)]]
    BY <2>1 DEF TimeInv, InOrder, n
  <2>3. QED
    BY <1>5, <2>2
<1>9. CopyInv'
  BY DEF TimeInv, CopyInv
<1>10. LateInv'
  <2>1. phase' # "wait"
    BY DEF Awake
  <2>2. LateBound' = LateBound
    BY DEF LateBound
  <2>3. ASSUME NEW j \in 1 .. n - 1 PROVE due'[timers'[j]] >= LateBound'
    <3>1. due[timers[f(j)]] >= LateBound
      BY <1>2 DEF TimeInv, LateInv, n
    <3>2. QED
      BY <1>5, <2>2, <3>1
  <2>4. QED
    BY <1>1, <2>1, <2>3 DEF LateInv
<1>11. QED
  BY <1>a, <1>6, <1>7, <1>8, <1>9, <1>10 DEF TimeInv

LEMMA RemoveKeeps ==
  ASSUME TimeInv, NEW t \in Timers, remove_timer(t)
  PROVE  TimeInv'
<1>1. PICK r \in 1 .. Len(timers) : timers[r] = t /\ timers' = RemoveAt(timers, r)
  BY DEF remove_timer
<1> DEFINE n == Len(timers)
           a == SubSeq(timers, 1, r - 1)
           b == SubSeq(timers, r + 1, n)
<1>2. timers \in Seq(Timers) /\ n \in Nat /\ r \in 1 .. n /\ timers' = a \o b
  BY <1>1 DEF TimeInv, TimeTypes, RemoveAt
<1>3. /\ a \in Seq(Timers) /\ Len(a) = r - 1
      /\ \A i \in 1 .. r - 1 : a[i] = timers[i]
  BY <1>2
<1>4. /\ b \in Seq(Timers) /\ Len(b) = n - r
      /\ \A i \in 1 .. n - r : b[i] = timers[r + i]
  BY <1>2
<1> HIDE DEF a, b, n
<1>5. /\ timers' \in Seq(Timers) /\ Len(timers') = n - 1
      /\ \A i \in 1 .. n - 1 : timers'[i] = IF i <= r - 1 THEN a[i] ELSE b[i - (r - 1)]
  BY <1>2, <1>3, <1>4, ConcatProperties
<1>6. ASSUME NEW j \in 1 .. n - 1
      PROVE  timers'[j] = timers[IF j < r THEN j ELSE j + 1]
  <2>1. CASE j < r
    <3>1. j \in 1 .. r - 1 /\ j <= r - 1
      BY <1>2, <2>1
    <3>2. QED
      BY <1>3, <1>5, <2>1, <3>1
  <2>2. CASE ~(j < r)
    <3>1. j - (r - 1) \in 1 .. n - r /\ r + (j - (r - 1)) = j + 1 /\ ~(j <= r - 1)
      BY <1>2, <2>2
    <3>2. QED
      BY <1>4, <1>5, <2>2, <3>1
  <2>3. QED
    BY <2>1, <2>2
<1>7. Awake /\ Forget(timers[r]) /\ UNCHANGED <<now, phase, at, sleep, late>>
  BY <1>1 DEF remove_timer
<1>8. QED
  BY <1>5, <1>6, <1>7, LeaveKeeps DEF n

LEMMA ProcessKeeps ==
  ASSUME TimeInv, process_timer
  PROVE  TimeInv'
<1>1. timers \in Seq(Timers) /\ timers # <<>> /\ timers' = Tail(timers)
  BY DEF TimeInv, TimeTypes, process_timer
<1>2. /\ 1 \in 1 .. Len(timers) /\ timers' \in Seq(Timers)
      /\ Len(timers') = Len(timers) - 1 /\ Head(timers) = timers[1]
      /\ \A j \in 1 .. Len(timers') : timers'[j] = timers[j + 1]
  BY <1>1
<1>3. \A j \in 1 .. Len(timers') : ~(j < 1)
  BY <1>2
<1>4. \A j \in 1 .. Len(timers') : timers'[j] = timers[IF j < 1 THEN j ELSE j + 1]
  BY <1>2, <1>3
<1>5. Awake /\ Forget(timers[1]) /\ UNCHANGED <<now, phase, at, sleep, late>>
  BY <1>2 DEF process_timer, Awake
<1>6. QED
  BY <1>2, <1>4, <1>5, LeaveKeeps

\* A new timer gets its place.
LEMMA AddKeeps ==
  ASSUME TimeInv, NEW t \in Timers, NEW d \in Delays, add_timer(t, d)
  PROVE  TimeInv'
<1> DEFINE n == Len(timers)
           k == Passed(Expiry(d))
           a == SubSeq(timers, 1, k)
           b == SubSeq(timers, k + 1, n)
<1>a. TimeTypes
  BY DEF TimeInv
<1>1. /\ timers \in Seq(Timers) /\ n \in Nat /\ d \in Nat
      /\ d + 1 + 3 * MaxLate < W \div 2 /\ MaxLate \in Nat
      /\ W \in Nat /\ W > 0 /\ now \in 0 .. W - 1
  <2>1. timers \in Seq(Timers) /\ now \in 0 .. W - 1
    BY <1>a DEF TimeTypes
  <2>2. d \in Nat /\ d + 1 + 3 * MaxLate < W \div 2
    BY <1>a, DelayFits
  <2>3. MaxLate \in Nat /\ W \in Nat /\ W > 0
    BY <1>a, ClockRange
  <2>4. QED
    BY <2>1, <2>2, <2>3
<1>2. /\ k \in 0 .. n
      /\ \A i \in 1 .. k : due[timers[i]] <= d + 1
      /\ k < n => d + 1 < due[timers[k + 1]]
  BY PassedIs
<1>3. /\ timers' = a \o <<t>> \o b
      /\ timeout' = [timeout EXCEPT ![t] = Expiry(d)]
      /\ due' = [due EXCEPT ![t] = d + 1]
      /\ UNCHANGED <<now, phase, at, sleep, late>>
      /\ phase # "wait" /\ \A i \in 1 .. n : timers[i] # t
  BY DEF add_timer, Awake, Contains
<1>b. n = Len(timers)
  OBVIOUS
<1> HIDE DEF k
<1>4. /\ a \in Seq(Timers) /\ Len(a) = k /\ \A i \in 1 .. k : a[i] = timers[i]
      /\ b \in Seq(Timers) /\ Len(b) = n - k
      /\ \A i \in 1 .. n - k : b[i] = timers[k + i]
  <2>1. a \in Seq(Timers) /\ Len(a) = k /\ \A i \in 1 .. k : a[i] = timers[i]
    BY <1>1, <1>2
  <2>2. /\ b \in Seq(Timers) /\ Len(b) = n - k
        /\ \A i \in 1 .. n - k : b[i] = timers[k + i]
    BY <1>1, <1>2
  <2>3. QED
    BY <2>1, <2>2
<1> HIDE DEF a, b, n
<1>5. /\ a \o <<t>> \in Seq(Timers) /\ Len(a \o <<t>>) = k + 1
      /\ \A i \in 1 .. k : (a \o <<t>>)[i] = a[i]
      /\ (a \o <<t>>)[k + 1] = t
  BY <1>2, <1>4
<1>6. /\ timers' \in Seq(Timers) /\ Len(timers') = n + 1
      /\ \A i \in 1 .. n + 1 : timers'[i] = IF i <= k + 1 THEN (a \o <<t>>)[i]
                                                         ELSE b[i - (k + 1)]
  <2> DEFINE c == a \o <<t>>
  <2>1. c \in Seq(Timers) /\ Len(c) = k + 1 /\ timers' = c \o b
    BY <1>3, <1>5
  <2> HIDE DEF c
  <2>2. /\ timers' \in Seq(Timers) /\ Len(timers') = Len(c) + Len(b)
        /\ \A i \in 1 .. Len(c) + Len(b) : timers'[i] = IF i <= Len(c) THEN c[i]
                                                          ELSE b[i - Len(c)]
    BY <1>4, <2>1, ConcatProperties
  <2>3. Len(c) + Len(b) = n + 1
    BY <1>1, <1>2, <1>4, <2>1
  <2>4. QED
    BY <2>1, <2>2, <2>3 DEF c
<1> DEFINE f(i) == IF i <= k THEN i ELSE i - 1
<1>7. /\ \A i \in 1 .. n + 1 : i # k + 1 => timers'[i] = timers[f(i)] /\ f(i) \in 1 .. n
      /\ timers'[k + 1] = t /\ k + 1 \in 1 .. n + 1
  <2>1. ASSUME NEW i \in 1 .. n + 1, i <= k PROVE timers'[i] = timers[i] /\ i \in 1 .. n
    <3>1. i \in 1 .. k /\ i <= k + 1 /\ i \in 1 .. n
      BY <1>1, <1>2, <2>1
    <3>2. QED
      BY <1>4, <1>5, <1>6, <3>1
  <2>2. ASSUME NEW i \in 1 .. n + 1, ~(i <= k), i # k + 1
        PROVE  timers'[i] = timers[i - 1] /\ i - 1 \in 1 .. n
    <3>1. /\ ~(i <= k + 1) /\ i - (k + 1) \in 1 .. n - k /\ k + (i - (k + 1)) = i - 1
          /\ i - 1 \in 1 .. n
      BY <1>1, <1>2, <2>2
    <3>2. QED
      BY <1>4, <1>6, <3>1
  <2>3. timers'[k + 1] = t /\ k + 1 \in 1 .. n + 1
    <3>1. k + 1 \in 1 .. n + 1 /\ k + 1 <= k + 1
      BY <1>1, <1>2
    <3>2. QED
      BY <1>5, <1>6, <3>1
  <2>4. QED
    BY <2>1, <2>2, <2>3
<1>8. \A i, j \in 1 .. n + 1 : i # k + 1 /\ j # k + 1 /\ i < j => f(i) < f(j)
  BY <1>1, <1>2
<1>c. \A i \in 1 .. n + 1 : /\ i < k + 1 => f(i) \in 1 .. k
                            /\ i > k + 1 => f(i) \in k + 1 .. n
  BY <1>1, <1>2
<1> HIDE DEF f
<1>9. /\ \A i \in 1 .. n + 1 : i # k + 1 =>
            /\ timers[f(i)] \in Timers /\ timers[f(i)] # t
            /\ due'[timers'[i]] = due[timers[f(i)]]
            /\ timeout'[timers'[i]] = timeout[timers[f(i)]]
      /\ due'[t] = d + 1 /\ timeout'[t] = Expiry(d)
  <2>1. timeout \in [Timers -> 0 .. W - 1] /\ due \in [Timers -> Int]
    BY <1>a DEF TimeTypes
  <2>2. due'[t] = d + 1 /\ timeout'[t] = Expiry(d)
    BY <1>3, <2>1
  <2>3. \A u \in Timers : u # t => due'[u] = due[u] /\ timeout'[u] = timeout[u]
    BY <1>3, <2>1
  <2>4. \A i \in 1 .. n : timers[i] \in Timers /\ timers[i] # t
    BY <1>1, <1>3, <1>b
  <2>5. QED
    BY <1>7, <2>2, <2>3, <2>4
<1>10. TimeTypes'
  <2>1. Expiry(d) \in 0 .. W - 1
    BY <1>a, ExpiryIs
  <2>2. d + 1 \in Int
    BY <1>1
  <2>3. QED
    BY <1>a, <1>3, <1>6, <2>1, <2>2 DEF TimeTypes
<1>11. OnceInv'
  <2> SUFFICES ASSUME NEW i \in 1 .. n + 1, NEW j \in 1 .. n + 1, timers'[i] = timers'[j]
               PROVE  i = j
    BY <1>6 DEF OnceInv
  <2>1. CASE i # k + 1 /\ j # k + 1
    <3>1. f(i) = f(j)
      BY <1>7, <1>b, <2>1 DEF TimeInv, OnceInv
    <3>2. f(i) \in Int /\ ~(f(i) < f(j)) /\ ~(f(j) < f(i))
      BY <1>1, <1>7, <2>1, <3>1
    <3>3. QED
      BY <1>1, <1>8, <2>1, <3>2
  <2>2. QED
    BY <1>7, <1>9, <2>1
<1>12. ClockInv'
  <2> SUFFICES ASSUME NEW i \in 1 .. n + 1 PROVE OnClock(timers[i])'
    BY <1>6 DEF ClockInv
  <2>1. CASE i # k + 1
    <3>1. OnClock(timers[f(i)])
      BY <1>7, <1>b, <2>1 DEF TimeInv, ClockInv
    <3>2. QED
      BY <1>3, <1>9, <2>1, <3>1 DEF OnClock
  <2>2. CASE i = k + 1
    <3>1. Expiry(d) \in {now + (d + 1), now + (d + 1) - W}
      BY <1>a, ExpiryIs
    <3>2. QED
      <4> DEFINE z == Expiry(d)
      <4>1. /\ timers'[i] = t /\ timeout'[t] = z /\ due'[t] = d + 1 /\ now' = now
            /\ z \in {now + (d + 1), now + (d + 1) - W}
        BY <1>3, <1>7, <1>9, <2>2, <3>1
      <4> HIDE DEF z
      <4>2. QED
        BY <1>1, <4>1 DEF OnClock
  <2>3. QED
    BY <2>1, <2>2
<1>d. \A i \in 1 .. n : due[timers[i]] \in Int
  BY <1>a, <1>b DEF TimeTypes
<1>e. \A i, j \in 1 .. n : i < j => due[timers[i]] <= due[timers[j]]
  BY <1>b DEF TimeInv, InOrder
<1>13. InOrder'
  <2> SUFFICES ASSUME NEW i \in 1 .. n + 1, NEW j \in 1 .. n + 1, i < j
               PROVE  due'[timers'[i]] <= due'[timers'[j]]
    BY <1>6 DEF InOrder
  <2>1. CASE i # k + 1 /\ j # k + 1
    <3>1. f(i) \in 1 .. n /\ f(j) \in 1 .. n /\ f(i) < f(j)
      BY <1>7, <1>8, <2>1
    <3>2. QED
      BY <1>9, <1>e, <2>1, <3>1
  <2>2. CASE j = k + 1
    <3>1. i # k + 1 /\ i < k + 1
      BY <1>2, <2>2
    <3>2. f(i) \in 1 .. k
      BY <1>c, <3>1
    <3>3. due[timers[f(i)]] <= d + 1
      BY <1>2, <3>2
    <3>4. QED
      BY <1>7, <1>9, <2>2, <3>1, <3>3
  <2>3. CASE i = k + 1
    <3>1. j # k + 1 /\ j > k + 1
      BY <1>2, <2>3
    <3>2. f(j) \in k + 1 .. n /\ k + 1 \in 1 .. n /\ f(j) \in 1 .. n /\ k < n
      BY <1>1, <1>2, <1>c, <3>1
    <3>3. d + 1 < due[timers[k + 1]]
      BY <1>2, <3>2
    <3>4. due[timers[k + 1]] <= due[timers[f(j)]]
      <4>1. CASE f(j) = k + 1
        BY <1>d, <3>2, <4>1
      <4>2. CASE k + 1 < f(j)
        BY <1>e, <3>2, <4>2
      <4>3. QED
        BY <1>2, <3>2, <4>1, <4>2
    <3> DEFINE x == due[timers[k + 1]]
               y == due[timers[f(j)]]
    <3>5. x \in Int /\ y \in Int /\ d + 1 < x /\ x <= y
      BY <1>d, <3>2, <3>3, <3>4
    <3> HIDE DEF x, y
    <3>6. d + 1 <= y
      BY <1>1, <3>5
    <3>7. QED
      BY <1>7, <1>9, <2>3, <3>1, <3>6 DEF y
  <2>4. QED
    BY <2>1, <2>2, <2>3
<1>14. CopyInv'
  BY <1>3 DEF TimeInv, CopyInv
<1>15. LateInv'
  <2>1. LateBound' = LateBound /\ LateBound = -2 * MaxLate - late
    BY <1>3 DEF LateBound
  <2>2. d + 1 >= -2 * MaxLate - late
    <3>1. late \in Nat
      BY <1>1, <1>a DEF TimeTypes
    <3>2. QED
      BY <1>1, <3>1
  <2>3. ASSUME NEW i \in 1 .. n + 1 PROVE due'[timers'[i]] >= LateBound'
    <3>1. CASE i # k + 1
      <4>1. due[timers[f(i)]] >= LateBound
        BY <1>7, <1>b, <3>1 DEF TimeInv, LateInv
      <4>2. QED
        BY <1>9, <2>1, <3>1, <4>1
    <3>2. CASE i = k + 1
      BY <1>7, <1>9, <2>1, <2>2, <3>2
    <3>3. QED
      BY <3>1, <3>2
  <2>4. QED
    BY <1>3, <1>6, <2>3 DEF LateInv
<1>16. QED
  BY <1>10, <1>11, <1>12, <1>13, <1>14, <1>15 DEF TimeInv

\* The comparison with the loop's copy of the time is off by the age of the copy.
LEMMA CopyCompareIs ==
  ASSUME TimeInv, phase = "timers"
  PROVE  \E lag \in 0 .. late : \A i \in 1 .. Len(timers) :
            btstack_time_delta(timeout[timers[i]], at) = due[timers[i]] + lag
<1>1. PICK lag \in 0 .. late : at \in {now - lag, now - lag + W}
  BY DEF TimeInv, CopyInv
<1>2. ASSUME NEW i \in 1 .. Len(timers)
      PROVE  btstack_time_delta(timeout[timers[i]], at) = due[timers[i]] + lag
  <2> DEFINE x == due[timers[i]]
             y == timeout[timers[i]]
             h == W \div 2
             e == x + lag
  <2>1. /\ W \in Nat /\ W > 0 /\ MaxLate \in Nat /\ h \in Nat /\ 2 * h = W
        /\ 3 * MaxLate < h /\ now \in 0 .. W - 1 /\ at \in 0 .. W - 1 /\ lag \in 0 .. MaxLate
    <3>1. TimeTypes
      BY DEF TimeInv
    <3>2. /\ W \in Nat /\ W > 0 /\ MaxLate \in Nat /\ h \in Nat /\ 2 * h = W
          /\ 3 * MaxLate < h
      BY <3>1, ClockRange
    <3>3. now \in 0 .. W - 1 /\ at \in 0 .. W - 1 /\ late \in 0 .. MaxLate
      BY <3>1 DEF TimeTypes
    <3>4. lag \in 0 .. MaxLate
      BY <3>2, <3>3
    <3>5. QED
      BY <3>2, <3>3, <3>4
  <2>2. /\ x \in Int /\ y \in 0 .. W - 1 /\ y \in {now + x, now + x + W, now + x - W}
        /\ x + 3 * MaxLate < h /\ x >= -3 * MaxLate
    BY Listed
  <2> HIDE DEF x, y, h
  <2>3. e \in Int /\ -h <= e /\ e < h /\ y - at \in {e, e + W, e - W}
    BY <1>1, <2>1, <2>2
  <2> HIDE DEF e
  <2>4. btstack_time_delta(y, at) = e
    <3>1. -(W \div 2) <= e /\ e < W \div 2 /\ TimeTypes
      BY <2>3 DEF h, TimeInv
    <3>2. QED
      BY <2>1, <2>2, <2>3, <3>1, DeltaIs
  <2>5. QED
    BY <2>4 DEF x, y, e
<1>3. QED
  BY <1>1, <1>2

\* The first timer is in the future: the wait ends when it is due, or earlier.
LEMMA TimersDoneKeeps ==
  ASSUME TimeInv, timers_done
  PROVE  TimeInv'
<1>1. /\ phase = "timers" /\ phase' = "wait" /\ (timers # <<>> => ~Due(Head(timers)))
      /\ sleep' = get_time_until_timeout /\ late' = 0 /\ at' = 0
      /\ UNCHANGED <<now, timers, timeout, due>>
  BY DEF timers_done
<1>2. /\ TimeTypes /\ timers \in Seq(Timers) /\ late \in 0 .. MaxLate /\ MaxLate \in Nat
      /\ W \in Nat /\ W > 0
  BY ClockRange DEF TimeInv, TimeTypes
<1>3. CASE timers = <<>>
  <2>1. sleep' = -1
    BY <1>1, <1>3 DEF get_time_until_timeout
  <2>2. TimeTypes'
    BY <1>1, <1>2, <2>1 DEF TimeTypes
  <2>3. Len(timers') = 0 /\ timers' = <<>>
    BY <1>1, <1>3
  <2>4. QED
    BY <1>1, <2>2, <2>3 DEF TimeInv, OnceInv, ClockInv, InOrder, CopyInv, LateInv
<1>4. CASE timers # <<>>
  <2>1. PICK lag \in 0 .. late : \A i \in 1 .. Len(timers) :
               btstack_time_delta(timeout[timers[i]], at) = due[timers[i]] + lag
    BY <1>1, CopyCompareIs
  <2>2. 1 \in 1 .. Len(timers) /\ Head(timers) = timers[1]
    BY <1>2, <1>4
  <2> DEFINE x == due[timers[1]]
  <2>3. x \in Int /\ btstack_time_delta(timeout[Head(timers)], at) = x + lag
    BY <2>1, <2>2, Listed
  <2>4. lag \in Nat /\ lag <= MaxLate
    BY <1>2
  <2>5. ~(x + lag <= 0)
    BY <1>1, <1>4, <2>3 DEF Due
  <2>a. sleep' = IF x + lag < 0 THEN 0 ELSE x + lag
    BY <1>1, <1>4, <2>3 DEF get_time_until_timeout
  <2> HIDE DEF x
  <2>6. sleep' = x + lag /\ sleep' \in Int /\ sleep' >= 0
    BY <2>3, <2>4, <2>5, <2>a
  <2>7. TimeTypes'
    BY <1>1, <1>2, <2>6 DEF TimeTypes
  <2>8. OnceInv' /\ ClockInv' /\ InOrder' /\ CopyInv'
    <3>1. OnceInv'
      BY <1>1 DEF TimeInv, OnceInv
    <3>2. ClockInv'
      BY <1>1 DEF TimeInv, ClockInv, OnClock
    <3>3. InOrder'
      BY <1>1 DEF TimeInv, InOrder
    <3>4. CopyInv'
      BY <1>1 DEF CopyInv
    <3>5. QED
      BY <3>1, <3>2, <3>3, <3>4
  <2>9. ASSUME NEW i \in 1 .. Len(timers) PROVE due[timers[i]] >= x + lag - MaxLate - 0
    <3> DEFINE y == due[timers[i]]
    <3>1. y \in Int
      BY Listed
    <3>2. x <= y
      <4>1. CASE i = 1
        BY <2>3, <4>1 DEF x
      <4>2. CASE 1 < i
        BY <2>2, <4>2 DEF TimeInv, InOrder, x
      <4>3. QED
        BY <1>2, <4>1, <4>2
    <3> HIDE DEF y
    <3>3. y >= x + lag - MaxLate - 0
      BY <1>2, <2>3, <2>4, <3>1, <3>2
    <3>4. QED
      BY <3>3 DEF y
  <2>10. LateInv'
    <3>1. LateBound' = x + lag - MaxLate - 0
      <4>1. phase' = "wait" /\ late' = 0
        BY <1>1
      <4>2. LateBound' = sleep' - MaxLate - late'
        BY <4>1 DEF LateBound
      <4>3. QED
        BY <1>2, <2>3, <2>4, <2>6, <4>1, <4>2
    <3> DEFINE u == x + lag - MaxLate - 0
    <3>2. \A i \in 1 .. Len(timers) : due[timers[i]] >= u
      BY <2>9
    <3> HIDE DEF u
    <3>3. \A i \in 1 .. Len(timers') : due'[timers'[i]] >= LateBound'
      BY <1>1, <3>1, <3>2 DEF u
    <3>4. QED
      BY <2>6, <3>3 DEF LateInv
  <2>11. QED
    BY <2>7, <2>8, <2>10 DEF TimeInv
<1>5. QED
  BY <1>3, <1>4

LEMMA CallbacksDoneKeeps ==
  ASSUME TimeInv, callbacks_done
  PROVE  TimeInv'
<1>1. /\ phase = "callbacks" /\ phase' = "timers" /\ at' = now
      /\ UNCHANGED <<now, timers, timeout, sleep, late, due>>
  BY DEF callbacks_done
<1>2. TimeTypes'
  BY <1>1 DEF TimeInv, TimeTypes
<1>3. OnceInv' /\ ClockInv' /\ InOrder'
  BY <1>1 DEF TimeInv, OnceInv, ClockInv, OnClock, InOrder
<1>4. CopyInv'
  <2>1. 0 \in 0 .. late /\ at' = now - 0
    BY <1>1, ClockRange DEF TimeInv, TimeTypes
  <2>2. QED
    BY <1>1, <2>1 DEF CopyInv
<1>5. LateInv'
  BY <1>1 DEF TimeInv, LateInv, LateBound
<1>6. QED
  BY <1>2, <1>3, <1>4, <1>5 DEF TimeInv

LEMMA WakeUpKeeps ==
  ASSUME TimeInv, phase = "wait", WakeUp
  PROVE  TimeInv'
<1>1. /\ phase' = "callbacks" /\ sleep' = 0 /\ late' = 0
      /\ UNCHANGED <<now, timers, timeout, at, due>>
  BY DEF WakeUp
<1>2. TimeTypes /\ late \in 0 .. MaxLate /\ MaxLate \in Nat /\ sleep \in Int
      /\ timers \in Seq(Timers)
  BY ClockRange DEF TimeInv, TimeTypes
<1>3. TimeTypes'
  BY <1>1, <1>2 DEF TimeTypes
<1>4. OnceInv' /\ ClockInv' /\ InOrder' /\ CopyInv'
  BY <1>1 DEF TimeInv, OnceInv, ClockInv, OnClock, InOrder, CopyInv
<1>5. ASSUME NEW i \in 1 .. Len(timers) PROVE due[timers[i]] >= -2 * MaxLate - 0
  <2> DEFINE x == due[timers[i]]
  <2>1. x \in Int /\ timers # <<>>
    BY <1>2, Listed
  <2>2. x >= sleep - MaxLate - late /\ sleep >= 0
    BY <2>1 DEF TimeInv, LateInv, LateBound
  <2> HIDE DEF x
  <2>3. x >= -2 * MaxLate - 0
    BY <1>2, <2>1, <2>2
  <2>4. QED
    BY <2>3 DEF x
<1>6. LateInv'
  BY <1>1, <1>5 DEF LateInv, LateBound
<1>7. QED
  BY <1>3, <1>4, <1>6 DEF TimeInv

\* A tick: every timer in the list comes closer by one.
LEMMA TickKeeps ==
  ASSUME TimeInv, tick
  PROVE  TimeInv'
<1>1. /\ now' = (now + 1) % W
      /\ due' = [t \in Timers |-> IF Contains(timers, t) THEN due[t] - 1 ELSE due[t]]
      /\ UNCHANGED <<timers, timeout, phase, at>>
  BY DEF tick
<1>2. /\ TimeTypes /\ timers \in Seq(Timers) /\ late \in 0 .. MaxLate /\ MaxLate \in Nat
      /\ W \in Nat /\ W > 0 /\ sleep \in Int /\ now \in 0 .. W - 1 /\ sleep >= -1
      /\ phase \in {"callbacks", "timers", "wait"} /\ due \in [Timers -> Int]
  BY ClockRange DEF TimeInv, TimeTypes
<1>3. now' \in 0 .. W - 1 /\ now' \in {now + 1, now + 1 - W}
  <2>1. /\ now + 1 < W => (now + 1) % W = now + 1
        /\ now + 1 = W => (now + 1) % W = 0
    BY <1>2
  <2>2. QED
    BY <1>1, <1>2, <2>1
<1>4. /\ phase # "wait" \/ sleep = 0 =>
            late' = late + 1 /\ late < MaxLate /\ sleep' = sleep
      /\ phase = "wait" /\ sleep # 0 =>
            late' = late /\ sleep' = IF sleep > 0 THEN sleep - 1 ELSE sleep
  BY DEF tick, Awake
<1>5. /\ late' \in 0 .. MaxLate /\ sleep' \in Int /\ sleep' >= -1
      /\ sleep >= 0 => sleep' >= 0
  BY <1>2, <1>4
<1>6. due' \in [Timers -> Int]
  BY <1>1, <1>2
<1>7. \A i \in 1 .. Len(timers) : /\ timers[i] \in Timers /\ due[timers[i]] \in Int
                                  /\ due'[timers[i]] = due[timers[i]] - 1
  BY <1>1, <1>2 DEF Contains
<1>8. TimeTypes'
  BY <1>1, <1>2, <1>3, <1>5, <1>6 DEF TimeTypes
<1>9. OnceInv'
  BY <1>1 DEF TimeInv, OnceInv
<1>10. ClockInv'
  <2> SUFFICES ASSUME NEW i \in 1 .. Len(timers) PROVE OnClock(timers[i])'
    BY <1>1 DEF ClockInv
  <2> DEFINE x == due[timers[i]]
             y == timeout[timers[i]]
             h == W \div 2
  <2>1. /\ x \in Int /\ y \in 0 .. W - 1 /\ y \in {now + x, now + x + W, now + x - W}
        /\ x + 3 * MaxLate < h /\ x >= -3 * MaxLate
    BY Listed
  <2>2. h \in Nat /\ 2 * h = W
    BY <1>2, ClockRange
  <2>3. due'[timers'[i]] = x - 1 /\ timeout'[timers'[i]] = y
    BY <1>1, <1>7
  <2>a. h = W \div 2
    OBVIOUS
  <2> HIDE DEF x, y, h
  <2>b. 3 * MaxLate < h
    BY <1>2, ClockRange DEF h
  <2>4. y \in {now' + (x - 1), now' + (x - 1) + W, now' + (x - 1) - W}
    <3>1. x < h /\ x >= -h
      BY <1>2, <2>1, <2>2, <2>b
    <3>2. CASE now' = now + 1
      BY <1>2, <2>1, <2>2, <3>1, <3>2
    <3>3. CASE now' = now + 1 - W
      BY <1>2, <1>3, <2>1, <2>2, <3>1, <3>3
    <3>4. QED
      BY <1>3, <3>2, <3>3
  <2>5. x - 1 + 3 * MaxLate < h
    BY <1>2, <2>1, <2>2
  <2>6. QED
    BY <2>1, <2>3, <2>4, <2>5, <2>a DEF OnClock
<1>11. InOrder'
  <2> SUFFICES ASSUME NEW i \in 1 .. Len(timers), NEW j \in 1 .. Len(timers), i < j
               PROVE  due'[timers[i]] <= due'[timers[j]]
    BY <1>1 DEF InOrder
  <2> DEFINE x == due[timers[i]]
             y == due[timers[j]]
  <2>1. /\ x \in Int /\ y \in Int /\ due'[timers[i]] = x - 1 /\ due'[timers[j]] = y - 1
        /\ x <= y
    BY <1>7 DEF TimeInv, InOrder
  <2> HIDE DEF x, y
  <2>2. QED
    BY <2>1
<1>12. CopyInv'
  <2> SUFFICES ASSUME phase = "timers"
               PROVE  \E lag \in 0 .. late' : at \in {now' - lag, now' - lag + W}
    BY <1>1 DEF CopyInv
  <2>1. PICK lag \in 0 .. late : at \in {now - lag, now - lag + W}
    BY DEF TimeInv, CopyInv
  <2>2. late' = late + 1 /\ at \in 0 .. W - 1
    BY <1>2, <1>4 DEF TimeTypes
  <2>3. lag < W /\ lag \in Nat
    <3> DEFINE h == W \div 2
    <3>1. h \in Nat /\ 2 * h = W /\ 3 * MaxLate < h
      BY <1>2, ClockRange
    <3> HIDE DEF h
    <3>2. QED
      BY <1>2, <3>1
  <2>4. lag + 1 \in 0 .. late' /\ at \in {now' - (lag + 1), now' - (lag + 1) + W}
    <3>1. lag + 1 \in 0 .. late'
      BY <1>2, <2>2
    <3>2. CASE now' = now + 1
      BY <1>2, <2>1, <2>3, <3>1, <3>2
    <3>3. CASE now' = now + 1 - W
      <4>1. now = W - 1
        BY <1>2, <1>3, <3>3
      <4>2. at = now - lag
        BY <1>2, <2>1, <2>2, <2>3, <4>1
      <4>3. QED
        BY <1>2, <2>3, <3>1, <3>3, <4>2
    <3>4. QED
      BY <1>3, <3>1, <3>2, <3>3
  <2>5. QED
    BY <2>4
<1>13. LateInv'
  <2>1. ASSUME NEW i \in 1 .. Len(timers) PROVE due'[timers[i]] >= LateBound'
    <3> DEFINE x == due[timers[i]]
    <3>1. x \in Int /\ due'[timers[i]] = x - 1 /\ timers # <<>>
      BY <1>2, <1>7
    <3>2. /\ phase = "wait" => x >= sleep - MaxLate - late /\ sleep >= 0
          /\ phase # "wait" => x >= -2 * MaxLate - late
      BY <3>1 DEF TimeInv, LateInv, LateBound
    <3> HIDE DEF x
    <3>3. /\ phase = "wait" => x - 1 >= sleep' - MaxLate - late'
          /\ phase # "wait" => x - 1 >= -2 * MaxLate - late'
      BY <1>2, <1>4, <3>1, <3>2
    <3>4. QED
      BY <1>1, <3>1, <3>3 DEF LateBound
  <2>2. phase = "wait" /\ timers # <<>> => sleep' >= 0
    BY <1>5 DEF TimeInv, LateInv
  <2>3. QED
    BY <1>1, <2>1, <2>2 DEF LateInv
<1>14. QED
  BY <1>8, <1>9, <1>10, <1>11, <1>12, <1>13 DEF TimeInv

-------------------------------------------------------------------------------
LEMMA TimeStart == Init => TimeInv
<1> SUFFICES ASSUME Init PROVE TimeInv
  OBVIOUS
<1>1. /\ now \in 0 .. W - 1 /\ at = 0 /\ timers = <<>> /\ phase = "callbacks"
      /\ timeout = [t \in Timers |-> 0] /\ sleep = 0 /\ late = 0
      /\ due = [t \in Timers |-> 0]
  BY DEF Init
<1>2. TimeTypes
  BY <1>1, TimeAssumption DEF TimeTypes
<1>3. Len(timers) = 0
  BY <1>1
<1>4. QED
  BY <1>1, <1>2, <1>3 DEF TimeInv, OnceInv, ClockInv, InOrder, CopyInv, LateInv

LEMMA TimeStep ==
  ASSUME TimeInv, [Next]_vars
  PROVE  TimeInv'
<1>1. CASE callbacks_done
  BY <1>1, CallbacksDoneKeeps
<1>2. CASE process_timer
  BY <1>2, ProcessKeeps
<1>3. CASE timers_done
  BY <1>3, TimersDoneKeeps
<1>4. CASE wait_over \/ notified
  BY <1>4, WakeUpKeeps DEF wait_over, notified
<1>5. CASE tick
  BY <1>5, TickKeeps
<1>6. ASSUME NEW t \in Timers, remove_timer(t) PROVE TimeInv'
  BY <1>6, RemoveKeeps
<1>7. ASSUME NEW t \in Timers, NEW d \in Delays, add_timer(t, d) PROVE TimeInv'
  BY <1>7, AddKeeps
<1>8. CASE UNCHANGED vars
  <2>1. UNCHANGED <<now, timers, timeout, phase, at, sleep, late, due>>
    BY <1>8 DEF vars
  <2>2. TimeTypes' /\ OnceInv' /\ ClockInv' /\ InOrder' /\ CopyInv'
    BY <2>1 DEF TimeInv, TimeTypes, OnceInv, ClockInv, OnClock, InOrder, CopyInv
  <2>3. LateInv'
    BY <2>1 DEF TimeInv, LateInv, LateBound
  <2>4. QED
    BY <2>2, <2>3 DEF TimeInv
<1>9. QED
  BY <1>1, <1>2, <1>3, <1>4, <1>5, <1>6, <1>7, <1>8 DEF Next, Loop

\* The list is sorted by the time that is really left, for every width of the clock and
\* wherever it wraps.
THEOREM TimersInOrder == Spec => []InOrder
<1>1. TimeInv => InOrder
  BY DEF TimeInv
<1>2. TimeInv /\ [Next]_vars => TimeInv'
  BY TimeStep
<1>3. QED
  BY <1>1, <1>2, TimeStart, PTL DEF Spec

\* No timer waits for longer than a turn of the loop, the scheduler's delay and the
\* turn that calls it: three times the bound on each of them.
THEOREM TimersOnTime == Spec => []NotTooLate
<1>1. TimeInv => NotTooLate
  BY Listed DEF NotTooLate
<1>2. TimeInv /\ [Next]_vars => TimeInv'
  BY TimeStep
<1>3. QED
  BY <1>1, <1>2, TimeStart, PTL DEF Spec

\* And none is called early: a copy of the time that is old makes a timer look less
\* due, never more.
THEOREM TimersNotEarly == Spec => NeverEarly
<1>1. TimeInv => ProcessedWhenDue
  <2> SUFFICES ASSUME TimeInv, process_timer PROVE due[Head(timers)] <= 0
    BY DEF ProcessedWhenDue
  <2>1. phase = "timers" /\ timers # <<>> /\ Due(Head(timers)) /\ timers \in Seq(Timers)
    BY DEF process_timer, TimeInv, TimeTypes
  <2>2. 1 \in 1 .. Len(timers) /\ Head(timers) = timers[1]
    BY <2>1
  <2>3. PICK lag \in 0 .. late : \A i \in 1 .. Len(timers) :
               btstack_time_delta(timeout[timers[i]], at) = due[timers[i]] + lag
    BY <2>1, CopyCompareIs
  <2> DEFINE x == due[timers[1]]
  <2>4. x \in Int /\ btstack_time_delta(timeout[timers[1]], at) = x + lag
    BY <2>2, <2>3, Listed
  <2>5. x + lag <= 0
    BY <2>1, <2>2, <2>4 DEF Due
  <2>6. lag \in Nat
    BY ClockRange DEF TimeInv, TimeTypes
  <2> HIDE DEF x
  <2>7. x <= 0
    BY <2>4, <2>5, <2>6
  <2>8. QED
    BY <2>2, <2>7 DEF x
<1>2. TimeInv /\ [Next]_vars => TimeInv'
  BY TimeStep
<1>3. QED
  BY <1>1, <1>2, TimeStart, PTL DEF Spec, NeverEarly

===============================================================================
