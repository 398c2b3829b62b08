--------------------------- MODULE HidReportsProofs ----------------------------
(***************************************************************************)
(* Proofs about HidReports, for all peers, all logical ranges of up to 16  *)
(* bits and all values of the sticks.                                      *)
(***************************************************************************)
EXTENDS HidReports, TLAPS

-------------------------------------------------------------------------------
(* Arithmetic. *)

LEMMA DivIs ==
  ASSUME NEW a \in Int, NEW b \in Nat \ {0}
  PROVE  /\ a \div b \in Int /\ b * (a \div b) <= a /\ a < b * (a \div b) + b
OBVIOUS

LEMMA ProductOrder ==
  ASSUME NEW b \in Nat \ {0}, NEW p \in Int, NEW q \in Int, p < q
  PROVE  b * p + b <= b * q
<1>1. PICK k \in Nat : q = p + 1 + k
  <2>1. q - p - 1 \in Nat /\ q = p + 1 + (q - p - 1)
    OBVIOUS
  <2>2. QED
    BY <2>1
<1>2. b * q = b * p + b + b * k
  BY <1>1
<1>3. b * k >= 0
  OBVIOUS
<1>4. QED
  BY <1>2, <1>3

LEMMA DivOrder ==
  ASSUME NEW a \in Int, NEW c \in Int, NEW b \in Nat \ {0}, a <= c
  PROVE  a \div b <= c \div b
<1> DEFINE p == a \div b
           q == c \div b
<1>1. p \in Int /\ b * p <= a
  BY DivIs
<1>2. q \in Int /\ c < b * q + b
  BY DivIs
<1> HIDE DEF p, q
<1>3. ASSUME q < p PROVE FALSE
  <2>1. b * q + b <= b * p
    BY <1>1, <1>2, <1>3, ProductOrder
  <2>2. b * p \in Int /\ b * q \in Int
    BY <1>1, <1>2
  <2>3. QED
    BY <1>1, <1>2, <2>1, <2>2
<1>4. QED
  BY <1>1, <1>2, <1>3 DEF p, q

\* The quotient that rounds towards zero is monotone.
LEMMA QuotientOrder ==
  ASSUME NEW a \in Int, NEW c \in Int, NEW b \in Nat \ {0}, a <= c
  PROVE  /\ Quotient(a, b) \in Int /\ Quotient(c, b) \in Int
         /\ Quotient(a, b) <= Quotient(c, b)
<1>1. CASE a >= 0
  <2>1. a \div b <= c \div b
    BY DivOrder
  <2>2. QED
    BY <1>1, <2>1 DEF Quotient
<1>2. CASE c < 0
  <2>1. (-c) \div b <= (-a) \div b /\ (-c) \div b \in Int /\ (-a) \div b \in Int
    BY <1>2, DivOrder
  <2>2. QED
    BY <1>2, <2>1 DEF Quotient
<1>3. CASE a < 0 /\ c >= 0
  <2>1. 0 \div b = 0
    OBVIOUS
  <2>2. 0 \div b <= c \div b /\ 0 \div b <= (-a) \div b
    BY <1>3, DivOrder
  <2>3. QED
    BY <1>3, <2>1, <2>2 DEF Quotient
<1>4. QED
  BY <1>1, <1>2, <1>3

LEMMA QuotientOf ==
  ASSUME NEW k \in Int, NEW b \in Nat \ {0}
  PROVE  Quotient(b * k, b) = k
<1>1. ASSUME NEW j \in Nat PROVE (b * j) \div b = j
  <2> DEFINE q == (b * j) \div b
  <2>1. q \in Int /\ b * q <= b * j /\ b * j < b * q + b
    BY DivIs
  <2> HIDE DEF q
  <2>2. ~(q < j)
    BY <2>1, ProductOrder
  <2>3. ~(j < q)
    BY <2>1, ProductOrder
  <2>4. q = j
    BY <2>1, <2>2, <2>3
  <2>5. QED
    BY <2>4 DEF q
<1>2. CASE k >= 0
  <2>1. b * k >= 0
    BY <1>2
  <2>2. QED
    BY <1>1, <1>2, <2>1 DEF Quotient
<1>3. CASE k < 0
  <2>1. b * k < 0 /\ -(b * k) = b * (-k) /\ -k \in Nat
    BY <1>3
  <2>2. (b * (-k)) \div b = -k
    BY <1>1, <2>1
  <2>3. QED
    BY <2>1, <2>2 DEF Quotient
<1>4. QED
  BY <1>2, <1>3

-------------------------------------------------------------------------------
(* The conversions. *)

\* The whole logical range goes to -512 .. 511, in its order.
LEMMA AxisIs ==
  ASSUME NEW gl, Ranged(gl), NEW v \in gl.min .. Maximum(gl)
  PROVE  process_axis(gl, v) \in -512 .. 511
<1> DEFINE R == RangeOf(gl)
           m == Maximum(gl)
           l == gl.min
           h == R \div 2
           N == (v - h - l) * 1024
<1>1. R \in Nat /\ R >= 2 /\ m \in Int /\ l \in Int /\ R = m - l + 1 /\ v \in l .. m
  BY DEF Ranged, RangeOf
<1>2. h \in Int /\ 2 * h <= R /\ R <= 2 * h + 1
  BY <1>1
<1>3. process_axis(gl, v) = Quotient(N, R)
  BY DEF process_axis, AXIS_NORMALIZE_RANGE
<1> HIDE DEF R, m, l, h
<1>4. N \in Int /\ R * (-512) <= N /\ N < R * 512
  BY <1>1, <1>2
<1>5. R \in Nat \ {0}
  BY <1>1
<1> HIDE DEF N
<1>6. Quotient(R * (-512), R) <= Quotient(N, R) /\ Quotient(N, R) \in Int
  <2>1. R * (-512) \in Int
    BY <1>5
  <2>2. QED
    BY <1>4, <1>5, <2>1, QuotientOrder
<1>7. Quotient(R * (-512), R) = -512
  <2>1. -512 \in Int
    OBVIOUS
  <2>2. QED
    BY <1>5, <2>1, QuotientOf
<1>8. Quotient(N, R) <= 511
  <2>1. CASE N >= 0
    <3> DEFINE q == N \div R
    <3>1. q \in Int /\ R * q <= N /\ Quotient(N, R) = q
      BY <1>4, <1>5, <2>1, DivIs DEF Quotient
    <3> HIDE DEF q
    <3>2. ~(511 < q)
      <4>1. SUFFICES ASSUME 511 < q PROVE FALSE
        OBVIOUS
      <4>2. R * 511 + R <= R * q
        BY <1>5, <3>1, <4>1, ProductOrder
      <4>3. QED
        BY <1>4, <1>5, <3>1, <4>2
    <3>3. QED
      BY <3>1, <3>2
  <2>2. CASE N < 0
    <3>1. (-N) \div R \in Int /\ (-N) \div R >= 0
      BY <1>4, <1>5, <2>2
    <3>2. QED
      BY <1>4, <2>2, <3>1 DEF Quotient
  <2>3. QED
    BY <1>4, <2>1, <2>2
<1>9. QED
  BY <1>3, <1>6, <1>7, <1>8

LEMMA AxisOrder ==
  ASSUME NEW gl, Ranged(gl), NEW v \in gl.min .. Maximum(gl),
         NEW w \in gl.min .. Maximum(gl), v <= w
  PROVE  /\ process_axis(gl, v) \in -512 .. 511 /\ process_axis(gl, w) \in -512 .. 511
         /\ process_axis(gl, v) <= process_axis(gl, w)
<1>1. process_axis(gl, v) \in -512 .. 511 /\ process_axis(gl, w) \in -512 .. 511
  BY AxisIs
<1> DEFINE R == RangeOf(gl)
           m == Maximum(gl)
           l == gl.min
           h == R \div 2
           N == (v - h - l) * 1024
           M == (w - h - l) * 1024
<1>2. /\ R \in Nat /\ R >= 2 /\ m \in Int /\ l \in Int /\ R = m - l + 1
      /\ v \in l .. m /\ w \in l .. m
  BY DEF Ranged, RangeOf
<1>3. h \in Int
  BY <1>2
<1>4. process_axis(gl, v) = Quotient(N, R) /\ process_axis(gl, w) = Quotient(M, R)
  BY DEF process_axis, AXIS_NORMALIZE_RANGE
<1> HIDE DEF R, m, l, h
<1>5. N \in Int /\ M \in Int /\ N <= M /\ R \in Nat \ {0}
  BY <1>2, <1>3
<1> HIDE DEF N, M
<1>6. QED
  BY <1>1, <1>4, <1>5, QuotientOrder

(* A pedal's conversion is never negative, because it wraps, and with a logical minimum
   of 0 it is below 1024. *)
LEMMA PedalIs ==
  ASSUME NEW gl, Ranged(gl), NEW v \in gl.min .. Maximum(gl)
  PROVE  process_pedal(gl, v) \in PedalRange(gl)
<1> DEFINE R == RangeOf(gl)
           m == Maximum(gl)
           l == gl.min
           n == v * 1024
           q == 1073741824 \div R
           r == 1073741824 % R
           x == (4 * r + n) \div R
<1>1. /\ R \in Nat /\ R >= 2 /\ R <= 65536 /\ m \in Int /\ l \in Int /\ -32768 <= l
      /\ R = m - l + 1 /\ v \in l .. m
  BY DEF Ranged, RangeOf
<1>2. process_pedal(gl, v) = IF n >= 0 THEN n \div R ELSE 4 * q + x
  BY DEF process_pedal, AXIS_NORMALIZE_RANGE, Quarter
<1>3. PedalRange(gl) = IF l = 0 THEN 0 .. 1023 ELSE Nat
  BY DEF PedalRange
<1> HIDE DEF R, m, l
<1>4. n \in Int /\ n >= -33554432 /\ R \in Nat \ {0}
  BY <1>1
<1>5. CASE n >= 0
  <2> DEFINE p == n \div R
  <2>1. p \in Int /\ R * p <= n /\ n < R * p + R
    BY <1>4, DivIs
  <2>2. ASSUME l = 0 PROVE n < R * 1024
    BY <1>1, <2>2
  <2> HIDE DEF p, n
  <2>3. ~(p < 0)
    <3>1. SUFFICES ASSUME p < 0 PROVE FALSE
      OBVIOUS
    <3>2. R * p + R <= R * 0
      BY <1>4, <2>1, <3>1, ProductOrder
    <3>3. QED
      BY <1>4, <1>5, <2>1, <3>2
  <2>4. ASSUME l = 0, 1023 < p PROVE FALSE
    <3>1. R * 1023 + R <= R * p
      BY <1>4, <2>1, <2>4, ProductOrder
    <3>2. QED
      BY <1>4, <2>1, <2>2, <2>4, <3>1
  <2>5. process_pedal(gl, v) = p
    BY <1>2, <1>5 DEF p
  <2>6. QED
    BY <1>3, <2>1, <2>3, <2>4, <2>5
<1>6. CASE n < 0
  <2>1. q \in Int /\ r \in Int /\ R * q + r = 1073741824
    BY <1>4
  <2>2. l # 0
    BY <1>1, <1>6
  <2> HIDE DEF q, r, n
  <2>3. x \in Int /\ 4 * r + n < R * x + R
    <3>1. 4 * r + n \in Int
      BY <1>4, <2>1
    <3>2. QED
      BY <1>4, <3>1, DivIs
  <2> HIDE DEF x
  <2>4. ~(4 * q + x < 0)
    <3>1. SUFFICES ASSUME 4 * q + x < 0 PROVE FALSE
      OBVIOUS
    <3> DEFINE z == 4 * q + x
    <3>2. z \in Int /\ z < 0
      BY <2>1, <2>3, <3>1
    <3>3. R * z = 4 * (R * q) + R * x
      BY <1>4, <2>1, <2>3
    <3> HIDE DEF z
    <3>4. R * z + R <= R * 0
      BY <1>4, <3>2, ProductOrder
    <3> DEFINE a == R * q
               b == R * x
    <3>5. a \in Int /\ b \in Int
      BY <1>4, <2>1, <2>3
    <3>6. /\ a + r = 1073741824 /\ 4 * r + n < b + R /\ 4 * a + b + R <= 0
      BY <1>4, <2>1, <2>3, <3>3, <3>4
    <3> HIDE DEF a, b
    <3>7. QED
      BY <1>1, <1>4, <2>1, <3>5, <3>6
  <2>5. 4 * q + x \in Nat
    BY <2>1, <2>3, <2>4
  <2>6. QED
    BY <1>2, <1>3, <1>4, <1>6, <2>2, <2>5
<1>7. QED
  BY <1>4, <1>5, <1>6

LEMMA PedalOrder ==
  ASSUME NEW gl, Ranged(gl), NEW v \in gl.min .. Maximum(gl),
         NEW w \in gl.min .. Maximum(gl), v <= w, gl.min >= 0
  PROVE  /\ process_pedal(gl, v) \in Nat /\ process_pedal(gl, w) \in Nat
         /\ process_pedal(gl, v) <= process_pedal(gl, w)
<1> DEFINE R == RangeOf(gl)
           l == gl.min
           m == Maximum(gl)
<1>1. /\ R \in Nat \ {0} /\ l \in Int /\ m \in Int /\ l >= 0
      /\ v \in l .. m /\ w \in l .. m
  BY DEF Ranged, RangeOf
<1> HIDE DEF R, l, m
<1>2. v * 1024 \in Int /\ w * 1024 \in Int /\ v * 1024 >= 0 /\ v * 1024 <= w * 1024
      /\ w * 1024 >= 0
  BY <1>1
<1>3. /\ process_pedal(gl, v) = (v * 1024) \div R
      /\ process_pedal(gl, w) = (w * 1024) \div R
  BY <1>2 DEF process_pedal, AXIS_NORMALIZE_RANGE, R
<1>4. (v * 1024) \div R \in Nat /\ (w * 1024) \div R \in Nat
  BY <1>1, <1>2
<1>5. QED
  BY <1>1, <1>2, <1>3, <1>4, DivOrder

\* A 16-bit coordinate goes to -512 .. 511, in its order; only -32768 has no opposite.
LEMMA PadIs ==
  ASSUME NEW x \in Int, -32768 <= x, x <= 32767
  PROVE  /\ x \div 64 \in -512 .. 511 /\ Negated(x) \div 64 \in -512 .. 511
         /\ x # -32768 => Negated(x) = -x
BY DEF Negated

LEMMA TriggersAre ==
  ASSUME NEW x \in Int
  PROVE  (x % 256) * 4 \in 0 .. 1023 /\ ((x \div 256) % 256) * 4 \in 0 .. 1023
OBVIOUS

-------------------------------------------------------------------------------
(* The tables. *)

\* What the parsers have in common, for the usages t of one of them.
Agrees(p, t) ==
    /\ {"X", "Y"} \subseteq DOMAIN t
    /\ t["X"] = <<"axis_x", "axis">>
    /\ t["Y"] = <<"axis_y", IF p = "nimbus" THEN "inverted" ELSE "axis">>
    /\ \A u \in DOMAIN t :
          /\ t[u][1] = "axis_rx" => t[u][2] = "axis"
          /\ t[u][1] = "axis_ry" =>
                \/ p = "generic" /\ t[u][2] = "pedal"
                \/ t[u][2] = IF p = "nimbus" THEN "inverted" ELSE "axis"
          /\ t[u][1] \in {"throttle", "brake"} => t[u][2] = "pedal"

LEMMA TablesAgree ==
  ASSUME NEW p \in DOMAIN Table
  PROVE  Agrees(p, Table[p])
<1>1. p \in {"android", "xboxone", "eightbitdo", "generic", "nimbus", "ouya"}
  BY DEF Table
<1>2. CASE p = "android"
  BY <1>2 DEF Table, android, Agrees
<1>3. CASE p = "xboxone"
  BY <1>3 DEF Table, xboxone, android, Agrees
<1>4. CASE p = "eightbitdo"
  BY <1>4 DEF Table, eightbitdo, android, Agrees
<1>5. CASE p = "generic"
  BY <1>5 DEF Table, generic, Agrees
<1>6. CASE p = "nimbus"
  BY <1>6 DEF Table, nimbus, Agrees
<1>7. CASE p = "ouya"
  BY <1>7 DEF Table, ouya, Agrees
<1>8. QED
  BY <1>1, <1>2, <1>3, <1>4, <1>5, <1>6, <1>7

-------------------------------------------------------------------------------
(* A report. *)

\* The fields of the report r of the peer d, as in FullReport.
StateFields(d, r) ==
    <<Field("X", r[1], d.g), Field("Y", r[2], d.g), Field(d.rx, r[3], d.g),
      Field(d.ry, r[4], d.g), Field(d.pedal, r[5], d.pg)>>

\* The values that a stick of d has, and the word that its stick i makes of one.
StickValue(d, x) == IF d.parser = "steam" THEN x \in Int /\ -32768 <= x /\ x <= 32767
                    ELSE x \in d.g.min .. Maximum(d.g)

RyConversion(d) == Table[d.parser][d.ry][2]

WordFor(d, i, x) ==
    IF d.parser = "steam" THEN (IF i \in {2, 4} THEN Negated(x) \div 64 ELSE x \div 64)
    ELSE IF i = 4 /\ RyConversion(d) = "pedal" THEN process_pedal(d.g, x)
    ELSE IF i \in {2, 4} /\ d.parser = "nimbus" THEN -process_axis(d.g, x)
    ELSE process_axis(d.g, x)

PedalsIn(d, c) == c.brake \in PedalRange(d.pg) /\ c.throttle \in PedalRange(d.pg)

\* A gamepad's axes are the conversions of the values in r.
FollowsReport(d, c, r) ==
    /\ c.axis_x = WordFor(d, 1, r[1]) /\ c.axis_y = WordFor(d, 2, r[2])
    /\ c.axis_rx = WordFor(d, 3, r[3]) /\ c.axis_ry = WordFor(d, 4, r[4])
    /\ PedalsIn(d, c)

\* What a peer with a descriptor brings.
LEMMA PeerIs ==
  ASSUME NEW d \in Devices, d.parser # "steam"
  PROVE  LET t == Table[d.parser] IN
         /\ t["X"] = <<"axis_x", "axis">> /\ {"X", "Y", d.rx, d.ry, d.pedal} \subseteq DOMAIN t
         /\ t["Y"] = <<"axis_y", IF d.parser = "nimbus" THEN "inverted" ELSE "axis">>
         /\ t[d.rx][1] = "axis_rx" /\ t[d.rx][2] = "axis"
         /\ t[d.ry][1] = "axis_ry"
         /\ \/ d.parser = "generic" /\ t[d.ry][2] = "pedal"
            \/ t[d.ry][2] = IF d.parser = "nimbus" THEN "inverted" ELSE "axis"
         /\ t[d.pedal][1] \in {"throttle", "brake"} /\ t[d.pedal][2] = "pedal"
<1> DEFINE t == Table[d.parser]
<1>1. /\ d.parser \in DOMAIN Table /\ {d.rx, d.ry, d.pedal} \subseteq DOMAIN t
      /\ t[d.rx][1] = "axis_rx" /\ t[d.ry][1] = "axis_ry"
      /\ t[d.pedal][1] \in {"throttle", "brake"}
  BY DeviceAssumption
<1>2. Agrees(d.parser, t)
  BY <1>1, TablesAgree
<1> HIDE DEF t
<1>3. QED
  BY <1>1, <1>2 DEF Agrees, t

LEMMA FullIs ==
  ASSUME NEW d \in Devices, d.parser # "steam", NEW r \in Reports(d)
  PROVE  FollowsReport(d, parse_usage(init_report, d.parser, StateFields(d, r)), r)
<1> DEFINE p == d.parser
           t == Table[p]
           F == StateFields(d, r)
           c == parse_usage(init_report, p, F)
<1>1. /\ t["X"] = <<"axis_x", "axis">> /\ {"X", "Y", d.rx, d.ry, d.pedal} \subseteq DOMAIN t
      /\ t["Y"] = <<"axis_y", IF p = "nimbus" THEN "inverted" ELSE "axis">>
      /\ t[d.rx][1] = "axis_rx" /\ t[d.rx][2] = "axis"
      /\ t[d.ry][1] = "axis_ry"
      /\ \/ p = "generic" /\ t[d.ry][2] = "pedal"
         \/ t[d.ry][2] = IF p = "nimbus" THEN "inverted" ELSE "axis"
      /\ t[d.pedal][1] \in {"throttle", "brake"} /\ t[d.pedal][2] = "pedal"
  BY PeerIs
<1>2. /\ F[1] = Field("X", r[1], d.g) /\ F[2] = Field("Y", r[2], d.g)
      /\ F[3] = Field(d.rx, r[3], d.g) /\ F[4] = Field(d.ry, r[4], d.g)
      /\ F[5] = Field(d.pedal, r[5], d.pg) /\ DOMAIN F = 1 .. 5
  BY DEF StateFields
<1>3. /\ F[1].u = "X" /\ F[2].u = "Y" /\ F[3].u = d.rx /\ F[4].u = d.ry
      /\ F[5].u = d.pedal
  BY <1>2 DEF Field
<1>4. \A m : FieldsTo(p, F, m) = {k \in DOMAIN F : F[k].u \in DOMAIN t /\ t[F[k].u][1] = m}
  BY DEF FieldsTo
<1> HIDE DEF t, F
<1>5. /\ FieldsTo(p, F, "axis_x") = {1} /\ FieldsTo(p, F, "axis_y") = {2}
      /\ FieldsTo(p, F, "axis_rx") = {3} /\ FieldsTo(p, F, "axis_ry") = {4}
  BY <1>1, <1>2, <1>3, <1>4
<1>6. ASSUME NEW m \in {"throttle", "brake"}
      PROVE  FieldsTo(p, F, m) \in {{5}, {}}
  BY <1>1, <1>2, <1>3, <1>4
<1>7. /\ Convert(t[F[1].u][2], F[1]) = WordFor(d, 1, r[1])
      /\ Convert(t[F[2].u][2], F[2]) = WordFor(d, 2, r[2])
      /\ Convert(t[F[3].u][2], F[3]) = WordFor(d, 3, r[3])
      /\ Convert(t[F[5].u][2], F[5]) = process_pedal(d.pg, r[5])
  BY <1>1, <1>2, <1>3 DEF Convert, WordFor, Field
<1>8. Convert(t[F[4].u][2], F[4]) = WordFor(d, 4, r[4])
  BY <1>1, <1>2, <1>3 DEF Convert, WordFor, RyConversion, Field, t
<1>9. ASSUME NEW m, NEW k \in Nat, FieldsTo(p, F, m) = {k}
      PROVE  AxisAfter(init_report, p, F, m) = Convert(t[F[k].u][2], F[k])
  <2>1. (CHOOSE i \in {k} : \A j \in {k} : j <= i) = k
    OBVIOUS
  <2>2. QED
    BY <1>9, <2>1 DEF AxisAfter, t
<1>10. /\ AxisAfter(init_report, p, F, "axis_x") = WordFor(d, 1, r[1])
       /\ AxisAfter(init_report, p, F, "axis_y") = WordFor(d, 2, r[2])
       /\ AxisAfter(init_report, p, F, "axis_rx") = WordFor(d, 3, r[3])
       /\ AxisAfter(init_report, p, F, "axis_ry") = WordFor(d, 4, r[4])
  BY <1>5, <1>7, <1>8, <1>9
<1>11. ASSUME NEW m \in {"throttle", "brake"}
       PROVE  AxisAfter(init_report, p, F, m) \in PedalRange(d.pg)
  <2>1. CASE FieldsTo(p, F, m) = {5}
    <3>1. AxisAfter(init_report, p, F, m) = process_pedal(d.pg, r[5])
      BY <1>7, <1>9, <2>1
    <3>2. Ranged(d.pg) /\ r[5] \in d.pg.min .. Maximum(d.pg)
      BY DeviceAssumption
    <3>3. QED
      BY <3>1, <3>2, PedalIs
  <2>2. CASE FieldsTo(p, F, m) = {}
    BY <2>2 DEF AxisAfter, init_report, PedalRange
  <2>3. QED
    BY <1>6, <2>1, <2>2
<1>12. \A m \in DOMAIN init_report : c[m] = AxisAfter(init_report, p, F, m)
  BY DEF parse_usage
<1>13. DOMAIN init_report = {"axis_x", "axis_y", "axis_rx", "axis_ry", "brake", "throttle"}
  BY DEF init_report
<1> HIDE DEF c
<1>14. FollowsReport(d, c, r)
  BY <1>10, <1>11, <1>12, <1>13 DEF FollowsReport, PedalsIn
<1>15. QED
  BY <1>14 DEF c, F

-------------------------------------------------------------------------------
(* The invariant: after a report of the sticks, the words are the conversions of their
   values; after another one, they are 0. *)

SticksFollow == \A i \in 1 .. 4 : /\ StickValue(dev, sticks[i])
                                  /\ WordAt(words, i) = WordFor(dev, i, sticks[i])

\* The Steam Controller's reports change parts of what is there.
SteamGamepad ==
    ctl \in [axis_x : Int, axis_y : Int, axis_rx : Int, axis_ry : Int,
             brake : 0 .. 1023, throttle : 0 .. 1023]

HidInv ==
    /\ dev \in Devices
    /\ words = WordsOf(ctl)
    /\ full \/ ctl = init_report
    /\ full => SticksFollow
    /\ IF dev.parser = "steam" THEN SteamGamepad /\ full ELSE PedalsIn(dev, ctl)

\* The range of stick i's word.
WordRange(d, i) ==
    IF i = 4 /\ d.parser # "steam" /\ RyConversion(d) = "pedal" THEN PedalRange(d.g)
    ELSE IF i \in {2, 4} /\ d.parser = "nimbus" THEN -512 .. 512 ELSE -512 .. 511

LEMMA WordForIs ==
  ASSUME NEW d \in Devices, NEW i \in 1 .. 4, NEW x, StickValue(d, x)
  PROVE  WordFor(d, i, x) \in WordRange(d, i)
<1>1. CASE d.parser = "steam"
  <2>1. x \in Int /\ -32768 <= x /\ x <= 32767
    BY <1>1 DEF StickValue
  <2>2. x \div 64 \in -512 .. 511 /\ Negated(x) \div 64 \in -512 .. 511
    BY <2>1, PadIs
  <2>3. WordFor(d, i, x) \in -512 .. 511
    BY <1>1, <2>2 DEF WordFor
  <2>4. QED
    BY <1>1, <2>3 DEF WordRange
<1>2. CASE d.parser # "steam"
  <2> DEFINE a == process_axis(d.g, x)
             b == process_pedal(d.g, x)
  <2>1. x \in d.g.min .. Maximum(d.g) /\ Ranged(d.g)
    BY <1>2, DeviceAssumption DEF StickValue
  <2>2. a \in -512 .. 511
    BY <2>1, AxisIs
  <2>3. b \in PedalRange(d.g)
    BY <2>1, PedalIs
  <2>4. WordFor(d, i, x) = IF i = 4 /\ RyConversion(d) = "pedal" THEN b
                           ELSE IF i \in {2, 4} /\ d.parser = "nimbus" THEN -a ELSE a
    BY <1>2 DEF WordFor
  <2> HIDE DEF a, b
  <2>5. CASE i = 4 /\ RyConversion(d) = "pedal"
    BY <1>2, <2>3, <2>4, <2>5 DEF WordRange
  <2>6. CASE ~(i = 4 /\ RyConversion(d) = "pedal") /\ i \in {2, 4} /\ d.parser = "nimbus"
    <3>1. WordFor(d, i, x) = -a /\ WordRange(d, i) = -512 .. 512
      BY <1>2, <2>4, <2>6 DEF WordRange
    <3>2. QED
      BY <2>2, <3>1
  <2>7. CASE ~(i = 4 /\ RyConversion(d) = "pedal") /\ ~(i \in {2, 4} /\ d.parser = "nimbus")
    <3>1. WordFor(d, i, x) = a /\ WordRange(d, i) = -512 .. 511
      BY <1>2, <2>4, <2>7 DEF WordRange
    <3>2. QED
      BY <2>2, <3>1
  <2>8. QED
    BY <2>5, <2>6, <2>7
<1>3. QED
  BY <1>1, <1>2

\* The words, one by one.
LEMMA WordsAre ==
  ASSUME NEW c
  PROVE  /\ WordAt(WordsOf(c), 1) = c.axis_x /\ WordAt(WordsOf(c), 2) = c.axis_y
         /\ WordAt(WordsOf(c), 3) = c.axis_rx /\ WordAt(WordsOf(c), 4) = c.axis_ry
         /\ WordsOf(c).roll = c.axis_x /\ WordsOf(c).pitch = c.axis_y
         /\ WordsOf(c).yaw = c.axis_rx /\ WordsOf(c).throttle = c.axis_ry
BY DEF WordAt, WordsOf

LEMMA InvInRange == HidInv => AxesInRange
<1> SUFFICES ASSUME HidInv PROVE AxesInRange
  OBVIOUS
<1>1. dev \in Devices /\ words = WordsOf(ctl)
  BY DEF HidInv
<1>2. CASE full
  <2>1. \A i \in 1 .. 4 : WordAt(words, i) \in WordRange(dev, i)
    BY <1>1, <1>2, WordForIs DEF HidInv, SticksFollow
  <2>2. /\ words.roll \in WordRange(dev, 1) /\ words.pitch \in WordRange(dev, 2)
        /\ words.yaw \in WordRange(dev, 3) /\ words.throttle \in WordRange(dev, 4)
    <3>1. 1 \in 1 .. 4 /\ 2 \in 1 .. 4 /\ 3 \in 1 .. 4 /\ 4 \in 1 .. 4
      OBVIOUS
    <3>2. QED
      BY <1>1, <2>1, <3>1, WordsAre
  <2>3. words.roll \in -512 .. 511 /\ words.yaw \in -512 .. 511
    BY <2>2 DEF WordRange
  <2>4. words.pitch \in -512 .. (IF dev.parser = "nimbus" THEN 512 ELSE 511)
    <3>1. CASE dev.parser = "nimbus"
      <4>1. WordRange(dev, 2) = -512 .. 512
        BY <3>1 DEF WordRange
      <4>2. QED
        BY <2>2, <3>1, <4>1
    <3>2. CASE dev.parser # "nimbus"
      <4>1. words.pitch \in -512 .. 511
        BY <2>2, <3>2 DEF WordRange
      <4>2. QED
        BY <3>2, <4>1
    <3>3. QED
      BY <3>1, <3>2
  <2>5. words.throttle \in IF ThrottleIsPedal THEN PedalRange(dev.g)
                           ELSE -512 .. (IF dev.parser = "nimbus" THEN 512 ELSE 511)
    <3>1. CASE ThrottleIsPedal
      BY <2>2, <3>1 DEF WordRange, ThrottleIsPedal, RyConversion
    <3>2. CASE ~ThrottleIsPedal /\ dev.parser = "nimbus"
      <4>1. WordRange(dev, 4) = -512 .. 512
        BY <3>2 DEF WordRange, ThrottleIsPedal, RyConversion
      <4>2. QED
        BY <2>2, <3>2, <4>1
    <3>3. CASE ~ThrottleIsPedal /\ dev.parser # "nimbus"
      <4>1. WordRange(dev, 4) = -512 .. 511
        BY <3>3 DEF WordRange, ThrottleIsPedal, RyConversion
      <4>2. QED
        BY <2>2, <3>3, <4>1
    <3>4. QED
      BY <3>1, <3>2, <3>3
  <2>6. {ctl.brake, ctl.throttle} \subseteq
            IF dev.parser = "steam" THEN 0 .. 1023 ELSE PedalRange(dev.pg)
    BY DEF HidInv, SteamGamepad, PedalsIn
  <2>7. QED
    BY <2>3, <2>4, <2>5, <2>6 DEF AxesInRange
<1>3. CASE ~full
  <2>1. ctl = init_report
    BY <1>3 DEF HidInv
  <2>2. /\ words.roll = 0 /\ words.pitch = 0 /\ words.yaw = 0 /\ words.throttle = 0
        /\ ctl.brake = 0 /\ ctl.throttle = 0
    BY <1>1, <2>1, WordsAre DEF init_report
  <2>3. 0 \in PedalRange(dev.g) /\ 0 \in PedalRange(dev.pg)
    BY DEF PedalRange
  <2>4. QED
    BY <2>2, <2>3 DEF AxesInRange
<1>4. QED
  BY <1>2, <1>3

LEMMA HidStart == Init => HidInv
<1> SUFFICES ASSUME Init PROVE HidInv
  OBVIOUS
<1>1. /\ dev \in Devices /\ ctl = init_report /\ words = WordsOf(ctl)
      /\ sticks = [i \in 1 .. 4 |-> 0] /\ full = (dev.parser = "steam")
  BY DEF Init
<1>2. ASSUME dev.parser = "steam" PROVE SteamGamepad /\ full /\ SticksFollow
  <2>1. SteamGamepad
    BY <1>1 DEF SteamGamepad, init_report
  <2>2. WordAt(words, 1) = 0 /\ WordAt(words, 2) = 0 /\ WordAt(words, 3) = 0
        /\ WordAt(words, 4) = 0
    BY <1>1, WordsAre DEF init_report
  <2>3. PICK z \in Int : z = 0
    OBVIOUS
  <2>4. -32768 <= z /\ z <= 32767 /\ z # -32768
    BY <2>3
  <2>5. Negated(z) = -z
    BY <2>4, PadIs
  <2>6. z \div 64 = 0 /\ Negated(z) \div 64 = 0
    BY <2>3, <2>5
  <2>7. StickValue(dev, z) /\ \A i \in 1 .. 4 : WordFor(dev, i, z) = 0
    BY <1>2, <2>4, <2>6 DEF StickValue, WordFor
  <2>8. SticksFollow
    <3>1. \A i \in 1 .. 4 : sticks[i] = z /\ WordAt(words, i) = 0
      BY <1>1, <2>2, <2>3
    <3>2. QED
      BY <2>7, <3>1 DEF SticksFollow
  <2>9. QED
    BY <1>1, <1>2, <2>1, <2>8
<1>3. PedalsIn(dev, ctl)
  BY <1>1 DEF PedalsIn, PedalRange, init_report
<1>4. QED
  BY <1>1, <1>2, <1>3 DEF HidInv

LEMMA FullKeeps ==
  ASSUME HidInv, FullReport
  PROVE  HidInv'
<1>1. PICK r \in Reports(dev) :
        /\ ctl' = parse_usage(init_report, dev.parser, StateFields(dev, r))
        /\ words' = WordsOf(ctl') /\ sticks' = [i \in 1 .. 4 |-> r[i]]
  BY DEF FullReport, parse_input_report, StateFields
<1>2. dev' = dev /\ full' = TRUE /\ dev.parser # "steam" /\ dev \in Devices
  BY DEF FullReport, HidInv
<1>3. FollowsReport(dev, ctl', r)
  <2>1. FollowsReport(dev, parse_usage(init_report, dev.parser, StateFields(dev, r)), r)
    BY <1>2, FullIs, Zenon
  <2>2. QED
    BY <1>1, <2>1, Zenon
<1>4. SticksFollow'
  <2>1. /\ WordAt(words', 1) = WordFor(dev, 1, r[1]) /\ WordAt(words', 2) = WordFor(dev, 2, r[2])
        /\ WordAt(words', 3) = WordFor(dev, 3, r[3]) /\ WordAt(words', 4) = WordFor(dev, 4, r[4])
    BY <1>1, <1>3, WordsAre DEF FollowsReport
  <2>2. \A i \in 1 .. 4 : r[i] \in dev.g.min .. Maximum(dev.g)
    BY <1>1, <1>2, DeviceAssumption
  <2>3. \A i \in 1 .. 4 : StickValue(dev, r[i])
    BY <1>2, <2>2 DEF StickValue
  <2>4. \A i \in 1 .. 4 : WordAt(words', i) = WordFor(dev, i, r[i])
    BY <2>1
  <2>5. \A i \in 1 .. 4 : sticks'[i] = r[i]
    BY <1>1
  <2>6. \A i \in 1 .. 4 : StickValue(dev, sticks'[i])
                          /\ WordAt(words', i) = WordFor(dev, i, sticks'[i])
    BY <2>3, <2>4, <2>5
  <2>7. QED
    BY <1>2, <2>6 DEF SticksFollow
<1>5. PedalsIn(dev, ctl')
  BY <1>3 DEF FollowsReport
<1>6. QED
  BY <1>1, <1>2, <1>4, <1>5 DEF HidInv

LEMMA BatteryKeeps ==
  ASSUME HidInv, BatteryReport
  PROVE  HidInv'
<1>1. /\ ctl' = parse_usage(init_report, dev.parser, <<>>) /\ words' = WordsOf(ctl')
      /\ dev' = dev /\ full' = FALSE /\ dev.parser # "steam" /\ dev \in Devices
  BY DEF BatteryReport, parse_input_report, HidInv
<1>2. \A m : FieldsTo(dev.parser, <<>>, m) = {}
  BY DEF FieldsTo
<1>3. \A m : AxisAfter(init_report, dev.parser, <<>>, m) = init_report[m]
  BY <1>2 DEF AxisAfter
<1>4. ctl' = [m \in DOMAIN init_report |-> init_report[m]]
  BY <1>1, <1>3 DEF parse_usage
<1>5. ctl' = init_report
  BY <1>4 DEF init_report
<1>6. PedalsIn(dev, ctl')
  BY <1>5 DEF PedalsIn, PedalRange, init_report
<1>7. QED
  BY <1>1, <1>5, <1>6 DEF HidInv

LEMMA SteamKeeps ==
  ASSUME HidInv, SteamReport
  PROVE  HidInv'
<1>1. PICK flags \in SUBSET {"triggers", "thumbstick", "left_pad", "right_pad"},
           first, second \in PadValues \X PadValues : steam_parse(flags, <<first, second>>)
  BY DEF SteamReport
<1> DEFINE right == IF "left_pad" \in flags THEN second ELSE first
<1>2. /\ dev' = dev /\ full' = full /\ dev.parser = "steam" /\ dev \in Devices
      /\ words = WordsOf(ctl) /\ SticksFollow /\ SteamGamepad /\ full
  BY DEF SteamReport, HidInv
<1>3. /\ first[1] \in PadValues /\ first[2] \in PadValues
      /\ right[1] \in PadValues /\ right[2] \in PadValues
  OBVIOUS
<1>4. <<first, second>>[1] = first /\ <<first, second>>[2] = second
  OBVIOUS
<1> DEFINE br == IF "triggers" \in flags THEN Triggers(first)[1] ELSE ctl.brake
           th == IF "triggers" \in flags THEN Triggers(first)[2] ELSE ctl.throttle
           ax == IF "thumbstick" \in flags THEN PadAxes(first)[1] ELSE ctl.axis_x
           ay == IF "thumbstick" \in flags THEN PadAxes(first)[2] ELSE ctl.axis_y
           rx == IF "right_pad" \in flags THEN PadAxes(right)[1] ELSE ctl.axis_rx
           ry == IF "right_pad" \in flags THEN PadAxes(right)[2] ELSE ctl.axis_ry
<1>5. ctl' = [ctl EXCEPT !.brake = br, !.throttle = th, !.axis_x = ax, !.axis_y = ay,
                         !.axis_rx = rx, !.axis_ry = ry]
  BY <1>1, <1>4 DEF steam_parse
<1>6. /\ words' = WordsOf(ctl')
      /\ sticks' = [i \in 1 .. 4 |->
            CASE i < 3 /\ "thumbstick" \in flags -> first[i]
              [] i > 2 /\ "right_pad" \in flags -> right[i - 2]
              [] OTHER -> sticks[i]]
  BY <1>1, <1>4 DEF steam_parse
<1>7. ASSUME NEW x \in PadValues
      PROVE  /\ x \in Int /\ x \div 64 \in Int /\ Negated(x) \div 64 \in Int
             /\ StickValue(dev, x)
  <2>1. x \in Int /\ -32768 <= x /\ x <= 32767
    BY DeviceAssumption
  <2>2. x \div 64 \in -512 .. 511 /\ Negated(x) \div 64 \in -512 .. 511
    BY <2>1, PadIs
  <2>3. QED
    BY <1>2, <2>1, <2>2 DEF StickValue
<1>8. br \in 0 .. 1023 /\ th \in 0 .. 1023
  <2>1. Triggers(first)[1] \in 0 .. 1023 /\ Triggers(first)[2] \in 0 .. 1023
    BY <1>3, <1>7, TriggersAre DEF Triggers
  <2>2. QED
    BY <1>2, <2>1 DEF SteamGamepad
<1> HIDE DEF right
<1>9. /\ ax = IF "thumbstick" \in flags THEN first[1] \div 64 ELSE ctl.axis_x
      /\ ay = IF "thumbstick" \in flags THEN Negated(first[2]) \div 64 ELSE ctl.axis_y
      /\ rx = IF "right_pad" \in flags THEN right[1] \div 64 ELSE ctl.axis_rx
      /\ ry = IF "right_pad" \in flags THEN Negated(right[2]) \div 64 ELSE ctl.axis_ry
  BY DEF PadAxes
<1> HIDE DEF br, th, ax, ay, rx, ry
<1>10. ax \in Int /\ ay \in Int /\ rx \in Int /\ ry \in Int
  BY <1>2, <1>3, <1>7, <1>9 DEF SteamGamepad
<1>11. ctl' = [axis_x |-> ax, axis_y |-> ay, axis_rx |-> rx, axis_ry |-> ry, brake |-> br,
               throttle |-> th]
  <2>1. ctl = [axis_x |-> ctl.axis_x, axis_y |-> ctl.axis_y, axis_rx |-> ctl.axis_rx,
               axis_ry |-> ctl.axis_ry, brake |-> ctl.brake, throttle |-> ctl.throttle]
    BY <1>2 DEF SteamGamepad
  <2>2. QED
    BY <1>5, <2>1
<1>12. SteamGamepad'
  BY <1>8, <1>10, <1>11 DEF SteamGamepad
<1>13. /\ sticks'[1] = IF "thumbstick" \in flags THEN first[1] ELSE sticks[1]
       /\ sticks'[2] = IF "thumbstick" \in flags THEN first[2] ELSE sticks[2]
       /\ sticks'[3] = IF "right_pad" \in flags THEN right[1] ELSE sticks[3]
       /\ sticks'[4] = IF "right_pad" \in flags THEN right[2] ELSE sticks[4]
  BY <1>6
<1>14. ASSUME NEW x
       PROVE  /\ WordFor(dev, 1, x) = x \div 64 /\ WordFor(dev, 2, x) = Negated(x) \div 64
              /\ WordFor(dev, 3, x) = x \div 64 /\ WordFor(dev, 4, x) = Negated(x) \div 64
  BY <1>2 DEF WordFor
<1>15. ASSUME NEW i \in 1 .. 4
       PROVE  StickValue(dev, sticks[i]) /\ WordAt(words, i) = WordFor(dev, i, sticks[i])
  BY <1>2 DEF SticksFollow
<1>16. /\ WordAt(words, 1) = ctl.axis_x /\ WordAt(words, 2) = ctl.axis_y
       /\ WordAt(words, 3) = ctl.axis_rx /\ WordAt(words, 4) = ctl.axis_ry
  BY <1>2, WordsAre
<1>17. /\ WordAt(words', 1) = ax /\ WordAt(words', 2) = ay
       /\ WordAt(words', 3) = rx /\ WordAt(words', 4) = ry
  BY <1>6, <1>11, WordsAre
<1>18. SticksFollow'
  <2>1. StickValue(dev, sticks'[1]) /\ WordAt(words', 1) = WordFor(dev, 1, sticks'[1])
    BY <1>3, <1>7, <1>9, <1>13, <1>14, <1>15, <1>16, <1>17
  <2>2. StickValue(dev, sticks'[2]) /\ WordAt(words', 2) = WordFor(dev, 2, sticks'[2])
    BY <1>3, <1>7, <1>9, <1>13, <1>14, <1>15, <1>16, <1>17
  <2>3. StickValue(dev, sticks'[3]) /\ WordAt(words', 3) = WordFor(dev, 3, sticks'[3])
    BY <1>3, <1>7, <1>9, <1>13, <1>14, <1>15, <1>16, <1>17
  <2>4. StickValue(dev, sticks'[4]) /\ WordAt(words', 4) = WordFor(dev, 4, sticks'[4])
    BY <1>3, <1>7, <1>9, <1>13, <1>14, <1>15, <1>16, <1>17
  <2>5. \A i \in 1 .. 4 : StickValue(dev, sticks'[i])
                          /\ WordAt(words', i) = WordFor(dev, i, sticks'[i])
    BY <2>1, <2>2, <2>3, <2>4
  <2>6. QED
    BY <1>2, <2>5 DEF SticksFollow
<1>19. QED
  BY <1>2, <1>6, <1>12, <1>18 DEF HidInv

LEMMA HidStep == HidInv /\ [Next]_vars => HidInv'
<1> SUFFICES ASSUME HidInv, [Next]_vars PROVE HidInv'
  OBVIOUS
<1>1. CASE FullReport
  BY <1>1, FullKeeps
<1>2. CASE BatteryReport
  BY <1>2, BatteryKeeps
<1>3. CASE SteamReport
  BY <1>3, SteamKeeps
<1>4. CASE UNCHANGED vars
  <2>1. /\ dev' = dev /\ ctl' = ctl /\ words' = words /\ sticks' = sticks /\ full' = full
    BY <1>4 DEF vars
  <2>2. QED
    BY <2>1 DEF HidInv, SticksFollow, SteamGamepad
<1>5. QED
  BY <1>1, <1>2, <1>3, <1>4 DEF Next

-------------------------------------------------------------------------------
(* The theorems. *)

(* For every parser with a descriptor, every choice of the usages it takes for the
   right stick and the pedal, every logical range of up to 16 bits of sticks and pedals
   and every value in it, and for every 16-bit coordinate of the Steam Controller: the
   words of sticks are in the range of the virtual gamepad, a pedal is below 1024 if its
   minimum is 0, and the throttle word of a generic peer that sends RY is a pedal's,
   which is never negative. *)
THEOREM CommandsInRange == Spec => []AxesInRange
BY InvInRange, HidStart, HidStep, PTL DEF Spec

\* The word of a stick follows the stick, or runs against it where the parser negates.
LEMMA WordForOrder ==
  ASSUME dev \in Devices, NEW i \in 1 .. 4, NEW x, NEW y,
         StickValue(dev, x), StickValue(dev, y), x <= y,
         dev.parser = "steam" /\ i \in {2, 4} => x # -32768 /\ y # -32768,
         i = 4 /\ ThrottleIsPedal => ~(dev.g.min < 0)
  PROVE  IF Inverted(i) THEN WordFor(dev, i, y) <= WordFor(dev, i, x)
                        ELSE WordFor(dev, i, y) >= WordFor(dev, i, x)
<1>1. CASE dev.parser = "steam"
  <2>1. /\ x \in Int /\ -32768 <= x /\ x <= 32767
        /\ y \in Int /\ -32768 <= y /\ y <= 32767 /\ ~ThrottleIsPedal
    BY <1>1 DEF StickValue, ThrottleIsPedal
  <2>2. CASE i \in {2, 4}
    <3>1. Inverted(i) /\ x # -32768 /\ y # -32768
      BY <1>1, <2>2 DEF Inverted
    <3>2. Negated(x) = -x /\ Negated(y) = -y
      BY <2>1, <3>1, PadIs
    <3>3. (-y) \div 64 <= (-x) \div 64
      <4>1. -y \in Int /\ -x \in Int /\ -y <= -x /\ 64 \in Nat \ {0}
        BY <2>1
      <4>2. QED
        BY <4>1, DivOrder
    <3>4. QED
      BY <1>1, <2>1, <2>2, <3>1, <3>2, <3>3 DEF WordFor
  <2>3. CASE i \notin {2, 4}
    <3>1. ~Inverted(i)
      BY <2>3 DEF Inverted
    <3>2. x \div 64 <= y \div 64 /\ x \div 64 \in Int /\ y \div 64 \in Int
      BY <2>1, DivOrder
    <3>3. QED
      BY <1>1, <2>3, <3>1, <3>2 DEF WordFor
  <2>4. QED
    BY <2>2, <2>3
<1>2. CASE dev.parser # "steam"
  <2>1. /\ x \in dev.g.min .. Maximum(dev.g) /\ y \in dev.g.min .. Maximum(dev.g)
        /\ Ranged(dev.g)
    BY <1>2, DeviceAssumption DEF StickValue
  <2>2. ThrottleIsPedal <=> RyConversion(dev) = "pedal"
    BY <1>2 DEF ThrottleIsPedal, RyConversion
  <2>3. CASE i = 4 /\ ThrottleIsPedal
    <3> DEFINE a == process_pedal(dev.g, x)
               b == process_pedal(dev.g, y)
               l == dev.g.min
    <3>1. l \in Int /\ ~(l < 0)
      BY <2>1, <2>3 DEF Ranged
    <3> HIDE DEF l
    <3>2. l >= 0
      BY <3>1
    <3>3. a \in Nat /\ b \in Nat /\ a <= b
      BY <2>1, <3>2, PedalOrder DEF l
    <3>4. WordFor(dev, i, x) = a /\ WordFor(dev, i, y) = b
      BY <1>2, <2>2, <2>3 DEF WordFor
    <3>5. ~Inverted(i)
      BY <1>2, <2>3, PeerIs DEF Inverted, ThrottleIsPedal
    <3> HIDE DEF a, b
    <3>6. QED
      BY <3>3, <3>4, <3>5
  <2>4. CASE ~(i = 4 /\ ThrottleIsPedal)
    <3> DEFINE a == process_axis(dev.g, x)
               b == process_axis(dev.g, y)
    <3>1. a \in -512 .. 511 /\ b \in -512 .. 511 /\ a <= b
      BY <2>1, AxisOrder
    <3>2. /\ WordFor(dev, i, x) = IF Inverted(i) THEN -a ELSE a
          /\ WordFor(dev, i, y) = IF Inverted(i) THEN -b ELSE b
      BY <1>2, <2>2, <2>4 DEF WordFor, Inverted
    <3> HIDE DEF a, b
    <3>3. QED
      BY <2>4, <3>1, <3>2
  <2>5. QED
    BY <2>3, <2>4
<1>3. QED
  BY <1>1, <1>2

(* A stick that moves one way never moves its word the other way, through the
   rounding towards zero, the centring and the sign, for all the peers of
   CommandsInRange.  Left out are -32768 on the axes that the Steam Controller's parser
   negates, and RY of a generic peer whose values may be negative. *)
THEOREM SticksMonotone == Spec => StickOrder
<1>1. HidInv /\ HidInv' /\ [Next]_vars => [StickOrderStep]_vars
  <2> SUFFICES ASSUME HidInv, HidInv', Next PROVE StickOrderStep
    OBVIOUS
  <2>1. dev' = dev /\ dev \in Devices
    BY DEF Next, FullReport, BatteryReport, SteamReport, HidInv
  <2>2. ASSUME NEW i \in 1 .. 4, full, full', ~Unordered(i), sticks'[i] >= sticks[i]
        PROVE  IF Inverted(i) THEN WordAt(words', i) <= WordAt(words, i)
                              ELSE WordAt(words', i) >= WordAt(words, i)
    <3>1. StickValue(dev, sticks[i]) /\ WordAt(words, i) = WordFor(dev, i, sticks[i])
      BY <2>2 DEF HidInv, SticksFollow
    <3>2. StickValue(dev, sticks'[i]) /\ WordAt(words', i) = WordFor(dev, i, sticks'[i])
      BY <2>1, <2>2 DEF HidInv, SticksFollow
    <3>3. dev.parser = "steam" /\ i \in {2, 4} => sticks[i] # -32768 /\ sticks'[i] # -32768
      BY <2>2 DEF Unordered
    <3>4. i = 4 /\ ThrottleIsPedal => ~(dev.g.min < 0)
      BY <2>2 DEF Unordered
    <3>5. sticks[i] <= sticks'[i]
      BY <2>2
    <3>6. QED
      BY <2>1, <3>1, <3>2, <3>3, <3>4, <3>5, WordForOrder
  <2>3. QED
    BY <2>2 DEF StickOrderStep
<1>2. QED
  BY <1>1, HidStart, HidStep, PTL DEF Spec, StickOrder

===============================================================================
