---------------------------- MODULE AllowlistProofs ----------------------------
(***************************************************************************)
(* The allowlist comes back after a reboot, for every set of addresses,     *)
(* every size of the table and every sequence of commands, failing stores   *)
(* and power failures.                                                      *)
(***************************************************************************)
EXTENDS Allowlist, FiniteSetTheorems, WellFoundedInduction, TLAPS

Elems(seq) == {seq[k] : k \in 1 .. Len(seq)}

\* What is in flash, and what a boot will have put back when it is done.
Saved == Elems(nvs.list)
Total == Members \union Elems(rest)

Booting == pc \in {"load", "load_store"}
Running == pc \in {"run", "store_list", "store_enabled"}

AllowTypes ==
  /\ list \in [Slots -> Addrs \union {Zero}]
  /\ enforced \in BOOLEAN /\ hurt \in BOOLEAN
  /\ nvs \in [list : Seq(Addrs), enabled : BOOLEAN]
  /\ kept \in [list : SUBSET SUBSET Addrs, enabled : SUBSET BOOLEAN]
  /\ rest \in Seq(Addrs)
  /\ pc = "off" \/ Booting \/ Running

\* No address is in two slots: one removal takes it off the list.
Distinct == \A i, j \in Slots : i # j /\ list[i] = list[j] => list[i] = Zero

\* A boot fills the table from the front and never runs out of slots.
FilledTo(m) == /\ m \in 0 .. MaxAllowlist
               /\ \A i \in Slots : list[i] = Zero <=> i > m
               /\ m + Len(rest) <= MaxAllowlist

Filled == /\ Len(nvs.list) <= MaxAllowlist
          /\ pc = "off" => list = Empty
          /\ Booting => \E m \in Nat : FilledTo(m)
          /\ pc = "load_store" => Members # {}

\* The flag that a reboot brings back is one that was asked for.
FlagKept == /\ nvs.enabled \in kept.enabled
            /\ pc # "off" => enforced \in kept.enabled
            /\ Booting => enforced = nvs.enabled

\* Flash holds all of the list, or so much of it as the boot has put back.
PartSaved == \/ Saved = Total
             \/ /\ pc = "load" /\ rest # <<>>
                /\ Saved = Members /\ Members # {}
             \/ pc = "load_store" /\ \E a, b \in Members : a # b

\* The list in flash and the one in RAM are ones that were asked for.
ListKept == ~hurt => /\ pc = "off" => Saved \in kept.list
                     /\ Booting => Total \in kept.list /\ PartSaved
                     /\ Running => Members \in kept.list /\ Saved \in kept.list

AllowInv == AllowTypes /\ Distinct /\ Filled /\ FlagKept /\ ListKept

-------------------------------------------------------------------------------
(* Slots and members. *)

\* A non-empty set of natural numbers has a least element.
LEMMA LeastSlot ==
  ASSUME NEW S, S \subseteq Nat, S # {}
  PROVE  \E x \in S : \A y \in S : x <= y
<1>1. PICK x \in S : \A y \in S : ~(<<y, x>> \in OpToRel(<, Nat))
  BY NatLessThanWellFounded, WFMin
<1>2. ASSUME NEW y \in S, y < x PROVE <<y, x>> \in OpToRel(<, Nat)
  <2> DEFINE p == <<y, x>>
  <2>1. p \in Nat \X Nat
    OBVIOUS
  <2>2. p[1] < p[2]
    BY <1>2
  <2> HIDE DEF p
  <2>3. p \in OpToRel(<, Nat)
    BY <2>1, <2>2, Zenon DEF OpToRel
  <2> QED
    BY <2>3 DEF p
<1>3. \A y \in S : ~(y < x)
  BY <1>1, <1>2, Zenon
<1> QED
  BY <1>3

\* The loops over the table stop at a slot that holds the address.
LEMMA FirstSlotIs ==
  ASSUME NEW a, is_address_in_allowlist(a)
  PROVE  FirstSlot(a) \in Slots /\ list[FirstSlot(a)] = a
         /\ \A j \in 1 .. FirstSlot(a) - 1 : list[j] # a
<1> DEFINE S == {i \in Slots : list[i] = a}
<1>1. S \subseteq Nat /\ S # {}
  BY DEF is_address_in_allowlist, Slots
<1>2. PICK x \in S : \A y \in S : x <= y
  BY <1>1, LeastSlot
<1>3. x \in Slots /\ list[x] = a
  BY <1>2
<1>4. ASSUME NEW j \in 1 .. x - 1 PROVE list[j] # a
  <2>1. j \in Slots /\ ~(x <= j)
    BY <1>3, AllowlistAssumption DEF Slots
  <2> QED
    BY <1>2, <2>1
<1> HIDE DEF S
<1> QED
  BY <1>3, <1>4 DEF FirstSlot

LEMMA MembersType ==
  ASSUME AllowTypes
  PROVE  Members \subseteq Addrs /\ IsFiniteSet(Members)
<1>1. Members \subseteq Addrs
  BY DEF AllowTypes, Members
<1> DEFINE R == {list[i] : i \in Slots}
<1>2. list \in Surjection(Slots, R)
  BY DEF AllowTypes, Surjection
<1>3. IsFiniteSet(Slots)
  BY AllowlistAssumption, FS_Interval DEF Slots
<1>4. IsFiniteSet(R)
  BY <1>2, <1>3, FS_Surjection
<1>5. IsFiniteSet(R \ {Zero})
  BY <1>4, FS_RemoveElement
<1> QED
  BY <1>1, <1>5 DEF Members

\* An address is let in by the list when it is a member.
LEMMA MemberIs ==
  ASSUME NEW a \in Addrs
  PROVE  is_address_in_allowlist(a) <=> a \in Members
BY AllowlistAssumption DEF is_address_in_allowlist, Members

\* Two members, or one and more to come, are more than one address.
LEMMA Several ==
  ASSUME AllowTypes, \/ \E a, b \in Members : a # b
                     \/ Members # {} /\ rest # <<>>
  PROVE  Cardinality(Members) + Len(rest) > 1
<1>1. IsFiniteSet(Members) /\ Cardinality(Members) \in Nat
  BY MembersType, FS_CardinalityType
<1>2. Len(rest) \in Nat /\ (rest # <<>> => Len(rest) > 0)
  BY DEF AllowTypes
<1>3. Members # {}
  OBVIOUS
<1>4. Cardinality(Members) # 0
  BY <1>1, <1>3, FS_EmptySet
<1>5. CASE rest # <<>>
  BY <1>1, <1>2, <1>4, <1>5
<1>6. CASE \E a, b \in Members : a # b
  <2>1. Cardinality(Members) # 1
    BY <1>1, <1>6, FS_Singleton
  <2> QED
    BY <1>1, <1>2, <1>4, <2>1
<1> QED
  BY <1>5, <1>6

\* A boot that a fault does not hurt has all of the list in flash.
LEMMA UnhurtIsSaved ==
  ASSUME AllowInv, Booting, ~hurt, ~Hurts
  PROVE  Saved = Total
<1>1. PartSaved
  BY DEF AllowInv, ListKept
<1>2. ASSUME pc = "load", rest # <<>>, Saved = Members, Members # {} PROVE FALSE
  BY <1>2, Several DEF AllowInv, Hurts
<1>3. ASSUME pc = "load_store", \E a, b \in Members : a # b PROVE FALSE
  BY <1>3, Several DEF AllowInv, Hurts
<1> QED
  BY <1>1, <1>2, <1>3 DEF PartSaved

-------------------------------------------------------------------------------
(* The table. *)

\* Putting an address into the first free slot adds it to the members.
LEMMA PutIs ==
  ASSUME AllowTypes, Distinct, NEW a \in Addrs, Added(a), Put(a)
  PROVE  /\ list' \in [Slots -> Addrs \union {Zero}]
         /\ Distinct'
         /\ Members' = Members \union {a}
<1> DEFINE f == FirstSlot(Zero)
<1>1. f \in Slots /\ list[f] = Zero
  BY FirstSlotIs DEF Added
<1> HIDE DEF f
<1>2. list' = [list EXCEPT ![f] = a]
  BY DEF Put, f
<1>3. list' \in [Slots -> Addrs \union {Zero}]
  BY <1>2 DEF AllowTypes
<1>4. \A i \in Slots : list'[i] = IF i = f THEN a ELSE list[i]
  BY <1>2 DEF AllowTypes
<1>5. \A i \in Slots : list[i] # a
  BY DEF Added, is_address_in_allowlist
<1>6. Distinct'
  <2> SUFFICES ASSUME NEW i \in Slots, NEW j \in Slots, i # j,
                      list'[i] = list'[j]
               PROVE  list'[i] = Zero
    BY DEF Distinct, Slots
  <2> QED
    BY <1>4, <1>5 DEF Distinct
<1>7. Members' = Members \union {a}
  <2>1. Members' = {list'[i] : i \in Slots} \ {Zero}
    BY DEF Members, Slots
  <2> QED
    BY <1>1, <1>4, <2>1, AllowlistAssumption DEF Members
<1> QED
  BY <1>3, <1>6, <1>7

\* Freeing the first slot with an address takes it off the members, and freeing a
\* free slot changes nothing.
LEMMA RemoveIs ==
  ASSUME AllowTypes, Distinct, NEW a \in Addrs \union {Zero},
         is_address_in_allowlist(a), list' = [list EXCEPT ![FirstSlot(a)] = Zero]
  PROVE  /\ list' \in [Slots -> Addrs \union {Zero}]
         /\ Distinct'
         /\ Members' = Members \ {a}
<1> DEFINE f == FirstSlot(a)
<1>1. f \in Slots /\ list[f] = a
  BY FirstSlotIs
<1> HIDE DEF f
<1>2. list' = [list EXCEPT ![f] = Zero]
  BY DEF f
<1>3. list' \in [Slots -> Addrs \union {Zero}]
  BY <1>2 DEF AllowTypes
<1>4. \A i \in Slots : list'[i] = IF i = f THEN Zero ELSE list[i]
  BY <1>2 DEF AllowTypes
<1>5. Distinct'
  <2> SUFFICES ASSUME NEW i \in Slots, NEW j \in Slots, i # j,
                      list'[i] = list'[j]
               PROVE  list'[i] = Zero
    BY DEF Distinct, Slots
  <2> QED
    BY <1>4 DEF Distinct
<1>6. Members' = Members \ {a}
  <2>1. Members' = {list'[i] : i \in Slots} \ {Zero}
    BY DEF Members, Slots
  <2>2. ASSUME NEW x \in Members' PROVE x \in Members \ {a}
    <3>1. PICK i \in Slots : x = list'[i]
      BY <2>1, <2>2
    <3>2. x # Zero /\ i # f /\ x = list[i]
      BY <1>4, <2>1, <2>2, <3>1
    <3>3. x # a
      BY <1>1, <3>2 DEF Distinct
    <3> QED
      BY <3>2, <3>3 DEF Members
  <2>3. ASSUME NEW x \in Members, x # a PROVE x \in Members'
    <3>1. PICK i \in Slots : x = list[i] /\ x # Zero
      BY <2>3 DEF Members
    <3>2. list'[i] = x
      BY <1>1, <1>4, <2>3, <3>1
    <3> QED
      BY <2>1, <3>1, <3>2
  <2> QED
    BY <2>2, <2>3
<1> QED
  BY <1>3, <1>5, <1>6

\* A table without addresses.
LEMMA EmptyIs ==
  ASSUME list' = Empty
  PROVE  /\ list' \in [Slots -> Addrs \union {Zero}]
         /\ Distinct'
         /\ Members' = {}
<1>1. list' \in [Slots -> Addrs \union {Zero}] /\ \A i \in Slots : list'[i] = Zero
  BY DEF Empty
<1>2. Distinct'
  BY <1>1 DEF Distinct, Slots
<1>3. Members' = {list'[i] : i \in Slots} \ {Zero}
  BY DEF Members, Slots
<1> QED
  BY <1>1, <1>2, <1>3

\* What a store writes are the members, and no more than there are slots.
LEMMA StoredIs ==
  ASSUME AllowTypes, NEW n \in 0 .. MaxAllowlist, NEW order \in [1 .. n -> Slots],
         UsedInOrder(order), NEW seq, seq = [k \in 1 .. n |-> list[order[k]]]
  PROVE  seq \in Seq(Addrs) /\ Len(seq) <= MaxAllowlist /\ Elems(seq) = Members
<1>1. n \in Nat /\ n <= MaxAllowlist
  BY AllowlistAssumption
<1>2. {order[k] : k \in 1 .. n} = {i \in Slots : list[i] # Zero}
  BY DEF UsedInOrder
<1>3. ASSUME NEW k \in 1 .. n PROVE list[order[k]] \in Addrs
  BY <1>2 DEF AllowTypes
<1>4. seq \in [1 .. n -> Addrs]
  BY <1>3
<1>5. seq \in Seq(Addrs) /\ Len(seq) = n
  BY <1>1, <1>4
<1>6. Elems(seq) = {list[order[k]] : k \in 1 .. n}
  BY <1>5 DEF Elems
<1>7. ASSUME NEW x \in Members PROVE x \in {list[order[k]] : k \in 1 .. n}
  <2>1. PICK i \in Slots : x = list[i] /\ list[i] # Zero
    BY DEF Members
  <2>2. PICK k \in 1 .. n : i = order[k]
    BY <1>2, <2>1
  <2> QED
    BY <2>1, <2>2
<1>8. ASSUME NEW k \in 1 .. n PROVE list[order[k]] \in Members
  BY <1>3, AllowlistAssumption DEF Members
<1> QED
  BY <1>1, <1>5, <1>6, <1>7, <1>8

-------------------------------------------------------------------------------
(* One step. *)

\* What a sequence holds when its head is taken off.
LEMMA HeadAndRest ==
  ASSUME NEW s \in Seq(Addrs), s # <<>>
  PROVE  /\ Head(s) \in Addrs /\ Tail(s) \in Seq(Addrs)
         /\ Len(Tail(s)) = Len(s) - 1 /\ Len(s) \in Nat \ {0}
         /\ Elems(s) = {Head(s)} \union Elems(Tail(s))
<1>1. /\ Head(s) \in Addrs /\ Tail(s) \in Seq(Addrs) /\ Head(s) = s[1]
      /\ Len(Tail(s)) = Len(s) - 1 /\ Len(s) \in Nat \ {0}
      /\ \A k \in 1 .. Len(s) - 1 : Tail(s)[k] = s[k + 1]
  OBVIOUS
<1> DEFINE n == Len(s)
           t == Tail(s)
<1>2. /\ n \in Nat \ {0} /\ Len(t) = n - 1
      /\ \A k \in 1 .. n - 1 : t[k] = s[k + 1]
  BY <1>1
<1> HIDE DEF n, t
<1>3. ASSUME NEW k \in 1 .. n PROVE s[k] \in {s[1]} \union Elems(t)
  <2>1. CASE k = 1
    BY <2>1
  <2>2. CASE k # 1
    <3>1. k - 1 \in 1 .. n - 1 /\ (k - 1) + 1 = k
      BY <1>2, <2>2
    <3>2. t[k - 1] = s[k]
      BY <1>2, <3>1
    <3> QED
      BY <1>2, <3>1, <3>2 DEF Elems
  <2> QED
    BY <2>1, <2>2
<1>4. ASSUME NEW k \in 1 .. n - 1 PROVE t[k] \in Elems(s)
  <2>1. k + 1 \in 1 .. n
    BY <1>2
  <2> QED
    BY <1>2, <2>1 DEF Elems, n
<1>5. s[1] \in Elems(s)
  BY <1>2 DEF Elems, n
<1>6. Elems(s) = {s[1]} \union Elems(t)
  BY <1>2, <1>3, <1>4, <1>5 DEF Elems, n
<1> QED
  BY <1>1, <1>6 DEF t

\* Nothing is left of an empty sequence.
LEMMA NoElems == Elems(<<>>) = {}
BY DEF Elems

\* The table is empty at power on.
LEMMA InitAllow == Init => AllowInv
<1> SUFFICES ASSUME Init PROVE AllowInv
  OBVIOUS
<1>1. AllowTypes
  <2>1. list \in [Slots -> Addrs \union {Zero}]
    BY DEF Init, Empty
  <2>2. nvs \in [list : Seq(Addrs), enabled : BOOLEAN]
    BY DEF Init
  <2>3. kept \in [list : SUBSET SUBSET Addrs, enabled : SUBSET BOOLEAN]
    BY DEF Init
  <2> QED
    BY <2>1, <2>2, <2>3 DEF Init, AllowTypes
<1>2. Distinct
  BY DEF Init, Empty, Distinct
<1>3. Filled
  BY AllowlistAssumption DEF Init, Filled, Booting
<1>4. FlagKept
  BY DEF Init, FlagKept, Booting
<1>5. ListKept
  BY NoElems DEF Init, ListKept, Booting, Running, Saved
<1> QED
  BY <1>1, <1>2, <1>3, <1>4, <1>5 DEF AllowInv

\* uni_bt_allowlist_init: what was stored is what is to be put back.
LEMMA InitStep == AllowInv /\ uni_bt_allowlist_init => AllowInv'
<1> SUFFICES ASSUME AllowInv, uni_bt_allowlist_init PROVE AllowInv'
  OBVIOUS
<1> USE DEF AllowInv, uni_bt_allowlist_init
<1>1. AllowTypes'
  BY DEF AllowTypes, Booting, Running, Slots
<1>2. Distinct'
  BY DEF Distinct, Slots
<1>3. list = Empty /\ Members = {}
  <2>1. list = Empty
    BY DEF Filled
  <2> QED
    BY <2>1 DEF Members, Empty
<1>4. Filled'
  <2>1. Len(nvs.list) \in Nat /\ Len(nvs.list) <= MaxAllowlist
    BY DEF Filled, AllowTypes
  <2>2. FilledTo(0)'
    BY <1>3, <2>1, AllowlistAssumption DEF FilledTo, Slots, Empty
  <2> QED
    BY <2>1, <2>2 DEF Filled
<1>5. FlagKept'
  BY DEF FlagKept, Booting
<1>6. ListKept'
  <2>1. Total' = Saved /\ Saved' = Saved
    BY <1>3 DEF Total, Saved, Members, Slots
  <2>2. ~hurt => Saved \in kept.list
    BY DEF ListKept
  <2> QED
    BY <2>1, <2>2 DEF ListKept, PartSaved, Booting, Running
<1> QED
  BY <1>1, <1>2, <1>4, <1>5, <1>6

\* load_addr: an address moves from the rest to the table.
LEMMA LoadStep == AllowInv /\ load_addr => AllowInv'
<1> SUFFICES ASSUME AllowInv, load_addr PROVE AllowInv'
  OBVIOUS
<1> DEFINE a == Head(rest)
<1>1. /\ a \in Addrs /\ rest' = Tail(rest) /\ rest' \in Seq(Addrs)
      /\ Len(rest') = Len(rest) - 1 /\ Len(rest) \in Nat \ {0}
      /\ Elems(rest) = {a} \union Elems(rest')
  BY HeadAndRest DEF AllowInv, AllowTypes, load_addr
<1>2. /\ pc = "load" /\ rest # <<>>
      /\ UNCHANGED <<enforced, nvs, kept, hurt>>
      /\ \/ Added(a) /\ Put(a) /\ pc' = "load_store"
         \/ ~Added(a) /\ UNCHANGED <<list, pc>>
  BY DEF load_addr
<1> HIDE DEF a
<1>3. AllowTypes /\ Distinct /\ FlagKept
  BY DEF AllowInv
<1>4. PICK m \in Nat : FilledTo(m)
  BY <1>2 DEF AllowInv, Filled, Booting
<1>5. m \in Nat /\ m < MaxAllowlist /\ m + 1 \in Slots
  BY <1>1, <1>4, AllowlistAssumption DEF FilledTo, Slots
<1>6. is_address_in_allowlist(Zero)
  BY <1>4, <1>5 DEF FilledTo, is_address_in_allowlist
<1>7. FlagKept'
  BY <1>2, <1>3 DEF FlagKept, Booting
<1>8. Saved' = Saved /\ Total' = Members' \union Elems(rest')
  BY <1>2 DEF Saved, Total
<1>9. CASE Added(a)
  <2>1. Put(a) /\ pc' = "load_store"
    BY <1>2, <1>9
  <2>2. /\ list' \in [Slots -> Addrs \union {Zero}] /\ Distinct'
        /\ Members' = Members \union {a}
    BY <1>1, <1>3, <1>9, <2>1, PutIs
  <2>3. AllowTypes'
    BY <1>1, <1>2, <1>3, <2>1, <2>2 DEF AllowTypes, Booting, Running, Slots
  <2>4. FirstSlot(Zero) = m + 1
    <3> DEFINE f == FirstSlot(Zero)
    <3>1. f \in Slots /\ list[f] = Zero /\ \A j \in 1 .. f - 1 : list[j] # Zero
      BY <1>6, FirstSlotIs
    <3> HIDE DEF f
    <3>2. f > m
      BY <1>4, <3>1 DEF FilledTo
    <3>3. list[m + 1] = Zero
      BY <1>4, <1>5 DEF FilledTo
    <3>4. f \in Int /\ ~(m + 1 \in 1 .. f - 1)
      BY <3>1, <3>3 DEF Slots
    <3>5. f = m + 1
      BY <1>5, <3>2, <3>4
    <3> QED
      BY <3>5 DEF f
  <2>5. FilledTo(m + 1)'
    <3>1. list' = [list EXCEPT ![m + 1] = a]
      BY <2>1, <2>4 DEF Put
    <3>2. \A i \in Slots : list'[i] = IF i = m + 1 THEN a ELSE list[i]
      BY <3>1, <1>3 DEF AllowTypes
    <3>3. ASSUME NEW i \in Slots PROVE list'[i] = Zero <=> i > m + 1
      <4>1. i \in Nat /\ (list[i] = Zero <=> i > m)
        BY <1>4 DEF FilledTo, Slots
      <4>2. a # Zero
        BY <1>1, AllowlistAssumption
      <4> QED
        BY <1>5, <3>2, <4>1, <4>2
    <3>4. (m + 1) + Len(rest') <= MaxAllowlist
      BY <1>1, <1>4, <1>5, AllowlistAssumption DEF FilledTo
    <3> QED
      BY <1>5, <3>3, <3>4, AllowlistAssumption DEF FilledTo, Slots
  <2>6. Filled'
    <3>1. m + 1 \in Nat
      BY <1>5
    <3>2. Len(nvs'.list) <= MaxAllowlist
      BY <1>2 DEF AllowInv, Filled
    <3>3. Members' # {}
      BY <2>2
    <3> QED
      BY <2>1, <2>5, <3>1, <3>2, <3>3 DEF Filled
  <2>7. Total' = Total
    BY <1>1, <1>8, <2>2 DEF Total
  <2>8. ListKept'
    <3> SUFFICES ASSUME ~hurt PROVE ListKept'
      BY <1>2 DEF ListKept
    <3>1. Total \in kept.list /\ PartSaved
      BY <1>2 DEF AllowInv, ListKept, Booting
    <3>2. a \notin Members
      BY <1>1, <1>9, MemberIs DEF Added
    <3>3. Saved' = Total' \/ \E x, y \in Members' : x # y
      <4>1. CASE Saved = Total
        BY <1>8, <2>7, <4>1
      <4>2. CASE Members # {}
        BY <2>2, <3>2, <4>2
      <4> QED
        BY <3>1, <4>1, <4>2, <1>2 DEF PartSaved
    <3> QED
      BY <1>2, <2>1, <2>7, <3>1, <3>3 DEF ListKept, PartSaved, Booting, Running
  <2> QED
    BY <1>7, <2>2, <2>3, <2>6, <2>8 DEF AllowInv
<1>10. CASE ~Added(a)
  <2>1. UNCHANGED <<list, pc>>
    BY <1>2, <1>10
  <2>2. a \in Members /\ Members' = Members
    BY <1>1, <1>6, <1>10, <2>1, MemberIs DEF Added, Members, Slots
  <2>3. AllowTypes'
    BY <1>1, <1>2, <1>3, <2>1 DEF AllowTypes, Booting, Running, Slots
  <2>4. Distinct'
    BY <1>3, <2>1 DEF Distinct, Slots
  <2>5. FilledTo(m)'
    BY <1>1, <1>4, <2>1, AllowlistAssumption DEF FilledTo, Slots
  <2>6. Filled'
    BY <1>2, <2>1, <2>5 DEF AllowInv, Filled, Booting
  <2>7. Total' = Total
    BY <1>1, <1>8, <2>2 DEF Total
  <2>8. ListKept'
    <3> SUFFICES ASSUME ~hurt PROVE ListKept'
      BY <1>2 DEF ListKept
    <3>1. Total \in kept.list /\ PartSaved
      BY <1>2 DEF AllowInv, ListKept, Booting
    <3>2. Saved' = Total' \/ (rest' # <<>> /\ Saved' = Members' /\ Members' # {})
      <4>1. CASE Saved = Total
        BY <1>8, <2>7, <4>1
      <4>2. CASE Saved = Members /\ rest' # <<>>
        BY <1>8, <2>2, <4>2
      <4>3. CASE Saved = Members /\ rest' = <<>>
        BY <1>8, <2>2, <4>3, NoElems
      <4> QED
        BY <1>2, <3>1, <4>1, <4>2, <4>3 DEF PartSaved
    <3> QED
      BY <1>2, <2>1, <2>7, <3>1, <3>2 DEF ListKept, PartSaved, Booting, Running
  <2> QED
    BY <1>7, <2>3, <2>4, <2>6, <2>8 DEF AllowInv
<1> QED
  BY <1>9, <1>10

\* load_done: the list that was put back is the one in flash.
LEMMA DoneStep == AllowInv /\ load_done => AllowInv'
<1> SUFFICES ASSUME AllowInv, load_done PROVE AllowInv'
  OBVIOUS
<1>1. AllowTypes /\ Distinct /\ Filled /\ FlagKept
  BY DEF AllowInv
<1>2. /\ pc = "load" /\ rest = <<>> /\ pc' = "run"
      /\ UNCHANGED <<list, enforced, nvs, rest, hurt>>
  BY DEF load_done
<1>3. Members' = Members /\ Saved' = Saved
  BY <1>2 DEF Members, Saved, Slots
<1> DEFINE L == IF Members \in kept.list THEN {Members} ELSE kept.list
           E == kept.enabled \intersect {enforced}
<1>4. kept' = [list |-> L, enabled |-> E]
  BY DEF load_done
<1>5. L \in SUBSET SUBSET Addrs /\ E \in SUBSET BOOLEAN
  BY <1>1, MembersType DEF AllowTypes
<1>6. enforced \in E /\ nvs.enabled \in E
  BY <1>1, <1>2 DEF FlagKept, Booting
<1>7. ~hurt => Members \in L /\ Saved \in L
  <2> SUFFICES ASSUME ~hurt PROVE Members \in L /\ Saved \in L
    OBVIOUS
  <2>1. Total \in kept.list /\ PartSaved
    BY <1>2 DEF AllowInv, ListKept, Booting
  <2>2. Total = Members
    BY <1>2, NoElems DEF Total
  <2>3. Saved = Members
    BY <1>2, <2>1, <2>2 DEF PartSaved
  <2> QED
    BY <2>1, <2>2, <2>3
<1> HIDE DEF L, E
<1>8. AllowTypes'
  BY <1>1, <1>2, <1>4, <1>5 DEF AllowTypes, Booting, Running, Slots
<1>9. Distinct'
  BY <1>1, <1>2 DEF Distinct, Slots
<1>10. Filled'
  BY <1>1, <1>2 DEF Filled, Booting
<1>11. FlagKept'
  BY <1>2, <1>4, <1>6 DEF FlagKept, Booting
<1>12. ListKept'
  BY <1>2, <1>3, <1>4, <1>7 DEF ListKept, Booting, Running
<1> QED
  BY <1>8, <1>9, <1>10, <1>11, <1>12 DEF AllowInv

\* A command that changes the table to the members set.
CommandTo(set) ==
  /\ pc = "run" /\ pc' = "store_list"
  /\ list' \in [Slots -> Addrs \union {Zero}] /\ Distinct' /\ Members' = set
  /\ Wanted(set)
  /\ UNCHANGED <<enforced, nvs, rest, hurt>>

\* The list asked for is kept in mind from then on.
LEMMA CommandStep ==
  ASSUME AllowInv, NEW set \in SUBSET Addrs, CommandTo(set)
  PROVE  AllowInv'
<1>1. AllowTypes /\ Filled /\ FlagKept
  BY DEF AllowInv
<1>2. /\ pc = "run" /\ pc' = "store_list" /\ Members' = set /\ Distinct'
      /\ list' \in [Slots -> Addrs \union {Zero}]
      /\ UNCHANGED <<enforced, nvs, rest, hurt>>
  BY DEF CommandTo
<1> DEFINE L == kept.list \union {set}
           E == kept.enabled
<1>3. kept' = [list |-> L, enabled |-> E]
  BY <1>1 DEF AllowTypes, CommandTo, Wanted
<1>4. L \in SUBSET SUBSET Addrs /\ E \in SUBSET BOOLEAN
  BY <1>1 DEF AllowTypes
<1>5. enforced \in E /\ nvs.enabled \in E
  BY <1>1, <1>2 DEF FlagKept
<1>6. Saved' = Saved /\ Members' \in L
  BY <1>2 DEF Saved
<1>7. ~hurt => Saved \in L
  BY <1>2 DEF AllowInv, ListKept, Running
<1> HIDE DEF L, E
<1>8. AllowTypes'
  BY <1>1, <1>2, <1>3, <1>4 DEF AllowTypes, Booting, Running, Slots
<1>9. Filled'
  BY <1>1, <1>2 DEF Filled, Booting
<1>10. FlagKept'
  BY <1>2, <1>3, <1>5 DEF FlagKept, Booting
<1>11. ListKept'
  BY <1>2, <1>3, <1>6, <1>7 DEF ListKept, Booting, Running
<1> QED
  BY <1>2, <1>8, <1>9, <1>10, <1>11 DEF AllowInv

\* uni_bt_allowlist_add_addr, for the zero address too (it never succeeds).
LEMMA AddStep ==
  ASSUME AllowInv, NEW a \in Addrs \union {Zero}, uni_bt_allowlist_add_addr(a)
  PROVE  AllowInv'
<1>1. Added(a) /\ Put(a)
  BY DEF uni_bt_allowlist_add_addr
<1>2. a \in Addrs
  BY <1>1 DEF Added
<1>3. AllowTypes /\ Distinct
  BY DEF AllowInv
<1>4. /\ list' \in [Slots -> Addrs \union {Zero}] /\ Distinct'
      /\ Members' = Members \union {a}
  BY <1>1, <1>2, <1>3, PutIs
<1>5. CommandTo(Members \union {a})
  BY <1>4 DEF uni_bt_allowlist_add_addr, CommandTo
<1>6. Members \union {a} \in SUBSET Addrs
  BY <1>2, <1>3, MembersType
<1> QED
  BY <1>5, <1>6, CommandStep

\* uni_bt_allowlist_remove_addr.
LEMMA RemoveStep ==
  ASSUME AllowInv, NEW a \in Addrs \union {Zero}, uni_bt_allowlist_remove_addr(a)
  PROVE  AllowInv'
<1>1. /\ is_address_in_allowlist(a)
      /\ list' = [list EXCEPT ![FirstSlot(a)] = Zero]
  BY DEF uni_bt_allowlist_remove_addr
<1>2. AllowTypes /\ Distinct
  BY DEF AllowInv
<1>3. /\ list' \in [Slots -> Addrs \union {Zero}] /\ Distinct'
      /\ Members' = Members \ {a}
  BY <1>1, <1>2, RemoveIs
<1>4. CommandTo(Members \ {a})
  BY <1>3 DEF uni_bt_allowlist_remove_addr, CommandTo
<1>5. Members \ {a} \in SUBSET Addrs
  BY <1>2, MembersType
<1> QED
  BY <1>4, <1>5, CommandStep

\* uni_bt_allowlist_remove_all.
LEMMA ClearStep ==
  ASSUME AllowInv, uni_bt_allowlist_remove_all
  PROVE  AllowInv'
<1>1. /\ list' \in [Slots -> Addrs \union {Zero}] /\ Distinct'
      /\ Members' = {}
  BY EmptyIs DEF uni_bt_allowlist_remove_all
<1>2. CommandTo({})
  BY <1>1 DEF uni_bt_allowlist_remove_all, CommandTo
<1> QED
  BY <1>2, CommandStep

\* A step that leaves both tables alone.
LEMMA SameLists ==
  ASSUME UNCHANGED <<list, rest>>, nvs'.list = nvs.list
  PROVE  /\ Distinct' = Distinct /\ Members' = Members
         /\ Saved' = Saved /\ Total' = Total
         /\ \A m : FilledTo(m)' = FilledTo(m)
<1>1. Distinct' = Distinct
  BY DEF Distinct, Slots
<1>2. Members' = Members
  BY DEF Members, Slots
<1>3. Saved' = Saved
  BY DEF Saved
<1>4. Total' = Total
  BY <1>2 DEF Total
<1>5. \A m : FilledTo(m)' = FilledTo(m)
  BY DEF FilledTo, Slots
<1> QED
  BY <1>1, <1>2, <1>3, <1>4, <1>5

\* uni_bt_allowlist_set_enabled.
LEMMA EnableStep ==
  ASSUME AllowInv, NEW b \in BOOLEAN, uni_bt_allowlist_set_enabled(b)
  PROVE  AllowInv'
<1>1. AllowTypes /\ Distinct /\ Filled /\ FlagKept
  BY DEF AllowInv
<1>2. /\ pc = "run" /\ pc' = "store_enabled" /\ enforced' = b
      /\ UNCHANGED <<list, nvs, rest, hurt>>
  BY DEF uni_bt_allowlist_set_enabled
<1>3. kept' = [list |-> kept.list, enabled |-> kept.enabled \union {b}]
  BY <1>1 DEF AllowTypes, uni_bt_allowlist_set_enabled
<1>4. AllowTypes'
  <2>1. kept' \in [list : SUBSET SUBSET Addrs, enabled : SUBSET BOOLEAN]
    BY <1>1, <1>3 DEF AllowTypes
  <2> QED
    BY <1>1, <1>2, <2>1 DEF AllowTypes, Booting, Running, Slots
<1>5. Distinct' /\ Members' = Members /\ Saved' = Saved
  BY <1>1, <1>2, SameLists
<1>6. Filled'
  BY <1>1, <1>2 DEF Filled, Booting
<1>7. FlagKept'
  BY <1>1, <1>2, <1>3 DEF FlagKept, Booting
<1>8. ListKept'
  <2>1. ~hurt => Members \in kept.list /\ Saved \in kept.list
    BY <1>2 DEF AllowInv, ListKept, Running
  <2> QED
    BY <1>2, <1>3, <1>5, <2>1 DEF ListKept, Booting, Running
<1> QED
  BY <1>4, <1>5, <1>6, <1>7, <1>8 DEF AllowInv

-------------------------------------------------------------------------------
(* Flash and power. *)

\* update_allowlist_to_property: flash holds the members.
LEMMA StoreStep == AllowInv /\ update_allowlist_to_property => AllowInv'
<1> SUFFICES ASSUME AllowInv, update_allowlist_to_property PROVE AllowInv'
  OBVIOUS
<1>1. AllowTypes /\ Distinct /\ Filled /\ FlagKept
  BY DEF AllowInv
<1>0. PICK n \in 0 .. MaxAllowlist :
        \E order \in [1 .. n -> Slots] :
          /\ UsedInOrder(order)
          /\ nvs' = [nvs EXCEPT !.list = [k \in 1 .. n |-> list[order[k]]]]
  BY DEF update_allowlist_to_property
<1>2. PICK order \in [1 .. n -> Slots] :
        /\ UsedInOrder(order)
        /\ nvs' = [nvs EXCEPT !.list = [k \in 1 .. n |-> list[order[k]]]]
  BY <1>0
<1> DEFINE seq == [k \in 1 .. n |-> list[order[k]]]
<1>3. seq \in Seq(Addrs) /\ Len(seq) <= MaxAllowlist /\ Elems(seq) = Members
  BY <1>1, <1>2, StoredIs
<1>4. nvs' = [nvs EXCEPT !.list = seq]
  BY <1>2
<1> HIDE DEF seq
<1>5. nvs' = [list |-> seq, enabled |-> nvs.enabled]
  BY <1>1, <1>4 DEF AllowTypes
<1>6. nvs' \in [list : Seq(Addrs), enabled : BOOLEAN]
  BY <1>1, <1>3, <1>5 DEF AllowTypes
<1>7. UNCHANGED <<list, enforced, rest>>
  BY DEF update_allowlist_to_property
<1>8. Distinct' /\ Members' = Members /\ Saved' = Members
  BY <1>1, <1>3, <1>5, <1>7 DEF Distinct, Members, Saved, Slots
<1>9. CASE pc = "load_store"
  <2>1. pc' = "load" /\ kept' = kept /\ hurt' = hurt
    <3>1. Phase = "boot"
      BY <1>9 DEF Phase
    <3>2. hurt' = (hurt /\ TRUE)
      BY <3>1 DEF update_allowlist_to_property
    <3>3. hurt' = hurt
      BY <1>1, <3>2 DEF AllowTypes
    <3> QED
      BY <3>1, <3>3 DEF update_allowlist_to_property
  <2>2. AllowTypes'
    BY <1>1, <1>6, <1>7, <2>1 DEF AllowTypes, Booting, Running, Slots
  <2>3. PICK m \in Nat : FilledTo(m)
    BY <1>1, <1>9 DEF Filled, Booting
  <2>4. FilledTo(m)'
    BY <1>7, <2>3 DEF FilledTo, Slots
  <2>5. Filled'
    BY <1>3, <1>5, <2>1, <2>4 DEF Filled
  <2>6. FlagKept'
    BY <1>1, <1>5, <1>7, <1>9, <2>1 DEF FlagKept, Booting
  <2>7. Total' = Total
    BY <1>7, <1>8 DEF Total
  <2>8. ListKept'
    <3> SUFFICES ASSUME ~hurt PROVE ListKept'
      BY <2>1 DEF ListKept
    <3>1. Total \in kept.list
      BY <1>9 DEF AllowInv, ListKept, Booting
    <3>2. Members # {}
      BY <1>1, <1>9 DEF Filled
    <3>3. CASE rest = <<>>
      <4>1. Saved' = Total'
        BY <1>8, <2>7, <3>3, NoElems DEF Total
      <4> QED
        BY <2>1, <2>7, <3>1, <4>1 DEF ListKept, PartSaved, Booting, Running
    <3>4. CASE rest # <<>>
      BY <1>7, <1>8, <2>1, <2>7, <3>1, <3>2, <3>4
         DEF ListKept, PartSaved, Booting, Running
    <3> QED
      BY <3>3, <3>4
  <2> QED
    BY <1>8, <2>2, <2>5, <2>6, <2>8 DEF AllowInv
<1>10. CASE pc = "store_list"
  <2>1. /\ pc' = "run" /\ kept' = [kept EXCEPT !.list = {Members}]
        /\ hurt' \in BOOLEAN
    BY <1>10 DEF update_allowlist_to_property, Phase
  <2>2. kept' = [list |-> {Members}, enabled |-> kept.enabled]
    BY <1>1, <2>1 DEF AllowTypes
  <2>3. AllowTypes'
    <3>1. kept' \in [list : SUBSET SUBSET Addrs, enabled : SUBSET BOOLEAN]
      BY <1>1, <2>2, MembersType DEF AllowTypes
    <3> QED
      BY <1>1, <1>6, <1>7, <2>1, <3>1 DEF AllowTypes, Booting, Running, Slots
  <2>4. Filled'
    BY <1>3, <1>5, <2>1 DEF Filled, Booting
  <2>5. FlagKept'
    BY <1>1, <1>5, <1>7, <1>10, <2>1, <2>2 DEF FlagKept, Booting
  <2>6. ListKept'
    BY <1>8, <2>1, <2>2 DEF ListKept, Booting, Running
  <2> QED
    BY <1>8, <2>3, <2>4, <2>5, <2>6 DEF AllowInv
<1> QED
  BY <1>9, <1>10 DEF update_allowlist_to_property

\* The flag is stored.
LEMMA StoreFlagStep == AllowInv /\ store_enabled => AllowInv'
<1> SUFFICES ASSUME AllowInv, store_enabled PROVE AllowInv'
  OBVIOUS
<1>1. AllowTypes /\ Distinct /\ Filled /\ FlagKept
  BY DEF AllowInv
<1>2. /\ pc = "store_enabled" /\ pc' = "run"
      /\ UNCHANGED <<list, enforced, rest, hurt>>
  BY DEF store_enabled
<1>3. nvs' = [list |-> nvs.list, enabled |-> enforced]
  BY <1>1 DEF AllowTypes, store_enabled
<1>4. kept' = [list |-> kept.list, enabled |-> {enforced}]
  BY <1>1 DEF AllowTypes, store_enabled
<1>5. AllowTypes'
  <2>1. kept' \in [list : SUBSET SUBSET Addrs, enabled : SUBSET BOOLEAN]
    BY <1>1, <1>4 DEF AllowTypes
  <2>2. nvs' \in [list : Seq(Addrs), enabled : BOOLEAN]
    BY <1>1, <1>3 DEF AllowTypes
  <2> QED
    BY <1>1, <1>2, <2>1, <2>2 DEF AllowTypes, Booting, Running, Slots
<1>6. Distinct' /\ Members' = Members /\ Saved' = Saved
  BY <1>1, <1>2, <1>3, SameLists
<1>7. Filled'
  BY <1>1, <1>2, <1>3 DEF Filled, Booting
<1>8. FlagKept'
  BY <1>2, <1>3, <1>4 DEF FlagKept, Booting
<1>9. ListKept'
  <2>1. ~hurt => Members \in kept.list /\ Saved \in kept.list
    BY <1>2 DEF AllowInv, ListKept, Running
  <2> QED
    BY <1>2, <1>4, <1>6, <2>1 DEF ListKept, Booting, Running
<1> QED
  BY <1>5, <1>6, <1>7, <1>8, <1>9 DEF AllowInv

\* A failing store leaves flash as it was.
LEMMA StoreFailsStep == AllowInv /\ store_fails => AllowInv'
<1> SUFFICES ASSUME AllowInv, store_fails PROVE AllowInv'
  OBVIOUS
<1>1. AllowTypes /\ Distinct /\ Filled /\ FlagKept
  BY DEF AllowInv
<1>2. UNCHANGED <<list, enforced, nvs, rest, kept>> /\ hurt' \in BOOLEAN
  BY DEF store_fails
<1>3. ~hurt' => ~hurt /\ ~Hurts
  BY <1>1 DEF store_fails, AllowTypes
<1>4. /\ Distinct' /\ Members' = Members /\ Saved' = Saved /\ Total' = Total
      /\ \A m : FilledTo(m)' = FilledTo(m)
  BY <1>1, <1>2, SameLists
<1>5. CASE pc = "load_store"
  <2>1. pc' = "load"
    BY <1>5 DEF store_fails, Phase
  <2>2. AllowTypes'
    BY <1>1, <1>2, <2>1 DEF AllowTypes, Booting, Running, Slots
  <2>3. PICK m \in Nat : FilledTo(m)
    BY <1>1, <1>5 DEF Filled, Booting
  <2>4. FilledTo(m)'
    BY <1>2, <2>3 DEF FilledTo, Slots
  <2>5. Filled'
    BY <1>1, <1>2, <2>1, <2>4 DEF Filled
  <2>6. FlagKept'
    BY <1>1, <1>2, <1>5, <2>1 DEF FlagKept, Booting
  <2>7. ListKept'
    <3> SUFFICES ASSUME ~hurt' PROVE ListKept'
      BY DEF ListKept
    <3>1. Saved = Total
      BY <1>3, <1>5, UnhurtIsSaved DEF Booting
    <3>2. Total \in kept.list
      BY <1>3, <1>5 DEF AllowInv, ListKept, Booting
    <3> QED
      BY <1>2, <1>4, <2>1, <3>1, <3>2 DEF ListKept, PartSaved, Booting, Running
  <2> QED
    BY <1>4, <2>2, <2>5, <2>6, <2>7 DEF AllowInv
<1>6. CASE pc \in {"store_list", "store_enabled"}
  <2>1. pc' = "run"
    BY <1>6 DEF store_fails, Phase
  <2>2. AllowTypes'
    BY <1>1, <1>2, <2>1 DEF AllowTypes, Booting, Running, Slots
  <2>3. Filled'
    BY <1>1, <1>2, <2>1 DEF Filled, Booting
  <2>4. FlagKept'
    BY <1>1, <1>2, <1>6, <2>1 DEF FlagKept, Booting
  <2>5. ListKept'
    <3>1. ~hurt => Members \in kept.list /\ Saved \in kept.list
      BY <1>6 DEF AllowInv, ListKept, Running
    <3> QED
      BY <1>2, <1>3, <1>4, <2>1, <3>1 DEF ListKept, Booting, Running
  <2> QED
    BY <1>4, <2>2, <2>3, <2>4, <2>5 DEF AllowInv
<1> QED
  BY <1>5, <1>6 DEF store_fails

\* What is in flash when the power fails is a list that was asked for.
LEMMA PowerStep == AllowInv /\ power_fails => AllowInv'
<1> SUFFICES ASSUME AllowInv, power_fails PROVE AllowInv'
  OBVIOUS
<1>1. AllowTypes /\ Distinct /\ Filled /\ FlagKept
  BY DEF AllowInv
<1>2. /\ pc # "off" /\ pc' = "off" /\ list' = Empty /\ enforced' = FALSE
      /\ rest' = <<>> /\ UNCHANGED <<nvs, kept>> /\ hurt' \in BOOLEAN
  BY DEF power_fails
<1>3. ~hurt' => ~hurt /\ ~Hurts
  BY <1>1 DEF power_fails, AllowTypes
<1>4. list' \in [Slots -> Addrs \union {Zero}] /\ Distinct'
  BY <1>2, EmptyIs
<1>5. AllowTypes'
  <2>1. rest' \in Seq(Addrs)
    BY <1>2
  <2> QED
    BY <1>1, <1>2, <1>4, <2>1 DEF AllowTypes, Booting, Running, Slots
<1>6. Filled'
  BY <1>1, <1>2 DEF Filled, Booting, Empty, Slots
<1>7. FlagKept'
  BY <1>1, <1>2 DEF FlagKept, Booting
<1>8. ListKept'
  <2> SUFFICES ASSUME ~hurt' PROVE Saved' \in kept'.list
    BY <1>2 DEF ListKept, Booting, Running
  <2>1. Saved' = Saved /\ kept' = kept
    BY <1>2 DEF Saved
  <2>2. CASE Booting
    <3>1. Saved = Total
      BY <1>3, <2>2, UnhurtIsSaved
    <3>2. Total \in kept.list
      BY <1>3, <2>2 DEF AllowInv, ListKept
    <3> QED
      BY <2>1, <3>1, <3>2
  <2>3. CASE Running
    BY <1>3, <2>1, <2>3 DEF AllowInv, ListKept
  <2> QED
    BY <1>1, <1>2, <2>2, <2>3 DEF AllowTypes
<1> QED
  BY <1>4, <1>5, <1>6, <1>7, <1>8 DEF AllowInv

LEMMA AllowStutter == AllowInv /\ UNCHANGED vars => AllowInv'
<1> SUFFICES ASSUME AllowInv, UNCHANGED vars PROVE AllowInv'
  OBVIOUS
<1> USE DEF vars
<1>1. AllowTypes'
  BY DEF AllowInv, AllowTypes, Booting, Running, Slots
<1>2. Distinct'
  BY DEF AllowInv, Distinct, Slots
<1>3. Filled'
  BY DEF AllowInv, Filled, FilledTo, Booting, Empty, Members, Slots
<1>4. FlagKept'
  BY DEF AllowInv, FlagKept, Booting
<1>5. ListKept'
  BY DEF AllowInv, ListKept, PartSaved, Booting, Running, Total, Saved, Members, Slots
<1> QED
  BY <1>1, <1>2, <1>3, <1>4, <1>5 DEF AllowInv

-------------------------------------------------------------------------------
(* The theorems. *)

\* The invariant holds in every state, whatever fails.
LEMMA AllowInvariance == Spec => []AllowInv
<1>1. AllowInv /\ [Next]_vars => AllowInv'
  BY InitStep, LoadStep, DoneStep, AddStep, RemoveStep, ClearStep, EnableStep,
     StoreStep, StoreFlagStep, StoreFailsStep, PowerStep, AllowStutter DEF Next
<1> QED
  BY <1>1, InitAllow, PTL DEF Spec

\* For every size of the table and every set of addresses: what the commands of
\* uni_bt_allowlist.c asked for survives every reboot, as a whole list and with
\* its flag, unless a fault hits a boot that puts back two addresses or more.
THEOREM AllowlistPersists == Spec => []ListPersists
<1>1. AllowInv => ListPersists
  <2> SUFFICES ASSUME AllowInv, pc = "run", ~hurt
               PROVE  /\ enforced \in kept.enabled
                      /\ \E set \in kept.list : \A a \in Addrs :
                           uni_bt_allowlist_is_allowed_addr(a)
                             <=> (enforced => a \in set)
    BY DEF ListPersists
  <2>1. enforced \in kept.enabled
    BY DEF AllowInv, FlagKept
  <2>2. Members \in kept.list
    BY DEF AllowInv, ListKept, Running
  <2>3. \A a \in Addrs : uni_bt_allowlist_is_allowed_addr(a)
                           <=> (enforced => a \in Members)
    BY MemberIs DEF uni_bt_allowlist_is_allowed_addr
  <2> QED
    BY <2>1, <2>2, <2>3
<1> QED
  BY <1>1, AllowInvariance, PTL

\* Whether the list is used is as last stored or as asked for since, whatever
\* fault hit whichever boot: the flag has a key of its own in flash and a boot does not
\* write it.
FlagPersists == pc # "off" => enforced \in kept.enabled

\* A board that boots or runs uses the list as it was told to, even where the list
\* itself was hurt by a fault during a boot of uni_bt_allowlist_init.
THEOREM AllowlistFlagPersists == Spec => []FlagPersists
<1>1. AllowInv => FlagPersists
  BY DEF AllowInv, FlagKept, FlagPersists
<1> QED
  BY <1>1, AllowInvariance, PTL

\* A boot always has a free slot for the next stored address and no address is
\* ever in two slots, so update_allowlist_from_property drops nothing.
NothingDropped ==
  /\ \A i, j \in Slots : i # j /\ list[i] = list[j] => list[i] = Zero
  /\ pc = "load" /\ rest # <<>> => is_address_in_allowlist(Zero)

\* For every size of the table: what was stored fits when it is put back.
THEOREM StoredListFits == Spec => []NothingDropped
<1>1. AllowInv => NothingDropped
  <2> SUFFICES ASSUME AllowInv PROVE NothingDropped
    OBVIOUS
  <2>1. ASSUME pc = "load", rest # <<>> PROVE is_address_in_allowlist(Zero)
    <3>1. PICK m \in Nat : FilledTo(m)
      BY <2>1 DEF AllowInv, Filled, Booting
    <3>2. Len(rest) \in Nat \ {0}
      BY <2>1, HeadAndRest DEF AllowInv, AllowTypes
    <3>3. m + 1 \in Slots /\ m + 1 > m
      BY <3>1, <3>2, AllowlistAssumption DEF FilledTo, Slots
    <3> QED
      BY <3>1, <3>3 DEF FilledTo, is_address_in_allowlist
  <2> QED
    BY <2>1 DEF AllowInv, Distinct, NothingDropped
<1> QED
  BY <1>1, AllowInvariance, PTL

===============================================================================
