----------------------------- MODULE BleHostProofs -----------------------------
(***************************************************************************)
(* What BtHost and SteamHost check on small instances, for every number of *)
(* peers, slots, handles and clients.  Both hosts take the steps of        *)
(* BleHost, so each of those is shown once to keep Inv.  The controller is *)
(* taken to give no handle 0: a slot that waits for its connection has     *)
(* that handle, and with it the first theorem is false (BleHandleZero.cfg).*)
(***************************************************************************)
EXTENDS BtHost, SteamHost, TLAPS

NoHandleZero == 0 \notin Handles

-------------------------------------------------------------------------------
(* The inductive invariant, shared by both hosts. *)

\* No two links have the same handle, and a link that is up has one.
LinksInv ==
    /\ \A a \in Addrs : Up(a) <=> link[a].h # Invalid
    /\ \A a, b \in Addrs : link[a].h = link[b].h /\ link[a].h # Invalid => a = b

\* A slot is a peer's alone, its handle is that of the peer's link, and nothing of
\* an earlier peer is left in an empty slot.
SlotsInv ==
    /\ \A s, t \in Slots : devs[s].addr = devs[t].addr /\ devs[s].addr # None => s = t
    /\ \A s \in Slots : devs[s].addr = None =>
          /\ devs[s].handle = Invalid /\ devs[s].hids = Invalid
          /\ ~devs[s].connected /\ ~devs[s].timer
    /\ \A s \in Slots : devs[s].handle \in Handles => link[devs[s].addr].h = devs[s].handle
    /\ \A s, t \in Slots : devs[s].hids = devs[t].hids /\ devs[s].hids \in Cids => s = t

\* A client's identifier is its own, and the slot that has it is the client's.
ClientsInv ==
    /\ \A c, d \in clients : c.cid = d.cid => c = d
    /\ \A c \in clients, s \in Slots : devs[s].hids = c.cid =>
          devs[s].handle = c.h /\ (c.connected => devs[s].connected)

\* A device that was announced has a link, and its client until that link closes.
ConnectedInv ==
    \A s \in Slots : devs[s].connected =>
        /\ devs[s].handle \in Handles
        /\ link[devs[s].addr].st = "open" =>
              \E c \in clients : c.cid = devs[s].hids /\ c.connected

\* The pilot has a ready slot whose end will be announced.
PilotInv ==
    pilot # None =>
        \E s \in Slots : /\ devs[s].addr = pilot /\ devs[s].handle \in Handles
                         /\ devs[s].state = "READY" /\ devs[s].connected

Inv == TypeOK /\ LinksInv /\ SlotsInv /\ ClientsInv /\ ConnectedInv /\ PilotInv

-------------------------------------------------------------------------------
(* Look-ups. *)

\* No handle and no identifier of a client is one of the two marks.
LEMMA Invalids ==
  /\ Invalid \notin Handles /\ 0 # Invalid
  /\ 0 \notin Cids /\ Invalid \notin Cids
<1>1. Invalid \in Nat /\ 0 # Invalid
  BY DEF Invalid
<1>2. Invalid \notin Handles
  BY <1>1, HandleAssumption
<1>3. 0 \notin Cids /\ Invalid \notin Cids
  BY <1>1, CidAssumption
<1>4. QED
  BY <1>1, <1>2, <1>3

LEMMA Marks ==
  ASSUME NoHandleZero
  PROVE  /\ 0 \notin Handles /\ Invalid \notin Handles
         /\ 0 \notin Cids /\ Invalid \notin Cids
         /\ None \notin Addrs /\ Slots \subseteq Nat /\ 0 # Invalid
<1>1. 0 \notin Handles
  BY DEF NoHandleZero
<1>2. None \notin Addrs /\ Slots \subseteq Nat
  BY TableAssumption DEF Slots
<1>3. QED
  BY <1>1, <1>2, Invalids

\* A set with at most one member has that member for its first.
LEMMA FirstOfOne ==
  ASSUME NEW S \in SUBSET Nat, \A s, t \in S : s = t
  PROVE  FirstOf(S) = S
<1>1. \A s, t \in S : s <= t
  OBVIOUS
<1>2. QED
  BY <1>1 DEF FirstOf

\* uni_hid_device_get_instance_for_connection_handle finds the only slot there is.
LEMMA ByHandleIs ==
  ASSUME Inv, NoHandleZero, NEW h \in Handles, NEW s \in Slots
  PROVE  s \in ByHandle(devs, h) <=> devs[s].handle = h
<1>1. \A t, u \in Slots : devs[t].handle = h /\ devs[u].handle = h => t = u
  <2> SUFFICES ASSUME NEW t \in Slots, NEW u \in Slots,
                      devs[t].handle = h, devs[u].handle = h
               PROVE  t = u
    OBVIOUS
  <2>1. devs[t].addr \in Addrs /\ devs[u].addr \in Addrs
    BY Marks DEF Inv, TypeOK, SlotsInv
  <2>2. link[devs[t].addr].h = h /\ link[devs[u].addr].h = h
    BY DEF Inv, SlotsInv
  <2>3. devs[t].addr = devs[u].addr
    BY <2>1, <2>2, Marks DEF Inv, LinksInv
  <2>4. QED
    BY <2>1, <2>3, Marks DEF Inv, SlotsInv
<1>2. h # Invalid
  BY Marks
<1>3. QED
  BY <1>1, <1>2, FirstOfOne, Marks DEF ByHandle

\* So does uni_hid_device_get_instance_for_address ...
LEMMA ByAddrIs ==
  ASSUME Inv, NoHandleZero, NEW a \in Addrs, NEW s \in Slots
  PROVE  s \in ByAddr(devs, a) <=> devs[s].addr = a
<1>1. \A t, u \in {x \in Slots : devs[x].addr = a} : t = u
  BY Marks DEF Inv, SlotsInv
<1>2. QED
  BY <1>1, FirstOfOne, Marks DEF ByAddr

\* ... and uni_hid_device_get_instance_for_hids_cid.
LEMMA ByHidsIs ==
  ASSUME Inv, NoHandleZero, NEW cid \in Cids, NEW s \in Slots
  PROVE  s \in ByHids(devs, cid) <=> devs[s].hids = cid
<1>1. \A t, u \in {x \in Slots : cid # 0 /\ devs[x].hids = cid} : t = u
  BY DEF Inv, SlotsInv
<1>2. cid # 0
  BY Marks
<1>3. QED
  BY <1>1, <1>2, FirstOfOne, Marks DEF ByHids

\* A slot with a handle is its peer's, and no other slot is.
LEMMA SlotLinked ==
  ASSUME Inv, NoHandleZero, NEW s \in Slots, devs[s].handle \in Handles
  PROVE  /\ devs[s].addr \in Addrs /\ Up(devs[s].addr)
         /\ link[devs[s].addr].h = devs[s].handle
         /\ \A t \in Slots : devs[t].handle = devs[s].handle => t = s
<1>1. devs[s].addr \in Addrs
  BY Marks DEF Inv, TypeOK, SlotsInv
<1>2. link[devs[s].addr].h = devs[s].handle
  BY DEF Inv, SlotsInv
<1>3. Up(devs[s].addr)
  BY <1>1, <1>2, Marks DEF Inv, LinksInv
<1>4. ASSUME NEW t \in Slots, devs[t].handle = devs[s].handle PROVE t = s
  <2>1. devs[t].addr \in Addrs /\ link[devs[t].addr].h = devs[s].handle
    BY <1>4, Marks DEF Inv, TypeOK, SlotsInv
  <2>2. devs[t].addr = devs[s].addr
    BY <2>1, <1>1, <1>2, Marks DEF Inv, LinksInv
  <2>3. QED
    BY <2>2, <1>1, Marks DEF Inv, SlotsInv
<1>5. QED
  BY <1>1, <1>2, <1>3, <1>4

-------------------------------------------------------------------------------
(* What the helpers of the handlers do. *)

LinkType == [Addrs -> [st : {"none", "create", "open", "closing"},
                       h : Handles \cup {Invalid}]]

\* A step that gives no peer another handle and opens no link.
NoNewLink ==
    /\ link' \in LinkType
    /\ \A a \in Addrs : /\ link'[a].h = link[a].h
                        /\ link'[a].st \in {"open", "closing"} <=> Up(a)
                        /\ link'[a].st = "open" => link[a].st = "open"

LEMMA LinksKept ==
  ASSUME Inv, NoNewLink
  PROVE  LinksInv'
BY DEF Inv, NoNewLink, LinksInv, Up

\* hog_disconnect closes the one link with the handle and ends at most the client
\* of the slot with the handle.
LEMMA HangUp ==
  ASSUME Inv, NoHandleZero, NEW h \in Handles, hog_disconnect(h)
  PROVE  /\ NoNewLink
         /\ \A a \in Addrs : /\ link[a].h # h => link'[a] = link[a]
                             /\ link[a].h = h => link'[a].st = "closing"
         /\ clients' \subseteq clients
         /\ \A c \in clients \ clients' :
               \E s \in Slots : devs[s].handle = h /\ devs[s].hids = c.cid
         /\ le_scanning' \in BOOLEAN
<1>1. link' = gap_disconnect(h) /\ clients' = WithoutClientOf(h)
  BY DEF hog_disconnect
<1>2. \A a \in Addrs : link[a].h = h => link[a].st \in {"open", "closing"}
  BY Marks DEF Inv, LinksInv, Up
<1>3. \A a \in Addrs : link'[a] = IF link[a].h = h /\ link[a].st = "open"
                                 THEN [link[a] EXCEPT !.st = "closing"] ELSE link[a]
  BY <1>1 DEF gap_disconnect, Conn
<1>4. link' \in LinkType
  BY <1>1 DEF gap_disconnect, Inv, TypeOK, LinkType
<1>5. \A a \in Addrs : /\ link'[a].h = link[a].h
                       /\ link[a].h # h => link'[a] = link[a]
                       /\ link[a].h = h => link'[a].st = "closing"
  BY <1>2, <1>3 DEF Inv, TypeOK
<1>6. NoNewLink
  BY <1>2, <1>4, <1>5 DEF NoNewLink, Up
<1>7. \A c \in clients \ clients' :
        \E s \in Slots : devs[s].handle = h /\ devs[s].hids = c.cid
  <2> SUFFICES ASSUME NEW c \in clients, c \notin clients'
               PROVE  \E s \in Slots : devs[s].handle = h /\ devs[s].hids = c.cid
    OBVIOUS
  <2>1. PICK s \in ByHandle(devs, h) : c.cid = devs[s].hids
    BY <1>1 DEF WithoutClientOf
  <2>2. s \in Slots
    BY DEF ByHandle, FirstOf
  <2>3. QED
    BY <2>1, <2>2, ByHandleIs
<1>8. le_scanning' \in BOOLEAN
  BY DEF hog_disconnect, resume_scanning_hint, Inv, TypeOK
<1>9. QED
  BY <1>1, <1>5, <1>6, <1>7, <1>8 DEF WithoutClientOf

-------------------------------------------------------------------------------
(* Each step keeps Inv. *)

\* The variables that the rest of Inv does not speak of.
RestOK == /\ le_scanning \in BOOLEAN /\ is_scanning \in BOOLEAN
          /\ dis \in Handles \cup {Invalid} /\ sm \subseteq Handles

SlotType == [addr : Addrs \cup {None}, handle : Handles \cup {0, Invalid},
             state : {"NONE", "DISCOVERED", "PENDING", "READY"},
             connected : BOOLEAN, timer : BOOLEAN, hids : Cids \cup {0, Invalid}]

DevsType == [Slots -> SlotType]

ClientType == [cid : Cids, h : Handles, connected : BOOLEAN]

LEMMA TypeParts ==
  TypeOK <=> /\ devs \in DevsType /\ link \in LinkType /\ clients \subseteq ClientType
             /\ RestOK /\ pilot \in Addrs \cup {None}
BY DEF TypeOK, DevsType, SlotType, LinkType, ClientType, RestOK

\* A step that leaves slots, links, clients and pilot alone.
LEMMA QuietKeeps ==
  ASSUME Inv, UNCHANGED <<devs, link, clients, pilot>>, RestOK'
  PROVE  Inv'
BY DEF Inv, TypeOK, RestOK, LinksInv, Up, SlotsInv, ClientsInv, ConnectedInv, PilotInv

\* A step that asks for the end of a link.
LEMMA HangUpKeeps ==
  ASSUME Inv, NoHandleZero, NEW h \in Handles, hog_disconnect(h),
         UNCHANGED <<devs, pilot>>, RestOK'
  PROVE  Inv'
<1>1. TypeOK'
  BY HangUp, TypeParts DEF Inv, TypeOK, RestOK, NoNewLink, LinkType
<1>2. LinksInv'
  BY HangUp, LinksKept
<1>3. SlotsInv'
  <2>1. \A s \in Slots : devs[s].handle \in Handles => devs[s].addr \in Addrs
    BY SlotLinked
  <2>2. QED
    BY <2>1, HangUp DEF Inv, SlotsInv, NoNewLink
<1>4. ClientsInv'
  BY HangUp DEF Inv, ClientsInv
<1>5. ConnectedInv'
  <2> SUFFICES ASSUME NEW s \in Slots, devs[s].connected
               PROVE  /\ devs[s].handle \in Handles
                      /\ link'[devs[s].addr].st = "open" =>
                            \E c \in clients' : c.cid = devs[s].hids /\ c.connected
    BY DEF ConnectedInv
  <2>1. devs[s].handle \in Handles
    BY DEF Inv, ConnectedInv
  <2>2. devs[s].addr \in Addrs /\ link[devs[s].addr].h = devs[s].handle
    BY <2>1, SlotLinked
  <2>3. ASSUME link'[devs[s].addr].st = "open"
        PROVE  \E c \in clients' : c.cid = devs[s].hids /\ c.connected
    <3>1. devs[s].handle # h /\ link[devs[s].addr].st = "open"
      BY <2>2, <2>3, HangUp DEF NoNewLink
    <3>2. PICK c \in clients : c.cid = devs[s].hids /\ c.connected
      BY <3>1 DEF Inv, ConnectedInv
    <3>3. c \in clients'
      <4>1. ASSUME c \notin clients' PROVE FALSE
        <5>1. PICK t \in Slots : devs[t].handle = h /\ devs[t].hids = c.cid
          BY <4>1, HangUp
        <5>2. c.cid \in Cids
          BY DEF Inv, TypeOK
        <5>3. t = s
          BY <5>1, <5>2, <3>2 DEF Inv, SlotsInv
        <5>4. QED
          BY <5>1, <5>3, <3>1
      <4>2. QED
        BY <4>1
    <3>4. QED
      BY <3>2, <3>3
  <2>4. QED
    BY <2>1, <2>3
<1>6. PilotInv'
  BY DEF Inv, PilotInv
<1>7. QED
  BY <1>1, <1>2, <1>3, <1>4, <1>5, <1>6 DEF Inv

\* A peer is found: it takes a free slot, and no slot had its address.
LEMMA AdvertisingReportKeeps ==
  ASSUME Inv, NoHandleZero, NEW a \in Addrs, AdvertisingReport(a)
  PROVE  Inv'
<1>1. PICK s \in FreeSlot(devs) :
        devs' = [devs EXCEPT ![s] = [Fresh(a) EXCEPT !.state = "DISCOVERED"]]
  BY DEF AdvertisingReport
<1>2. s \in Slots /\ devs[s].addr = None
  BY DEF FreeSlot, FirstOf
<1>3. \A t \in Slots : devs[t].addr # a
  BY ByAddrIs DEF AdvertisingReport
<1>4. /\ devs'[s].addr = a /\ devs'[s].handle = 0 /\ devs'[s].hids = 0
      /\ ~devs'[s].connected
      /\ \A t \in Slots \ {s} : devs'[t] = devs[t]
  BY <1>1, <1>2 DEF Fresh, Inv, TypeOK
<1>5. NoNewLink
  BY DEF AdvertisingReport, gap_connect, Inv, TypeOK, LinksInv, NoNewLink, LinkType, Up
<1>6. UNCHANGED <<is_scanning, clients, dis, sm, pilot>> /\ le_scanning' = FALSE
  BY DEF AdvertisingReport
<1>7. TypeOK'
  <2>1. devs' \in DevsType
    BY <1>1, <1>2, TypeParts DEF Inv, DevsType, SlotType, Fresh
  <2>2. QED
    BY <2>1, <1>5, <1>6 DEF Inv, TypeOK, NoNewLink, LinkType, DevsType, SlotType
<1>8. SlotsInv'
  <2>1. \A t \in Slots : devs[t].handle \in Handles => devs[t].addr \in Addrs
    BY SlotLinked
  <2>2. QED
    BY <2>1, <1>2, <1>3, <1>4, <1>5, Marks DEF Inv, SlotsInv, NoNewLink
<1>9. ClientsInv'
  BY <1>4, <1>6, Marks DEF Inv, TypeOK, ClientsInv
<1>10. ConnectedInv'
  <2>1. \A t \in Slots : devs[t].handle \in Handles => devs[t].addr \in Addrs
    BY SlotLinked
  <2>2. QED
    BY <2>1, <1>4, <1>5, <1>6 DEF Inv, ConnectedInv, NoNewLink
<1>11. PilotInv'
  BY <1>2, <1>4, <1>6 DEF Inv, PilotInv
<1>12. QED
  BY <1>5, <1>7, <1>8, <1>9, <1>10, <1>11, LinksKept DEF Inv

\* A link is up: the peer's slot learns a handle that no link has.
LEMMA LeConnectionCompleteKeeps ==
  ASSUME Inv, NoHandleZero, NEW a \in Addrs, NEW h \in Handles,
         LeConnectionComplete(a, h)
  PROVE  Inv'
<1>1. /\ link[a].st = "create" /\ link[a].h = Invalid
      /\ \A b \in Addrs : link[b].h # h
      /\ link'[a].st = "open" /\ link'[a].h = h
      /\ \A b \in Addrs \ {a} : link'[b] = link[b]
  BY Marks DEF LeConnectionComplete, Conn, Inv, TypeOK, LinksInv, Up
<1>2. \A s \in Slots : devs'[s] = IF devs[s].addr = a
                                  THEN [devs[s] EXCEPT !.handle = h] ELSE devs[s]
  BY ByAddrIs DEF LeConnectionComplete
<1>3. \A s \in Slots : /\ devs'[s].addr = devs[s].addr /\ devs'[s].hids = devs[s].hids
                       /\ devs'[s].connected = devs[s].connected
                       /\ devs'[s].timer = devs[s].timer
                       /\ devs'[s].state = devs[s].state
                       /\ devs[s].addr = a => devs'[s].handle = h
                       /\ devs[s].addr # a => devs'[s].handle = devs[s].handle
  BY <1>2 DEF Inv, TypeOK
<1>4. \A s \in Slots : devs[s].handle # h /\ (devs[s].addr = a => devs[s].handle \notin Handles)
  BY <1>1, SlotLinked, Marks
<1>5. UNCHANGED <<le_scanning, is_scanning, clients, dis, pilot>> /\ sm' \subseteq Handles
  BY DEF LeConnectionComplete, Inv, TypeOK
<1>6. TypeOK'
  <2>1. devs' \in DevsType
    BY TypeParts DEF LeConnectionComplete, Inv, DevsType, SlotType
  <2>2. link' \in LinkType
    BY TypeParts DEF LeConnectionComplete, Inv, LinkType
  <2>3. QED
    BY <2>1, <2>2, <1>5 DEF Inv, TypeOK, LinkType, DevsType, SlotType
<1>7. LinksInv'
  BY <1>1, Marks DEF Inv, LinksInv, Up
<1>8. SlotsInv'
  <2>1. \A t \in Slots : devs[t].handle \in Handles => devs[t].addr \in Addrs
    BY SlotLinked
  <2>2. QED
    BY <2>1, <1>1, <1>3, <1>4, Marks DEF Inv, SlotsInv
<1>9. ClientsInv'
  <2>1. \A c \in clients, s \in Slots : devs[s].hids = c.cid => devs[s].addr # a
    BY <1>4 DEF Inv, ClientsInv, TypeOK
  <2>2. QED
    BY <2>1, <1>3, <1>5 DEF Inv, ClientsInv
<1>10. ConnectedInv'
  <2>1. \A t \in Slots : devs[t].handle \in Handles => devs[t].addr \in Addrs
    BY SlotLinked
  <2>2. QED
    BY <2>1, <1>1, <1>3, <1>4, <1>5 DEF Inv, ConnectedInv
<1>11. PilotInv'
  BY <1>3, <1>4, <1>5 DEF Inv, PilotInv
<1>12. QED
  BY <1>6, <1>7, <1>8, <1>9, <1>10, <1>11 DEF Inv

\* A connection that fails leaves a slot that nobody else's handle is in: nothing but
\* the handle of the peer's own slot changes, from none to 0.
LEMMA FailedSlots ==
  ASSUME Inv, NoHandleZero, NEW a \in Addrs, NEW refused \in BOOLEAN,
         LeConnectionFailed(a, refused)
  PROVE  /\ NoNewLink /\ devs' \in DevsType
         /\ UNCHANGED <<le_scanning, is_scanning, clients, dis, sm, pilot>>
         /\ \A s \in Slots :
              /\ devs'[s].addr = devs[s].addr /\ devs'[s].hids = devs[s].hids
              /\ devs'[s].connected = devs[s].connected
              /\ devs'[s].timer = devs[s].timer /\ devs'[s].state = devs[s].state
              /\ \/ devs'[s].handle = devs[s].handle
                 \/ /\ devs[s].addr = a /\ devs'[s].handle = 0
                    /\ devs[s].handle \notin Handles
<1>1. link[a].st = "create" /\ link[a].h = Invalid
  BY DEF LeConnectionFailed, Inv, TypeOK, LinksInv, Up
<1>2. NoNewLink
  BY <1>1 DEF LeConnectionFailed, NoLink, NoNewLink, LinkType, Inv, TypeOK, Up
<1>3. Conn(0) = {}
  BY Marks DEF Conn, Inv, TypeOK
<1>4. UNCHANGED <<le_scanning, is_scanning, clients, dis, sm, pilot>>
  BY <1>3 DEF LeConnectionFailed
<1>5. \A s \in Slots : devs[s].addr = a => devs[s].handle \notin Handles
  BY <1>1, SlotLinked, Marks
<1>6. CASE UNCHANGED devs
  BY <1>2, <1>4, <1>6, TypeParts DEF Inv
<1>7. CASE devs' = [s \in Slots |-> IF s \in ByAddr(devs, a)
                     THEN [devs[s] EXCEPT !.handle = 0] ELSE devs[s]]
  <2>1. devs' \in DevsType
    BY <1>7, TypeParts DEF Inv, DevsType, SlotType
  <2>2. \A s \in Slots : devs'[s] = IF devs[s].addr = a
                                    THEN [devs[s] EXCEPT !.handle = 0] ELSE devs[s]
    BY <1>7, ByAddrIs
  <2>3. \A s \in Slots :
          /\ devs'[s].addr = devs[s].addr /\ devs'[s].hids = devs[s].hids
          /\ devs'[s].connected = devs[s].connected
          /\ devs'[s].timer = devs[s].timer /\ devs'[s].state = devs[s].state
          /\ devs[s].addr = a => devs'[s].handle = 0
          /\ devs[s].addr # a => devs'[s].handle = devs[s].handle
    BY <2>2 DEF Inv, TypeOK
  <2>4. QED
    BY <1>2, <1>4, <1>5, <2>1, <2>3
<1>8. QED
  BY <1>6, <1>7 DEF LeConnectionFailed

LEMMA LeConnectionFailedKeeps ==
  ASSUME Inv, NoHandleZero, NEW a \in Addrs, NEW refused \in BOOLEAN,
         LeConnectionFailed(a, refused)
  PROVE  Inv'
<1>1. TypeOK' /\ LinksInv'
  BY FailedSlots, LinksKept, TypeParts
  DEF Inv, TypeOK, NoNewLink, LinkType, DevsType, SlotType
<1>2. \A s \in Slots : devs[s].handle \in Handles =>
          devs[s].addr \in Addrs /\ devs'[s].handle = devs[s].handle
  BY FailedSlots, SlotLinked
<1>3. SlotsInv'
  BY <1>2, FailedSlots, Marks DEF Inv, SlotsInv, NoNewLink
<1>4. ClientsInv'
  BY <1>2, FailedSlots DEF Inv, ClientsInv, TypeOK
<1>5. ConnectedInv'
  BY <1>2, FailedSlots DEF Inv, ConnectedInv, NoNewLink
<1>6. PilotInv'
  BY <1>2, FailedSlots DEF Inv, PilotInv
<1>7. QED
  BY <1>1, <1>3, <1>4, <1>5, <1>6 DEF Inv

\* Pairing and encryption change links and clients through hog_disconnect alone.
LEMMA PairingKeeps ==
  ASSUME Inv, NoHandleZero, NEW a \in Addrs,
         \/ \E ok \in BOOLEAN : PairingComplete(a, ok)
         \/ \E status \in {"success", "timeout", "other"} : ReencryptionComplete(a, status)
         \/ EncryptionOff(a)
  PROVE  Inv'
<1>1. link[a].h \in Handles
  BY Marks DEF PairingComplete, ReencryptionComplete, EncryptionOff, Inv, TypeOK, LinksInv
<1>2. UNCHANGED <<devs, is_scanning, pilot>> /\ sm' \subseteq Handles
      /\ dis' \in Handles \cup {Invalid}
  BY <1>1 DEF PairingComplete, ReencryptionComplete, EncryptionOff, query, Inv, TypeOK
<1>3. hog_disconnect(link[a].h) \/ UNCHANGED <<clients, link, le_scanning>>
  BY DEF PairingComplete, ReencryptionComplete, EncryptionOff
<1>4. CASE hog_disconnect(link[a].h)
  <2>1. RestOK'
    BY <1>1, <1>2, <1>4, HangUp DEF RestOK, Inv, TypeOK
  <2>2. QED
    BY <2>1, <1>1, <1>2, <1>4, HangUpKeeps
<1>5. CASE UNCHANGED <<clients, link, le_scanning>>
  BY <1>2, <1>5, QuietKeeps DEF RestOK, Inv, TypeOK
<1>6. QED
  BY <1>3, <1>4, <1>5

\* The HID client of a slot starts, under an identifier that nobody has.  A device
\* that was announced before has lost its link by then.
LEMMA DeviceInformationDoneKeeps ==
  ASSUME Inv, NoHandleZero, NEW ok \in BOOLEAN, DeviceInformationDone(ok)
  PROVE  Inv'
<1>1. dis \in Handles /\ dis' = Invalid /\ UNCHANGED <<is_scanning, sm, pilot>>
  BY DEF DeviceInformationDone, Inv, TypeOK
<1>2. CASE hog_disconnect(dis) /\ UNCHANGED devs
  <2>1. RestOK'
    BY <1>1, <1>2, HangUp DEF RestOK, Inv, TypeOK
  <2>2. QED
    BY <2>1, <1>1, <1>2, HangUpKeeps
<1>3. CASE ~(hog_disconnect(dis) /\ UNCHANGED devs)
  <2>1. PICK cid \in FreshCid :
          /\ clients' = clients \cup {[cid |-> cid, h |-> dis, connected |-> FALSE] :
                                        s \in ByHandle(devs, dis)}
          /\ devs' = [s \in Slots |-> IF s \in ByHandle(devs, dis)
                        THEN [devs[s] EXCEPT !.hids = cid] ELSE devs[s]]
    BY <1>3 DEF DeviceInformationDone
  <2>2. ByHandle(devs, dis) # {} => \A c \in clients : c.h # dis
    BY <1>3 DEF DeviceInformationDone
  <2>3. UNCHANGED <<link, le_scanning>>
    BY <1>3 DEF DeviceInformationDone
  <2>4. /\ cid \in Cids /\ \A c \in clients : c.cid # cid
        /\ \A s \in Slots : devs[s].hids # cid
    BY DEF FreshCid, FirstOf
  <2>5. CASE ByHandle(devs, dis) = {}
    <3>1. UNCHANGED <<devs, clients>>
      BY <2>1, <2>5 DEF Inv, TypeOK
    <3>2. QED
      BY <3>1, <1>1, <2>3, QuietKeeps DEF RestOK, Inv, TypeOK
  <2>6. CASE ByHandle(devs, dis) # {}
    <3>1. PICK s \in Slots : s \in ByHandle(devs, dis) /\ devs[s].handle = dis
      BY <2>6, <1>1, ByHandleIs DEF ByHandle, FirstOf
    <3>2. \A t \in Slots : t \in ByHandle(devs, dis) <=> t = s
      BY <3>1, <1>1, ByHandleIs, SlotLinked
    <3>3. clients' = clients \cup {[cid |-> cid, h |-> dis, connected |-> FALSE]}
      BY <2>1, <3>1
    <3>4. /\ devs'[s].hids = cid /\ devs'[s].addr = devs[s].addr
          /\ devs'[s].handle = dis /\ devs'[s].connected = devs[s].connected
          /\ devs'[s].timer = devs[s].timer /\ devs'[s].state = devs[s].state
          /\ \A t \in Slots \ {s} : devs'[t] = devs[t]
      BY <2>1, <3>1, <3>2 DEF Inv, TypeOK
    <3>5. devs[s].addr \in Addrs /\ Up(devs[s].addr) /\ link[devs[s].addr].h = dis
      BY <3>1, <1>1, SlotLinked
    <3>6. devs[s].connected => link[devs[s].addr].st # "open"
      <4>1. \A c \in clients : c.cid # devs[s].hids
        BY <2>2, <2>6, <3>1 DEF Inv, ClientsInv
      <4>2. QED
        BY <4>1 DEF Inv, ConnectedInv
    <3>7. TypeOK'
      <4>1. devs' \in DevsType
        BY <2>1, <2>4, TypeParts DEF Inv, DevsType, SlotType
      <4>2. clients' \subseteq ClientType
        <5>1. [cid |-> cid, h |-> dis, connected |-> FALSE] \in ClientType
          BY <1>1, <2>4 DEF ClientType
        <5>2. QED
          BY <5>1, <3>3, TypeParts DEF Inv
      <4>3. QED
        BY <4>1, <4>2, <1>1, <2>3 DEF Inv, TypeOK, DevsType, SlotType, ClientType
    <3>8. LinksInv'
      BY <2>3 DEF Inv, LinksInv, Up
    <3>9. SlotsInv'
      BY <3>4, <3>5, <2>3, <2>4, <3>1, Marks DEF Inv, SlotsInv
    <3>10. ClientsInv'
      <4> DEFINE new == [cid |-> cid, h |-> dis, connected |-> FALSE]
      <4>1. new.cid = cid /\ new.h = dis /\ ~new.connected /\ clients' = clients \cup {new}
        BY <3>3
      <4> HIDE DEF new
      <4>2. \A c, d \in clients' : c.cid = d.cid => c = d
        BY <4>1, <2>4 DEF Inv, ClientsInv
      <4>3. ASSUME NEW c \in clients', NEW t \in Slots, devs'[t].hids = c.cid
            PROVE  devs'[t].handle = c.h /\ (c.connected => devs'[t].connected)
        <5>1. CASE c = new
          BY <5>1, <4>1, <4>3, <3>4, <2>4
        <5>2. CASE c \in clients
          BY <5>2, <4>3, <3>4, <2>4 DEF Inv, ClientsInv
        <5>3. QED
          BY <5>1, <5>2, <4>1
      <4>4. QED
        BY <4>2, <4>3 DEF ClientsInv
    <3>11. ConnectedInv'
      BY <3>1, <3>3, <3>4, <3>6, <2>3 DEF Inv, ConnectedInv
    <3>12. PilotInv'
      BY <3>1, <3>4, <1>1 DEF Inv, PilotInv
    <3>13. QED
      BY <3>7, <3>8, <3>9, <3>10, <3>11, <3>12 DEF Inv
  <2>7. QED
    BY <2>5, <2>6
<1>4. QED
  BY <1>2, <1>3

\* on_device_connected is called for a device that was not announced before: the
\* client that its slot names was not connected, and its link is open.
LEMMA AnnouncedOnce ==
  ASSUME Inv, NoHandleZero, NEW c \in clients, NEW wait \in BOOLEAN,
         HidServiceConnected(c, TRUE, wait), NEW s \in Slots, devs[s].hids = c.cid
  PROVE  /\ ~devs[s].connected /\ devs[s].handle = c.h /\ c.h \in Handles
         /\ devs[s].addr \in Addrs
<1>1. ~c.connected /\ \E a \in Conn(c.h) : link[a].st = "open"
  BY DEF HidServiceConnected
<1>2. devs[s].handle = c.h /\ c.h \in Handles
  BY DEF Inv, ClientsInv, TypeOK
<1>3. devs[s].addr \in Addrs /\ link[devs[s].addr].h = c.h
  BY <1>2, SlotLinked
<1>4. link[devs[s].addr].st = "open"
  BY <1>1, <1>2, <1>3, Marks DEF Conn, Inv, LinksInv
<1>5. \A d \in clients : d.cid = devs[s].hids => d = c
  BY DEF Inv, ClientsInv
<1>6. ~devs[s].connected
  BY <1>1, <1>4, <1>5 DEF Inv, ConnectedInv
<1>7. QED
  BY <1>2, <1>3, <1>6

\* What HidServiceConnected does to the slots.
LEMMA ServiceConnectedSlots ==
  ASSUME Inv, NoHandleZero, NEW c \in clients, NEW ok \in BOOLEAN, NEW wait \in BOOLEAN,
         HidServiceConnected(c, ok, wait)
  PROVE  \/ UNCHANGED devs /\ (ok => \A s \in Slots : devs[s].hids # c.cid)
         \/ /\ ok
            /\ \E s \in Slots :
                 /\ devs[s].hids = c.cid
                 /\ devs' = [devs EXCEPT ![s] = set_ready(on_connected(devs[s]), wait)]
<1>1. c.cid \in Cids
  BY DEF Inv, TypeOK
<1>2. CASE ok /\ ByHids(devs, c.cid) # {}
  <2>1. PICK s \in Slots : s \in ByHids(devs, c.cid) /\ devs[s].hids = c.cid
    BY <1>1, <1>2, ByHidsIs DEF ByHids, FirstOf
  <2>2. \A t \in Slots : t \in ByHids(devs, c.cid) <=> t = s
    BY <2>1, <1>1, ByHidsIs DEF Inv, SlotsInv
  <2>3. devs' = [t \in Slots |-> IF t \in ByHids(devs, c.cid)
                   THEN set_ready(on_connected(devs[t]), wait) ELSE devs[t]]
    BY <1>2 DEF HidServiceConnected
  <2>4. devs' = [devs EXCEPT ![s] = set_ready(on_connected(devs[s]), wait)]
    BY <2>2, <2>3 DEF Inv, TypeOK
  <2>5. QED
    BY <2>1, <2>4, <1>2
<1>3. CASE ~(ok /\ ByHids(devs, c.cid) # {})
  <2>1. UNCHANGED devs
    BY <1>3 DEF HidServiceConnected
  <2>2. ok => \A s \in Slots : devs[s].hids # c.cid
    BY <1>1, <1>3, ByHidsIs
  <2>3. QED
    BY <2>1, <2>2
<1>4. QED
  BY <1>2, <1>3

LEMMA HidServiceConnectedKeeps ==
  ASSUME Inv, NoHandleZero, NEW c \in clients, NEW ok \in BOOLEAN, NEW wait \in BOOLEAN,
         HidServiceConnected(c, ok, wait)
  PROVE  Inv'
<1>1. /\ UNCHANGED <<link, is_scanning, dis, sm, pilot>>
      /\ clients' = (clients \ {c}) \cup (IF ok THEN {[c EXCEPT !.connected = TRUE]}
                                                ELSE {})
      /\ ~c.connected
  BY DEF HidServiceConnected
<1>2. RestOK'
  BY DEF HidServiceConnected, resume_scanning_hint, RestOK, Inv, TypeOK
<1>3. clients' \subseteq ClientType
  BY <1>1, TypeParts DEF Inv, ClientType
<1>4. LinksInv'
  BY <1>1 DEF Inv, LinksInv, Up
<1>5. c \in ClientType
  BY TypeParts DEF Inv
<1>6. ASSUME NEW d \in clients'
      PROVE  \E e \in clients : /\ d.cid = e.cid /\ d.h = e.h
                                /\ e = c \/ d = e
                                /\ e = c => ok /\ d = [c EXCEPT !.connected = TRUE]
  BY <1>1, <1>5, <1>6 DEF ClientType
<1>7. \A d, e \in clients' : d.cid = e.cid => d = e
  <2> SUFFICES ASSUME NEW d \in clients', NEW e \in clients', d.cid = e.cid
               PROVE  d = e
    OBVIOUS
  <2>1. PICK x \in clients : /\ d.cid = x.cid /\ (x = c \/ d = x)
                             /\ x = c => ok /\ d = [c EXCEPT !.connected = TRUE]
    BY <1>6
  <2>2. PICK y \in clients : /\ e.cid = y.cid /\ (y = c \/ e = y)
                             /\ y = c => ok /\ e = [c EXCEPT !.connected = TRUE]
    BY <1>6
  <2>3. x = y
    BY <2>1, <2>2 DEF Inv, ClientsInv
  <2>4. QED
    BY <2>1, <2>2, <2>3
<1>8. CASE UNCHANGED devs /\ (ok => \A s \in Slots : devs[s].hids # c.cid)
  <2>1. ClientsInv'
    <3>1. ASSUME NEW d \in clients', NEW s \in Slots, devs[s].hids = d.cid
          PROVE  devs[s].handle = d.h /\ (d.connected => devs[s].connected)
      <4>1. PICK e \in clients : /\ d.cid = e.cid /\ d.h = e.h /\ (e = c \/ d = e)
                                 /\ e = c => ok
        BY <1>6
      <4>2. e # c
        BY <4>1, <3>1, <1>8
      <4>3. QED
        BY <4>1, <4>2, <3>1 DEF Inv, ClientsInv
    <3>2. QED
      BY <3>1, <1>7, <1>8 DEF ClientsInv
  <2>2. ConnectedInv'
    BY <1>1, <1>8 DEF Inv, ConnectedInv
  <2>3. TypeOK' /\ SlotsInv' /\ PilotInv'
    BY <1>1, <1>2, <1>3, <1>8, TypeParts DEF Inv, TypeOK, SlotsInv, PilotInv, RestOK, ClientType
  <2>4. QED
    BY <1>4, <2>1, <2>2, <2>3 DEF Inv
<1>9. ASSUME ok, NEW s \in Slots, devs[s].hids = c.cid,
             devs' = [devs EXCEPT ![s] = set_ready(on_connected(devs[s]), wait)]
      PROVE  Inv'
  <2>1. /\ ~devs[s].connected /\ devs[s].handle = c.h /\ c.h \in Handles
        /\ devs[s].addr \in Addrs
    BY <1>9, AnnouncedOnce
  <2>2. /\ devs'[s].addr = devs[s].addr /\ devs'[s].handle = c.h
        /\ devs'[s].hids = c.cid /\ devs'[s].connected
        /\ \A t \in Slots \ {s} : devs'[t] = devs[t]
    BY <1>9, <2>1 DEF set_ready, on_connected, Inv, TypeOK
  <2>3. devs' \in DevsType
    <3>1. devs \in DevsType
      BY TypeParts DEF Inv
    <3>2. devs[s] \in SlotType
      BY <3>1 DEF DevsType
    <3>3. on_connected(devs[s]) \in SlotType
      BY <3>2 DEF on_connected, SlotType
    <3>4. set_ready(on_connected(devs[s]), wait) \in SlotType
      BY <3>3 DEF set_ready, SlotType
    <3>5. QED
      BY <1>9, <3>1, <3>4 DEF DevsType
  <2>4. TypeOK'
    BY <2>3, <1>1, <1>2, <1>3 DEF Inv, TypeOK, DevsType, SlotType, ClientType, RestOK
  <2>5. SlotsInv'
    BY <2>1, <2>2, <1>1, <1>9, Marks DEF Inv, SlotsInv
  <2>6. ClientsInv'
    <3>1. ASSUME NEW d \in clients', NEW t \in Slots, devs'[t].hids = d.cid
          PROVE  devs'[t].handle = d.h /\ (d.connected => devs'[t].connected)
      <4>1. PICK e \in clients : /\ d.cid = e.cid /\ d.h = e.h /\ (e = c \/ d = e)
        BY <1>6
      <4>2. CASE t = s
        BY <4>1, <4>2, <3>1, <2>2 DEF Inv, ClientsInv
      <4>3. CASE t # s
        <5>1. e # c
          BY <4>1, <4>3, <3>1, <2>2, <1>9, <1>5 DEF Inv, SlotsInv, ClientType
        <5>2. QED
          BY <5>1, <4>1, <4>3, <3>1, <2>2 DEF Inv, ClientsInv
      <4>4. QED
        BY <4>2, <4>3
    <3>2. QED
      BY <3>1, <1>7 DEF ClientsInv
  <2>7. ConnectedInv'
    <3>1. [c EXCEPT !.connected = TRUE] \in clients'
      BY <1>1, <1>9
    <3>2. [c EXCEPT !.connected = TRUE].cid = c.cid /\ [c EXCEPT !.connected = TRUE].connected
      BY <1>5 DEF ClientType
    <3>3. \A d \in clients : d.connected => d \in clients'
      BY <1>1
    <3>4. QED
      BY <2>1, <2>2, <3>1, <3>2, <3>3, <1>1 DEF Inv, ConnectedInv
  <2>8. PilotInv'
    BY <1>1, <2>1, <2>2 DEF Inv, PilotInv
  <2>9. QED
    BY <1>4, <2>4, <2>5, <2>6, <2>7, <2>8 DEF Inv
<1>10. QED
  BY <1>8, <1>9, ServiceConnectedSlots

\* A slot becomes ready, whichever it is: ParserReady and the Steam Controller's
\* last answer.
BecomesReady(s) ==
    devs' = [devs EXCEPT ![s] = [devs[s] EXCEPT !.state = "READY", !.timer = FALSE]]

LEMMA BecomesReadyFields ==
  ASSUME Inv, NEW s \in Slots, BecomesReady(s)
  PROVE  /\ devs' \in DevsType
         /\ \A t \in Slots :
              /\ devs'[t].addr = devs[t].addr /\ devs'[t].handle = devs[t].handle
              /\ devs'[t].hids = devs[t].hids /\ devs'[t].connected = devs[t].connected
              /\ devs'[t].state = IF t = s THEN "READY" ELSE devs[t].state
              /\ ~devs[t].timer => ~devs'[t].timer
<1> DEFINE r == [devs[s] EXCEPT !.state = "READY", !.timer = FALSE]
<1>1. devs \in [Slots -> SlotType] /\ devs[s] \in SlotType
  BY TypeParts DEF Inv, DevsType
<1>2. /\ r \in SlotType /\ r.addr = devs[s].addr /\ r.handle = devs[s].handle
      /\ r.hids = devs[s].hids /\ r.connected = devs[s].connected
      /\ r.state = "READY" /\ ~r.timer
  BY <1>1 DEF SlotType
<1>3. devs' = [devs EXCEPT ![s] = r]
  BY DEF BecomesReady
<1> HIDE DEF r
<1>4. QED
  BY <1>1, <1>2, <1>3 DEF DevsType

LEMMA MadeReadyKeeps ==
  ASSUME Inv, NEW s \in Slots, BecomesReady(s),
         UNCHANGED <<link, le_scanning, is_scanning, clients, dis, sm, pilot>>
  PROVE  Inv'
<1>1. TypeOK'
  BY BecomesReadyFields DEF Inv, TypeOK, DevsType, SlotType
<1>2. LinksInv'
  BY DEF Inv, LinksInv, Up
<1>3. SlotsInv'
  BY BecomesReadyFields DEF Inv, SlotsInv
<1>4. ClientsInv'
  BY BecomesReadyFields DEF Inv, ClientsInv
<1>5. ConnectedInv'
  BY BecomesReadyFields DEF Inv, ConnectedInv
<1>6. PilotInv'
  BY BecomesReadyFields DEF Inv, PilotInv
<1>7. QED
  BY <1>1, <1>2, <1>3, <1>4, <1>5, <1>6 DEF Inv

LEMMA ParserReadyIs ==
  ASSUME Inv, NEW s \in Slots, ParserReady(s)
  PROVE  BecomesReady(s)
BY DEF Inv, TypeOK, ParserReady, BecomesReady

\* The client that brings a report is that of the sender's own slot.
LEMMA ReportsOwnSlot ==
  ASSUME Inv, NoHandleZero, NEW a \in Addrs, HidReport(a)
  PROVE  \E s \in Slots : /\ devs[s].addr = a /\ devs[s].handle \in Handles
                          /\ devs[s].state = "READY" /\ devs[s].connected
<1>1. PICK c \in clients : /\ c.connected /\ c.h = link[a].h
                           /\ \E s \in ByHids(devs, c.cid) : devs[s].state = "READY"
  BY DEF HidReport
<1>2. c.cid \in Cids /\ c.h \in Handles
  BY DEF Inv, TypeOK
<1>3. PICK s \in Slots : devs[s].hids = c.cid /\ devs[s].state = "READY"
  BY <1>1, <1>2, ByHidsIs DEF ByHids, FirstOf
<1>4. devs[s].handle = c.h /\ devs[s].connected
  BY <1>1, <1>3 DEF Inv, ClientsInv
<1>5. devs[s].addr \in Addrs /\ link[devs[s].addr].h = link[a].h
  BY <1>1, <1>2, <1>4, SlotLinked
<1>6. devs[s].addr = a
  BY <1>1, <1>2, <1>5, Marks DEF Inv, LinksInv
<1>7. QED
  BY <1>2, <1>3, <1>4, <1>6

LEMMA HidReportKeeps ==
  ASSUME Inv, NoHandleZero, NEW a \in Addrs, HidReport(a)
  PROVE  Inv'
<1>1. pilot' = a /\ UNCHANGED <<devs, link, le_scanning, is_scanning, clients, dis, sm>>
  BY DEF HidReport
<1>2. PilotInv'
  BY <1>1, ReportsOwnSlot DEF PilotInv
<1>3. QED
  BY <1>1, <1>2 DEF Inv, TypeOK, LinksInv, Up, SlotsInv, ClientsInv, ConnectedInv

\* What the end of a link does to the slots: the peer's slot is emptied, if it
\* has one, and the words are zeroed if it was announced.
LEMMA DisconnectedSlots ==
  ASSUME Inv, NoHandleZero, NEW a \in Addrs, DisconnectionComplete(a)
  PROVE  \/ /\ UNCHANGED <<devs, pilot>>
            /\ \A s \in Slots : devs[s].handle # link[a].h
         \/ \E s \in Slots :
              /\ devs[s].addr = a /\ devs[s].handle = link[a].h
              /\ devs' = [devs EXCEPT ![s] = Blank]
              /\ pilot' = IF devs[s].connected THEN None ELSE pilot
<1> DEFINE h == link[a].h
<1>1. h \in Handles
  BY Marks DEF DisconnectionComplete, Inv, TypeOK, LinksInv
<1>2. /\ devs' = [s \in Slots |-> IF s \in ByHandle(devs, h) THEN Blank ELSE devs[s]]
      /\ pilot' = IF \E s \in ByHandle(devs, h) : devs[s].connected THEN None ELSE pilot
  BY DEF DisconnectionComplete
<1>3. \A s \in ByHandle(devs, h) : s \in Slots
  BY DEF ByHandle, FirstOf
<1>4. CASE \A s \in Slots : devs[s].handle # h
  <2>1. ByHandle(devs, h) = {}
    BY <1>1, <1>3, <1>4, ByHandleIs
  <2>2. UNCHANGED <<devs, pilot>>
    BY <2>1, <1>2 DEF Inv, TypeOK
  <2>3. QED
    BY <2>2, <1>4
<1>5. ASSUME NEW s \in Slots, devs[s].handle = h
      PROVE  /\ devs[s].addr = a /\ devs' = [devs EXCEPT ![s] = Blank]
             /\ pilot' = IF devs[s].connected THEN None ELSE pilot
  <2>1. \A t \in Slots : t \in ByHandle(devs, h) <=> t = s
    BY <1>1, <1>5, ByHandleIs, SlotLinked
  <2>2. devs[s].addr = a
    BY <1>1, <1>5, SlotLinked, Marks DEF Inv, LinksInv
  <2>3. devs' = [devs EXCEPT ![s] = Blank]
    BY <2>1, <1>2 DEF Inv, TypeOK
  <2>4. pilot' = IF devs[s].connected THEN None ELSE pilot
    BY <2>1, <1>2, <1>3
  <2>5. QED
    BY <2>2, <2>3, <2>4
<1>6. QED
  BY <1>4, <1>5

\* An empty slot is as new.
LEMMA BlankSlot ==
  /\ Blank.addr = None /\ Blank.handle = Invalid /\ Blank.hids = Invalid
  /\ ~Blank.connected /\ ~Blank.timer /\ Blank.state = "NONE" /\ Blank \in SlotType
BY DEF Blank, SlotType

\* Emptying a slot, with the words zeroed if its device was announced, keeps what
\* Inv says of slots and pilot, and the slot held nobody else's client.
LEMMA EmptiedKeeps ==
  ASSUME Inv, NoHandleZero, NEW s \in Slots, devs' = [devs EXCEPT ![s] = Blank],
         pilot' = IF devs[s].connected THEN None ELSE pilot,
         link' \in LinkType, clients' \subseteq clients, RestOK', LinksInv',
         \A a \in Addrs : a # devs[s].addr =>
             link'[a].h = link[a].h /\ (link'[a].st = "open" => link[a].st = "open"),
         \A c \in clients \ clients' : c.cid = devs[s].hids \/ c.h = devs[s].handle
  PROVE  Inv'
<1>1. devs'[s] = Blank /\ \A t \in Slots \ {s} : devs'[t] = devs[t]
  BY DEF Inv, TypeOK
<1>2. \A t \in Slots \ {s} : devs[t].handle \in Handles =>
          /\ devs[t].addr \in Addrs /\ devs[t].addr # devs[s].addr
          /\ devs[t].handle # devs[s].handle
  <2> SUFFICES ASSUME NEW t \in Slots \ {s}, devs[t].handle \in Handles
               PROVE  /\ devs[t].addr \in Addrs /\ devs[t].addr # devs[s].addr
                      /\ devs[t].handle # devs[s].handle
    OBVIOUS
  <2>1. devs[t].addr \in Addrs /\ devs[t].handle # devs[s].handle
    BY SlotLinked
  <2>2. devs[t].addr # devs[s].addr
    BY <2>1, Marks DEF Inv, SlotsInv
  <2>3. QED
    BY <2>1, <2>2
<1>3. TypeOK'
  <2>1. devs' \in DevsType
    BY BlankSlot, TypeParts DEF Inv, DevsType
  <2>2. QED
    BY <2>1 DEF Inv, TypeOK, DevsType, SlotType, LinkType, RestOK
<1>4. SlotsInv'
  BY <1>1, <1>2, BlankSlot, Marks DEF Inv, SlotsInv
<1>5. ClientsInv'
  BY <1>1, BlankSlot, Marks DEF Inv, ClientsInv, TypeOK
<1>6. ConnectedInv'
  <2> SUFFICES ASSUME NEW t \in Slots, devs'[t].connected
               PROVE  /\ devs'[t].handle \in Handles
                      /\ link'[devs'[t].addr].st = "open" =>
                            \E c \in clients' : c.cid = devs'[t].hids /\ c.connected
    BY DEF ConnectedInv
  <2>1. t # s /\ devs'[t] = devs[t]
    BY <1>1, BlankSlot
  <2>2. devs[t].handle \in Handles
    BY <2>1 DEF Inv, ConnectedInv
  <2>3. ASSUME link'[devs[t].addr].st = "open"
        PROVE  \E c \in clients' : c.cid = devs[t].hids /\ c.connected
    <3>1. link[devs[t].addr].st = "open"
      BY <2>1, <2>2, <2>3, <1>2
    <3>2. PICK c \in clients : c.cid = devs[t].hids /\ c.connected
      BY <2>1, <3>1 DEF Inv, ConnectedInv
    <3>3. c.cid \in Cids /\ c.h = devs[t].handle
      BY <3>2 DEF Inv, TypeOK, ClientsInv
    <3>4. c.cid # devs[s].hids /\ c.h # devs[s].handle
      BY <3>2, <3>3, <2>1, <2>2, <1>2 DEF Inv, SlotsInv
    <3>5. QED
      BY <3>2, <3>4
  <2>4. QED
    BY <2>1, <2>2, <2>3
<1>7. PilotInv'
  BY <1>1 DEF Inv, PilotInv
<1>8. QED
  BY <1>3, <1>4, <1>5, <1>6, <1>7 DEF Inv

LEMMA DisconnectionCompleteKeeps ==
  ASSUME Inv, NoHandleZero, NEW a \in Addrs, DisconnectionComplete(a)
  PROVE  Inv'
<1> DEFINE h == link[a].h
<1>1. h \in Handles
  BY Marks DEF DisconnectionComplete, Inv, TypeOK, LinksInv
<1>2. /\ link' = [link EXCEPT ![a] = NoLink]
      /\ clients' = {c \in WithoutClientOf(h) : c.h # h}
  BY DEF DisconnectionComplete
<1>3. /\ link'[a].h = Invalid /\ link'[a].st = "none"
      /\ \A b \in Addrs \ {a} : link'[b] = link[b]
      /\ link' \in LinkType
  BY <1>2 DEF NoLink, Inv, TypeOK, LinkType
<1>4. LinksInv'
  BY <1>3 DEF Inv, LinksInv, Up
<1>5. RestOK'
  BY DEF DisconnectionComplete, resume_scanning_hint, Inv, TypeOK, RestOK
<1>6. /\ clients' \subseteq clients
      /\ \A c \in clients \ clients' :
            c.h = h \/ \E s \in Slots : devs[s].handle = h /\ devs[s].hids = c.cid
  <2>1. \A s \in ByHandle(devs, h) : s \in Slots /\ devs[s].handle = h
    BY <1>1, ByHandleIs DEF ByHandle, FirstOf
  <2>2. QED
    BY <2>1, <1>2 DEF WithoutClientOf
<1>7. CASE UNCHANGED <<devs, pilot>> /\ \A s \in Slots : devs[s].handle # h
  <2>1. \A s \in Slots : devs[s].handle \in Handles =>
            devs[s].addr \in Addrs /\ devs[s].addr # a
    BY <1>7, SlotLinked
  <2>2. SlotsInv'
    BY <2>1, <1>3, <1>7 DEF Inv, SlotsInv
  <2>3. ClientsInv'
    BY <1>6, <1>7 DEF Inv, ClientsInv
  <2>4. ConnectedInv'
    BY <2>1, <1>3, <1>6, <1>7 DEF Inv, ConnectedInv, ClientsInv
  <2>5. TypeOK' /\ PilotInv'
    BY <1>3, <1>5, <1>6, <1>7 DEF Inv, TypeOK, PilotInv, RestOK, LinkType
  <2>6. QED
    BY <1>4, <2>2, <2>3, <2>4, <2>5 DEF Inv
<1>8. ASSUME NEW s \in Slots, devs[s].addr = a, devs[s].handle = h,
             devs' = [devs EXCEPT ![s] = Blank],
             pilot' = IF devs[s].connected THEN None ELSE pilot
      PROVE  Inv'
  <2>1. \A c \in clients \ clients' : c.cid = devs[s].hids \/ c.h = devs[s].handle
    BY <1>1, <1>6, <1>8, SlotLinked
  <2>2. QED
    BY <2>1, <1>3, <1>4, <1>5, <1>6, <1>8, EmptiedKeeps
<1>9. QED
  BY <1>7, <1>8, DisconnectedSlots

\* uni_hid_device_disconnect and uni_hid_device_delete: no other peer's link and no
\* other slot's client is touched, whatever the slot's handle is.
LEMMA DropSpares ==
  ASSUME Inv, NoHandleZero, NEW s \in Slots, Drop(s)
  PROVE  /\ NoNewLink /\ clients' \subseteq clients /\ le_scanning' \in BOOLEAN
         /\ \A a \in Addrs : a # devs[s].addr => link'[a] = link[a]
         /\ \A c \in clients \ clients' : c.cid = devs[s].hids
<1>1. CASE devs[s].handle \in Handles
  <2>1. PICK a \in Addrs : a = devs[s].addr /\ Up(a) /\ link[a].h = devs[s].handle
    BY <1>1, SlotLinked
  <2>2. hog_disconnect(devs[s].handle)
    BY <2>1 DEF Drop, Conn, Up
  <2>3. \A b \in Addrs : b # devs[s].addr => link[b].h # devs[s].handle
    BY <1>1, <2>1, Marks DEF Inv, LinksInv
  <2>4. \A c \in clients \ clients' : c.cid = devs[s].hids
    BY <1>1, <2>2, HangUp, SlotLinked
  <2>5. QED
    BY <1>1, <2>2, <2>3, <2>4, HangUp
<1>2. CASE devs[s].handle \notin Handles
  <2>1. UNCHANGED <<link, clients>> /\ le_scanning' \in BOOLEAN
    <3>1. CASE Conn(devs[s].handle) = {}
      BY <3>1 DEF Drop, Inv, TypeOK
    <3>2. CASE Conn(devs[s].handle) # {}
      <4>1. devs[s].handle = Invalid
        BY <1>2, <3>2 DEF Conn, Inv, TypeOK
      <4>2. hog_disconnect(Invalid)
        BY <3>2, <4>1 DEF Drop
      <4>3. \A a \in Addrs : link[a].h = Invalid => link[a].st # "open"
        BY DEF Inv, LinksInv, Up
      <4>4. link' = link
        BY <4>2, <4>3 DEF hog_disconnect, gap_disconnect, Conn, Inv, TypeOK
      <4>5. ByHandle(devs, Invalid) = {}
        BY DEF ByHandle, FirstOf
      <4>6. clients' = clients
        BY <4>2, <4>5 DEF hog_disconnect, WithoutClientOf
      <4>7. QED
        BY <4>2, <4>4, <4>6 DEF hog_disconnect, resume_scanning_hint, Inv, TypeOK
    <3>3. QED
      BY <3>1, <3>2
  <2>2. QED
    BY <2>1 DEF NoNewLink, Inv, TypeOK, LinkType, Up
<1>3. QED
  BY <1>1, <1>2

LEMMA DropKeeps ==
  ASSUME Inv, NoHandleZero, NEW s \in Slots, Drop(s), UNCHANGED <<is_scanning, dis, sm>>
  PROVE  Inv'
<1>1. /\ NoNewLink /\ clients' \subseteq clients /\ le_scanning' \in BOOLEAN
      /\ \A a \in Addrs : a # devs[s].addr => link'[a] = link[a]
      /\ \A c \in clients \ clients' : c.cid = devs[s].hids
  BY DropSpares
<1>2. LinksInv' /\ link' \in LinkType
  BY <1>1, LinksKept DEF NoNewLink
<1>3. RestOK'
  BY <1>1 DEF RestOK, Inv, TypeOK
<1>4. QED
  BY <1>1, <1>2, <1>3, EmptiedKeeps DEF Drop

\* Every step of BleHost.
LEMMA NextKeeps ==
  ASSUME Inv, NoHandleZero, Next
  PROVE  Inv'
<1>1. ASSUME NEW a \in Addrs, PeerNext(a) PROVE Inv'
  BY <1>1, AdvertisingReportKeeps, LeConnectionCompleteKeeps,
     LeConnectionFailedKeeps, PairingKeeps, HidReportKeeps, DisconnectionCompleteKeeps DEF PeerNext
<1>2. ASSUME GattNext PROVE Inv'
  BY <1>2, DeviceInformationDoneKeeps, HidServiceConnectedKeeps DEF GattNext
<1>3. ASSUME NEW s \in Slots, SlotNext(s) PROVE Inv'
  <2>1. CASE ParserReady(s)
    BY <2>1, ParserReadyIs, MadeReadyKeeps DEF ParserReady
  <2>2. CASE Drop(s) /\ UNCHANGED <<is_scanning, dis, sm>>
    BY <2>2, DropKeeps
  <2>3. CASE /\ resume_scanning_hint
             /\ UNCHANGED <<devs, link, clients, pilot, is_scanning, dis, sm>>
    BY <2>3, QuietKeeps DEF resume_scanning_hint, RestOK, Inv, TypeOK
  <2>4. QED
    BY <1>3, <2>1, <2>2, <2>3 DEF SlotNext, ConnectionTimeout, DisconnectDevice
<1>4. ASSUME NEW on \in BOOLEAN, StartScanning(on) PROVE Inv'
  BY <1>4, QuietKeeps DEF StartScanning, RestOK, Inv, TypeOK
<1>5. QED
  BY <1>1, <1>2, <1>3, <1>4 DEF Next

\* Empty slots, no links: the state in which both hosts start.
LEMMA StartOK ==
  ASSUME devs = [s \in Slots |-> Blank], link = [a \in Addrs |-> NoLink],
         le_scanning \in BOOLEAN, is_scanning \in BOOLEAN,
         clients = {}, dis = Invalid, sm = {}, pilot = None
  PROVE  Inv
<1>1. \A s \in Slots : devs[s] = Blank
  OBVIOUS
<1>2. TypeOK
  BY BlankSlot, TypeParts DEF DevsType, LinkType, NoLink, RestOK
<1>3. LinksInv
  BY DEF LinksInv, NoLink, Up
<1>4. SlotsInv
  <2>1. Invalid \notin Handles /\ Invalid \notin Cids
    BY Invalids
  <2>2. QED
    BY <1>1, <2>1, BlankSlot DEF SlotsInv
<1>5. ClientsInv /\ ConnectedInv /\ PilotInv
  BY <1>1, BlankSlot DEF ClientsInv, ConnectedInv, PilotInv
<1>6. QED
  BY <1>2, <1>3, <1>4, <1>5 DEF Inv

-------------------------------------------------------------------------------
(* BtHost: the set-up. *)

\* What stands in the way of the next command is owed, and something does while the
\* set-up is under way: otherwise the event before would have sent it.
SetupInv ==
    /\ setup_state \in {"BTSTACK_IN_PROGRESS", "BLUEPAD32_IN_PROGRESS", "READY"}
    /\ setup_fn_idx \in 0 .. Fns /\ reserved \in BOOLEAN /\ credit \in BOOLEAN
    /\ setup_state = "READY" <=> setup_fn_idx = Fns
    /\ inits = IF setup_state = "READY" THEN 1 ELSE 0
    /\ reserved => "sent" \in coming
    /\ ~credit => "complete" \in coming
    /\ setup_state = "BLUEPAD32_IN_PROGRESS" => reserved \/ ~credit

LEMMA SetupInitOK == SetupInit => SetupInv
BY SetupAssumption DEF SetupInit, SetupInv

\* Whatever the event was, given that it leaves owed what it does not deliver.
LEMMA SetupHandlerKeeps ==
  ASSUME SetupInv, setup_state # "READY", NEW e, NEW r \in BOOLEAN, NEW c \in BOOLEAN,
         NEW left, r => "sent" \in left, ~c => "complete" \in left,
         uni_bt_setup_packet_handler(e, r, c, left)
  PROVE  SetupInv'
<1>1. CASE setup_call_next_fn(r, c, left)
  <2>1. CASE hci_can_send_command_packet_now(r, c)
    <3>1. /\ reserved' = TRUE /\ credit' = FALSE
          /\ "sent" \in coming' /\ "complete" \in coming'
      BY <1>1, <2>1 DEF setup_call_next_fn, Owed
    <3>2. setup_fn_idx \in 0 .. Fns /\ setup_fn_idx # Fns /\ inits = 0
      BY DEF SetupInv
    <3>3. /\ setup_fn_idx' = setup_fn_idx + 1
          /\ setup_state' = IF setup_fn_idx' = Fns THEN "READY" ELSE "BLUEPAD32_IN_PROGRESS"
          /\ inits' = IF setup_fn_idx' = Fns THEN 1 ELSE 0
      BY <1>1, <2>1, <3>2 DEF setup_call_next_fn
    <3>4. setup_fn_idx' \in 0 .. Fns
      BY <3>2, <3>3, SetupAssumption
    <3>5. QED
      BY <3>1, <3>3, <3>4 DEF SetupInv
  <2>2. CASE ~hci_can_send_command_packet_now(r, c)
    BY <1>1, <2>2 DEF setup_call_next_fn, hci_run, SetupInv, hci_can_send_command_packet_now
  <2>3. QED
    BY <2>1, <2>2
<1>2. CASE /\ setup_state = "BTSTACK_IN_PROGRESS"
           /\ hci_run(r, c, left) /\ UNCHANGED <<setup_state, setup_fn_idx, inits>>
  <2>1. /\ reserved' \in BOOLEAN /\ credit' \in BOOLEAN
        /\ (reserved' => "sent" \in coming') /\ (~credit' => "complete" \in coming')
    <3>1. CASE coming' = left \union Owed /\ reserved' = TRUE /\ credit' = FALSE
      BY <3>1 DEF Owed
    <3>2. CASE coming' = left /\ reserved' = r /\ credit' = c
      BY <3>2, Zenon
    <3>3. QED
      BY <1>2, <3>1, <3>2 DEF hci_run
  <2>2. QED
    BY <2>1, <1>2 DEF SetupInv
<1>3. QED
  BY <1>1, <1>2 DEF uni_bt_setup_packet_handler, SetupInv

LEMMA SetupNextKeeps ==
  ASSUME SetupInv, setup_state # "READY", SetupNext
  PROVE  SetupInv'
<1>1. reserved \in BOOLEAN /\ credit \in BOOLEAN
      /\ (reserved => "sent" \in coming) /\ (~credit => "complete" \in coming)
  BY DEF SetupInv
<1>2. CASE transport_packet_sent
  BY <1>1, <1>2, SetupHandlerKeeps DEF transport_packet_sent
<1>3. CASE command_complete
  BY <1>1, <1>3, SetupHandlerKeeps DEF command_complete
<1>4. CASE command_complete_no_credit
  BY <1>1, <1>4, SetupHandlerKeeps DEF command_complete_no_credit
<1>5. CASE btstack_working
  BY <1>1, <1>5, SetupHandlerKeeps DEF btstack_working
<1>6. CASE other_event
  BY <1>1, <1>6, SetupHandlerKeeps DEF other_event
<1>7. QED
  BY <1>2, <1>3, <1>4, <1>5, <1>6 DEF SetupNext

LEMMA SetupStepKeeps ==
  ASSUME SetupInv, [HostNext]_hostVars
  PROVE  SetupInv'
<1>1. CASE SetupNext /\ BeforeReady
  BY <1>1, SetupNextKeeps DEF BeforeReady, uni_bt_setup_is_ready
<1>2. CASE UNCHANGED setupVars
  BY <1>2 DEF setupVars, SetupInv
<1>3. QED
  BY <1>1, <1>2 DEF HostNext, hostVars

\* uni_bt_setup.c calls on_init_complete once, when the last of its commands is sent,
\* for every number of commands and whatever BTstack sends meanwhile.
THEOREM SetupOnce == HostSpec => []InitCompleteOnce
<1>1. HostInit => SetupInv
  BY SetupInitOK DEF HostInit
<1>2. SetupInv /\ [HostNext]_hostVars => SetupInv'
  BY SetupStepKeeps
<1>3. SetupInv => InitCompleteOnce
  BY DEF SetupInv, InitCompleteOnce
<1>4. QED
  BY <1>1, <1>2, <1>3, PTL DEF HostSpec

\* The set-up, which no timer drives, is never left waiting for nothing.
THEOREM SetupAwake == HostSpec => []WakeUpOwed
<1>1. HostInit => SetupInv
  BY SetupInitOK DEF HostInit
<1>2. SetupInv /\ [HostNext]_hostVars => SetupInv'
  BY SetupStepKeeps
<1>3. SetupInv => WakeUpOwed
  BY DEF SetupInv, WakeUpOwed, Owed
<1>4. QED
  BY <1>1, <1>2, <1>3, PTL DEF HostSpec

-------------------------------------------------------------------------------
(* BtHost: slots, links and pilot. *)

LEMMA HostStepKeeps ==
  ASSUME Inv, NoHandleZero, [HostNext]_hostVars
  PROVE  Inv'
<1>1. CASE SetupNext /\ BeforeReady
  <2>1. RestOK'
    BY <1>1 DEF BeforeReady, my_on_init_complete, RestOK, Inv, TypeOK
  <2>2. QED
    BY <1>1, <2>1, QuietKeeps DEF BeforeReady
<1>2. CASE Next \/ Console
  BY <1>2, NextKeeps DEF Console, Next, SlotNext
<1>3. CASE UNCHANGED vars
  BY <1>3, QuietKeeps DEF vars, RestOK, Inv, TypeOK
<1>4. QED
  BY <1>1, <1>2, <1>3 DEF HostNext, hostVars

LEMMA HostInvariance ==
  ASSUME NoHandleZero
  PROVE  HostSpec => []Inv
<1>1. HostInit => Inv
  BY StartOK DEF HostInit
<1>2. Inv /\ [HostNext]_hostVars => Inv'
  BY HostStepKeeps
<1>3. QED
  BY <1>1, <1>2, PTL DEF HostSpec

LEMMA InvNeutral ==
  ASSUME Inv, NoHandleZero
  PROVE  LostLinkNeutral
<1> SUFFICES ASSUME pilot # None
             PROVE  /\ Up(pilot)
                    /\ \E s \in Slots : /\ devs[s].addr = pilot
                                        /\ devs[s].handle = link[pilot].h
                                        /\ devs[s].state = "READY"
  BY DEF LostLinkNeutral
<1>1. PICK s \in Slots : /\ devs[s].addr = pilot /\ devs[s].handle \in Handles
                         /\ devs[s].state = "READY"
  BY DEF Inv, PilotInv
<1>2. QED
  BY <1>1, SlotLinked

\* Whatever ends a pilot's link or slot, a lost radio, the console or a timeout, in
\* whatever order the events of however many peers come: the command words are
\* zeroed in the same step, provided that the controller gives no handle 0.
THEOREM NeutralWithoutLink ==
  ASSUME NoHandleZero
  PROVE  HostSpec => []LostLinkNeutral
<1>1. Inv => LostLinkNeutral
  BY InvNeutral
<1>2. QED
  BY <1>1, HostInvariance, PTL

LEMMA TimeoutStep ==
  ASSUME Inv, NoHandleZero
  PROVE  \A s \in Slots : TimeoutHitsOnly(s)
<1> SUFFICES ASSUME NEW s \in Slots, ConnectionTimeout(s)
             PROVE  /\ \A a \in Addrs \ {devs[s].addr} : link'[a] = link[a]
                    /\ \A t \in Slots \ {s} :
                          /\ devs'[t] = devs[t]
                          /\ \A c \in clients : c.cid = devs[t].hids => c \in clients'
  BY DEF TimeoutHitsOnly
<1>1. Drop(s)
  BY DEF ConnectionTimeout
<1>2. \A a \in Addrs \ {devs[s].addr} : link'[a] = link[a]
  BY <1>1, DropSpares
<1>3. \A t \in Slots \ {s} : devs'[t] = devs[t]
  BY <1>1 DEF Drop, Inv, TypeOK
<1>4. ASSUME NEW t \in Slots \ {s}, NEW c \in clients, c.cid = devs[t].hids
      PROVE  c \in clients'
  <2>1. c.cid \in Cids
    BY DEF Inv, TypeOK
  <2>2. c.cid # devs[s].hids
    BY <1>4, <2>1 DEF Inv, SlotsInv
  <2>3. QED
    BY <1>1, <2>2, DropSpares
<1>5. QED
  BY <1>2, <1>3, <1>4

\* device_connection_timeout ends the link and the client of its own device only.
THEOREM TimeoutSpares ==
  ASSUME NoHandleZero
  PROVE  HostSpec => TimeoutSparesOthers
<1>1. Inv /\ [HostNext]_hostVars => [\A s \in Slots : TimeoutHitsOnly(s)]_vars
  BY TimeoutStep
<1>2. QED
  BY <1>1, HostInvariance, PTL DEF HostSpec, TimeoutSparesOthers

-------------------------------------------------------------------------------
(* BtHost implements ControllerService. *)

Announced == {devs[s].addr : s \in {t \in Slots : devs[t].connected}}
Accepted == {devs[s].addr : s \in {t \in Slots : devs[t].state = "READY"}}

\* A device is pending or ready exactly if it was announced.  This is BtHost's: the
\* Steam Controller's parser may make any slot ready.
ReadyInv == \A s \in Slots : devs[s].connected <=> devs[s].state \in {"PENDING", "READY"}

\* What bukkis_bt.c may see of a step.
ServiceStep == \/ UNCHANGED <<Announced, Accepted, pilot>>
               \/ \E a \in Addrs :
                    \/ /\ a \notin Announced /\ Announced' = Announced \cup {a}
                       /\ Accepted' \in {Accepted, Accepted \cup {a}}
                       /\ UNCHANGED pilot
                    \/ /\ a \in Announced \ Accepted /\ Accepted' = Accepted \cup {a}
                       /\ UNCHANGED <<Announced, pilot>>
                    \/ a \in Accepted /\ pilot' = a /\ UNCHANGED <<Announced, Accepted>>
                    \/ /\ a \in Announced /\ Announced' = Announced \ {a}
                       /\ Accepted' = Accepted \ {a} /\ pilot' = None

LEMMA ServiceStepIs == ServiceStep => [Service!Next]_(Service!vars)
BY DEF ServiceStep, Announced, Accepted, Service!Next, Service!vars, Service!Connect,
       Service!Ready, Service!Steer, Service!Disconnect

\* Steps that bukkis_bt.c does not see.
LEMMA Unseen ==
  ASSUME ReadyInv, UNCHANGED pilot,
         \A s \in Slots : /\ devs'[s].connected = devs[s].connected
                          /\ devs[s].connected => devs'[s].state = devs[s].state
                                                  /\ devs'[s].addr = devs[s].addr
                          /\ ~devs[s].connected => devs'[s].state \notin {"PENDING", "READY"}
  PROVE  ReadyInv' /\ ServiceStep
<1>1. ReadyInv'
  BY DEF ReadyInv
<1>2. Announced' = Announced
  BY DEF Announced
<1>3. Accepted' = Accepted
  BY DEF Accepted, ReadyInv
<1>4. QED
  BY <1>1, <1>2, <1>3 DEF ServiceStep

LEMMA UnseenSame ==
  ASSUME ReadyInv, UNCHANGED <<devs, pilot>>
  PROVE  ReadyInv' /\ ServiceStep
BY DEF ReadyInv, ServiceStep, Announced, Accepted

\* A slot is emptied: its device goes if it was announced.
LEMMA EmptiedServes ==
  ASSUME Inv, NoHandleZero, ReadyInv, NEW s \in Slots, devs' = [devs EXCEPT ![s] = Blank],
         pilot' = IF devs[s].connected THEN None ELSE pilot
  PROVE  ReadyInv' /\ ServiceStep
<1>1. devs'[s] = Blank /\ \A t \in Slots \ {s} : devs'[t] = devs[t]
  BY DEF Inv, TypeOK
<1>2. CASE ~devs[s].connected
  <2>1. ReadyInv'
    BY <1>1, BlankSlot DEF ReadyInv
  <2>2. Announced' = Announced /\ Accepted' = Accepted
    BY <1>1, <1>2, BlankSlot DEF Announced, Accepted, ReadyInv
  <2>3. QED
    BY <1>2, <2>1, <2>2 DEF ServiceStep
<1>3. CASE devs[s].connected
  <2> DEFINE a == devs[s].addr
  <2>1. a \in Addrs
    BY <1>3 DEF Inv, TypeOK, SlotsInv
  <2>2. \A t \in Slots \ {s} : devs[t].addr # a
    BY <2>1, Marks DEF Inv, SlotsInv
  <2>3. ReadyInv'
    BY <1>1, BlankSlot DEF ReadyInv
  <2>4. a \in Announced /\ Announced' = Announced \ {a}
    BY <1>1, <1>3, <2>2, BlankSlot DEF Announced
  <2>5. Accepted' = Accepted \ {a}
    BY <1>1, <2>2, BlankSlot DEF Accepted
  <2>6. QED
    BY <1>3, <2>1, <2>3, <2>4, <2>5 DEF ServiceStep
<1>4. QED
  BY <1>2, <1>3

LEMMA PeerServes ==
  ASSUME Inv, NoHandleZero, ReadyInv, NEW a \in Addrs, PeerNext(a)
  PROVE  ReadyInv' /\ ServiceStep
<1>1. CASE AdvertisingReport(a)
  <2>1. PICK s \in FreeSlot(devs) :
          devs' = [devs EXCEPT ![s] = [Fresh(a) EXCEPT !.state = "DISCOVERED"]]
    BY <1>1 DEF AdvertisingReport
  <2>2. s \in Slots /\ ~devs[s].connected
    BY DEF FreeSlot, FirstOf, Inv, SlotsInv
  <2>3. /\ ~devs'[s].connected /\ devs'[s].state = "DISCOVERED"
        /\ \A t \in Slots \ {s} : devs'[t] = devs[t]
    BY <2>1, <2>2 DEF Fresh, Inv, TypeOK
  <2>4. \A t \in Slots : devs[t].connected \in BOOLEAN /\ devs'[t].connected \in BOOLEAN
    BY <2>3, <2>1, <2>2 DEF Fresh, Inv, TypeOK
  <2>5. QED
    BY <1>1, <2>2, <2>3, <2>4, Unseen DEF AdvertisingReport, ReadyInv
<1>2. ASSUME NEW h \in Handles, LeConnectionComplete(a, h)
      PROVE  ReadyInv' /\ ServiceStep
  <2>1. \A s \in Slots : /\ devs'[s].addr = devs[s].addr
                         /\ devs'[s].connected = devs[s].connected
                         /\ devs'[s].state = devs[s].state
    BY <1>2 DEF LeConnectionComplete, Inv, TypeOK
  <2>2. QED
    BY <1>2, <2>1, Unseen DEF LeConnectionComplete, ReadyInv
<1>3. CASE \/ \E ok \in BOOLEAN : PairingComplete(a, ok)
           \/ \E status \in {"success", "timeout", "other"} : ReencryptionComplete(a, status)
           \/ EncryptionOff(a)
  BY <1>3, UnseenSame DEF PairingComplete, ReencryptionComplete, EncryptionOff
<1>4. CASE HidReport(a)
  <2>1. a \in Accepted
    BY <1>4, ReportsOwnSlot DEF Accepted
  <2>2. QED
    BY <1>4, <2>1 DEF HidReport, ReadyInv, ServiceStep, Announced, Accepted
<1>5. CASE DisconnectionComplete(a)
  BY <1>5, DisconnectedSlots, EmptiedServes, UnseenSame
<1>6. ASSUME NEW refused \in BOOLEAN, LeConnectionFailed(a, refused)
      PROVE  ReadyInv' /\ ServiceStep
  BY <1>6, FailedSlots, Unseen DEF ReadyInv
<1>7. QED
  BY <1>1, <1>2, <1>3, <1>4, <1>5, <1>6 DEF PeerNext

LEMMA GattServes ==
  ASSUME Inv, NoHandleZero, ReadyInv, GattNext
  PROVE  ReadyInv' /\ ServiceStep
<1>1. ASSUME NEW ok \in BOOLEAN, DeviceInformationDone(ok)
      PROVE  ReadyInv' /\ ServiceStep
  <2>1. \A s \in Slots : /\ devs'[s].addr = devs[s].addr
                         /\ devs'[s].connected = devs[s].connected
                         /\ devs'[s].state = devs[s].state
    BY <1>1 DEF DeviceInformationDone, Inv, TypeOK
  <2>2. QED
    BY <1>1, <2>1, Unseen DEF DeviceInformationDone, ReadyInv
<1>2. ASSUME NEW c \in clients, NEW ok \in BOOLEAN, NEW wait \in BOOLEAN,
             HidServiceConnected(c, ok, wait)
      PROVE  ReadyInv' /\ ServiceStep
  <2>1. pilot' = pilot
    BY <1>2 DEF HidServiceConnected
  <2>2. CASE UNCHANGED devs
    BY <2>1, <2>2, UnseenSame
  <2>3. ASSUME ok, NEW s \in Slots, devs[s].hids = c.cid,
               devs' = [devs EXCEPT ![s] = set_ready(on_connected(devs[s]), wait)]
        PROVE  ReadyInv' /\ ServiceStep
    <3> DEFINE b == devs[s].addr
    <3>1. ~devs[s].connected /\ b \in Addrs
      BY <1>2, <2>3, AnnouncedOnce
    <3>2. devs[s].state \notin {"PENDING", "READY"}
      BY <3>1 DEF ReadyInv
    <3>3. /\ devs'[s].addr = b /\ devs'[s].connected
          /\ devs'[s].state \in {"PENDING", "READY"}
          /\ \A t \in Slots \ {s} : devs'[t] = devs[t]
      BY <2>3, <3>2 DEF set_ready, on_connected, Inv, TypeOK
    <3>4. \A t \in Slots \ {s} : devs[t].addr # b
      BY <3>1, Marks DEF Inv, SlotsInv
    <3>5. ReadyInv'
      BY <3>3 DEF ReadyInv
    <3>6. b \notin Announced /\ Announced' = Announced \cup {b}
      BY <3>1, <3>3, <3>4 DEF Announced
    <3>7. Accepted' \in {Accepted, Accepted \cup {b}}
      <4>1. CASE devs'[s].state = "READY"
        BY <4>1, <3>2, <3>3 DEF Accepted
      <4>2. CASE devs'[s].state = "PENDING"
        BY <4>2, <3>2, <3>3 DEF Accepted
      <4>3. QED
        BY <4>1, <4>2, <3>3
    <3>8. QED
      BY <2>1, <3>1, <3>5, <3>6, <3>7 DEF ServiceStep
  <2>4. QED
    BY <1>2, <2>2, <2>3, ServiceConnectedSlots
<1>3. QED
  BY <1>1, <1>2 DEF GattNext

LEMMA SlotServes ==
  ASSUME Inv, NoHandleZero, ReadyInv, NEW s \in Slots, SlotNext(s)
  PROVE  ReadyInv' /\ ServiceStep
<1>1. CASE ParserReady(s)
  <2> DEFINE b == devs[s].addr
  <2>1. devs[s].state = "PENDING" /\ pilot' = pilot
    BY <1>1 DEF ParserReady
  <2>2. devs[s].connected
    BY <2>1 DEF ReadyInv
  <2>3. b \in Addrs
    BY <2>2 DEF Inv, TypeOK, SlotsInv
  <2>4. \A t \in Slots \ {s} : devs[t].addr # b
    BY <2>3, Marks DEF Inv, SlotsInv
  <2>5. \A t \in Slots : /\ devs'[t].addr = devs[t].addr
                         /\ devs'[t].connected = devs[t].connected
                         /\ devs'[t].state = IF t = s THEN "READY" ELSE devs[t].state
    BY <1>1, ParserReadyIs, BecomesReadyFields
  <2>6. ReadyInv'
    BY <2>2, <2>5 DEF ReadyInv
  <2>7. Announced' = Announced /\ b \in Announced
    BY <2>2, <2>5 DEF Announced
  <2>8. b \notin Accepted /\ Accepted' = Accepted \cup {b}
    BY <2>1, <2>4, <2>5 DEF Accepted
  <2>9. QED
    BY <2>1, <2>3, <2>6, <2>7, <2>8 DEF ServiceStep
<1>2. CASE ConnectionTimeout(s) \/ DisconnectDevice(s)
  <2>1. CASE Drop(s)
    BY <2>1, EmptiedServes DEF Drop
  <2>2. CASE UNCHANGED <<devs, pilot>>
    BY <2>2, UnseenSame
  <2>3. QED
    BY <1>2, <2>1, <2>2 DEF ConnectionTimeout, DisconnectDevice
<1>3. QED
  BY <1>1, <1>2 DEF SlotNext

LEMMA HostServes ==
  ASSUME Inv, NoHandleZero, ReadyInv, [HostNext]_hostVars
  PROVE  ReadyInv' /\ ServiceStep
<1>1. CASE SetupNext /\ BeforeReady
  BY <1>1, UnseenSame DEF BeforeReady
<1>2. CASE Next \/ Console
  <2>1. CASE \E on \in BOOLEAN : StartScanning(on)
    BY <2>1, UnseenSame DEF StartScanning
  <2>2. QED
    BY <1>2, <2>1, PeerServes, GattServes, SlotServes DEF Next, Console, SlotNext
<1>3. CASE UNCHANGED vars
  BY <1>3, UnseenSame DEF vars
<1>4. QED
  BY <1>1, <1>2, <1>3 DEF HostNext, hostVars

\* Bluepad32 calls bukkis_bt.c in the order it relies on: announced once, ready, then
\* reports, and one on_device_disconnected, which zeroes the words.
THEOREM HostServesController ==
  ASSUME NoHandleZero
  PROVE  HostSpec => CallbacksInOrder
<1>1. HostInit => ReadyInv /\ Service!Init
  BY BlankSlot DEF HostInit, ReadyInv, Service!Init
<1>2. Inv /\ ReadyInv /\ [HostNext]_hostVars => ReadyInv' /\ [Service!Next]_(Service!vars)
  BY HostServes, ServiceStepIs
<1>3. QED
  BY <1>1, <1>2, HostInvariance, PTL DEF HostSpec, CallbacksInOrder, Service!Spec

-------------------------------------------------------------------------------
(* BtHost: no slot without a way out. *)

\* The connection timer of a device that is not ready runs.
TimerInv == \A s \in Slots :
    devs[s].addr # None /\ devs[s].state # "READY" => devs[s].timer

\* No slot is taken before the set-up is done.
TakenInv == \A s \in Slots : devs[s].addr # None => uni_bt_setup_is_ready

\* A slot that is taken holds a connected, ready device, or the guard of its
\* connection timer's handler holds.
UnsettledIsWatched == \A s \in Slots : devs[s].addr # None =>
    \/ devs[s].connected /\ devs[s].state = "READY"
    \/ devs[s].timer /\ devs[s].state # "READY" /\ uni_bt_setup_is_ready

\* A step that leaves address, state and timer of every slot alone.
LEMMA TimersSame ==
  ASSUME TimerInv,
         \A s \in Slots : /\ devs'[s].addr = devs[s].addr
                          /\ devs'[s].state = devs[s].state
                          /\ devs'[s].timer = devs[s].timer
  PROVE  TimerInv'
BY DEF TimerInv

\* A step that changes one slot, to an empty one or one with a timer unless ready.
LEMMA TimersOne ==
  ASSUME TimerInv, Inv, NEW s \in Slots, NEW d, devs' = [devs EXCEPT ![s] = d],
         d.addr # None /\ d.state # "READY" => d.timer
  PROVE  TimerInv'
<1>1. devs'[s] = d /\ \A t \in Slots \ {s} : devs'[t] = devs[t]
  BY DEF Inv, TypeOK
<1> QED
  BY <1>1 DEF TimerInv

\* uni_hid_device_set_ready of a device that is announced the first time: it is ready,
\* or its parser's set-up runs with the timer still going.
LEMMA SetReadyTimed ==
  ASSUME NEW d \in SlotType, d.state \notin {"PENDING", "READY"}, d.timer,
         NEW wait \in BOOLEAN
  PROVE  LET r == set_ready(on_connected(d), wait) IN r.state # "READY" => r.timer
<1> DEFINE e == on_connected(d)
<1>1. e \in SlotType /\ e.state = d.state /\ e.timer = d.timer
  BY DEF on_connected, SlotType
<1> HIDE DEF e
<1>2. CASE wait
  <2>1. set_ready(e, wait) = [e EXCEPT !.state = "PENDING"]
    BY <1>1, <1>2 DEF set_ready
  <2>2. set_ready(e, wait).timer = e.timer
    BY <1>1, <2>1 DEF SlotType
  <2> QED
    BY <1>1, <2>2 DEF e
<1>3. CASE ~wait
  <2>1. set_ready(e, wait) = [e EXCEPT !.state = "READY", !.timer = FALSE]
    BY <1>1, <1>3 DEF set_ready
  <2>2. set_ready(e, wait).state = "READY"
    BY <1>1, <2>1 DEF SlotType
  <2> QED
    BY <2>2 DEF e
<1> QED
  BY <1>2, <1>3

\* The timer is started with the slot and stopped only when the device is ready.
LEMMA TimerKeeps ==
  ASSUME Inv, NoHandleZero, ReadyInv, TimerInv, Next
  PROVE  TimerInv'
<1>1. ASSUME NEW a \in Addrs, AdvertisingReport(a) PROVE TimerInv'
  <2>1. PICK s \in FreeSlot(devs) :
          devs' = [devs EXCEPT ![s] = [Fresh(a) EXCEPT !.state = "DISCOVERED"]]
    BY <1>1 DEF AdvertisingReport
  <2>2. s \in Slots
    BY DEF FreeSlot, FirstOf
  <2>3. [Fresh(a) EXCEPT !.state = "DISCOVERED"].timer
    BY DEF Fresh
  <2> QED
    BY <2>1, <2>2, <2>3, TimersOne
<1>2. ASSUME NEW a \in Addrs, NEW h \in Handles, LeConnectionComplete(a, h)
      PROVE  TimerInv'
  <2>1. \A s \in Slots : /\ devs'[s].addr = devs[s].addr
                         /\ devs'[s].state = devs[s].state
                         /\ devs'[s].timer = devs[s].timer
    BY <1>2 DEF LeConnectionComplete, Inv, TypeOK
  <2> QED
    BY <2>1, TimersSame
<1>3. ASSUME NEW ok \in BOOLEAN, DeviceInformationDone(ok) PROVE TimerInv'
  <2>1. \A s \in Slots : /\ devs'[s].addr = devs[s].addr
                         /\ devs'[s].state = devs[s].state
                         /\ devs'[s].timer = devs[s].timer
    BY <1>3 DEF DeviceInformationDone, Inv, TypeOK
  <2> QED
    BY <2>1, TimersSame
<1>4. ASSUME UNCHANGED devs PROVE TimerInv'
  BY <1>4, TimersSame
<1>5. ASSUME NEW s \in Slots, devs' = [devs EXCEPT ![s] = Blank] PROVE TimerInv'
  BY <1>5, TimersOne, BlankSlot
<1>6. ASSUME NEW a \in Addrs, PeerNext(a) PROVE TimerInv'
  <2>1. CASE \/ \E ok \in BOOLEAN : PairingComplete(a, ok)
             \/ \E status \in {"success", "timeout", "other"} :
                   ReencryptionComplete(a, status)
             \/ EncryptionOff(a) \/ HidReport(a)
    BY <1>4, <2>1
    DEF PairingComplete, ReencryptionComplete, EncryptionOff, HidReport
  <2>2. CASE DisconnectionComplete(a)
    BY <1>4, <1>5, <2>2, DisconnectedSlots
  <2>3. CASE \E refused \in BOOLEAN : LeConnectionFailed(a, refused)
    BY <2>3, FailedSlots, TimersSame
  <2> QED
    BY <1>1, <1>2, <1>6, <2>1, <2>2, <2>3 DEF PeerNext
<1>7. ASSUME NEW c \in clients, NEW ok \in BOOLEAN, NEW wait \in BOOLEAN,
             HidServiceConnected(c, ok, wait)
      PROVE  TimerInv'
  <2>1. ASSUME ok, NEW s \in Slots, devs[s].hids = c.cid,
               devs' = [devs EXCEPT ![s] = set_ready(on_connected(devs[s]), wait)]
        PROVE  TimerInv'
    <3>1. ~devs[s].connected /\ devs[s].addr \in Addrs
      BY <1>7, <2>1, AnnouncedOnce
    <3>2. devs[s].state \notin {"PENDING", "READY"}
      BY <3>1 DEF ReadyInv
    <3>3. devs[s].timer
      BY <3>1, <3>2, Marks DEF TimerInv
    <3>4. devs[s] \in SlotType
      BY TypeParts DEF Inv, DevsType
    <3> DEFINE r == set_ready(on_connected(devs[s]), wait)
    <3>5. r.state # "READY" => r.timer
      BY <3>2, <3>3, <3>4, SetReadyTimed
    <3>6. devs' = [devs EXCEPT ![s] = r]
      BY <2>1
    <3> HIDE DEF r
    <3> QED
      BY <3>5, <3>6, TimersOne
  <2> QED
    BY <1>4, <1>7, <2>1, ServiceConnectedSlots
<1>8. ASSUME NEW s \in Slots, SlotNext(s) PROVE TimerInv'
  <2>1. CASE ParserReady(s)
    <3>1. \A t \in Slots : /\ devs'[t].addr = devs[t].addr
                           /\ t # s => devs'[t] = devs[t]
                           /\ t = s => devs'[t].state = "READY"
      BY <2>1, ParserReadyIs, BecomesReadyFields DEF ParserReady, Inv, TypeOK
    <3> QED
      BY <3>1 DEF TimerInv
  <2>2. CASE ConnectionTimeout(s) \/ DisconnectDevice(s)
    BY <1>4, <1>5, <2>2 DEF ConnectionTimeout, DisconnectDevice, Drop
  <2> QED
    BY <1>8, <2>1, <2>2 DEF SlotNext
<1>9. ASSUME NEW on \in BOOLEAN, StartScanning(on) PROVE TimerInv'
  BY <1>4, <1>9 DEF StartScanning
<1> QED
  BY <1>3, <1>6, <1>7, <1>8, <1>9 DEF Next, GattNext

\* The set-up leaves the slots alone, and the console only empties them.
LEMMA WatchKeeps ==
  ASSUME Inv, NoHandleZero, ReadyInv, TimerInv, TakenInv, [HostNext]_hostVars
  PROVE  TimerInv' /\ TakenInv'
<1>1. ASSUME UNCHANGED devs, uni_bt_setup_is_ready => uni_bt_setup_is_ready'
      PROVE  TimerInv' /\ TakenInv'
  BY <1>1, TimersSame DEF TakenInv
<1>2. CASE SetupNext /\ BeforeReady
  BY <1>1, <1>2 DEF BeforeReady
<1>3. CASE Console /\ UNCHANGED setupVars
  <2>1. TimerInv'
    BY <1>3, TimerKeeps DEF Console, Next, SlotNext
  <2>2. UNCHANGED setup_state
    BY <1>3 DEF setupVars
  <2>3. ASSUME NEW s \in Slots, DisconnectDevice(s) PROVE TakenInv'
    <3>1. \A t \in Slots : devs'[t] \in {devs[t], Blank}
      BY <2>3 DEF DisconnectDevice, Drop, Inv, TypeOK
    <3> QED
      BY <2>2, <3>1, BlankSlot DEF TakenInv, uni_bt_setup_is_ready
  <2>4. ASSUME NEW on \in BOOLEAN, StartScanning(on) PROVE TakenInv'
    BY <2>2, <2>4 DEF StartScanning, TakenInv, uni_bt_setup_is_ready
  <2> QED
    BY <1>3, <2>1, <2>3, <2>4 DEF Console
<1>4. CASE uni_bt_setup_is_ready /\ Next /\ UNCHANGED setupVars
  <2>1. TimerInv'
    BY <1>4, TimerKeeps
  <2>2. uni_bt_setup_is_ready'
    BY <1>4 DEF setupVars, uni_bt_setup_is_ready
  <2> QED
    BY <2>1, <2>2 DEF TakenInv
<1>5. CASE UNCHANGED hostVars
  BY <1>1, <1>5 DEF hostVars, vars, setupVars, uni_bt_setup_is_ready
<1> QED
  BY <1>2, <1>3, <1>4, <1>5 DEF HostNext

\* Every device that is not connected and ready is watched: in every state
\* device_connection_timeout is ready to delete it, so nothing but the timer has to
\* happen for the slot to be given back, whatever the peer leaves undone
\* ("Delete device if it doesn't have a connection").
THEOREM NoSlotUnwatched ==
  ASSUME NoHandleZero
  PROVE  HostSpec => []UnsettledIsWatched
<1>1. HostInit => ReadyInv /\ TimerInv /\ TakenInv
  BY BlankSlot DEF HostInit, ReadyInv, TimerInv, TakenInv
<1>2. Inv /\ ReadyInv /\ TimerInv /\ TakenInv /\ [HostNext]_hostVars
        => ReadyInv' /\ TimerInv' /\ TakenInv'
  BY HostServes, WatchKeeps
<1>3. ReadyInv /\ TimerInv /\ TakenInv => UnsettledIsWatched
  BY DEF ReadyInv, TimerInv, TakenInv, UnsettledIsWatched
<1> QED
  BY <1>1, <1>2, <1>3, HostInvariance, PTL DEF HostSpec

-------------------------------------------------------------------------------
(* SteamHost. *)

\* A query runs only over a link that is up.
AskingInv == \A h \in asking : \E a \in Addrs : Up(a) /\ link[a].h = h

SteamInv == /\ Inv /\ AskingInv
            /\ device \in 0 .. MaxDevices /\ query_state \in 1 .. STATE_QUERY_END

\* Every link that is up stays so, with its handle.
LinksStay == \A a \in Addrs : Up(a) => /\ link'[a].st \in {"open", "closing"}
                                       /\ link'[a].h = link[a].h

LEMMA GapDisconnectStays ==
  ASSUME TypeOK, NEW h, link' = gap_disconnect(h)
  PROVE  LinksStay
<1>1. \A a \in Addrs : link'[a] = IF a \in Conn(h) /\ link[a].st = "open"
                                  THEN [link[a] EXCEPT !.st = "closing"] ELSE link[a]
  BY DEF gap_disconnect
<1>2. QED
  BY <1>1 DEF LinksStay, Up, TypeOK

\* Only the end of a link, which SteamDisconnection is told of, takes a link away.
LEMMA OthersStay ==
  ASSUME TypeOK, Others
  PROVE  LinksStay
<1>1. ASSUME UNCHANGED link PROVE LinksStay
  BY <1>1 DEF LinksStay, Up
<1>2. ASSUME NEW h, hog_disconnect(h) PROVE LinksStay
  BY <1>2, GapDisconnectStays DEF hog_disconnect
<1>3. ASSUME NEW a \in Addrs, AdvertisingReport(a) PROVE LinksStay
  BY <1>3 DEF AdvertisingReport, gap_connect, LinksStay, Up, TypeOK
<1>4. ASSUME NEW a \in Addrs, NEW h \in Handles, LeConnectionComplete(a, h)
      PROVE  LinksStay
  BY <1>4 DEF LeConnectionComplete, LinksStay, Up, TypeOK
<1>5. ASSUME NEW a \in Addrs, NEW ok \in BOOLEAN, PairingComplete(a, ok)
      PROVE  LinksStay
  <2>1. hog_disconnect(link[a].h) \/ UNCHANGED link
    BY <1>5 DEF PairingComplete
  <2>2. QED
    BY <2>1, <1>1, <1>2
<1>6. ASSUME NEW a \in Addrs, NEW status, ReencryptionComplete(a, status)
      PROVE  LinksStay
  <2>1. hog_disconnect(link[a].h) \/ UNCHANGED link
    BY <1>6 DEF ReencryptionComplete
  <2>2. QED
    BY <2>1, <1>1, <1>2
<1>7. ASSUME NEW a \in Addrs, HidReport(a) \/ EncryptionOff(a) PROVE LinksStay
  <2>1. hog_disconnect(link[a].h) \/ UNCHANGED link
    BY <1>7 DEF HidReport, EncryptionOff
  <2>2. QED
    BY <2>1, <1>1, <1>2
<1>8. ASSUME NEW ok \in BOOLEAN, DeviceInformationDone(ok) PROVE LinksStay
  <2>1. hog_disconnect(dis) \/ UNCHANGED link
    BY <1>8 DEF DeviceInformationDone
  <2>2. QED
    BY <2>1, <1>1, <1>2
<1>9. ASSUME NEW c \in clients, NEW ok \in BOOLEAN, HidServiceConnected(c, ok, FALSE)
      PROVE  LinksStay
  BY <1>9, <1>1 DEF HidServiceConnected
<1>10. ASSUME NEW s \in Slots, ConnectionTimeout(s) \/ DisconnectDevice(s)
       PROVE  LinksStay
  <2>1. hog_disconnect(devs[s].handle) \/ UNCHANGED link
    BY <1>10 DEF ConnectionTimeout, DisconnectDevice, Drop
  <2>2. QED
    BY <2>1, <1>1, <1>2
<1>11. ASSUME NEW on \in BOOLEAN, StartScanning(on) PROVE LinksStay
  BY <1>11, <1>1 DEF StartScanning
<1>12. ASSUME NEW a \in Addrs, NEW refused \in BOOLEAN, LeConnectionFailed(a, refused)
       PROVE  LinksStay
  BY <1>12 DEF LeConnectionFailed, LinksStay, Up, TypeOK
<1>13. QED
  BY <1>3, <1>4, <1>5, <1>6, <1>7, <1>8, <1>9, <1>10, <1>11, <1>12
  DEF Others

\* A new query is one over an open link.
LEMMA AskOverLink ==
  ASSUME NEW busy, NEW h, NEW x \in Ask(busy, h), x \notin busy
  PROVE  x = h /\ \E a \in Addrs : Up(a) /\ link[a].h = x
BY DEF Ask, Conn, Up

LEMMA OthersKeep ==
  ASSUME Inv, NoHandleZero, Others
  PROVE  Inv'
<1>1. Others => Next
  BY DEF Others, Next, PeerNext, GattNext, SlotNext
<1>2. QED
  BY <1>1, NextKeeps

\* The parser's last answer makes the slot of the last set-up ready, if there was one.
LEMMA SteamEventKeeps ==
  ASSUME Inv, NEW h \in asking, NEW ok \in BOOLEAN, SteamEvent(h, ok),
         device \in 0 .. MaxDevices
  PROVE  Inv'
<1>1. UNCHANGED <<link, le_scanning, is_scanning, clients, dis, sm, pilot>>
  BY DEF SteamEvent
<1>2. UNCHANGED devs \/ devs' = set_ready_complete(device)
  BY DEF SteamEvent
<1>3. CASE UNCHANGED devs
  BY <1>1, <1>3, QuietKeeps DEF RestOK, Inv, TypeOK
<1>4. CASE devs' = set_ready_complete(device) /\ device \in Slots
  <2>1. BecomesReady(device)
    BY <1>4 DEF set_ready_complete, BecomesReady, Inv, TypeOK
  <2>2. QED
    BY <1>1, <1>4, <2>1, MadeReadyKeeps
<1>5. CASE devs' = set_ready_complete(device) /\ device \notin Slots
  <2>1. devs' = devs
    BY <1>5 DEF set_ready_complete, Inv, TypeOK
  <2>2. QED
    BY <2>1, <1>3
<1>6. QED
  BY <1>2, <1>3, <1>4, <1>5

LEMMA SteamStepKeeps ==
  ASSUME SteamInv, NoHandleZero, [SteamNext]_steamVars
  PROVE  SteamInv'
<1> USE DEF STATE_QUERY_END, STATE_QUERY_SERVICE
<1>1. CASE Others /\ KeepHistory /\ UNCHANGED steam
  <2>1. Inv' /\ LinksStay
    BY <1>1, OthersKeep, OthersStay DEF SteamInv, Inv
  <2>2. AskingInv'
    BY <1>1, <2>1 DEF SteamInv, AskingInv, LinksStay, Up, steam
  <2>3. QED
    BY <1>1, <2>1, <2>2 DEF SteamInv, steam
<1>2. ASSUME NEW c \in clients, SteamSetup(c) PROVE SteamInv'
  <2>1. HidServiceConnected(c, TRUE, TRUE) /\ query_state' = 1
    BY <1>2 DEF SteamSetup, Begin
  <2>2. PICK s \in ByHids(devs, c.cid) :
          device' = s /\ asking' = Ask(asking, devs[s].handle)
    BY <1>2 DEF SteamSetup, Begin
  <2>3. Inv' /\ UNCHANGED link
    BY <2>1, HidServiceConnectedKeeps DEF SteamInv, HidServiceConnected
  <2>4. AskingInv'
    BY <2>2, <2>3, AskOverLink DEF SteamInv, AskingInv, Up
  <2>5. device' \in 0 .. MaxDevices
    BY <2>2, TableAssumption DEF ByHids, FirstOf, Slots
  <2>6. QED
    BY <2>1, <2>3, <2>4, <2>5 DEF SteamInv
<1>3. ASSUME NEW h \in asking, NEW ok \in BOOLEAN, SteamEvent(h, ok) PROVE SteamInv'
  <2>1. Inv' /\ UNCHANGED <<device, link>>
    BY <1>3, SteamEventKeeps DEF SteamInv, SteamEvent
  <2>2. asking' = asking \ {h} \/ asking' = Ask(asking \ {h}, connection_handle)
    BY <1>3 DEF SteamEvent
  <2>3. AskingInv'
    BY <2>1, <2>2, AskOverLink DEF SteamInv, AskingInv, Up
  <2>4. query_state' \in 1 .. STATE_QUERY_END
    BY <1>3 DEF SteamInv, SteamEvent
  <2>5. QED
    BY <2>1, <2>3, <2>4 DEF SteamInv
<1>4. ASSUME NEW a \in Addrs, SteamDisconnection(a) PROVE SteamInv'
  <2>1. /\ Inv' /\ UNCHANGED <<device, query_state>>
        /\ asking' = asking \ {link[a].h}
        /\ link' = [link EXCEPT ![a] = NoLink]
    BY <1>4, DisconnectionCompleteKeeps
    DEF SteamInv, SteamDisconnection, DisconnectionComplete
  <2>2. \A b \in Addrs : b # a => link'[b] = link[b]
    BY <2>1 DEF SteamInv, Inv, TypeOK
  <2>3. AskingInv'
    BY <2>1, <2>2 DEF SteamInv, AskingInv, Up
  <2>4. QED
    BY <2>1, <2>3 DEF SteamInv
<1>5. CASE UNCHANGED steamVars
  <2>1. Inv'
    BY <1>5, QuietKeeps DEF steamVars, vars, RestOK, SteamInv, Inv, TypeOK
  <2>2. QED
    BY <1>5, <2>1 DEF SteamInv, AskingInv, Up, steamVars, vars, steam
<1>6. QED
  BY <1>1, <1>2, <1>3, <1>4, <1>5 DEF SteamNext

LEMMA SteamInvariance ==
  ASSUME NoHandleZero
  PROVE  SteamSpec => []SteamInv
<1>1. SteamInit => SteamInv
  <2> SUFFICES ASSUME SteamInit PROVE SteamInv
    OBVIOUS
  <2>1. Inv
    BY StartOK DEF SteamInit, Init
  <2>2. QED
    BY <2>1, TableAssumption
    DEF SteamInit, SteamInv, AskingInv, STATE_QUERY_END, STATE_QUERY_SERVICE
<1>2. SteamInv /\ [SteamNext]_steamVars => SteamInv'
  BY SteamStepKeeps
<1>3. QED
  BY <1>1, <1>2, PTL DEF SteamSpec

\* The Steam Controller's parser, whose variables are one set for all controllers,
\* stays within its types, and no query of it outlives its link.
THEOREM SteamTypes ==
  ASSUME NoHandleZero
  PROVE  SteamSpec => []SteamTypeOK
<1>1. SteamInv => SteamTypeOK
  BY DEF SteamInv, AskingInv, Inv, SteamTypeOK
<1>2. QED
  BY <1>1, SteamInvariance, PTL

\* The words are zeroed with the pilot's link or slot although that parser may set
\* ready a slot which has been given to another device, or to none.
THEOREM SteamNeutralWithoutLink ==
  ASSUME NoHandleZero
  PROVE  SteamSpec => []LostLinkNeutral
<1>1. SteamInv => LostLinkNeutral
  BY InvNeutral DEF SteamInv
<1>2. QED
  BY <1>1, SteamInvariance, PTL

-------------------------------------------------------------------------------
(* SteamHost: whose answers a set-up waits for, and what ends it. *)

\* What a step that is not the parser's may do to a slot: empty it, take it for a peer
\* that has no link, leave it, or announce its device.
SlotStep(s) ==
    \/ devs'[s] = Blank
    \/ /\ devs[s].addr = None /\ devs'[s].addr \in Addrs /\ ~Up(devs'[s].addr)
       /\ devs'[s].timer /\ devs'[s].state = "DISCOVERED" /\ ~devs'[s].connected
    \/ /\ devs'[s].addr = devs[s].addr /\ devs'[s].connected = devs[s].connected
       /\ devs'[s].state = devs[s].state /\ devs'[s].timer = devs[s].timer
       /\ devs[s].connected => devs'[s].handle = devs[s].handle
    \/ /\ devs'[s].addr = devs[s].addr /\ devs[s].addr \in Addrs
       /\ ~devs[s].connected /\ devs'[s].connected
       /\ \/ devs'[s].state = "READY"
          \/ devs'[s].state = devs[s].state /\ devs'[s].timer = devs[s].timer

LEMMA AdvertisedSlots ==
  ASSUME Inv, NoHandleZero, NEW a \in Addrs, AdvertisingReport(a)
  PROVE  \A s \in Slots : SlotStep(s)
<1>1. PICK s \in FreeSlot(devs) :
        devs' = [devs EXCEPT ![s] = [Fresh(a) EXCEPT !.state = "DISCOVERED"]]
  BY DEF AdvertisingReport
<1>2. s \in Slots /\ devs[s].addr = None
  BY DEF FreeSlot, FirstOf
<1>3. /\ devs'[s].addr = a /\ devs'[s].timer /\ devs'[s].state = "DISCOVERED"
      /\ ~devs'[s].connected /\ \A t \in Slots \ {s} : devs'[t] = devs[t]
  BY <1>1, <1>2 DEF Fresh, Inv, TypeOK
<1>4. ~Up(a)
  BY DEF AdvertisingReport
<1>5. QED
  BY <1>2, <1>3, <1>4 DEF SlotStep

\* uni_hid_device_set_ready without a set-up, on a slot whose state may be any.
LEMMA SetReadyAtOnce ==
  ASSUME NEW d \in SlotType
  PROVE  LET r == set_ready(on_connected(d), FALSE) IN
         /\ r.addr = d.addr /\ r.connected
         /\ r.state = "READY" \/ (r.state = d.state /\ r.timer = d.timer)
<1> DEFINE e == on_connected(d)
<1>1. /\ e \in SlotType /\ e.state = d.state /\ e.timer = d.timer
      /\ e.addr = d.addr /\ e.connected
  BY DEF on_connected, SlotType
<1> HIDE DEF e
<1>2. CASE e.state = "PENDING"
  BY <1>1, <1>2 DEF set_ready, e
<1>3. CASE e.state # "PENDING"
  <2>1. set_ready(e, FALSE) = [e EXCEPT !.state = "READY", !.timer = FALSE]
    BY <1>3 DEF set_ready
  <2>2. /\ set_ready(e, FALSE).addr = e.addr /\ set_ready(e, FALSE).connected
        /\ set_ready(e, FALSE).state = "READY"
    BY <1>1, <2>1 DEF SlotType
  <2>3. QED
    BY <1>1, <2>2 DEF e
<1>4. QED
  BY <1>2, <1>3

LEMMA OthersSlots ==
  ASSUME Inv, NoHandleZero, Others
  PROVE  \A s \in Slots : SlotStep(s)
<1>1. ASSUME UNCHANGED devs PROVE \A s \in Slots : SlotStep(s)
  BY <1>1 DEF SlotStep
<1>2. ASSUME NEW s \in Slots, devs' = [devs EXCEPT ![s] = Blank]
      PROVE  \A t \in Slots : SlotStep(t)
  BY <1>2 DEF SlotStep, Inv, TypeOK
<1>3. ASSUME NEW a \in Addrs, NEW h \in Handles, LeConnectionComplete(a, h)
      PROVE  \A s \in Slots : SlotStep(s)
  <2>1. \A s \in Slots : devs[s].addr = a => ~devs[s].connected
    <3>1. link[a].h \notin Handles
      BY <1>3, Marks DEF LeConnectionComplete, Inv, TypeOK, LinksInv, Up
    <3>2. QED
      BY <3>1, SlotLinked DEF Inv, ConnectedInv
  <2>2. \A s \in Slots : devs'[s] = IF devs[s].addr = a
                                    THEN [devs[s] EXCEPT !.handle = h] ELSE devs[s]
    BY <1>3, ByAddrIs DEF LeConnectionComplete
  <2>3. \A s \in Slots : /\ devs'[s].addr = devs[s].addr
                         /\ devs'[s].connected = devs[s].connected
                         /\ devs'[s].state = devs[s].state
                         /\ devs'[s].timer = devs[s].timer
                         /\ devs[s].addr # a => devs'[s].handle = devs[s].handle
    BY <2>2 DEF Inv, TypeOK
  <2>4. QED
    BY <2>1, <2>3 DEF SlotStep
<1>4. ASSUME NEW a \in Addrs, NEW refused \in BOOLEAN, LeConnectionFailed(a, refused)
      PROVE  \A s \in Slots : SlotStep(s)
  BY <1>4, FailedSlots DEF SlotStep, Inv, ConnectedInv
<1>5. ASSUME NEW ok \in BOOLEAN, DeviceInformationDone(ok)
      PROVE  \A s \in Slots : SlotStep(s)
  <2>1. \A s \in Slots : /\ devs'[s].addr = devs[s].addr
                         /\ devs'[s].connected = devs[s].connected
                         /\ devs'[s].state = devs[s].state
                         /\ devs'[s].timer = devs[s].timer
                         /\ devs'[s].handle = devs[s].handle
    BY <1>5 DEF DeviceInformationDone, Inv, TypeOK
  <2>2. QED
    BY <2>1 DEF SlotStep
<1>6. ASSUME NEW c \in clients, NEW ok \in BOOLEAN, HidServiceConnected(c, ok, FALSE)
      PROVE  \A s \in Slots : SlotStep(s)
  <2>1. ASSUME ok, NEW s \in Slots, devs[s].hids = c.cid,
               devs' = [devs EXCEPT ![s] = set_ready(on_connected(devs[s]), FALSE)]
        PROVE  \A t \in Slots : SlotStep(t)
    <3>1. ~devs[s].connected /\ devs[s].addr \in Addrs
      BY <1>6, <2>1, AnnouncedOnce
    <3>2. devs[s] \in SlotType
      BY TypeParts DEF Inv, DevsType
    <3> DEFINE r == set_ready(on_connected(devs[s]), FALSE)
    <3>3. /\ r.addr = devs[s].addr /\ r.connected
          /\ r.state = "READY" \/ (r.state = devs[s].state /\ r.timer = devs[s].timer)
      BY <3>2, SetReadyAtOnce
    <3>4. devs'[s] = r /\ \A t \in Slots \ {s} : devs'[t] = devs[t]
      BY <2>1 DEF Inv, TypeOK
    <3> HIDE DEF r
    <3>5. QED
      BY <3>1, <3>3, <3>4 DEF SlotStep
  <2>2. QED
    BY <1>1, <1>6, <2>1, ServiceConnectedSlots
<1>7. ASSUME NEW s \in Slots, ConnectionTimeout(s) \/ DisconnectDevice(s)
      PROVE  \A t \in Slots : SlotStep(t)
  BY <1>1, <1>2, <1>7 DEF ConnectionTimeout, DisconnectDevice, Drop
<1>8. ASSUME NEW a \in Addrs,
             \/ \E ok \in BOOLEAN : PairingComplete(a, ok)
             \/ \E status \in {"success", "timeout", "other"} :
                   ReencryptionComplete(a, status)
             \/ HidReport(a) \/ EncryptionOff(a)
      PROVE  \A s \in Slots : SlotStep(s)
  BY <1>1, <1>8 DEF PairingComplete, ReencryptionComplete, HidReport, EncryptionOff
<1>9. ASSUME NEW on \in BOOLEAN, StartScanning(on) PROVE \A s \in Slots : SlotStep(s)
  BY <1>1, <1>9 DEF StartScanning
<1>10. QED
  BY <1>3, <1>4, <1>5, <1>6, <1>7, <1>8, <1>9, AdvertisedSlots DEF Others

\* A set-up that began with no query of another peer under way: all queries are its
\* own, to the link of its own slot, and the slot is not ready before they end.
OwnInv ==
    /\ mixed \in BOOLEAN
    /\ \A s \in awaited : s \in Slots /\ devs[s].connected
    /\ device \in awaited /\ device \notin shared =>
          ~mixed /\ asking \subseteq {connection_handle}
          /\ devs[device].handle = connection_handle
    /\ ReportsAfterOwnSetup

\* Where the answers are those of the slot's own peer, the slot is announced and the
\* queries are its own; so a slot made ready before it is announced, the only kind
\* that starts a set-up without a timer, was made so by somebody else's answer.
TimedInv ==
    /\ asking # {} => device \in Slots
    /\ ~mixed => \A h \in asking : Conn(h) = {devs[device].addr} =>
                     h = connection_handle /\ devs[device].connected
    /\ \A s \in Slots : devs[s].addr # None /\ ~devs[s].connected
                        /\ devs[s].state = "READY" => s \in untimed
    /\ StuckSetupIsTimed

\* The peer of a query under way.
LEMMA AskedPeer ==
  ASSUME SteamInv, NEW h \in asking
  PROVE  \E a \in Addrs : Up(a) /\ link[a].h = h /\ Conn(h) = {a}
<1>1. PICK a \in Addrs : Up(a) /\ link[a].h = h
  BY DEF SteamInv, AskingInv
<1>2. link[a].st # "none" /\ h # Invalid
  BY <1>1 DEF Up, SteamInv, Inv, LinksInv
<1>3. Conn(h) = {a}
  BY <1>1, <1>2 DEF Conn, SteamInv, Inv, LinksInv
<1>4. QED
  BY <1>1, <1>3

\* A slot that is announced has the link of its peer.
LEMMA AnnouncedPeer ==
  ASSUME Inv, NoHandleZero, NEW s \in Slots, devs[s].connected
  PROVE  Conn(devs[s].handle) = {devs[s].addr} /\ devs[s].addr \in Addrs
<1>1. devs[s].handle \in Handles
  BY DEF Inv, ConnectedInv
<1>2. /\ devs[s].addr \in Addrs /\ Up(devs[s].addr)
      /\ link[devs[s].addr].h = devs[s].handle
  BY <1>1, SlotLinked
<1>3. devs[s].handle # Invalid /\ link[devs[s].addr].st # "none"
  BY <1>1, <1>2, Marks DEF Up
<1>4. QED
  BY <1>2, <1>3 DEF Conn, Inv, LinksInv

\* A step in which the parser has no part but that queries may end with their link.
Aside == /\ \A s \in Slots : SlotStep(s)
         /\ KeepHistory
         /\ UNCHANGED <<device, connection_handle, query_state, mixed>>
         /\ asking' \subseteq asking
         /\ \A a \in Addrs : Up(a) /\ link[a].h \in asking' =>
               link'[a].h = link[a].h

LEMMA AsideOwn ==
  ASSUME OwnInv, Aside
  PROVE  OwnInv'
<1>1. \A s \in awaited' : /\ s \in awaited /\ s \in Slots /\ devs[s].connected
                          /\ devs[s].addr # None /\ devs'[s].addr # None
  BY DEF Aside, KeepHistory, Occupied, OwnInv
<1>2. \A s \in awaited' : /\ devs'[s].connected /\ devs'[s].handle = devs[s].handle
                          /\ devs'[s].state = devs[s].state
  BY <1>1, BlankSlot DEF Aside, SlotStep
<1>3. \A s \in awaited' : s \in shared => s \in shared'
  BY <1>1 DEF Aside, KeepHistory, Occupied
<1>4. ReportsAfterOwnSetup'
  BY <1>1, <1>2, <1>3 DEF OwnInv, ReportsAfterOwnSetup
<1>5. UNCHANGED <<device, connection_handle, mixed>> /\ asking' \subseteq asking
  BY DEF Aside
<1>6. QED
  BY <1>1, <1>2, <1>3, <1>4, <1>5 DEF OwnInv

LEMMA AsideTimed ==
  ASSUME SteamInv, SteamInv', TimedInv, Aside
  PROVE  TimedInv'
<1>1. UNCHANGED <<device, connection_handle, mixed>> /\ asking' \subseteq asking
  BY DEF Aside
<1>2. \A s \in Slots : SlotStep(s)
  BY DEF Aside
<1>3. \A s \in untimed : devs[s].addr # None /\ devs'[s].addr # None => s \in untimed'
  BY DEF Aside, KeepHistory, Occupied
<1>4. ASSUME ~mixed, NEW h \in asking', Conn(h)' = {devs'[device].addr}
      PROVE  h = connection_handle /\ devs'[device].connected
  <2>1. PICK a \in Addrs : Up(a) /\ link[a].h = h /\ Conn(h) = {a}
    BY <1>1, AskedPeer
  <2>2. link'[a].h = h /\ h # Invalid
    BY <2>1 DEF Aside, SteamInv, Inv, LinksInv
  <2>3. link'[a].st # "none"
    BY <2>2 DEF SteamInv, Inv, LinksInv, Up
  <2>4. a \in Conn(h)'
    BY <2>2, <2>3 DEF Conn
  <2>5. devs'[device].addr = a
    BY <1>4, <2>4
  <2>6. device \in Slots
    BY <1>1 DEF TimedInv
  <2>7. devs'[device] # Blank
    BY <2>1, <2>5, BlankSlot, TableAssumption
  <2>8. /\ devs[device].addr = a
        /\ devs[device].connected => devs'[device].connected
    BY <1>2, <2>1, <2>5, <2>6, <2>7 DEF SlotStep
  <2>9. QED
    BY <1>1, <1>4, <2>1, <2>8 DEF TimedInv
<1>5. ASSUME NEW s \in Slots, devs'[s].addr # None, ~devs'[s].connected,
             devs'[s].state = "READY"
      PROVE  s \in untimed'
  <2>1. /\ devs[s].addr = devs'[s].addr /\ ~devs[s].connected /\ devs[s].state = "READY"
    BY <1>2, <1>5, BlankSlot DEF SlotStep
  <2>2. QED
    BY <1>3, <1>5, <2>1 DEF TimedInv
<1>6. ASSUME NEW s \in Slots, devs'[s].addr # None, devs'[s].state # "READY"
      PROVE  devs'[s].timer \/ s \in untimed'
  <2>1. devs'[s] # Blank
    BY <1>6, BlankSlot
  <2>2. CASE devs[s].addr = None
    BY <1>2, <1>6, <2>1, <2>2 DEF SlotStep
  <2>3. CASE devs[s].addr # None
    <3>1. devs'[s].state = devs[s].state /\ devs'[s].timer = devs[s].timer
      BY <1>2, <1>6, <2>1, <2>3 DEF SlotStep
    <3>2. QED
      BY <1>3, <1>6, <2>3, <3>1 DEF TimedInv, StuckSetupIsTimed
  <2>4. QED
    BY <2>2, <2>3
<1>7. QED
  BY <1>1, <1>4, <1>5, <1>6 DEF TimedInv, StuckSetupIsTimed

LEMMA SetReadyWaits ==
  ASSUME NEW d \in SlotType
  PROVE  LET r == set_ready(on_connected(d), TRUE) IN
         /\ r.addr = d.addr /\ r.handle = d.handle /\ r.connected
         /\ r.state = "PENDING" /\ r.timer = d.timer
<1> DEFINE e == on_connected(d)
<1>1. /\ e \in SlotType /\ e.timer = d.timer /\ e.handle = d.handle
      /\ e.addr = d.addr /\ e.connected
  BY DEF on_connected, SlotType
<1> HIDE DEF e
<1>2. CASE e.state = "PENDING"
  BY <1>1, <1>2 DEF set_ready, e
<1>3. CASE e.state # "PENDING"
  <2>1. set_ready(e, TRUE) = [e EXCEPT !.state = "PENDING"]
    BY <1>3 DEF set_ready
  <2>2. /\ set_ready(e, TRUE).addr = e.addr /\ set_ready(e, TRUE).handle = e.handle
        /\ set_ready(e, TRUE).connected = e.connected
        /\ set_ready(e, TRUE).timer = e.timer /\ set_ready(e, TRUE).state = "PENDING"
    BY <1>1, <2>1 DEF SlotType
  <2>3. QED
    BY <1>1, <2>2 DEF e
<1>4. QED
  BY <1>2, <1>3

\* The start of a set-up.
LEMMA SetupBegins ==
  ASSUME Inv, NoHandleZero, NEW c \in clients, SteamSetup(c)
  PROVE  \E s \in Slots :
           /\ Begin(s, devs[s].handle) /\ UNCHANGED link
           /\ ~devs[s].connected /\ devs[s].addr \in Addrs /\ devs[s].handle \in Handles
           /\ devs'[s].addr = devs[s].addr /\ devs'[s].handle = devs[s].handle
           /\ devs'[s].connected /\ devs'[s].state = "PENDING"
           /\ devs'[s].timer = devs[s].timer
           /\ \A t \in Slots \ {s} : devs'[t] = devs[t]
<1>1. HidServiceConnected(c, TRUE, TRUE) /\ UNCHANGED link
  BY DEF SteamSetup, HidServiceConnected
<1>2. PICK s \in ByHids(devs, c.cid) : Begin(s, devs[s].handle)
  BY DEF SteamSetup
<1>3. c.cid \in Cids /\ s \in Slots
  BY DEF Inv, TypeOK, ByHids, FirstOf
<1>4. devs[s].hids = c.cid
  BY <1>2, <1>3, ByHidsIs
<1>5. ~devs[s].connected /\ devs[s].addr \in Addrs /\ devs[s].handle \in Handles
  BY <1>1, <1>3, <1>4, AnnouncedOnce
<1>6. PICK t \in Slots :
        /\ devs[t].hids = c.cid
        /\ devs' = [devs EXCEPT ![t] = set_ready(on_connected(devs[t]), TRUE)]
  BY <1>1, <1>3, <1>4, ServiceConnectedSlots
<1>7. t = s
  BY <1>3, <1>4, <1>6 DEF Inv, SlotsInv
<1>8. devs[s] \in SlotType
  BY <1>3, TypeParts DEF Inv, DevsType
<1> DEFINE r == set_ready(on_connected(devs[s]), TRUE)
<1>9. /\ r.addr = devs[s].addr /\ r.handle = devs[s].handle /\ r.connected
      /\ r.state = "PENDING" /\ r.timer = devs[s].timer
  BY <1>8, SetReadyWaits
<1>10. devs'[s] = r /\ \A u \in Slots \ {s} : devs'[u] = devs[u]
  BY <1>3, <1>6, <1>7 DEF Inv, TypeOK
<1> HIDE DEF r
<1>11. QED
  BY <1>1, <1>2, <1>3, <1>5, <1>9, <1>10

LEMMA SetupKeepsOwn ==
  ASSUME SteamInv, NoHandleZero, OwnInv, TimedInv, NEW c \in clients, SteamSetup(c)
  PROVE  OwnInv' /\ TimedInv'
<1>1. PICK s \in Slots :
        /\ Begin(s, devs[s].handle) /\ UNCHANGED link
        /\ ~devs[s].connected /\ devs[s].addr \in Addrs /\ devs[s].handle \in Handles
        /\ devs'[s].addr = devs[s].addr /\ devs'[s].handle = devs[s].handle
        /\ devs'[s].connected /\ devs'[s].state = "PENDING"
        /\ devs'[s].timer = devs[s].timer
        /\ \A t \in Slots \ {s} : devs'[t] = devs[t]
  BY SetupBegins DEF SteamInv
<1>2. /\ device' = s /\ connection_handle' = devs[s].handle /\ mixed' = FALSE
      /\ asking' \subseteq asking \cup {devs[s].handle}
      /\ awaited' = awaited \cup {s} /\ untimed' = untimed
      /\ \A t \in Slots \ {s} : t \in shared => t \in shared'
      /\ s \notin shared' => asking \ {devs[s].handle} = {}
  BY <1>1 DEF Begin, Ask
<1>3. \A t \in awaited' : t \in Slots /\ devs'[t].connected
  BY <1>1, <1>2 DEF OwnInv
<1>4. ReportsAfterOwnSetup'
  BY <1>1, <1>2, <1>3 DEF OwnInv, ReportsAfterOwnSetup
<1>5. OwnInv'
  BY <1>1, <1>2, <1>3, <1>4 DEF OwnInv
<1>6. ASSUME NEW h \in asking', Conn(h)' = {devs'[s].addr}
      PROVE  h = devs[s].handle
  <2>1. Conn(h) = {devs[s].addr}
    BY <1>1, <1>6 DEF Conn
  <2>2. CASE h \in asking
    <3>1. link[devs[s].addr].h = h
      BY <2>1, <1>1 DEF Conn
    <3>2. QED
      BY <3>1, <1>1, SlotLinked DEF SteamInv
  <2>3. QED
    BY <1>2, <2>2
<1>7. StuckSetupIsTimed'
  <2>1. devs'[s].timer \/ s \in untimed'
    <3>1. CASE devs[s].state = "READY"
      BY <1>1, <1>2, <3>1, TableAssumption DEF TimedInv
    <3>2. CASE devs[s].state # "READY"
      BY <1>1, <1>2, <3>2, TableAssumption DEF TimedInv, StuckSetupIsTimed
    <3>3. QED
      BY <3>1, <3>2
  <2>2. QED
    BY <1>1, <1>2, <2>1 DEF TimedInv, StuckSetupIsTimed
<1>8. TimedInv'
  BY <1>1, <1>2, <1>6, <1>7 DEF TimedInv
<1>9. QED
  BY <1>5, <1>8

LEMMA EventKeepsOwn ==
  ASSUME SteamInv, NoHandleZero, OwnInv, TimedInv, NEW h \in asking, NEW ok \in BOOLEAN,
         SteamEvent(h, ok)
  PROVE  OwnInv' /\ TimedInv'
<1>1. UNCHANGED <<device, connection_handle, shared, link>>
  BY DEF SteamEvent
<1>2. device \in Slots
  BY DEF TimedInv
<1>3. \A x : Conn(x)' = Conn(x)
  BY <1>1 DEF Conn
<1>4. CASE ~(ok /\ query_state < STATE_QUERY_END)
  <2>1. asking' \subseteq asking /\ UNCHANGED <<devs, mixed, awaited, untimed>>
    BY <1>4 DEF SteamEvent
  <2>2. OwnInv'
    BY <1>1, <2>1 DEF OwnInv, ReportsAfterOwnSetup
  <2>3. TimedInv'
    BY <1>1, <1>3, <2>1 DEF TimedInv, StuckSetupIsTimed
  <2>4. QED
    BY <2>2, <2>3
<1>5. CASE ok /\ query_state < STATE_QUERY_END
  <2>1. /\ mixed' = (mixed \/ Conn(h) # {devs[device].addr})
        /\ asking' \subseteq asking \cup {connection_handle}
    BY <1>5 DEF SteamEvent, Ask
  <2>2. mixed' \in BOOLEAN /\ (~mixed' => ~mixed /\ Conn(h) = {devs[device].addr})
    BY <2>1 DEF OwnInv
  <2>3. ~mixed' => h = connection_handle /\ devs[device].connected
    BY <2>2 DEF TimedInv
  <2>4. ~mixed' => asking' \subseteq asking
    BY <2>1, <2>3
  <2>5. device \in awaited /\ device \notin shared =>
          ~mixed' /\ asking' \subseteq {connection_handle}
    <3>1. SUFFICES ASSUME device \in awaited, device \notin shared
                   PROVE  ~mixed' /\ asking' \subseteq {connection_handle}
      OBVIOUS
    <3>2. /\ ~mixed /\ asking \subseteq {connection_handle} /\ devs[device].connected
          /\ devs[device].handle = connection_handle
      BY <3>1 DEF OwnInv
    <3>3. Conn(h) = {devs[device].addr}
      BY <1>2, <3>2, AnnouncedPeer DEF SteamInv
    <3>4. QED
      BY <2>1, <3>2, <3>3
  <2>6. CASE query_state # STATE_QUERY_DISABLE_LIZARD
    <3>1. UNCHANGED <<devs, awaited, untimed>>
      BY <1>5, <2>6 DEF SteamEvent
    <3>2. OwnInv'
      BY <1>1, <2>2, <2>5, <3>1 DEF OwnInv, ReportsAfterOwnSetup
    <3>3. TimedInv'
      BY <1>1, <1>2, <1>3, <2>2, <2>4, <3>1 DEF TimedInv, StuckSetupIsTimed
    <3>4. QED
      BY <3>2, <3>3
  <2>7. CASE query_state = STATE_QUERY_DISABLE_LIZARD
    <3>1. /\ devs' = set_ready_complete(device) /\ asking' \subseteq asking
          /\ awaited' = IF mixed' THEN awaited ELSE awaited \ {device}
          /\ untimed' = IF mixed' THEN untimed \cup {device} ELSE untimed
      BY <1>5, <2>7 DEF SteamEvent
    <3>2. BecomesReady(device)
      BY <1>2, <3>1 DEF set_ready_complete, BecomesReady, SteamInv, Inv, TypeOK
    <3>3. \A t \in Slots :
            /\ devs'[t].addr = devs[t].addr /\ devs'[t].handle = devs[t].handle
            /\ devs'[t].connected = devs[t].connected
            /\ devs'[t].state = IF t = device THEN "READY" ELSE devs[t].state
      BY <1>2, <3>2, BecomesReadyFields DEF SteamInv
    <3>4. \A t \in Slots \ {device} : devs'[t] = devs[t]
      BY <3>1 DEF set_ready_complete
    <3>5. awaited' \subseteq awaited
      BY <3>1
    <3>6. device \in awaited' => device \in shared
      BY <2>2, <2>5, <3>1
    <3>7. ReportsAfterOwnSetup'
      BY <1>1, <3>3, <3>5, <3>6 DEF OwnInv, ReportsAfterOwnSetup
    <3>8. OwnInv'
      BY <1>1, <2>2, <2>5, <3>1, <3>3, <3>5, <3>7 DEF OwnInv
    <3>9. \A s \in Slots : devs'[s].addr # None /\ ~devs'[s].connected
                           /\ devs'[s].state = "READY" => s \in untimed'
      BY <2>2, <2>3, <3>1, <3>3 DEF TimedInv
    <3>10. StuckSetupIsTimed'
      BY <3>1, <3>3, <3>4 DEF TimedInv, StuckSetupIsTimed
    <3>11. TimedInv'
      BY <1>1, <1>2, <1>3, <2>2, <3>1, <3>3, <3>9, <3>10 DEF TimedInv
    <3>12. QED
      BY <3>8, <3>11
  <2>8. QED
    BY <2>6, <2>7
<1>6. QED
  BY <1>4, <1>5

LEMMA SteamOwnStep ==
  ASSUME SteamInv, SteamInv', NoHandleZero, OwnInv, TimedInv, [SteamNext]_steamVars
  PROVE  OwnInv' /\ TimedInv'
<1>1. CASE Others /\ KeepHistory /\ UNCHANGED steam
  <2>1. LinksStay /\ \A s \in Slots : SlotStep(s)
    BY <1>1, OthersStay, OthersSlots DEF SteamInv, Inv
  <2>2. Aside
    BY <1>1, <2>1 DEF Aside, LinksStay, steam
  <2>3. QED
    BY <2>2, AsideOwn, AsideTimed
<1>2. CASE \E c \in clients : SteamSetup(c)
  BY <1>2, SetupKeepsOwn
<1>3. CASE \E h \in asking, ok \in BOOLEAN : SteamEvent(h, ok)
  BY <1>3, EventKeepsOwn
<1>4. ASSUME NEW a \in Addrs, SteamDisconnection(a) PROVE OwnInv' /\ TimedInv'
  <2>1. /\ DisconnectionComplete(a) /\ KeepHistory
        /\ UNCHANGED <<device, connection_handle, query_state, mixed>>
        /\ asking' = asking \ {link[a].h}
    BY <1>4 DEF SteamDisconnection
  <2>2. \A s \in Slots : SlotStep(s)
    <3>1. \A s \in Slots : devs'[s] \in {devs[s], Blank}
      BY <2>1, DisconnectedSlots DEF SteamInv, Inv, TypeOK
    <3>2. QED
      BY <3>1 DEF SlotStep
  <2>3. \A b \in Addrs : link[b].h \in asking' => link'[b].h = link[b].h
    BY <2>1 DEF DisconnectionComplete, SteamInv, Inv, TypeOK
  <2>4. Aside
    BY <2>1, <2>2, <2>3 DEF Aside
  <2>5. QED
    BY <2>4, AsideOwn, AsideTimed
<1>5. CASE UNCHANGED steamVars
  <2>1. /\ UNCHANGED <<devs, link, device, connection_handle, asking, mixed>>
        /\ UNCHANGED <<awaited, shared, untimed>>
    BY <1>5 DEF steamVars, vars, steam, history
  <2>2. OwnInv'
    BY <2>1 DEF OwnInv, ReportsAfterOwnSetup
  <2>3. TimedInv'
    BY <2>1 DEF TimedInv, StuckSetupIsTimed, Conn
  <2>4. QED
    BY <2>2, <2>3
<1>6. QED
  BY <1>1, <1>2, <1>3, <1>4, <1>5 DEF SteamNext

LEMMA SteamOwnStart == SteamInit => OwnInv /\ TimedInv
BY BlankSlot
DEF SteamInit, Init, OwnInv, TimedInv, ReportsAfterOwnSetup, StuckSetupIsTimed

\* A Steam Controller is ready, and so its reports are passed on, only once the peer
\* in its slot has itself answered the four queries of its own set-up, although the
\* parser's variables may point at a slot that has changed hands; a set-up that began
\* while another peer's query was under way is excepted.
THEOREM SteamReadyByOwnAnswers ==
  ASSUME NoHandleZero
  PROVE  SteamSpec => []ReportsAfterOwnSetup
<1>1. SteamInv /\ SteamInv' /\ OwnInv /\ TimedInv /\ [SteamNext]_steamVars
        => OwnInv' /\ TimedInv'
  BY SteamOwnStep
<1>2. OwnInv => ReportsAfterOwnSetup
  BY DEF OwnInv
<1>3. QED
  BY <1>1, <1>2, SteamOwnStart, SteamInvariance, PTL DEF SteamSpec

\* A set-up whose query fails is ended by the connection timer: the slot has it until
\* the device is ready, unless another peer's answer made the slot ready before.
THEOREM SteamSetupTimed ==
  ASSUME NoHandleZero
  PROVE  SteamSpec => []StuckSetupIsTimed
<1>1. SteamInv /\ SteamInv' /\ OwnInv /\ TimedInv /\ [SteamNext]_steamVars
        => OwnInv' /\ TimedInv'
  BY SteamOwnStep
<1>2. TimedInv => StuckSetupIsTimed
  BY DEF TimedInv
<1>3. QED
  BY <1>1, <1>2, SteamOwnStart, SteamInvariance, PTL DEF SteamSpec

===============================================================================
