-------------------------------- MODULE BleHost --------------------------------
(***************************************************************************)
(* Bluepad32 over Bluetooth LE, the only transport of this build           *)
(* (CONFIG_BTDM_CTRL_MODE_BLE_ONLY): uni_bt_le.c, the part of uni_bt.c and *)
(* uni_hid_device.c it drives, and what it needs of BTstack's connections, *)
(* HID-service clients and device-information client.  One action is one   *)
(* event of the run loop: an HCI, SM or GATT event, the connection timer,  *)
(* or a command of the console.                                            *)
(***************************************************************************)
EXTENDS HidDevices

CONSTANTS Handles,     \* handles the controller gives to LE connections
          Cids         \* identifiers of hids_client

ASSUME HandleAssumption == Handles \subseteq 0 .. Invalid - 1
ASSUME CidAssumption == Cids \subseteq 1 .. Invalid - 1

VARIABLES devs,        \* g_devices
          link,        \* hci_connection_t of a peer: its state and handle
          le_scanning, \* le_scanning_enabled of hci.c
          is_scanning, \* bt_scanning_enabled, is_scanning of uni_bt_le.c
          clients,     \* hids_client_t: cid, handle, HID service connected
          dis,         \* con_handle of the one device-information client
          sm,          \* handles whose pairing is under way
          pilot        \* the peer whose report bt_throttle ... bt_roll hold

vars == <<devs, link, le_scanning, is_scanning, clients, dis, sm, pilot>>

NoLink == [st |-> "none", h |-> Invalid]

Init == /\ devs = [s \in Slots |-> Blank]
        /\ link = [a \in Addrs |-> NoLink]
        /\ le_scanning = TRUE /\ is_scanning = TRUE
        /\ clients = {} /\ dis = Invalid /\ sm = {} /\ pilot = None

-------------------------------------------------------------------------------
(* BTstack. *)

\* hci_connection_for_handle: a connection being created has the invalid handle.
Conn(h) == {a \in Addrs : link[a].st # "none" /\ link[a].h = h}

Up(a) == link[a].st \in {"open", "closing"}

(* gap_connect is refused while a connection is being created, for a peer that has
   one, and without memory for another. *)
gap_connect(a) ==
    \/ UNCHANGED link
    \/ /\ ~Up(a) /\ \A b \in Addrs : link[b].st # "create"
       /\ link' = [link EXCEPT ![a] = [st |-> "create", h |-> Invalid]]

(* gap_disconnect asks for the end of an open connection, no more than once; its
   callers have looked the connection up.  The invalid handle, that of an empty slot,
   finds the connection being created and marks it too: the controller refuses a
   disconnection without a handle and goes on connecting, and BTstack opens a second
   hci_connection_t.  The marked one stays: it makes gap_connect refuse that peer,
   which it may do here anyway, and answers to the invalid handle (DisconnectDevice). *)
gap_disconnect(h) ==
    [a \in Addrs |-> IF a \in Conn(h) /\ link[a].st = "open"
                     THEN [link[a] EXCEPT !.st = "closing"] ELSE link[a]]

\* device_information_service_client_query serves one connection at a time.
query(h) == dis' = IF dis = Invalid THEN h ELSE dis

-------------------------------------------------------------------------------
(* uni_bt_le.c: the two helpers that the handlers share. *)

resume_scanning_hint == le_scanning' = (le_scanning \/ is_scanning)

\* Mistake: the clients of every connection go.
WithoutClientOf_all(h) == {c \in clients : ByHandle(devs, h) = {}}

\* hids_client_disconnect for the first slot that has this handle.
WithoutClientOf(h) ==
    {c \in clients : \A s \in ByHandle(devs, h) : c.cid # devs[s].hids}

hog_disconnect(h) == /\ clients' = WithoutClientOf(h)
                     /\ link' = gap_disconnect(h)
                     /\ resume_scanning_hint

\* Mistake: on_device_disconnected is not called for a slot the host drops.
Drop_silently(s) ==
    /\ IF Conn(devs[s].handle) # {}
       THEN hog_disconnect(devs[s].handle)
       ELSE UNCHANGED <<clients, link, le_scanning>>
    /\ devs' = [devs EXCEPT ![s] = Blank]
    /\ UNCHANGED pilot

(* uni_hid_device_disconnect and uni_hid_device_delete for slot s, the pair that
   every caller makes: without a live connection no LE call is made. *)
Drop(s) ==
    /\ IF Conn(devs[s].handle) # {}
       THEN hog_disconnect(devs[s].handle)
       ELSE UNCHANGED <<clients, link, le_scanning>>
    /\ devs' = [devs EXCEPT ![s] = Blank]
    /\ pilot' = IF devs[s].connected THEN None ELSE pilot

-------------------------------------------------------------------------------
(* Events. *)

\* uni_bt_le_on_gap_event_advertising_report.  A connected peer is silent; an
\* address in the table is ignored; hog_connect stops the scan and does not look
\* at what gap_connect returns.
AdvertisingReport(a) ==
    /\ le_scanning /\ ~Up(a)
    /\ ByAddr(devs, a) = {}
    /\ \E s \in FreeSlot(devs) :
          devs' = [devs EXCEPT ![s] = [Fresh(a) EXCEPT !.state = "DISCOVERED"]]
    /\ le_scanning' = FALSE
    /\ gap_connect(a)
    /\ UNCHANGED <<is_scanning, clients, dis, sm, pilot>>

\* HCI_SUBEVENT_LE_CONNECTION_COMPLETE: the slot learns its handle and pairing
\* starts; without a slot the connection stays, and nobody looks after it.
LeConnectionComplete(a, h) ==
    /\ link[a].st = "create" /\ Conn(h) = {}
    /\ link' = [link EXCEPT ![a] = [st |-> "open", h |-> h]]
    /\ devs' = [s \in Slots |-> IF s \in ByAddr(devs, a)
                                THEN [devs[s] EXCEPT !.handle = h] ELSE devs[s]]
    /\ sm' = IF ByAddr(devs, a) = {} THEN sm ELSE sm \cup {h}
    /\ UNCHANGED <<le_scanning, is_scanning, clients, dis, pilot>>

(* The connection does not come about.  An error in the answer to the command frees
   it without a word to Bluepad32.  One in the event leaves it, and the handler above
   does not look at the status: the slot takes the event's handle, 0 for want of one,
   and pairing starts if somebody else has that handle. *)
LeConnectionFailed(a, refused) ==
    /\ link[a].st = "create"
    /\ IF refused
       THEN link' = [link EXCEPT ![a] = NoLink] /\ UNCHANGED <<devs, sm>>
       ELSE /\ devs' = [s \in Slots |-> IF s \in ByAddr(devs, a)
                                        THEN [devs[s] EXCEPT !.handle = 0] ELSE devs[s]]
            /\ sm' = IF ByAddr(devs, a) = {} \/ Conn(0) = {} THEN sm ELSE sm \cup {0}
            /\ UNCHANGED link
    /\ UNCHANGED <<le_scanning, is_scanning, clients, dis, pilot>>

\* SM_EVENT_PAIRING_COMPLETE: a failure is only logged if the slot is there.
PairingComplete(a, ok) ==
    /\ Up(a) /\ link[a].h \in sm
    /\ sm' = sm \ {link[a].h}
    /\ IF ByAddr(devs, a) = {}
       THEN hog_disconnect(link[a].h) /\ UNCHANGED dis
       ELSE /\ IF ok THEN query(link[a].h) ELSE UNCHANGED dis
            /\ UNCHANGED <<clients, link, le_scanning>>
    /\ UNCHANGED <<devs, is_scanning, pilot>>

\* SM_EVENT_REENCRYPTION_COMPLETE of a bonded peer.  A timeout and a lost link end the
\* connection, other errors change nothing.  A lost key starts a new pairing, which
\* leaves the state as it is.
ReencryptionComplete(a, status) ==
    /\ Up(a) /\ link[a].h \in sm
    /\ sm' = sm \ {link[a].h}
    /\ IF status = "success" THEN query(link[a].h) ELSE UNCHANGED dis
    /\ IF status = "timeout" THEN hog_disconnect(link[a].h)
                             ELSE UNCHANGED <<clients, link, le_scanning>>
    /\ UNCHANGED <<devs, is_scanning, pilot>>

\* hids_get_next_cid: a counter, so an identifier nobody holds any more.
FreshCid == FirstOf(Cids \ ({c.cid : c \in clients}
                              \cup {devs[s].hids : s \in Slots}))

\* GATTSERVICE_SUBEVENT_DEVICE_INFORMATION_DONE: go on with the HID service.
DeviceInformationDone(ok) ==
    /\ dis # Invalid /\ dis' = Invalid
    /\ IF ~ok \/ (ByHandle(devs, dis) # {} /\ \E c \in clients : c.h = dis)
       THEN hog_disconnect(dis) /\ UNCHANGED devs
       ELSE /\ \E cid \in FreshCid :
                  /\ clients' = clients \cup
                        {[cid |-> cid, h |-> dis, connected |-> FALSE] :
                            s \in ByHandle(devs, dis)}
                  /\ devs' = [s \in Slots |-> IF s \in ByHandle(devs, dis)
                                THEN [devs[s] EXCEPT !.hids = cid] ELSE devs[s]]
            /\ UNCHANGED <<link, le_scanning>>
    /\ UNCHANGED <<is_scanning, sm, pilot>>

\* Mistake: the connection timer is stopped when the parser's set-up begins.
set_ready_stops_timer(d, wait) ==
    IF d.state = "PENDING" THEN d
    ELSE [d EXCEPT !.state = IF wait THEN "PENDING" ELSE "READY", !.timer = FALSE]

\* uni_hid_device_set_ready: done at once unless the parser has a set-up to wait
\* for; a second call while it waits is skipped.
set_ready(d, wait) ==
    IF d.state = "PENDING" THEN d
    ELSE IF wait THEN [d EXCEPT !.state = "PENDING"]
    ELSE [d EXCEPT !.state = "READY", !.timer = FALSE]

\* Mistake: on_device_connected is not called.
on_connected_forgotten(d) == d

\* uni_hid_device_on_connected: on_device_connected is called.
on_connected(d) == [d EXCEPT !.connected = TRUE]

\* GATTSERVICE_SUBEVENT_HID_SERVICE_CONNECTED: on_device_connected, then ready.
\* It takes several exchanges with the peer, which a closing link does not carry.
\* A failure ends the client and is only logged.
HidServiceConnected(c, ok, wait) ==
    /\ ~c.connected
    /\ ok => \E a \in Conn(c.h) : link[a].st = "open"
    /\ clients' = (clients \ {c}) \cup (IF ok THEN {[c EXCEPT !.connected = TRUE]}
                                              ELSE {})
    /\ IF ok /\ ByHids(devs, c.cid) # {}
       THEN /\ devs' = [s \in Slots |-> IF s \in ByHids(devs, c.cid)
                         THEN set_ready(on_connected(devs[s]), wait)
                         ELSE devs[s]]
            /\ resume_scanning_hint
       ELSE UNCHANGED <<devs, le_scanning>>
    /\ UNCHANGED <<link, is_scanning, dis, sm, pilot>>

\* uni_hid_device_set_ready_complete, called by a parser that keeps to its own
\* device; SteamHost has the one that does not.
ParserReady(s) ==
    /\ devs[s].state = "PENDING"
    /\ devs' = [devs EXCEPT ![s].state = "READY", ![s].timer = FALSE]
    /\ UNCHANGED <<link, le_scanning, is_scanning, clients, dis, sm, pilot>>

\* GATTSERVICE_SUBEVENT_HID_REPORT and my_on_controller_data: only a ready
\* device's report is passed on.
HidReport(a) ==
    /\ Up(a)
    /\ \E c \in clients : /\ c.connected /\ c.h = link[a].h
                          /\ \E s \in ByHids(devs, c.cid) : devs[s].state = "READY"
    /\ pilot' = a
    /\ UNCHANGED <<devs, link, le_scanning, is_scanning, clients, dis, sm>>

\* HCI_EVENT_ENCRYPTION_CHANGE with encryption off.
EncryptionOff(a) ==
    /\ Up(a) /\ ByHandle(devs, link[a].h) # {}
    /\ hog_disconnect(link[a].h)
    /\ UNCHANGED <<devs, is_scanning, dis, sm, pilot>>

\* HCI_EVENT_DISCONNECTION_COMPLETE, whoever asked for it: the first slot with the
\* handle is disconnected and deleted, and BTstack ends what ran on the link.  An
\* aborted pairing or query reports to uni_bt_le.c, which resumes the scan too.
DisconnectionComplete(a) ==
    LET h == link[a].h IN
    /\ Up(a)
    /\ link' = [link EXCEPT ![a] = NoLink]
    /\ clients' = {c \in WithoutClientOf(h) : c.h # h}
    /\ devs' = [s \in Slots |-> IF s \in ByHandle(devs, h) THEN Blank ELSE devs[s]]
    /\ pilot' = IF \E s \in ByHandle(devs, h) : devs[s].connected
                THEN None ELSE pilot
    /\ IF ByHandle(devs, h) # {} \/ dis = h \/ h \in sm
       THEN resume_scanning_hint ELSE UNCHANGED le_scanning
    /\ dis' = IF dis = h THEN Invalid ELSE dis
    /\ sm' = sm \ {h}
    /\ UNCHANGED is_scanning

\* device_connection_timeout: 20 s after create; a ready device is left alone.
ConnectionTimeout(s) ==
    /\ devs[s].timer /\ devs[s].state # "READY"
    /\ Drop(s)
    /\ UNCHANGED <<is_scanning, dis, sm>>

\* CMD_DISCONNECT_DEVICE takes any index.  The handle of an empty slot finds the
\* connection being created, or one that such a command has left marked.
DisconnectDevice(s) ==
    /\ \/ Drop(s)
       \/ /\ devs[s].addr = None
          /\ resume_scanning_hint
          /\ UNCHANGED <<devs, link, clients, pilot>>
    /\ UNCHANGED <<is_scanning, dis, sm>>

\* CMD_BT_START_SCANNING and CMD_BT_STOP_SCANNING: nothing happens unless the
\* flag changes.
StartScanning(on) ==
    /\ is_scanning # on
    /\ is_scanning' = on /\ le_scanning' = on
    /\ UNCHANGED <<devs, link, clients, dis, sm, pilot>>

PeerNext(a) == \/ AdvertisingReport(a)
               \/ \E h \in Handles : LeConnectionComplete(a, h)
               \/ \E refused \in BOOLEAN : LeConnectionFailed(a, refused)
               \/ \E ok \in BOOLEAN : PairingComplete(a, ok)
               \/ \E status \in {"success", "timeout", "other"} :
                     ReencryptionComplete(a, status)
               \/ HidReport(a)
               \/ EncryptionOff(a)
               \/ DisconnectionComplete(a)

GattNext == \/ \E ok \in BOOLEAN : DeviceInformationDone(ok)
            \/ \E c \in clients, ok, wait \in BOOLEAN :
                  HidServiceConnected(c, ok, wait)

SlotNext(s) == ParserReady(s) \/ ConnectionTimeout(s) \/ DisconnectDevice(s)

Next == \/ \E a \in Addrs : PeerNext(a)
        \/ GattNext
        \/ \E s \in Slots : SlotNext(s)
        \/ \E on \in BOOLEAN : StartScanning(on)

Spec == Init /\ [][Next]_vars

(* The run loop calls a timer's handler once it is due, and the controller
   answers a disconnect that the host asked for.  Peers promise nothing. *)
Fairness == /\ \A s \in Slots : WF_vars(ConnectionTimeout(s))
            /\ \A a \in Addrs : WF_vars(link[a].st = "closing"
                                        /\ DisconnectionComplete(a))

FairSpec == Spec /\ Fairness

-------------------------------------------------------------------------------
(* Properties. *)

\* Every variable keeps its type; a slot's state is one the LE host gives it.
TypeOK ==
    /\ devs \in [Slots -> [addr : Addrs \cup {None},
                          handle : Handles \cup {0, Invalid},
                          state : {"NONE", "DISCOVERED", "PENDING", "READY"},
                          connected : BOOLEAN, timer : BOOLEAN,
                          hids : Cids \cup {0, Invalid}]]
    /\ link \in [Addrs -> [st : {"none", "create", "open", "closing"},
                           h : Handles \cup {Invalid}]]
    /\ le_scanning \in BOOLEAN /\ is_scanning \in BOOLEAN
    /\ clients \subseteq [cid : Cids, h : Handles, connected : BOOLEAN]
    /\ dis \in Handles \cup {Invalid} /\ sm \subseteq Handles
    /\ pilot \in Addrs \cup {None}

(* The command words hold a peer's values only while that peer is connected and
   has a ready slot of its own: whatever ends the link or the slot - a lost
   radio, the console, a timeout - the words go to zero in the same step
   (my_on_device_disconnected, "Controller getrennt! Setze Werte auf 0."). *)
LostLinkNeutral ==
    pilot # None => /\ Up(pilot)
                    /\ \E s \in Slots : /\ devs[s].addr = pilot
                                        /\ devs[s].handle = link[pilot].h
                                        /\ devs[s].state = "READY"

(* The weaker half of it: no peer's values stay in the words after its link is
   gone. *)
PilotLinked == pilot # None => Up(pilot)

(* The timeout of one slot deletes that device and no other's connection: it asks
   BTstack to end only the link of the slot's own address, and it leaves the other
   slots and their HID clients ("Delete device if it doesn't have a connection"). *)
TimeoutHitsOnly(s) ==
    ConnectionTimeout(s) =>
        /\ \A a \in Addrs \ {devs[s].addr} : link'[a] = link[a]
        /\ \A t \in Slots \ {s} : /\ devs'[t] = devs[t]
                                  /\ \A c \in clients : c.cid = devs[t].hids
                                                        => c \in clients'

TimeoutSparesOthers == [][\A s \in Slots : TimeoutHitsOnly(s)]_vars

(* No device waits for ever: a slot that was taken holds a connected, ready device
   in the end or is given back ("Delete device if it doesn't have a connection"); the
   connection timer is the only thing that ends a stalled pairing. *)
SlotsSettle ==
    \A s \in Slots : (devs[s].addr # None)
        ~> (devs[s].addr = None \/ (devs[s].connected /\ devs[s].state = "READY"))

\* Bluepad32 keeps the order of callbacks that bukkis_bt.c relies on.
Service == INSTANCE ControllerService WITH
    connected <- {devs[s].addr : s \in {t \in Slots : devs[t].connected}},
    ready <- {devs[s].addr : s \in {t \in Slots : devs[t].state = "READY"}}

CallbacksInOrder == Service!Spec
================================================================================
