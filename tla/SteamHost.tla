------------------------------- MODULE SteamHost -------------------------------
(***************************************************************************)
(* BleHost with the one parser whose set-up takes several exchanges with   *)
(* the peer over LE: uni_hid_parser_steam.c.  It keeps the device, the     *)
(* connection and the state of its queries in variables of the file, one   *)
(* set for all Steam Controllers, and it is never told that a device has   *)
(* gone.                                                                   *)
(***************************************************************************)
EXTENDS BleHost

VARIABLES device,             \* the slot of the last set-up, 0 for NULL
          connection_handle,
          query_state,        \* 1 SERVICE ... 4 DISABLE_LIZARD, 5 END
          asking,             \* handles with a GATT query of this parser under way
          mixed,              \* history: the chain moved on an answer that was not
                              \* the one of the peer in slot `device`
          awaited,            \* history: slots whose peer's own answers to the
                              \* queries of its set-up have not all come
          shared,             \* history: slots whose set-up began while a query
                              \* for another peer was under way
          untimed             \* history: slots that another peer's answer has
                              \* helped to make ready

steam == <<device, connection_handle, query_state, asking, mixed>>
history == <<awaited, shared, untimed>>
steamVars == <<vars, steam, history>>

STATE_QUERY_SERVICE == 1
STATE_QUERY_DISABLE_LIZARD == 4
STATE_QUERY_END == 5

SteamInit == /\ Init
             /\ device = 0 /\ connection_handle = 0 /\ asking = {}
             /\ query_state = STATE_QUERY_SERVICE
             /\ mixed = FALSE /\ awaited = {} /\ shared = {} /\ untimed = {}

\* Mistake: the query is taken to run although its connection has gone.
Ask_unchecked(busy, h) == busy \cup {h}

\* A gatt_client_* call is refused without a connection, and while a query runs; on
\* a closing link a new one would get no answer.
Ask(busy, h) == busy \cup {x \in {h} : \E a \in Conn(h) : link[a].st = "open"}

\* uni_hid_parser_steam_setup for slot s, with h as the connection it stores.
Begin(s, h) ==
    /\ device' = s /\ connection_handle' = h
    /\ query_state' = STATE_QUERY_SERVICE
    /\ asking' = Ask(asking, devs[s].handle)
    /\ mixed' = FALSE
    /\ awaited' = awaited \cup {s}
    /\ shared' = IF asking \ {devs[s].handle} = {} THEN shared \ {s}
                                                   ELSE shared \cup {s}
    /\ UNCHANGED untimed

\* Mistake: the connection is stored for the first controller only.
SteamSetup_keeps_connection(c) ==
    /\ HidServiceConnected(c, TRUE, TRUE)
    /\ \E s \in ByHids(devs, c.cid) :
          Begin(s, IF device = 0 THEN devs[s].handle ELSE connection_handle)

\* HidServiceConnected of a Steam Controller and the start of its set-up.
SteamSetup(c) ==
    /\ HidServiceConnected(c, TRUE, TRUE)
    /\ \E s \in ByHids(devs, c.cid) : Begin(s, devs[s].handle)

\* uni_hid_device_set_ready_complete, whatever the slot holds by now.
set_ready_complete(s) ==
    [t \in Slots |-> IF t = s
                     THEN [devs[t] EXCEPT !.state = "READY", !.timer = FALSE]
                     ELSE devs[t]]

\* GATT_EVENT_QUERY_COMPLETE, which may still come on a closing link: the next
\* query goes to connection_handle, whoever answered; an error stops the queries.
SteamEvent(h, ok) ==
    /\ h \in asking
    /\ IF ok /\ query_state < STATE_QUERY_END
       THEN /\ query_state' = query_state + 1
            /\ mixed' = (mixed \/ Conn(h) # {devs[device].addr})
            /\ IF query_state = STATE_QUERY_DISABLE_LIZARD
               THEN /\ devs' = set_ready_complete(device)
                    /\ asking' = asking \ {h}
                    /\ awaited' = IF mixed' THEN awaited ELSE awaited \ {device}
                    /\ untimed' = IF mixed' THEN untimed \cup {device} ELSE untimed
               ELSE /\ asking' = Ask(asking \ {h}, connection_handle)
                    /\ UNCHANGED <<devs, awaited, untimed>>
       ELSE asking' = asking \ {h} /\ UNCHANGED <<devs, query_state, mixed, awaited, untimed>>
    /\ UNCHANGED <<device, connection_handle, shared, link, le_scanning, is_scanning,
                   clients, dis, sm, pilot>>

\* The histories of a slot end when it is given back.
Occupied(S) == {s \in S : devs[s].addr # None /\ devs'[s].addr # None}

KeepHistory == /\ awaited' = Occupied(awaited)
               /\ shared' = Occupied(shared)
               /\ untimed' = Occupied(untimed)

\* The link goes: its query ends with an error.
SteamDisconnection(a) ==
    /\ DisconnectionComplete(a)
    /\ asking' = asking \ {link[a].h}
    /\ KeepHistory
    /\ UNCHANGED <<device, connection_handle, query_state, mixed>>

\* Everything else of BleHost, the other peers' set-ups at once.
Others ==
    \/ \E a \in Addrs : \/ AdvertisingReport(a)
                        \/ \E h \in Handles : LeConnectionComplete(a, h)
                        \/ \E refused \in BOOLEAN : LeConnectionFailed(a, refused)
                        \/ \E ok \in BOOLEAN : PairingComplete(a, ok)
                        \/ \E status \in {"success", "timeout", "other"} :
                              ReencryptionComplete(a, status)
                        \/ HidReport(a)
                        \/ EncryptionOff(a)
    \/ \E ok \in BOOLEAN : DeviceInformationDone(ok)
    \/ \E c \in clients, ok \in BOOLEAN : HidServiceConnected(c, ok, FALSE)
    \/ \E s \in Slots : ConnectionTimeout(s) \/ DisconnectDevice(s)
    \/ \E on \in BOOLEAN : StartScanning(on)

SteamNext == \/ Others /\ KeepHistory /\ UNCHANGED steam
             \/ \E c \in clients : SteamSetup(c)
             \/ \E h \in asking, ok \in BOOLEAN : SteamEvent(h, ok)
             \/ \E a \in Addrs : SteamDisconnection(a)

SteamSpec == SteamInit /\ [][SteamNext]_steamVars

-------------------------------------------------------------------------------
(* Properties. *)

\* Every variable keeps its type, and a query runs only over a link.
SteamTypeOK ==
    /\ TypeOK
    /\ device \in 0 .. MaxDevices /\ query_state \in 1 .. STATE_QUERY_END
    /\ \A h \in asking : \E a \in Addrs : Up(a) /\ link[a].h = h

(* A Steam Controller's reports reach my_on_controller_data only after its own four
   queries are answered by that controller, in a chain none of whose answers came
   from another peer, unless its set-up began while a query for another peer was under
   way: those two share the state of the chain.  ("Called once the "parser" is ready.") *)
ReportsAfterOwnSetup ==
    \A s \in awaited : devs[s].state = "READY" => s \in shared

(* "Should disconnect (?)": nothing ends a set-up whose query has failed but the
   connection timer, so every slot that is not ready has it, unless an answer to
   another peer's query has made the slot ready before, which stops the timer. *)
StuckSetupIsTimed ==
    \A s \in Slots : devs[s].addr # None /\ devs[s].state # "READY"
                        => devs[s].timer \/ s \in untimed
================================================================================
