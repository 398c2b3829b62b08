-------------------------------- MODULE BtHost ---------------------------------
(***************************************************************************)
(* Bluepad32's host from power-up: the set-up of BtSetup, then BleHost.    *)
(* uni_bt_packet_handler gives every event to the set-up until that is     *)
(* ready, and to the LE host from then on; on_init_complete of this        *)
(* firmware, which starts the scan, is the step between the two.  The      *)
(* console's commands do not come through that handler and are served all  *)
(* the time.                                                               *)
(***************************************************************************)
EXTENDS BleHost, BtSetup

hostVars == <<vars, setupVars>>

HostInit == /\ SetupInit
            /\ devs = [s \in Slots |-> Blank]
            /\ link = [a \in Addrs |-> NoLink]
            /\ le_scanning = FALSE /\ is_scanning = FALSE
            /\ clients = {} /\ dis = Invalid /\ sm = {} /\ pilot = None

uni_bt_setup_is_ready == setup_state = "READY"

\* start_scanning(TRUE), which does nothing if the console was faster.
my_on_init_complete == is_scanning' = TRUE /\ le_scanning' = (is_scanning => le_scanning)

\* The rest of a step of the set-up.
BeforeReady == /\ ~uni_bt_setup_is_ready
               /\ IF setup_state' = "READY" THEN my_on_init_complete
                                            ELSE UNCHANGED <<le_scanning, is_scanning>>
               /\ UNCHANGED <<devs, link, clients, dis, sm, pilot>>

\* cmd_callback
Console == \/ \E s \in Slots : DisconnectDevice(s)
           \/ \E on \in BOOLEAN : StartScanning(on)

HostNext == \/ SetupNext /\ BeforeReady
            \/ Console /\ UNCHANGED setupVars
            \/ uni_bt_setup_is_ready /\ Next /\ UNCHANGED setupVars

(* That of BleHost; and the transport and the controller report what they owe, the
   credit for the next command included. *)
HostFairness ==
    /\ \A s \in Slots : WF_hostVars(ConnectionTimeout(s) /\ UNCHANGED setupVars)
    /\ \A a \in Addrs : WF_hostVars(/\ link[a].st = "closing"
                                    /\ DisconnectionComplete(a)
                                    /\ UNCHANGED setupVars)
    /\ WF_hostVars(transport_packet_sent /\ BeforeReady)
    /\ WF_hostVars(command_complete /\ BeforeReady)
    /\ WF_hostVars(btstack_working /\ BeforeReady)

HostSpec == HostInit /\ [][HostNext]_hostVars /\ HostFairness
================================================================================
