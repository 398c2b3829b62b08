--------------------------- MODULE ControllerService ---------------------------
(***************************************************************************)
(* What bukkis_bt.c relies on when Bluepad32 calls it: a controller is     *)
(* announced once, becomes ready, may then steer, and is taken away by one *)
(* callback that returns the command words to zero.  FlightControl's       *)
(* callbacks assume this order; BleHost is shown to implement it.          *)
(***************************************************************************)
CONSTANTS Addrs, None

VARIABLES connected,   \* controllers announced by on_device_connected
          ready,       \* those accepted by on_device_ready
          pilot        \* whose report the command words hold, None when zeroed

vars == <<connected, ready, pilot>>

Init == connected = {} /\ ready = {} /\ pilot = None

\* on_device_connected, with on_device_ready at once or later.
Connect(a) == /\ a \notin connected
              /\ connected' = connected \cup {a}
              /\ ready' \in {ready, ready \cup {a}}
              /\ UNCHANGED pilot

Ready(a) == /\ a \in connected \ ready
            /\ ready' = ready \cup {a}
            /\ UNCHANGED <<connected, pilot>>

\* on_controller_data
Steer(a) == a \in ready /\ pilot' = a /\ UNCHANGED <<connected, ready>>

\* on_device_disconnected zeroes the words whichever controller left.
Disconnect(a) == /\ a \in connected
                 /\ connected' = connected \ {a}
                 /\ ready' = ready \ {a}
                 /\ pilot' = None

Next == \E a \in Addrs : Connect(a) \/ Ready(a) \/ Steer(a) \/ Disconnect(a)

Spec == Init /\ [][Next]_vars
================================================================================
