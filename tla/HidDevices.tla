------------------------------ MODULE HidDevices ------------------------------
(***************************************************************************)
(* g_devices, the table of Bluepad32's controllers (uni_hid_device.c), as  *)
(* the Bluetooth LE and the classic host use it: a slot's record, how a    *)
(* slot is taken, cleared and looked up.  Every look-up of the code is a   *)
(* loop that returns the first slot that fits; here it is the set that     *)
(* holds that slot, empty where the code returns NULL.                     *)
(***************************************************************************)
EXTENDS Naturals

CONSTANTS Addrs,          \* Bluetooth addresses of the peers
          MaxDevices,     \* CONFIG_BLUEPAD32_MAX_DEVICES
          None            \* the address of an empty slot

ASSUME TableAssumption == MaxDevices \in Nat \ {0} /\ None \notin Addrs

Slots == 1 .. MaxDevices

\* UNI_BT_CONN_HANDLE_INVALID, and the hids_cid of an empty slot.
Invalid == 65535

\* uni_hid_device_init: what setup and delete leave in a slot.
Blank == [addr |-> None, handle |-> Invalid, state |-> "NONE",
          connected |-> FALSE, timer |-> FALSE, hids |-> Invalid]

\* Mistake: the connection timer is not started.
Fresh_untimed(a) == [addr |-> a, handle |-> 0, state |-> "NONE",
                     connected |-> FALSE, timer |-> FALSE, hids |-> 0]

\* The record uni_hid_device_create leaves: memset to zero, so the connection
\* handle is 0 and not the invalid one, and the connection timer runs.
Fresh(a) == [addr |-> a, handle |-> 0, state |-> "NONE",
             connected |-> FALSE, timer |-> TRUE, hids |-> 0]

\* The first slot of a set of slots, as a set.
FirstOf(S) == {s \in S : \A t \in S : s <= t}

\* The slot uni_hid_device_create takes, if there is one.
FreeSlot(devs) == FirstOf({s \in Slots : devs[s].addr = None})

\* uni_hid_device_get_instance_for_address, _connection_handle and _hids_cid.
ByAddr(devs, a) == FirstOf({s \in Slots : devs[s].addr = a})
ByHandle(devs, h) == FirstOf({s \in Slots : h # Invalid /\ devs[s].handle = h})
ByHids(devs, c) == FirstOf({s \in Slots : c # 0 /\ devs[s].hids = c})
===============================================================================
