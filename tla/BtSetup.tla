-------------------------------- MODULE BtSetup --------------------------------
(***************************************************************************)
(* The set-up of Bluepad32 (uni_bt_setup.c): once BTstack works, two HCI   *)
(* commands are sent, one per event that finds the way free, and then the  *)
(* platform's on_init_complete is called (BtHost goes on from there).      *)
(* There is no timer: the set-up goes on only if an event comes after the  *)
(* way has become free.  BTstack sends commands of its own meanwhile.      *)
(* transport_send_packet of this port always returns 0, so that            *)
(* hci_send_cmd does not fail here.                                        *)
(***************************************************************************)
EXTENDS Naturals

CONSTANT Fns          \* the number of setup_fns

ASSUME SetupAssumption == Fns \in Nat \ {0}

VARIABLES setup_state, setup_fn_idx,
          reserved,   \* hci_packet_buffer_reserved
          credit,     \* num_cmd_packets > 0
          coming,     \* the events the controller and the transport still owe
          inits       \* history: calls of on_init_complete

setupVars == <<setup_state, setup_fn_idx, reserved, credit, coming, inits>>

\* BTstack is about to report that it works; its last command may still wait for
\* its completion or for the transport.
SetupInit ==
  /\ setup_state = "BTSTACK_IN_PROGRESS" /\ setup_fn_idx = 0
  /\ reserved \in BOOLEAN /\ credit \in BOOLEAN
  /\ coming = {"working"} \union (IF reserved THEN {"sent"} ELSE {})
                          \union (IF credit THEN {} ELSE {"complete"})
  /\ inits = 0

-----------------------------------------------------------------------------
\* The transport's can_send_packet_now is FALSE only while its packet is on the way,
\* and then the packet buffer is reserved as well.
hci_can_send_command_packet_now(r, c) == ~r /\ c

\* hci_send_cmd: the transport will report that the packet is gone, and the
\* controller that the command is done, in either order.
Owed == {"sent", "complete"}

\* What the event leaves free after the set-up is used by hci_run.
hci_run(r, c, left) ==
  \/ /\ hci_can_send_command_packet_now(r, c)
     /\ coming' = left \union Owed
     /\ reserved' = TRUE /\ credit' = FALSE
  \/ /\ coming' = left
     /\ reserved' = r /\ credit' = c

\* Mistake: the index is compared before it is increased.
setup_call_next_fn_late(r, c, left) ==
  IF hci_can_send_command_packet_now(r, c)
  THEN /\ setup_fn_idx' = setup_fn_idx + 1
       /\ IF setup_fn_idx = Fns
          THEN setup_state' = "READY" /\ inits' = inits + 1
          ELSE setup_state' = "BLUEPAD32_IN_PROGRESS" /\ inits' = inits
       /\ coming' = left \union Owed
       /\ reserved' = TRUE /\ credit' = FALSE
  ELSE /\ setup_state' = "BLUEPAD32_IN_PROGRESS"
       /\ hci_run(r, c, left)
       /\ UNCHANGED <<setup_fn_idx, inits>>

setup_call_next_fn(r, c, left) ==
  IF hci_can_send_command_packet_now(r, c)
  THEN /\ setup_fn_idx' = setup_fn_idx + 1
       /\ IF setup_fn_idx' = Fns
          THEN setup_state' = "READY" /\ inits' = inits + 1
          ELSE setup_state' = "BLUEPAD32_IN_PROGRESS" /\ inits' = inits
       /\ coming' = left \union Owed
       /\ reserved' = TRUE /\ credit' = FALSE
  ELSE /\ setup_state' = "BLUEPAD32_IN_PROGRESS"
       /\ hci_run(r, c, left)
       /\ UNCHANGED <<setup_fn_idx, inits>>

\* uni_bt_packet_handler: until the set-up is ready every event goes to it.
uni_bt_setup_packet_handler(e, r, c, left) ==
  IF setup_state = "BLUEPAD32_IN_PROGRESS"
     \/ (setup_state = "BTSTACK_IN_PROGRESS" /\ e = "working")
  THEN setup_call_next_fn(r, c, left)
  ELSE hci_run(r, c, left) /\ UNCHANGED <<setup_state, setup_fn_idx, inits>>

\* Mistake: a packet that is gone frees the buffer but is not passed on.
transport_packet_sent_kept ==
  /\ "sent" \in coming
  /\ hci_run(FALSE, credit, coming \ {"sent"})
  /\ UNCHANGED <<setup_state, setup_fn_idx, inits>>

\* HCI_EVENT_TRANSPORT_PACKET_SENT
transport_packet_sent ==
  /\ "sent" \in coming
  /\ uni_bt_setup_packet_handler("sent", FALSE, credit, coming \ {"sent"})

\* COMMAND_COMPLETE or COMMAND_STATUS, with the credit for the next command ...
command_complete ==
  /\ "complete" \in coming
  /\ uni_bt_setup_packet_handler("complete", reserved, TRUE, coming \ {"complete"})

\* ... or without it: the controller gives it with a later event.
command_complete_no_credit ==
  /\ "complete" \in coming
  /\ uni_bt_setup_packet_handler("complete", reserved, FALSE, coming)

btstack_working ==
  /\ "working" \in coming
  /\ uni_bt_setup_packet_handler("working", reserved, credit, coming \ {"working"})

other_event ==
  /\ uni_bt_setup_packet_handler("other", reserved, credit, coming)

SetupNext == \/ transport_packet_sent \/ btstack_working \/ other_event
             \/ command_complete \/ command_complete_no_credit

-----------------------------------------------------------------------------
\* on_init_complete is called once, with the last command, and never again.
InitCompleteOnce ==
  /\ inits = IF setup_state = "READY" THEN 1 ELSE 0
  /\ setup_state = "READY" <=> setup_fn_idx = Fns

\* The set-up never waits for nothing: while it is under way an event is owed
\* that will call it again, and what stands in its way is what is owed.
WakeUpOwed ==
  setup_state = "BLUEPAD32_IN_PROGRESS" =>
    /\ coming \intersect Owed # {}
    /\ reserved => "sent" \in coming
    /\ ~credit => "complete" \in coming

\* on_init_complete is reached, although no timer drives the set-up, the controller
\* may hold back its credit and BTstack's own commands compete for the buffer.
SetupCompletes == <>(setup_state = "READY")

=============================================================================
