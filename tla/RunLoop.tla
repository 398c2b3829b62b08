-------------------------------- MODULE RunLoop --------------------------------
(***************************************************************************)
(* The BTstack run loop on FreeRTOS and the two tasks that hand it work:   *)
(* the Bluetooth controller's task, which stores HCI packets in a ring     *)
(* buffer (btstack_port_esp32.c), and the console's task, which queues     *)
(* commands through the uni_bt_*_safe calls (uni_bt.c).  A step is what a  *)
(* task does between two points where another task can see the difference. *)
(* hci_ringbuffer is RingBuffer; a byte is named by the packet it is part  *)
(* of and its place there, 1 for the first and -1 and 0 for the length tag *)
(* before it.                                                              *)
(***************************************************************************)
EXTENDS Integers, RingBuffer, SequencesExt

CONSTANTS Lens,        \* lengths of the packets the controller delivers
          MaxPackets,  \* bound: packets delivered
          CmdMax,      \* CMD_CALLBACK_MAX
          MaxCalls     \* bound: safe calls made

ASSUME TransportAssumption ==
    /\ Lens \subseteq Nat \ {0} /\ MaxPackets \in Nat
    /\ Bytes \subseteq (Nat \X Nat) \X Int
    /\ \A n \in 1 .. MaxPackets, l \in Lens, i \in -1 .. size :
          i <= l => <<<<n, l>>, i>> \in Bytes
ASSUME CallAssumption == CmdMax \in Nat \ {0} /\ MaxCalls \in Nat

VARIABLES taken,       \* ring_buffer_mutex is taken
          callbacks,   \* btstack_run_loop_base_callbacks
          notified,    \* the run loop's task-notification bit
          loop,        \* where the run loop is
          current,     \* the registration the run loop has popped
          recv,        \* where host_recv_pkt_cb is
          accepted,    \* history: packets that found space, each <<number, length>>
          squeezed,    \* history: one of them found none for its tag
          delivered,   \* history: packets passed to BTstack, Garbage if not whole
          caller,      \* where the safe call is
          idx,         \* cmd_callback_idx
          ctx,         \* cmd_callback_registration[i].context: number of the call
          calls,       \* number of safe calls made
          executed,    \* history: the calls that cmd_callback ran, in order
          overrun      \* history: a context was overwritten before it was used

transport == <<ringVars, taken, recv, accepted, squeezed, delivered>>
commands == <<caller, idx, ctx, calls, executed, overrun>>
vars == <<transport, callbacks, notified, loop, current, commands>>

Receive == -2                        \* packet_receive_callback_context
Garbage == <<0, 0>>
Registrations == 0 .. CmdMax - 1
NoReg == -1

Init == /\ RingInit /\ taken = FALSE /\ callbacks = <<>> /\ notified = FALSE
        /\ loop = "callbacks" /\ current = NoReg
        /\ recv = "idle" /\ accepted = <<>> /\ squeezed = FALSE
        /\ delivered = <<>>
        /\ caller = "idle" /\ idx = 0 /\ ctx = [i \in Registrations |-> 0]
        /\ calls = 0 /\ executed = <<>> /\ overrun = FALSE

-------------------------------------------------------------------------------
Part(p, from, to) == [i \in 1 .. to - from + 1 |-> <<p, from + i - 1>>]

\* Mistake: the mutex is not waited for.
xSemaphoreTake_not == TRUE

xSemaphoreTake == ~taken

\* Mistake: the item goes to the front (btstack_linked_list_add).
AddCallback_front(reg) == callbacks' = IF Contains(callbacks, reg) THEN callbacks
                                       ELSE <<reg>> \o callbacks

\* btstack_linked_list_add_tail refuses an item that is in the list.
AddCallback(reg) == callbacks' = IF Contains(callbacks, reg) THEN callbacks
                                 ELSE Append(callbacks, reg)

\* Mistake: the task is not notified.
trigger_forgotten == UNCHANGED notified

\* btstack_run_loop_freertos_trigger
trigger == notified' = TRUE

\* host_recv_pkt_cb compares the free space with the packet alone.  A packet without
\* space is dropped, which changes nothing.
host_recv_pkt_cb(len) ==
    /\ recv = "idle" /\ Len(accepted) < MaxPackets
    /\ xSemaphoreTake /\ taken' = TRUE
    /\ bytes_free >= len
    /\ accepted' = Append(accepted, <<Len(accepted) + 1, len>>)
    /\ squeezed' = (squeezed \/ bytes_free < len + 2)
    /\ recv' = "tag"
    /\ UNCHANGED <<ringVars, callbacks, notified, loop, current, delivered, commands>>

\* The results of both writes are ignored.
recv_tag ==
    /\ recv = "tag" /\ recv' = "packet"
    /\ btstack_ring_buffer_write(Part(Last(accepted), -1, 0))
    /\ UNCHANGED <<taken, callbacks, notified, loop, current, accepted, squeezed,
                   delivered, commands>>

recv_packet ==
    /\ recv = "packet" /\ recv' = "add"
    /\ btstack_ring_buffer_write(Part(Last(accepted), 1, Last(accepted)[2]))
    /\ taken' = FALSE
    /\ UNCHANGED <<callbacks, notified, loop, current, accepted, squeezed, delivered,
                   commands>>

(* btstack_run_loop_execute_on_main_thread: the list under its mutex, then the
   notification. *)
recv_add == /\ recv = "add" /\ recv' = "trigger" /\ AddCallback(Receive)
            /\ UNCHANGED <<ringVars, taken, notified, loop, current, accepted,
                           squeezed, delivered, commands>>

recv_trigger == /\ recv = "trigger" /\ recv' = "idle" /\ trigger
                /\ UNCHANGED <<ringVars, taken, callbacks, loop, current, accepted,
                               squeezed, delivered, commands>>

\* Mistake: always the same element.
next_registration_same == idx

\* get_next_callback_registration: nobody asks whether it is still in use.
next_registration == (idx + 1) % CmdMax

\* A uni_bt_*_safe call, its stores into the registration.
safe_call ==
    /\ caller = "idle" /\ calls < MaxCalls
    /\ idx' = next_registration
    /\ calls' = calls + 1
    /\ ctx' = [ctx EXCEPT ![idx'] = calls']
    /\ overrun' = (overrun \/ Contains(callbacks, idx') \/ current = idx')
    /\ caller' = "add"
    /\ UNCHANGED <<callbacks, notified, loop, current, executed, transport>>

call_add == /\ caller = "add" /\ caller' = "trigger" /\ AddCallback(idx)
            /\ UNCHANGED <<notified, loop, current, idx, ctx, calls, executed,
                           overrun, transport>>

call_trigger == /\ caller = "trigger" /\ caller' = "idle" /\ trigger
                /\ UNCHANGED <<callbacks, loop, current, idx, ctx, calls, executed,
                               overrun, transport>>

-------------------------------------------------------------------------------
(* btstack_run_loop_freertos_execute. *)

\* btstack_linked_list_pop under the mutex.
pop_callback ==
    /\ loop = "callbacks" /\ callbacks # <<>>
    /\ current' = Head(callbacks) /\ callbacks' = Tail(callbacks)
    /\ loop' = "call"
    /\ UNCHANGED <<notified, transport, commands>>

\* No callback is left: timers, then the wait.
no_callback ==
    /\ loop = "callbacks" /\ callbacks = <<>>
    /\ loop' = "wait"
    /\ UNCHANGED <<callbacks, notified, current, transport, commands>>

\* xTaskNotifyWait clears the bit.
wake_up == /\ loop = "wait" /\ notified
           /\ notified' = FALSE /\ loop' = "callbacks"
           /\ UNCHANGED <<callbacks, current, transport, commands>>

\* A timer is due: the loop comes round without a notification.
timer_due == /\ loop = "wait" /\ ~notified /\ loop' = "callbacks"
             /\ UNCHANGED <<callbacks, notified, current, transport, commands>>

\* cmd_callback: the context is read after the mutex is given back.
run_command == /\ loop = "call" /\ current \in Registrations
               /\ executed' = Append(executed, ctx[current])
               /\ current' = NoReg /\ loop' = "callbacks"
               /\ UNCHANGED <<callbacks, notified, caller, idx, ctx, calls, overrun,
                              transport>>

\* transport_deliver_packets, one turn of its loop: the tag, then as many bytes as the
\* tag says, or any number if the two bytes are no tag.
deliver_tag ==
    /\ loop = "call" /\ current = Receive
    /\ xSemaphoreTake /\ taken' = TRUE
    /\ bytes_available > 0
    /\ btstack_ring_buffer_read(2)
    /\ loop' = "packet"
    /\ UNCHANGED <<callbacks, notified, current, recv, accepted, squeezed, delivered,
                   commands>>

deliver_packet ==
    /\ loop = "packet" /\ loop' = "call"
    /\ LET p == out[1][1] IN
       \E len \in IF out = Part(p, -1, 0) THEN {p[2]} ELSE 0 .. bytes_available :
          /\ btstack_ring_buffer_read(len)
          /\ delivered' = Append(delivered, IF /\ out = Part(p, -1, 0)
                                               /\ out' = Part(p, 1, p[2])
                                            THEN p ELSE Garbage)
    /\ taken' = FALSE
    /\ UNCHANGED <<callbacks, notified, current, recv, accepted, squeezed, commands>>

deliver_done == /\ loop = "call" /\ current = Receive
                /\ xSemaphoreTake /\ bytes_available = 0
                /\ current' = NoReg /\ loop' = "callbacks"
                /\ UNCHANGED <<callbacks, notified, transport, commands>>

LoopNext == pop_callback \/ no_callback \/ wake_up \/ run_command
            \/ deliver_tag \/ deliver_packet \/ deliver_done

RecvGoesOn == recv_tag \/ recv_packet \/ recv_add \/ recv_trigger

RecvNext == (\E len \in Lens : host_recv_pkt_cb(len)) \/ RecvGoesOn

CallNext == safe_call \/ call_add \/ call_trigger

Next == LoopNext \/ timer_due \/ RecvNext \/ CallNext

(* Tasks that can run do: FreeRTOS schedules the run loop's task, and a task in
   the middle of a hand-over finishes it.  No timer is promised. *)
Spec == /\ Init /\ [][Next]_vars
        /\ WF_vars(LoopNext)
        /\ WF_vars(RecvGoesOn)
        /\ WF_vars(call_add \/ call_trigger)

-------------------------------------------------------------------------------
(* Properties. *)

(* The packets BTstack gets are those that found space, whole and in order ("Each
   packet has 2 byte len tag + H4 packet type + packet itself"), until one arrives
   that fits into the free space without its tag and not with it: the check of
   host_recv_pkt_cb leaves out the two bytes. *)
PacketsWhole == squeezed \/ IsPrefix(delivered, accepted)

(* No wake-up is lost between the callback list, the notification bit and the
   wait, so no packet stays behind: what is in the ring buffer is delivered, even
   if no timer ever comes round. *)
PacketsArrive == (bytes_available > 0) ~> (bytes_available = 0)

(* As long as no registration was taken while still in use
   (OverrunOnlyWhenFull), the safe calls are executed once, in the order they were
   made, although the context is read after the list's mutex is given back. *)
CallsInOrder == overrun \/ executed = [i \in 1 .. Len(executed) |-> i]

(* And each of them is executed in the end: no call is left in the list while the
   loop sleeps. *)
CallsRun == \A n \in 1 .. MaxCalls :
                (calls = n) ~> (overrun \/ Len(executed) >= n)

OverrunStep == overrun' /\ ~overrun => calls - Len(executed) >= CmdMax

(* "User can schedule up to "MAX" safe calls per loop" - a call is
   lost only if MAX earlier ones were unfinished. *)
OverrunOnlyWhenFull == [][OverrunStep]_vars
================================================================================
