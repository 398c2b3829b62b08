------------------------------- MODULE Allowlist -------------------------------
(***************************************************************************)
(* The Bluetooth allowlist of Bluepad32 (uni_bt_allowlist.c) and the two   *)
(* properties in flash that keep it over a reboot (uni_property_esp32.c).  *)
(* A command of the console changes the table in RAM and then stores it; a *)
(* boot reads the stored list and puts it back with the same add function, *)
(* which stores it again after every address.  Power may fail between any  *)
(* two steps, and a store may fail without anyone being told.              *)
(***************************************************************************)
EXTENDS Naturals, Sequences, FiniteSets

CONSTANTS Addrs,          \* the Bluetooth addresses that are not all zero
          MaxAllowlist,   \* CONFIG_BLUEPAD32_MAX_ALLOWLIST
          Zero            \* zero_addr, the mark of a free slot

ASSUME AllowlistAssumption ==
  /\ MaxAllowlist \in Nat \ {0}
  /\ Zero \notin Addrs

VARIABLES list,      \* addr_allow_list
          enforced,  \* whether the list is used
          nvs,       \* what is in flash: the list as stored and the flag
          pc,        \* where the code is
          rest,      \* update_allowlist_from_property: what is left to parse
          kept,      \* history: the lists and flags that a reboot may bring
                     \* back: those last stored and those asked for since
          hurt       \* history: a fault hit the boot that put back a list of two
                     \* or more, and no command has stored the list since

vars == <<list, enforced, nvs, pc, rest, kept, hurt>>

Slots == 1 .. MaxAllowlist
Empty == [i \in Slots |-> Zero]
Members == {list[i] : i \in Slots} \ {Zero}

Init ==
  /\ list = Empty /\ enforced = FALSE
  /\ nvs = [list |-> <<>>, enabled |-> FALSE]
  /\ pc = "off" /\ rest = <<>>
  /\ kept = [list |-> {{}}, enabled |-> {FALSE}] /\ hurt = FALSE

-----------------------------------------------------------------------------
is_address_in_allowlist(a) == \E i \in Slots : list[i] = a

uni_bt_allowlist_is_allowed_addr(a) == enforced => is_address_in_allowlist(a)

FirstSlot(a) == CHOOSE i \in Slots : /\ list[i] = a
                                     /\ \A j \in 1 .. i - 1 : list[j] # a

\* The used slots, one after the other in their order.
UsedInOrder(order) ==
  /\ {order[k] : k \in DOMAIN order} = {i \in Slots : list[i] # Zero}
  /\ \A j, k \in DOMAIN order : j < k => order[j] < order[k]

\* uni_bt_allowlist_add_addr puts the address into a slot.
Added(a) == ~is_address_in_allowlist(a) /\ is_address_in_allowlist(Zero)

Put(a) == list' = [list EXCEPT ![FirstSlot(Zero)] = a]

Wanted(set) == kept' = [kept EXCEPT !.list = @ \union {set}]

-----------------------------------------------------------------------------
(* Boot.                                                                   *)

\* Mistake: the list is not fetched while it is not enforced.
uni_bt_allowlist_init_if_enabled ==
  /\ pc = "off"
  /\ enforced' = nvs.enabled
  /\ rest' = IF nvs.enabled THEN nvs.list ELSE <<>>
  /\ pc' = "load"
  /\ UNCHANGED <<list, nvs, kept, hurt>>

uni_bt_allowlist_init ==
  /\ pc = "off"
  /\ enforced' = nvs.enabled
  /\ rest' = nvs.list
  /\ pc' = "load"
  /\ UNCHANGED <<list, nvs, kept, hurt>>

load_addr ==
  /\ pc = "load" /\ rest # <<>>
  /\ rest' = Tail(rest)
  /\ \/ Added(Head(rest)) /\ Put(Head(rest)) /\ pc' = "load_store"
     \/ ~Added(Head(rest)) /\ UNCHANGED <<list, pc>>
  /\ UNCHANGED <<enforced, nvs, kept, hurt>>

load_done ==
  /\ pc = "load" /\ rest = <<>>
  /\ pc' = "run"
  /\ kept' = [list |-> IF Members \in kept.list THEN {Members} ELSE kept.list,
              enabled |-> kept.enabled \intersect {enforced}]
  /\ UNCHANGED <<list, enforced, nvs, rest, hurt>>

-----------------------------------------------------------------------------
(* The commands of the console.                                            *)

uni_bt_allowlist_add_addr(a) ==
  /\ pc = "run"
  /\ Added(a) /\ Put(a) /\ pc' = "store_list"
  /\ Wanted(Members \union {a})
  /\ UNCHANGED <<enforced, nvs, rest, hurt>>

\* The zero address is found wherever a slot is free, and frees it again.
uni_bt_allowlist_remove_addr(a) ==
  /\ pc = "run"
  /\ is_address_in_allowlist(a)
  /\ list' = [list EXCEPT ![FirstSlot(a)] = Zero]
  /\ pc' = "store_list"
  /\ Wanted(Members \ {a})
  /\ UNCHANGED <<enforced, nvs, rest, hurt>>

uni_bt_allowlist_remove_all ==
  /\ pc = "run"
  /\ list' = Empty
  /\ pc' = "store_list"
  /\ Wanted({})
  /\ UNCHANGED <<enforced, nvs, rest, hurt>>

uni_bt_allowlist_set_enabled(b) ==
  /\ pc = "run"
  /\ b # enforced
  /\ enforced' = b
  /\ pc' = "store_enabled"
  /\ kept' = [kept EXCEPT !.enabled = @ \union {b}]
  /\ UNCHANGED <<list, nvs, rest, hurt>>

-----------------------------------------------------------------------------
(* Flash: a key keeps its old value until the new one is complete.         *)

Phase == IF pc \in {"off", "load", "load_store"} THEN "boot" ELSE "run"

\* The addresses are stored in the order of their slots, without the free ones.
update_allowlist_to_property ==
  /\ pc \in {"load_store", "store_list"}
  /\ \E n \in 0 .. MaxAllowlist : \E order \in [1 .. n -> Slots] :
       /\ UsedInOrder(order)
       /\ nvs' = [nvs EXCEPT !.list = [k \in 1 .. n |-> list[order[k]]]]
  /\ pc' = IF Phase = "boot" THEN "load" ELSE "run"
  /\ kept' = IF Phase = "boot" THEN kept ELSE [kept EXCEPT !.list = {Members}]
  /\ hurt' = (hurt /\ Phase = "boot")
  /\ UNCHANGED <<list, enforced, rest>>

store_enabled ==
  /\ pc = "store_enabled"
  /\ nvs' = [nvs EXCEPT !.enabled = enforced]
  /\ pc' = "run"
  /\ kept' = [kept EXCEPT !.enabled = {enforced}]
  /\ UNCHANGED <<list, enforced, rest, hurt>>

\* A fault while the stored list is put back address by address.
Hurts == /\ pc = "load_store" \/ (pc = "load" /\ rest # <<>>)
         /\ Cardinality(Members) + Len(rest) > 1

\* nvs_open, nvs_set_str or nvs_set_u8 fails: a line in the log, no more.
store_fails ==
  /\ pc \in {"load_store", "store_list", "store_enabled"}
  /\ pc' = IF Phase = "boot" THEN "load" ELSE "run"
  /\ hurt' = (hurt \/ Hurts)
  /\ UNCHANGED <<list, enforced, nvs, rest, kept>>

power_fails ==
  /\ pc # "off"
  /\ pc' = "off"
  /\ list' = Empty /\ enforced' = FALSE /\ rest' = <<>>
  /\ hurt' = (hurt \/ Hurts)
  /\ UNCHANGED <<nvs, kept>>

Next ==
  \/ uni_bt_allowlist_init \/ load_addr \/ load_done
  \/ \E a \in Addrs \union {Zero} : \/ uni_bt_allowlist_add_addr(a)
                                    \/ uni_bt_allowlist_remove_addr(a)
  \/ uni_bt_allowlist_remove_all
  \/ \E b \in BOOLEAN : uni_bt_allowlist_set_enabled(b)
  \/ update_allowlist_to_property \/ store_enabled
  \/ store_fails \/ power_fails

Spec == Init /\ [][Next]_vars

-----------------------------------------------------------------------------
\* "If you add an address to the allow list, it will persist reboots": whatever
\* was added, removed, stored or lost before, a running board lets in exactly the
\* addresses of a list that the commands asked for, the one last stored or a
\* later one, and never a part of it or a mixture.  Only a fault during a boot that
\* puts back two addresses or more may leave a part.
ListPersists ==
  pc = "run" /\ ~hurt =>
    /\ enforced \in kept.enabled
    /\ \E set \in kept.list :
         \A a \in Addrs :
           uni_bt_allowlist_is_allowed_addr(a) <=> (enforced => a \in set)

=============================================================================
