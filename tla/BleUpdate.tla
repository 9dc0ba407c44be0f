----------------------------- MODULE BleUpdate ------------------------------
(***************************************************************************)
(* Firmware update over the BLE OTA characteristic                         *)
(* (platform/esp32/ble_control.c, ble_control_process_ota_write): BEGIN,   *)
(* DATA, END and ABORT writes of phones that come and go, a transfer that  *)
(* outlives its link, the restart 750 ms after END, and power loss at any  *)
(* moment.                                                                 *)
(*                                                                         *)
(* An image is Size chunks; a slot holds the chunks written to it, each    *)
(* with the image it came from, so that a transfer continued by another    *)
(* phone shows as a mixture.  The flash and bootloader calls of ESP-IDF    *)
(* are external: esp_ota_begin erases the slot, esp_ota_end accepts whole  *)
(* images only, and the bootloader falls back to a slot that is whole.     *)
(***************************************************************************)
EXTENDS Naturals, Sequences

CONSTANTS
    Images,
    Size,       \* chunks of an image
    Factory,    \* the image the device came with
    None

VARIABLES
    slots,      \* the two application partitions
    running,    \* the slot the device runs from
    boot,       \* the slot otadata names
    transfer,   \* s_ble_ota_handle, _expected_size and _received_size
    secured,    \* s_ble_secured: a paired phone is connected
    restarting, \* ble_control_ota_restart_task waits
    told        \* history: the image a phone was told to be COMPLETE

flash == <<slots, boot>>
vars  == <<flash, running, transfer, secured, restarting, told>>

Chunks   == Images \cup {Factory}
NoUpdate == [open |-> FALSE, size |-> 0, got |-> 0]
Whole(i) == [c \in 1 .. Size |-> i]
IsWhole(s) == \E i \in Chunks : slots[s] = Whole(i)

TypeOK ==
    /\ slots \in [0 .. 1 -> Seq(Chunks)]
    /\ running \in 0 .. 1 /\ boot \in 0 .. 1
    /\ transfer \in [open : BOOLEAN, size : 0 .. Size, got : 0 .. Size]
    /\ secured \in BOOLEAN /\ restarting \in BOOLEAN
    /\ told \in Images \cup {None}

----------------------------------------------------------------------------
(* MUTANT: the slot after the one to boot next, not after the running one. *)
Target_AfterBoot == 1 - boot

\* esp_ota_get_next_update_partition(NULL)
Target == 1 - running

\* a command that fails aborts the transfer
Fails ==
    /\ secured
    /\ transfer.open
    /\ transfer' = NoUpdate
    /\ UNCHANGED <<flash, running, secured, restarting, told>>

\* a transfer in progress is aborted; esp_ota_begin may fail
Begin(size) ==
    /\ secured
    /\ transfer' \in {[open |-> TRUE, size |-> size, got |-> 0], NoUpdate}
    /\ slots' = [slots EXCEPT ![Target] = <<>>]
    /\ told' = None
    /\ UNCHANGED <<boot, running, secured, restarting>>

\* a chunk at the offset that was received so far; any other offset fails
Data(i) ==
    /\ secured
    /\ transfer.open /\ transfer.got < transfer.size
    /\ transfer' = [transfer EXCEPT !.got = @ + 1]
    /\ slots' = [slots EXCEPT ![Target] = Append(@, i)]
    /\ UNCHANGED <<boot, running, secured, restarting, told>>

\* esp_ota_end verifies the image before the slot is made the one to boot
End ==
    /\ secured
    /\ transfer.open /\ transfer.got = transfer.size
    /\ IsWhole(Target)
    /\ boot' = Target
    /\ transfer' = NoUpdate
    /\ told' = slots[Target][1]
    /\ restarting' = TRUE
    /\ UNCHANGED <<slots, running, secured>>

Abort ==
    /\ secured
    /\ transfer' = NoUpdate
    /\ UNCHANGED <<flash, running, secured, restarting, told>>

----------------------------------------------------------------------------
(* Links and restarts: a link that drops leaves the transfer as it is.     *)

Pair ==
    /\ ~secured /\ secured' = TRUE
    /\ UNCHANGED <<flash, running, transfer, restarting, told>>

Drop ==
    /\ secured /\ secured' = FALSE
    /\ UNCHANGED <<flash, running, transfer, restarting, told>>

\* the bootloader
Boots == IF IsWhole(boot) THEN boot ELSE 1 - boot

Starts ==
    /\ running' = Boots
    /\ transfer' = NoUpdate
    /\ secured' = FALSE /\ restarting' = FALSE
    /\ told' = None
    /\ UNCHANGED flash

Restart == restarting /\ Starts

PowerLoss == Starts

----------------------------------------------------------------------------
Init ==
    /\ slots = [s \in 0 .. 1 |-> IF s = 0 THEN Whole(Factory) ELSE <<>>]
    /\ running = 0 /\ boot = 0
    /\ transfer = NoUpdate
    /\ secured = FALSE /\ restarting = FALSE
    /\ told = None

Commands ==
    \/ \E size \in 1 .. Size : Begin(size)
    \/ \E i \in Images : Data(i)
    \/ End \/ Abort \/ Fails

Next == Commands \/ Pair \/ Drop \/ Restart \/ PowerLoss

Spec == Init /\ [][Next]_vars

----------------------------------------------------------------------------
(* Whatever the phones send and whenever the power fails, the device can   *)
(* start: the image it runs from is never written to, and the image a      *)
(* phone was told to be complete is the one the next start runs, as long   *)
(* as no phone begins anew (ble_control_process_ota_write).                *)
DeviceBoots ==
    /\ IsWhole(running)
    /\ told # None => slots[Boots] = Whole(told)
=============================================================================
