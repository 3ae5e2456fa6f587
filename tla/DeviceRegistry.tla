--------------------------- MODULE DeviceRegistry ---------------------------
(***************************************************************************)
(* The device registry of src/der.c: `global_hash (device, int64, 64)`     *)
(* makes one process-wide HashTable keyed by SFDI, and get_device finds a  *)
(* DerDevice or creates and inserts one.  Devices are never removed.  Here *)
(* Keys are SFDIs and a device is identified with its SFDI (device_key).   *)
(*                                                                         *)
(* The registry's own operations are get_device and find_device; both     *)
(* run on the one event-loop thread, so each is one step.  The registry   *)
(* is never iterated or deleted from in the code.                         *)
(***************************************************************************)
EXTENDS HashTable

\* get_device(sfdi): find_device, and on a miss allocate the device and
\* insert_device it (hash_put, which runs its own hash_find first).
GetDevice(sfdi) ==
  /\ Idle
  /\ Entries(ht) < MaxEntries
  /\ LET f == Find(ht, sfdi)
         t == [ht EXCEPT !.mark = f.mark]
     IN  ht' = CASE f.spin      -> [ht EXCEPT !.fault = "hang"]
                 [] f.e # NULL  -> t
                 [] OTHER       -> Put(t, sfdi)
  /\ call' = [op |-> "put", key |-> sfdi]
  /\ UNCHANGED <<hash, cursor, iter, iterSeen, iterFrom>>

\* find_device(sfdi): hash_get.
FindDevice(sfdi) == HashGet(sfdi)

RegistryNext == \E sfdi \in Keys : GetDevice(sfdi) \/ FindDevice(sfdi)

RegistrySpec == Init /\ [][RegistryNext]_vars
=============================================================================
