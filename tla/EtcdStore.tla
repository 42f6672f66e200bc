------------------------------ MODULE EtcdStore ------------------------------
(***************************************************************************)
(* One key of the etcd keyspace and the operations store/etcd/etcd.go      *)
(* performs on it.  A key is a slot: etcd keeps, beside the value,         *)
(*                                                                         *)
(*   version   the number of writes since the key was created; 0 while the *)
(*             key does not exist, and 1 again after a delete and a put    *)
(*   rev       the number of changes of this key ever (etcd's revision,    *)
(*             restricted to one key)                                      *)
(*   created   the rev of the write that created the present incarnation   *)
(*                                                                         *)
(* The code under src/ reads only version and value.  rev and created are  *)
(* what etcd itself knows, and are used here to tell one incarnation of a  *)
(* key from the next.                                                      *)
(***************************************************************************)
EXTENDS Naturals

Slot(Value) == [rev : Nat, version : Nat, created : Nat, val : Value]

\* The slot of a key that never existed.  zero is Go's zero value of the
\* decoded structure.
NoSlot(zero) == [rev |-> 0, version |-> 0, created |-> 0, val |-> zero]

Exists(slot) == slot.version > 0

\* etcdStore.Put: an unconditional write.
PutSlot(slot, v) ==
    [rev     |-> slot.rev + 1,
     version |-> slot.version + 1,
     created |-> IF Exists(slot) THEN slot.created ELSE slot.rev + 1,
     val     |-> v]

\* etcdStore.Delete of an existing key (deleting an absent one changes nothing).
DeleteSlot(slot, zero) ==
    IF Exists(slot)
    THEN [rev |-> slot.rev + 1, version |-> 0, created |-> 0, val |-> zero]
    ELSE slot

\* The error Get, Delete and UpdateElseGet report about the key they found.
KeyError(slot) == IF Exists(slot) THEN "nil" ELSE "ErrKVNotExists"

\* A compare that is left out: a blind write.
BlindUpdateElseGet(slot, version, v) ==
    [slot |-> PutSlot(slot, v), ok |-> TRUE, err |-> KeyError(slot)]

\* etcdStore.UpdateElseGet: a transaction that writes v when the key's version
\* is the codec's, and otherwise reads the key.  A write that finds no previous
\* value still happens, and is reported as (true, ErrKVNotExists).
UpdateElseGet(slot, version, v) ==
    IF slot.version = version
    THEN [slot |-> PutSlot(slot, v), ok |-> TRUE, err |-> KeyError(slot)]
    ELSE [slot |-> slot, ok |-> FALSE, err |-> KeyError(slot)]

=============================================================================
