------------------------------ MODULE EtcdBatch ------------------------------
(***************************************************************************)
(* PutMulti of the etcd store (store/etcd/etcd.go): many records are       *)
(* written in transactions of at most TxnLimit operations each, which run  *)
(* concurrently and succeed or fail one by one.                            *)
(***************************************************************************)
EXTENDS Naturals, Sequences, FiniteSets

CONSTANTS
    Keys, Values,
    Blank,          \* the empty key
    Absent,         \* no value
    TxnLimit,       \* 125 in the code
    MaxCodecs,      \* bound: how many records a call is given
    BatchFaults          \* a subset of {"encode", "error", "lost"}: a record that cannot be
                    \* encoded, a transaction that fails, one whose answer is lost

ASSUME BatchNullAssumption == Blank \notin Keys /\ Absent \notin Values
ASSUME BatchKeysAssumption == IsFiniteSet(Keys)
ASSUME TxnLimitAssumption == TxnLimit \in Nat \ {0}
ASSUME MaxCodecsAssumption == MaxCodecs \in Nat
ASSUME BatchFaultAssumption == BatchFaults \subseteq {"encode", "error", "lost"}

VARIABLES
    pc,         \* the caller: "encode", "wait" or "done"
    codecs,     \* the records of the call
    next,       \* the next one to be encoded
    data,       \* the map of keys to encoded values
    ops,        \* the keys of data in the order of the range over the map
    txn,        \* the state of each transaction
    kv,         \* etcd
    commits,    \* how many transactions wrote each key
    ret         \* what PutMulti returns

batchVars == <<pc, codecs, next, data, ops, txn, kv, commits, ret>>

Codec == [key : Keys \cup {Blank}, val : Values]

BatchReturn(err) == pc' = "done" /\ ret' = err

(***************************************************************************)
(* PutMulti: all records are encoded before anything is written; a later   *)
(* record for a key replaces an earlier one.                               *)
(***************************************************************************)

Encode ==
    LET codec == codecs[next]
    IN /\ pc = "encode" /\ next <= Len(codecs)
       /\ \/ /\ codec.key = Blank \/ "encode" \in BatchFaults
             /\ BatchReturn("error") /\ UNCHANGED data
          \/ /\ codec.key # Blank
             /\ data' = [data EXCEPT ![codec.key] = codec.val] /\ UNCHANGED <<pc, ret>>
       /\ next' = next + 1
       /\ UNCHANGED <<codecs, ops, txn, kv, commits>>

(***************************************************************************)
(* batchPut and doBatchOp.                                                 *)
(***************************************************************************)

Given == {k \in Keys : data[k] # Absent}

\* Without conditions, one put for each key, in any order.
Orders == {s \in [1..Cardinality(Given) -> Given] : \A k \in Given : \E i \in DOMAIN s : s[i] = k}

Count(n) == n \div TxnLimit

Length(n) == Count(n) + (IF n % TxnLimit # 0 THEN 1 ELSE 0)

\* The keys of transaction i: a full slice, or what is left over.
Chunk(i, s) ==
    {s[j] : j \in (i * TxnLimit + 1)..(IF i < Count(Len(s)) THEN (i + 1) * TxnLimit ELSE Len(s))}

DoBatchOp ==
    /\ pc = "encode" /\ next > Len(codecs)
    /\ IF Given = {} THEN BatchReturn("error") /\ UNCHANGED <<ops, txn>>
       ELSE /\ pc' = "wait" /\ UNCHANGED ret
            /\ ops' \in Orders
            /\ txn' = [i \in 0..(Length(Len(ops')) - 1) |-> "sent"]
    /\ UNCHANGED <<codecs, next, data, kv, commits>>

\* One transaction: its puts take effect together or not at all.
Commit(i) ==
    /\ pc = "wait" /\ txn[i] = "sent"
    /\ \E ok, effect \in BOOLEAN :
         /\ ok => effect
         /\ ~ok /\ effect => "lost" \in BatchFaults
         /\ ~ok /\ ~effect => "error" \in BatchFaults
         /\ txn' = [txn EXCEPT ![i] = IF ok THEN "ok" ELSE "error"]
         /\ kv' = [k \in Keys |-> IF effect /\ k \in Chunk(i, ops) THEN data[k] ELSE kv[k]]
         /\ commits' = [k \in Keys |-> IF effect /\ k \in Chunk(i, ops) THEN commits[k] + 1 ELSE commits[k]]
    /\ UNCHANGED <<pc, codecs, next, data, ops, ret>>

\* A mistake: only the first transaction's error is looked at.
FirstError == IF txn[0] = "error" THEN "error" ELSE "ok"

\* The first error of any of them.
AnyError == IF \E i \in DOMAIN txn : txn[i] = "error" THEN "error" ELSE "ok"

Collect ==
    /\ pc = "wait" /\ \A i \in DOMAIN txn : txn[i] # "sent"
    /\ BatchReturn(AnyError)
    /\ UNCHANGED <<codecs, next, data, ops, txn, kv, commits>>

BatchInit ==
    /\ pc = "encode" /\ ret = "none" /\ next = 1
    /\ codecs \in UNION {[1..n -> Codec] : n \in 0..MaxCodecs}
    /\ data = [k \in Keys |-> Absent] /\ kv = [k \in Keys |-> Absent]
    /\ ops = << >> /\ txn = << >> /\ commits = [k \in Keys |-> 0]

BatchNext == Encode \/ DoBatchOp \/ (\E i \in DOMAIN txn : Commit(i)) \/ Collect

BatchSpec == BatchInit /\ [][BatchNext]_batchVars

(***************************************************************************)
(* Properties.                                                             *)
(***************************************************************************)

\* Every variable has its type, and no transaction has more operations than etcd
\* accepts.
BatchTypeOK ==
    /\ pc \in {"encode", "wait", "done"} /\ ret \in {"none", "ok", "error"}
    /\ codecs \in Seq(Codec) /\ next \in 1..(Len(codecs) + 1) /\ ops \in Seq(Keys)
    /\ data \in [Keys -> Values \cup {Absent}] /\ kv \in [Keys -> Values \cup {Absent}]
    /\ \A i \in DOMAIN txn : /\ txn[i] \in {"sent", "ok", "error"}
                             /\ Cardinality(Chunk(i, ops)) \in 1..TxnLimit

\* No key is written by two transactions, whose order is not known.
WrittenOnce == \A k \in Keys : commits[k] <= 1

\* PutMulti returns no error only if every record it was given is in etcd, with
\* the last value given for its key, however many transactions that took.
NoErrorMeansAllWritten ==
    ret = "ok" =>
        \A i \in DOMAIN codecs :
            (\A j \in DOMAIN codecs : j > i => codecs[j].key # codecs[i].key) =>
                kv[codecs[i].key] = codecs[i].val

\* The concurrent transactions of PutMulti divide the records among them: each key
\* is written by one, and by one at least when no error is returned.
BatchWritten == BatchTypeOK /\ WrittenOnce /\ NoErrorMeansAllWritten

=============================================================================
