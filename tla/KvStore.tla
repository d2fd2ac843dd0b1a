------------------------------ MODULE KvStore ------------------------------
(***************************************************************************)
(* What a user of flash_eep.c may rely on: a map from object ids to object *)
(* bodies, until it is full.  While a write of key k is in flight and      *)
(* there is room, only the entry of k moves, through partially programmed  *)
(* bodies, and the write reports success only when the entry is the object *)
(* given.  A write that finds no room either loses the whole map, where at *)
(* most one key is left and that with a body of erased words, or runs out  *)
(* of memory and reports success all the same.  A power failure forgets    *)
(* the call in flight and nothing else.                                    *)
(***************************************************************************)
CONSTANTS Keys,        (* object ids                                        *)
          None,        (* an absent object                                  *)
          Objects,     (* [Keys -> set of bodies]                           *)
          Partial(_),  (* the bodies a half programmed object may show      *)
          Blank        (* the bodies that are erased words only             *)

VARIABLES store,       (* [Keys -> a body or None]                          *)
          call,        (* the write in flight, or None                      *)
          full,        (* did it find no room?                              *)
          ret,         (* what the last completed write returned            *)
          lost         (* was a write given up for want of memory?          *)

vars == <<store, call, full, ret, lost>>

Init ==
    /\ store = [k \in Keys |-> None]
    /\ call = None
    /\ full = FALSE
    /\ ret = FALSE
    /\ lost = FALSE

Put(k, v) ==
    /\ call = None
    /\ call' = [key |-> k, val |-> v]
    /\ full' \in BOOLEAN
    /\ UNCHANGED <<store, ret, lost>>

PutSame(k, v) ==                \* the object is there already
    /\ call = None
    /\ store[k] = v
    /\ ret' = TRUE
    /\ UNCHANGED <<store, call, full, lost>>

Disturb ==                      \* the entry being written, and only that one
    /\ call # None /\ ~ full
    /\ \E v \in Partial(call.val) : store' = [store EXCEPT ![call.key] = v]
    /\ UNCHANGED <<call, full, ret, lost>>

Succeed ==
    /\ call # None /\ ~ full
    /\ store' = [store EXCEPT ![call.key] = call.val]
    /\ call' = None
    /\ ret' = TRUE
    /\ UNCHANGED <<full, lost>>

(* no room: nothing is kept, and the write goes on or gives up as well     *)
Repack ==
    /\ call # None /\ full
    /\ \E k \in Keys, v \in Blank \cup {None} :
          store' = [j \in Keys |-> IF j = k THEN v ELSE None]
    /\ full' = FALSE
    /\ \/ UNCHANGED <<call, ret>>
       \/ call' = None /\ ret' = FALSE
    /\ UNCHANGED lost

Lose ==                         \* no memory: the call reports success all the same
    /\ call # None /\ full
    /\ call' = None
    /\ full' = FALSE
    /\ ret' = TRUE
    /\ lost' = TRUE
    /\ UNCHANGED store

PowerLoss ==
    /\ call' = None
    /\ full' = FALSE
    /\ ret' = FALSE
    /\ UNCHANGED <<store, lost>>

Next ==
    \/ \E k \in Keys : \E v \in Objects[k] : Put(k, v) \/ PutSame(k, v)
    \/ Disturb \/ Succeed \/ Repack \/ Lose \/ PowerLoss

Spec == Init /\ [][Next]_vars
=============================================================================
