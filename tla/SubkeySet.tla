----------------------------- MODULE SubkeySet -----------------------------
(***************************************************************************)
(* What the subkey index of one key node promises its callers: it holds a *)
(* set of subkey names.  A subkey is added only when no subkey of that    *)
(* name exists (the caller looks the name up first) and removed only when *)
(* it exists.  A restart of the hive loses the volatile subkeys, which    *)
(* live in storage that is not persisted.  CmIndex refines this           *)
(* specification.                                                          *)
(***************************************************************************)
CONSTANTS
    Names,
    Volatiles       \* the names of volatile subkeys

VARIABLE keys

Init == keys = {}

Add(n) ==
    /\ n \notin keys
    /\ keys' = keys \cup {n}

Remove(n) ==
    /\ n \in keys
    /\ keys' = keys \ {n}

Restart == keys' = keys \ Volatiles

Next == (\E n \in Names : Add(n) \/ Remove(n)) \/ Restart

Spec == Init /\ [][Next]_keys
=============================================================================
