------------------------------ MODULE ValueList ------------------------------
(***************************************************************************)
(* The value list of a key (sdk/lib/cmlib/valuename.c).  A key's values   *)
(* are a list of value cells, each holding a name stored as a key name is *)
(* (compressed with VALUE_COMP_NAME when it can be).  CmpFindNameInList    *)
(* scans the list for a name, comparing it with each stored name the way  *)
(* its encoding requires, and returns the position and cell of the first *)
(* value that compares equal; CmpFindValueByName returns only the cell.   *)
(*                                                                         *)
(* Setting and deleting a value (CmpSetValueKey, CmpDeleteValueKey) are   *)
(* kernel code outside this repository; as there they look the name up   *)
(* with CmpFindNameInList, then append a new value at the returned        *)
(* position or remove the one found.  The cell of the i-th value is i.    *)
(***************************************************************************)
EXTENDS Integers, Sequences, SequencesExt

CONSTANTS
    Chars, MaxLen, Versions, Upcase(_), None,
    ValueNames,     \* the names values are set, deleted and queried with
    MaxValues,      \* the longest value list
    HCELL_NIL

VARIABLES
    version,        \* the hive version
    valueList,      \* the value nodes of the list, in list order
    names,          \* the name each value was set with (history)
    search,         \* the last name queried
    found           \* what CmpFindValueByName returned for it

vars == <<version, valueList, names, search, found>>

LOCAL N == INSTANCE NameCodec WITH name <- <<>>, node <- None, result <- None

ASSUME ValueNames \subseteq N!Names /\ MaxValues \in Nat

\* Mutant: every name compared as a compressed one.
CompareValueName_IgnoreFlag(n, v) == N!CmpCompareCompressedName(n, v.name, v.len)

\* The comparison of one entry in CmpFindNameInList, by the value's encoding.
CompareValueName(n, v) ==
    IF v.comp THEN N!CmpCompareCompressedName(n, v.name, v.len)
    ELSE N!RtlCompareUnicodeString(n, N!FromWide(SubSeq(v.name, 1, v.len)))

\* Mutant: the list scanned without its last entry.
RECURSIVE FindFrom_SkipsLast(_, _, _)
FindFrom_SkipsLast(list, n, i) ==
    IF i >= Len(list) THEN [ok |-> TRUE, index |-> Len(list), cell |-> HCELL_NIL]
    ELSE IF CompareValueName(n, list[i]) = 0
         THEN [ok |-> TRUE, index |-> i - 1, cell |-> i]
    ELSE FindFrom_SkipsLast(list, n, i + 1)

\* Mutant: the cell of the entry after the one that matched.
RECURSIVE FindFrom_NextCell(_, _, _)
FindFrom_NextCell(list, n, i) ==
    IF i > Len(list) THEN [ok |-> TRUE, index |-> Len(list), cell |-> HCELL_NIL]
    ELSE IF CompareValueName(n, list[i]) = 0
         THEN [ok |-> TRUE, index |-> i - 1, cell |-> i + 1]
    ELSE FindFrom_NextCell(list, n, i + 1)

\* The loop of CmpFindNameInList from the i-th entry: the first entry whose
\* name compares equal, with its 0-based position; at the end of the list,
\* the position past it and HCELL_NIL.
RECURSIVE FindFrom(_, _, _)
FindFrom(list, n, i) ==
    IF i > Len(list) THEN [ok |-> TRUE, index |-> Len(list), cell |-> HCELL_NIL]
    ELSE IF CompareValueName(n, list[i]) = 0
         THEN [ok |-> TRUE, index |-> i - 1, cell |-> i]
    ELSE FindFrom(list, n, i + 1)

\* CmpFindNameInList (HvGetCell never fails on a hive in memory, so the
\* paths that return FALSE are not taken).
CmpFindNameInList(list, n) ==
    IF Len(list) # 0 THEN FindFrom(list, n, 1)
    ELSE [ok |-> TRUE, index |-> 0, cell |-> HCELL_NIL]

CmpFindValueByName(list, n) == CmpFindNameInList(list, n).cell

-----------------------------------------------------------------------------

Init ==
    /\ version \in Versions
    /\ valueList = <<>>
    /\ names = <<>>
    /\ search = None
    /\ found = None

\* Setting value n: a value found by the lookup is overwritten in place
\* (its data, which is not modelled); otherwise a new value node, its name
\* copied by CmpCopyName, is added at the position the lookup returned.
SetValue(n) ==
    LET r == CmpFindNameInList(valueList, n)
    IN  /\ r.cell = HCELL_NIL
        /\ Len(valueList) < MaxValues
        /\ valueList' = InsertAt(valueList, r.index + 1, N!KeyNode(version, n))
        /\ names' = InsertAt(names, r.index + 1, n)
        /\ search' = None
        /\ found' = None
        /\ UNCHANGED version

\* Deleting value n: the value the lookup found is removed from the list.
DeleteValue(n) ==
    LET r == CmpFindNameInList(valueList, n)
    IN  /\ r.cell # HCELL_NIL
        /\ valueList' = RemoveAt(valueList, r.index + 1)
        /\ names' = RemoveAt(names, r.index + 1)
        /\ search' = None
        /\ found' = None
        /\ UNCHANGED version

QueryValue(n) ==
    /\ search' = n
    /\ found' = CmpFindValueByName(valueList, n)
    /\ UNCHANGED <<version, valueList, names>>

Next == \E n \in ValueNames : SetValue(n) \/ DeleteValue(n) \/ QueryValue(n)

Spec == Init /\ [][Next]_vars

-----------------------------------------------------------------------------
(* Properties.                                                              *)

\* Two names the case-insensitive comparison finds equal.
SameName(a, b) == N!RtlCompareUnicodeString(a, b) = 0

TypeOK ==
    /\ version \in Versions
    /\ Len(valueList) = Len(names) /\ Len(valueList) <= MaxValues
    /\ names \in Seq(ValueNames)
    /\ search \in ValueNames \cup {None}
    /\ found \in 1..Len(valueList) \cup {HCELL_NIL, None}

\* No two values of a key have names that compare equal, whatever mix of
\* compressed and UTF-16 names the list holds: setting a value whose name
\* differs from an existing one only in case, or in the encoding it is
\* stored with, finds the existing one instead of adding a second.
ValueNamesDistinct ==
    \A i, j \in 1..Len(names) : i # j => ~SameName(names[i], names[j])

\* CmpFindValueByName returns the cell of the value set with a name equal
\* (ignoring case) to the one queried, and HCELL_NIL when there is none,
\* after any sequence of sets and deletes.
QueryAgrees ==
    search # None =>
        IF \E i \in 1..Len(names) : SameName(search, names[i])
        THEN found # HCELL_NIL /\ SameName(search, names[found])
        ELSE found = HCELL_NIL
=============================================================================
