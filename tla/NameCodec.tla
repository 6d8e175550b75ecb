------------------------------ MODULE NameCodec ------------------------------
(***************************************************************************)
(* Key names (sdk/lib/cmlib/cmname.c, compressedname.c, comparename.c,    *)
(* hashkey.c, cmindex.c).  A key node stores its name either as UTF-16    *)
(* (two bytes a character) or, when every character fits in a byte and   *)
(* the hive is newer than version 1, compressed to one byte a character   *)
(* with KEY_COMP_NAME set.  Lookups compare a search name with the stored *)
(* name case-insensitively, and hash leaves store CmpComputeHashKey of    *)
(* the name, which the hash lookup compares before the names.             *)
(*                                                                         *)
(* A name is a sequence of UTF-16 code units (integers); a stored name is *)
(* a sequence of bytes.  RtlUpcaseUnicodeChar is not part of this          *)
(* repository and is the parameter Upcase.                                 *)
(***************************************************************************)
EXTENDS Integers, Sequences

CONSTANTS
    Chars,          \* the UTF-16 code units names are made of
    MaxLen,         \* the longest name
    Versions,       \* the hive versions (Hive->Version)
    Upcase(_),      \* RtlUpcaseUnicodeChar
    None            \* no comparison made yet

VARIABLES
    version,        \* the version of the hive holding the key
    name,           \* the name the key was created with
    node,           \* the key node: [comp, name (bytes), len (NameLength), size]
    search,         \* the last search name compared with the key
    result          \* what CmpDoCompareKeyName returned for it

vars == <<version, name, node, search, result>>

Names == UNION {[1..n -> Chars] : n \in 0..MaxLen}

ASSUME Chars \subseteq 0..65535 /\ MaxLen \in Nat
ASSUME \A c \in Chars : Upcase(c) \in 0..65535

USHORT(x) == x % 2^16

\* CmpComputeHashKey computes modulo 2^32.  The hash of a name of MaxLen
\* characters is below 37^MaxLen * 2^16, which stays below 2^31 (the
\* largest integer TLC represents) for the bounds checked, so the wrap never
\* happens there and the sum is kept exact.
RECURSIVE Pow37(_)
Pow37(k) == IF k = 0 THEN 1 ELSE 37 * Pow37(k - 1)
ASSUME Pow37(MaxLen) * 65536 < 2^30

\* The bytes of a UTF-16 string in memory, and the string read back.
Wide(s) == [k \in 1..2 * Len(s) |-> IF k % 2 = 1 THEN s[(k + 1) \div 2] % 256
                                     ELSE s[k \div 2] \div 256]
FromWide(b) == [i \in 1..Len(b) \div 2 |-> b[2 * i - 1] + 256 * b[2 * i]]

-----------------------------------------------------------------------------
(* cmname.c                                                                *)

\* Mutant: a character of 255 taken as not compressible.
CmpNameSize_ByteThreshold(v, n) ==
    IF v = 1 \/ \E i \in 1..Len(n) : n[i] >= 255 THEN USHORT(2 * Len(n))
    ELSE USHORT(Len(n))

\* CmpNameSize: the bytes the stored name takes.
CmpNameSize(v, n) ==
    IF v = 1 \/ \E i \in 1..Len(n) : n[i] > 255 THEN USHORT(2 * Len(n))
    ELSE USHORT(Len(n))

\* CmpCopyName: the stored bytes and the length returned.  The bytes
\* written before a character above 255 is met are overwritten by the
\* full copy.
CmpCopyName(v, n) ==
    IF v = 1 \/ \E i \in 1..Len(n) : n[i] > 255
    THEN [dest |-> Wide(n), ret |-> USHORT(2 * Len(n))]
    ELSE [dest |-> n, ret |-> USHORT(Len(n))]

-----------------------------------------------------------------------------
(* compressedname.c                                                        *)

\* Mutant: the size in characters rather than in bytes.
CmpCompressedNameSize_NoWiden(b, length) == USHORT(length)

\* CmpCompressedNameSize: (USHORT)Length * sizeof(WCHAR), returned as USHORT.
CmpCompressedNameSize(b, length) == USHORT(USHORT(length) * 2)

\* CmpCopyCompressedName: each byte widened, up to the destination size.
CmpCopyCompressedName(destLength, b, sourceLength) ==
    LET n == IF destLength \div 2 < sourceLength THEN destLength \div 2 ELSE sourceLength
    IN [i \in 1..n |-> b[i]]

-----------------------------------------------------------------------------
(* comparename.c                                                           *)

\* Mutant: characters that differ compared without upcasing them.
RECURSIVE CompareFrom_NoUpcase(_, _, _, _, _)
CompareFrom_NoUpcase(s, b, i, sl, nl) ==
    IF sl > 0 /\ nl > 0
    THEN IF s[i] # b[i] THEN s[i] - b[i]
         ELSE CompareFrom_NoUpcase(s, b, i + 1, sl - 1, nl - 1)
    ELSE sl - nl

\* The loop of CmpCompareCompressedName from the i-th character, with sl
\* characters of the search name and nl bytes of the stored name left.
RECURSIVE CompareFrom(_, _, _, _, _)
CompareFrom(s, b, i, sl, nl) ==
    IF sl > 0 /\ nl > 0
    THEN IF s[i] # b[i] /\ Upcase(s[i]) - Upcase(b[i]) # 0
         THEN Upcase(s[i]) - Upcase(b[i])
         ELSE CompareFrom(s, b, i + 1, sl - 1, nl - 1)
    ELSE sl - nl    \* USHORT - ULONG, back to LONG: the exact difference

CmpCompareCompressedName(s, b, nameLength) == CompareFrom(s, b, 1, Len(s), nameLength)

\* RtlCompareUnicodeString(s1, s2, TRUE) (not in this repository): the
\* difference of the first pair of upcased characters that differ, else the
\* difference of the lengths.
RECURSIVE RtlCompareFrom(_, _, _)
RtlCompareFrom(s1, s2, i) ==
    IF i > Len(s1) \/ i > Len(s2) THEN 2 * Len(s1) - 2 * Len(s2)
    ELSE IF Upcase(s1[i]) # Upcase(s2[i]) THEN Upcase(s1[i]) - Upcase(s2[i])
    ELSE RtlCompareFrom(s1, s2, i + 1)

RtlCompareUnicodeString(s1, s2) == RtlCompareFrom(s1, s2, 1)

Sign(x) == IF x = 0 THEN 0 ELSE IF x > 0 THEN 1 ELSE -1

\* Mutant: the comparison result returned without normalising it.
CmpDoCompareKeyName_Raw(s, k) ==
    IF k.comp THEN CmpCompareCompressedName(s, k.name, k.len)
    ELSE RtlCompareUnicodeString(s, FromWide(SubSeq(k.name, 1, k.len)))

\* CmpDoCompareKeyName: compare the search name with the node's name, by
\* its encoding, and normalise the result to -1, 0 or 1.
CmpDoCompareKeyName(s, k) ==
    Sign(IF k.comp THEN CmpCompareCompressedName(s, k.name, k.len)
         ELSE RtlCompareUnicodeString(s, FromWide(SubSeq(k.name, 1, k.len))))

-----------------------------------------------------------------------------
(* hashkey.c                                                               *)

\* Mutant: every character from 'a' up upcased by hand.
HashValue_NoApi(c) == IF c >= 97 THEN c - 97 + 65 ELSE c

\* The value CmpComputeHashKey adds for a character: a-y upcased by hand,
\* other characters from 'a' up by RtlUpcaseUnicodeChar, the rest as is.
HashValue(c) ==
    IF c >= 97 THEN IF c < 122 THEN c - 97 + 65 ELSE Upcase(c)
    ELSE c

RECURSIVE HashFrom(_, _, _)
HashFrom(h, n, i) ==
    IF i > Len(n) THEN h
    ELSE HashFrom(h * 37 + HashValue(n[i]), n, i + 1)

CmpComputeHashKey(hash, n) == IF Len(n) = 0 THEN hash ELSE HashFrom(hash, n, 1)

-----------------------------------------------------------------------------
(* cmindex.c                                                               *)

\* The name of a key node as CmpFindSubKeyInLeaf, CmpAddSubKey and
\* CmpRemoveSubKey build it: a compressed name widened into a buffer of
\* CmpCompressedNameSize bytes, an uncompressed one used in place.
KeyName(k) ==
    IF k.comp
    THEN LET size == CmpCompressedNameSize(k.name, k.len)
         IN SubSeq(CmpCopyCompressedName(size, k.name, k.len), 1, size \div 2)
    ELSE FromWide(SubSeq(k.name, 1, k.len))

\* A key node created with name n (the creating code is not in this
\* repository): the cell holds CmpNameSize bytes, CmpCopyName fills it and
\* gives NameLength, and KEY_COMP_NAME is set when that is less than the
\* UTF-16 length.
KeyNode(v, n) ==
    LET c == CmpCopyName(v, n)
    IN [comp |-> c.ret < 2 * Len(n), name |-> c.dest, len |-> c.ret, size |-> CmpNameSize(v, n)]

-----------------------------------------------------------------------------
(* A key is created in a hive of some version; names are compared with it. *)

Init ==
    /\ version \in Versions
    /\ name \in Names
    /\ node = KeyNode(version, name)
    /\ search = None
    /\ result = None

CreateKey(n) ==
    /\ name' = n
    /\ node' = KeyNode(version, n)
    /\ search' = None
    /\ result' = None
    /\ UNCHANGED version

CompareKeyName(s) ==
    /\ search' = s
    /\ result' = CmpDoCompareKeyName(s, node)
    /\ UNCHANGED <<version, name, node>>

Next == \E n \in Names : CreateKey(n) \/ CompareKeyName(n)

Spec == Init /\ [][Next]_vars

-----------------------------------------------------------------------------
(* Properties.                                                              *)

TypeOK ==
    /\ version \in Versions
    /\ name \in Names
    /\ node.name \in Seq(0..255)
    /\ search \in Names \cup {None}
    /\ result \in {-1, 0, 1, None}

\* The cell allocated by CmpNameSize is exactly what CmpCopyName writes:
\* the two functions decide compression by the same test.
NodeSizeAgrees == node.size = node.len /\ node.len = Len(node.name)

\* The name read back from a key node (widening a compressed one with
\* CmpCompressedNameSize and CmpCopyCompressedName) is the name it was
\* created with.
NameRoundTrip == KeyName(node) = name

\* Comparing with a stored name, compressed or not, orders names as a
\* case-insensitive comparison of the original names does.
CompareAgrees ==
    result # None => result = Sign(RtlCompareUnicodeString(search, name))

\* A search name equal to the key's name has the same hash as the name the
\* index rebuilds from the node, so a hash-leaf lookup, which compares the
\* hashes first, finds the key.
HashAgrees ==
    result = 0 => CmpComputeHashKey(0, search) = CmpComputeHashKey(0, KeyName(node))
=============================================================================
