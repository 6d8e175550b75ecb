----------------------------- MODULE MC_HiveLoad -----------------------------
(***************************************************************************)
(* HiveLoad over every file of up to MaxBlocks blocks the writer can       *)
(* produce from bins of one or two blocks, each holding up to MaxCells     *)
(* free or allocated cells, and over files damaged in one field: a bad    *)
(* header, a short Length, a bin with a bad signature or a Size that is   *)
(* not a multiple of the block size (the damage the loader checks for),   *)
(* and, for the runs that look for a violation, a bin Size of 0 or past  *)
(* the end of the file.                                                   *)
(***************************************************************************)
EXTENDS HiveLoad

MaxCells == 3

\* A bin of k blocks holds HBLOCK_SIZE * k - HBIN bytes of cells, each a
\* multiple of 16 bytes.
RECURSIVE Tilings(_, _)
Tilings(n, m) ==
    IF n = 0 THEN {<<>>}
    ELSE IF m = 0 THEN {}
    ELSE UNION {{<<c>> \o t : t \in Tilings(n - Magnitude(c), m - 1)} :
                    c \in {s \in {-16, 16, -32, 32, -48, 48, -96, 96} : Magnitude(s) <= n}}

BinLayouts ==
    UNION {{[size |-> HBLOCK_SIZE * k, cells |-> t] : t \in Tilings(HBLOCK_SIZE * k - HBIN, MaxCells)} : k \in 1..2}

LayoutsOf(n) ==
    {L \in UNION {[1..k -> BinLayouts] : k \in 1..n} :
        SumTo([i \in 1..Len(L) |-> L[i].size], Len(L)) <= n * HBLOCK_SIZE}

Intact == {Written(L) : L \in LayoutsOf(MaxBlocks)}

\* The damaged files are made from the smaller intact ones.
Small == {Written(L) : L \in LayoutsOf(2)}

BinsOf(img) == {b \in Blocks : img.bin[b].sig}
LastBin(img) == CHOOSE b \in BinsOf(img) : \A c \in BinsOf(img) : c <= b

Damaged(img, f(_)) == [f(img) EXCEPT !.intact = FALSE]

\* Damage the loader checks for.
Checked ==
    UNION {{Damaged(i, LAMBDA x : [x EXCEPT !.hdrOk = FALSE]),
            Damaged(i, LAMBDA x : [x EXCEPT !.length = HBLOCK_SIZE \div 2])}
           \cup {Damaged(i, LAMBDA x : [x EXCEPT !.bin[b].sig = FALSE]) : b \in BinsOf(i)}
           \cup {Damaged(i, LAMBDA x : [x EXCEPT !.bin[b].size = @ + 16]) : b \in BinsOf(i)}
           : i \in Small}

MC_Images == Intact \cup Checked

\* Damage the loader does not check for.
ZeroSize ==
    UNION {{Damaged(i, LAMBDA x : [x EXCEPT !.bin[b].size = 0]) : b \in BinsOf(i)} : i \in Small}

Oversized ==
    {Damaged(i, LAMBDA x : [x EXCEPT !.bin[LastBin(i)].size = @ + HBLOCK_SIZE]) : i \in Small}

=============================================================================
