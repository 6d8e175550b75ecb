----------------------------- MODULE MC_NameCodec -----------------------------
EXTENDS NameCodec

\* 'A', 'Z', 'a', 'z', '{', 'É', 'é', 'ÿ' and 'Ÿ': letters of both cases
\* below and above 'z', a character above 'z' that upcase leaves alone, and
\* 'ÿ' (255, compressible) whose capital 'Ÿ' (376) is not.
MC_Chars == {65, 90, 97, 122, 123, 201, 233, 255, 376}

\* RtlUpcaseUnicodeChar on those characters (Unicode simple upper case).
MC_Upcase(c) ==
    IF c \in 97..122 \/ (c \in 224..254 /\ c # 247) THEN c - 32
    ELSE IF c = 255 THEN 376
    ELSE c

\* Version 1 stores names uncompressed; later versions compress.
MC_Versions == {1, 3}
=============================================================================
