----------------------------- MODULE MC_ValueList -----------------------------
EXTENDS ValueList

MC_Chars == {65, 97, 122, 123, 255, 376}

\* RtlUpcaseUnicodeChar on those characters.
MC_Upcase(c) ==
    IF c \in 97..122 THEN c - 32 ELSE IF c = 255 THEN 376 ELSE c

\* "a" and "A"; "ÿ" (stored compressed) and its capital "Ÿ" (stored as
\* UTF-16); "aŸ" (UTF-16) and "Aÿ" (compressed), equal ignoring case; "z{".
MC_ValueNames == {<<97>>, <<65>>, <<255>>, <<376>>, <<97, 376>>, <<65, 255>>, <<122, 123>>}

MC_Versions == {1, 3}
=============================================================================
