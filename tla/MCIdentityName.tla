---------------------------- MODULE MCIdentityName ----------------------------
(* Lengths of 50, 8 and 63 become 5, 2 and 8; the prefix is one letter.      *)
EXTENDS IdentityName

MCLower  == {"a", "z"}
MCOthers == {"U"}
MCPrefix == <<"z">>

\* One label that is there, at one of two places, and two.
At(i, s)  == [j \in 1..4 |-> IF j = i THEN s ELSE <<>>]
MCPlain   == {<<"a">>, <<"a", "a", "a">>, <<"a", "-", "z", "a">>}
MCLabels  == {[j \in 1..4 |-> <<>>], At(1, <<"U">>), At(4, <<"a", "U", "a">>)}
                \union {At(i, s) : i \in {1, 4}, s \in MCPlain}
                \union {[At(2, <<"a">>) EXCEPT ![3] = <<"U">>]}
\* Dots inside, and one the cut ends with.
MCDotted  == {At(1, <<"a", ".", "a">>), At(1, <<"a", "a", ".", "a">>), At(2, <<"a">>)}
MCAllLabels == MCLabels \union MCDotted

MCNamespaces == {<<"a">>, <<"z", "-", "a">>}

\* Containers of users: none has the prefix, and the one of them that has.
MCLists     == {<<<<"a">>>>, <<<<"a">>, <<"a", "z">>>>}
MCLookalike == MCLists \union {<<<<"z", "a">>>>}

\* Two UIDs begin alike.
MCUids == {<<"a", "z", "-", "a">>, <<"a", "z", "-", "z">>, <<"z", "a", "-", "a">>}
=============================================================================
