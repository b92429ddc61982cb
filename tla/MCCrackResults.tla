---------------------------- MODULE MCCrackResults ----------------------------
(* Instances of CrackResults for TLC. *)
EXTENDS CrackResults

Entry(word, digest) == [word |-> word, digest |-> digest]

Texts(chars, n) == UNION {[1..k -> chars] : k \in 0..n}

aaaa == <<"a", "a", "a", "a">>
aabb == <<"a", "a", "b", "b">>
aaba == <<"a", "a", "b", "a">>
bbbb == <<"b", "b", "b", "b">>

\* Every text of up to five characters, against a table with one word: all
\* conventions for line ends, blanks and stars in every place, too many lines.
Parsing ==
    [tables |-> <<{Entry(<<"x">>, aaaa)}>>,
     texts  |-> Texts({"a", "x", " ", "*", "CR", "LF"}, 5)]

\* Hashes on which the tables differ: full, short, long, odd, in upper case.
Queries ==
    {aaaa, aabb, bbbb, <<"a", "a">>, <<"A", "A", "B", "B">>, <<"a", "A", "A", "b">>,
     aaaa \o <<"a", "a">>, <<"b", "a", "a", "a">>, <<"a", "a", "a">>, <<"a", "a", "x", "x">>}

\* Two tables, whose blocks for the prefix aa hold two and three words.
Looking ==
    [tables |-> <<{Entry(<<"x">>, aabb), Entry(<<"x", "x">>, aaba)},
                  {Entry(<<" ">>, aaaa), Entry(<<"<">>, aaaa), Entry(<<"x", "<">>, aaba),
                   Entry(<<"bad">>, bbbb)}>>,
     texts  |-> Queries \cup {p \o <<"LF">> \o q : p, q \in Queries}]

\* One word of up to four characters, found whole and by its prefix.
Showing ==
    {[tables |-> <<{Entry(word, aaaa)}>>, texts |-> {aaaa, <<"a", "a">>}] :
        word \in Texts({" ", "TAB", "x", "<", "bad", "CR"}, 4)}

AllServices == {Parsing, Looking} \cup Showing \cup
    {[tables |-> <<{Entry(<<c>>, aaaa)}>>, texts |-> {aaaa}] : c \in Markup}
===============================================================================
