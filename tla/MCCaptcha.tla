------------------------------- MODULE MCCaptcha -------------------------------
(* Instances of Captcha for TLC. *)
EXTENDS Captcha, TLC

CONSTANTS v1, v2, a, c1

Secret(value, padded) == [value |-> value, padded |-> padded]

\* The pairings of the two variables that the boot check tells apart.
AllConfigs ==
    [flag : {"unset", "on"},
     secret : {Secret("unset", FALSE), Secret("empty", FALSE), Secret("production", FALSE),
               Secret("production", TRUE), Secret("test", FALSE), Secret("test", TRUE),
               Secret("foreign", FALSE)}]
    \cup [flag : {"other"}, secret : {Secret("production", FALSE)}]

\* A secret of another site passes the boot check like this site's own.
ForeignConfigs ==
    [flag : {"unset"}, secret : {Secret("production", FALSE), Secret("foreign", FALSE)}]

Line(readable, elements) == [readable |-> readable, elements |-> elements]

\* Nothing; a made-up address, alone, before and after junk; bytes that are
\* no text; two lines.
SpoofedLines ==
    {<<>>, <<Line(TRUE, <<a>>)>>, <<Line(TRUE, <<a, "junk">>)>>, <<Line(TRUE, <<"junk", a>>)>>,
     <<Line(FALSE, <<a>>)>>, <<Line(TRUE, <<a>>), Line(FALSE, <<"junk">>)>>}

\* Visitors are interchangeable.
Symmetry == Permutations({v1, v2})
===============================================================================
