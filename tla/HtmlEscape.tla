------------------------------ MODULE HtmlEscape ------------------------------
(***************************************************************************)
(* What src/libs/html_escape.rs and CrackMatch::plaintext_html (cracking.rs)*)
(* make of a word before it goes, unescaped, into a table cell.            *)
(*                                                                         *)
(* A text is a sequence of elements: characters, and the strings the code  *)
(* writes in one piece (an entity, the two digits of a byte, a label).     *)
(***************************************************************************)
EXTENDS Integers, Sequences, FiniteSets, FiniteSetsExt, SequencesExt

\* What a word is made of: "x" stands for every character that means nothing
\* to the code or to a browser, "bad" for a byte that is no UTF-8.
Characters == {"TAB", "CR", "LF", " ", "&", "<", ">", "\"", "'", "x", "bad"}

LineEnds == {"CR", "LF"}

\* What the browser takes for white space that it may collapse.
Blanks == {" ", "TAB"} \cup LineEnds

\* What opens a tag, an entity or an attribute.
Markup == {"<", ">", "&", "\"", "'"}

TabWidth == 8

\* How many characters an element stands for.
Width(element) ==
    CASE element = "Binary data:" -> 12
      [] element \in {"09", "0a", "0d", "20", "22", "26", "27", "3c", "3e", "78", "ff"} -> 2
      [] OTHER -> 1

-----------------------------------------------------------------------------
(* The steps of escape_text, in its order; br_tags is false in the only     *)
(* call there is.                                                           *)

NextTabStop(column) == column + TabWidth - (column % TabWidth)

\* The cursor after i elements.
Cursor(text) ==
    LET cursor[i \in 0..Len(text)] ==
            IF i = 0 \/ text[i] \in LineEnds THEN 0
            ELSE IF text[i] = "TAB" THEN NextTabStop(cursor[i - 1])
            ELSE cursor[i - 1] + Width(text[i])
    IN  cursor

Spaces(n) == [i \in 1..n |-> " "]

tabs_to_spaces(text) ==
    LET cursor == Cursor(text) IN
    FlattenSeq([i \in DOMAIN text |->
                   IF text[i] = "TAB" THEN Spaces(cursor[i] - cursor[i - 1]) ELSE <<text[i]>>])

\* Mutant: htmlspecialchars without ENT_QUOTES.
html_special_chars_NoQuotes(text) ==
    [i \in DOMAIN text |->
        CASE text[i] = "&" -> "&amp;" [] text[i] = "<" -> "&lt;" [] text[i] = ">" -> "&gt;"
          [] OTHER -> text[i]]

html_special_chars(text) ==
    [i \in DOMAIN text |->
        CASE text[i] = "&"  -> "&amp;"
          [] text[i] = "<"  -> "&lt;"
          [] text[i] = ">"  -> "&gt;"
          [] text[i] = "\"" -> "&quot;"
          [] text[i] = "'"  -> "&#039;"
          [] OTHER          -> text[i]]

\* The elements at which holds are replaced by the entity of a fixed space.
Fix(text, at) == [i \in DOMAIN text |-> IF i \in at THEN "&nbsp;" ELSE text[i]]

\* How many spaces stand directly before element i.
SpacesBefore(text, i) == i - 1 - Max({0} \cup {j \in 1..(i - 1) : text[j] # " "})

\* replace("  ", " &nbsp;"): the second space of each pair, from the left.
SecondSpaces(text) == {i \in DOMAIN text : text[i] = " " /\ SpacesBefore(text, i) % 2 = 1}

LeadingSpaces(text) ==
    {i \in DOMAIN text : text[i] = " " /\ (i = 1 \/ text[i - 1] = "LF")}

TrailingSpaces(text) ==
    {i \in DOMAIN text : text[i] = " " /\ i < Len(text) /\ text[i + 1] \in LineEnds}

FixDoubles(text)  == Fix(text, SecondSpaces(text))
replace_leading_spaces(text) == Fix(text, LeadingSpaces(text))
FixTrailing(text) == Fix(text, TrailingSpaces(text))

escape_text(text) ==
    FixTrailing(replace_leading_spaces(FixDoubles(html_special_chars(tabs_to_spaces(text)))))

-----------------------------------------------------------------------------
(* The cell's content: a space that ends the text is fixed as well.         *)

LastSpace(text) == {i \in DOMAIN text : i = Len(text) /\ text[i] = " "}

\* Mutant: the text as escape_text leaves it.
plaintext_html_Escaped(text) == escape_text(text)

plaintext_html(text) == Fix(escape_text(text), LastSpace(escape_text(text)))

\* hex::encode of one character's byte.
hex(byte) ==
    CASE byte = "TAB" -> "09" [] byte = "LF" -> "0a" [] byte = "CR" -> "0d" [] byte = " " -> "20"
      [] byte = "\"" -> "22" [] byte = "&" -> "26" [] byte = "'" -> "27" [] byte = "<" -> "3c"
      [] byte = ">" -> "3e" [] byte = "x" -> "78" [] byte = "bad" -> "ff"

\* A word as text: itself when it is UTF-8, else its bytes in hex and, in
\* parentheses, the word with the replacement character.
display_plaintext(word) ==
    IF \A i \in DOMAIN word : word[i] # "bad" THEN word
    ELSE <<"Binary data:", " ">> \o [i \in DOMAIN word |-> hex(word[i])] \o <<" ", "(">>
         \o [i \in DOMAIN word |-> IF word[i] = "bad" THEN "U+FFFD" ELSE word[i]] \o <<")">>

-----------------------------------------------------------------------------
(* The references: what a text editor and what a browser show.  A screen is *)
(* the visible elements with the columns they begin at, and its width.      *)

Decoded(element) ==
    CASE element = "&amp;"  -> "&"
      [] element = "&lt;"   -> "<"
      [] element = "&gt;"   -> ">"
      [] element = "&quot;" -> "\""
      [] element = "&#039;" -> "'"
      [] OTHER              -> element

\* An editor: a tab goes to the least multiple of the tab width beyond it.
Editor(word) ==
    LET column[i \in 0..Len(word)] ==
            IF i = 0 THEN 0
            ELSE IF word[i] = "TAB"
                 THEN Min({n \in (column[i - 1] + 1)..(column[i - 1] + TabWidth) : n % TabWidth = 0})
            ELSE column[i - 1] + 1
    IN  [visible |-> {<<column[i - 1], word[i]>> : i \in {j \in DOMAIN word : word[j] \notin Blanks}},
         width   |-> column[Len(word)]]

\* A cell with white-space: nowrap: a run of blanks is one space, and none at
\* either end of the cell.
Browser(cell) ==
    LET solid  == {i \in DOMAIN cell : cell[i] \notin Blanks}
        drawn  == solid \cup {i \in DOMAIN cell \ solid :
                                 /\ i - 1 \in solid
                                 /\ \E j \in solid : i < j}
        column(i) == MapThenSumSet(LAMBDA j : Width(cell[j]), {j \in drawn : j < i})
    IN  [visible |-> {<<column(i), Decoded(cell[i])>> : i \in {j \in solid : cell[j] # "&nbsp;"}},
         width   |-> column(Len(cell) + 1)]
===============================================================================
