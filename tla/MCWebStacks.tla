---------------------------- MODULE MCWebStacks ----------------------------
(* The stack editor of one page, for TLC: a text, the same text with a blank *)
(* line at its end, and a text of blanks.                                    *)
EXTENDS WebStacks, TLC

CONSTANTS text, raw, blank

AllTexts == {text, raw, blank}
Trim == [t \in AllTexts |-> IF t = blank THEN "" ELSE text]
=============================================================================
