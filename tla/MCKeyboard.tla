----------------------------- MODULE MCKeyboard -----------------------------
(***************************************************************************)
(* A scan buffer of two cells and keys of every kind: an ordinary one, the *)
(* comma and the period it falls through to, the space bar (whose shifted  *)
(* character is NUL), Escape and Backspace.                                *)
(***************************************************************************)
EXTENDS Keyboard

MCKey == {"a", ",", ".", "space", "esc", "bs"}

MCPlain == [k \in MCKey |->
    CASE k = "space" -> " " [] k = "esc" -> "ESC" [] k = "bs" -> "BS" [] OTHER -> k]

MCShifted == [k \in MCKey |->
    CASE k = "a" -> "A" [] k = "," -> "<" [] k = "." -> ">"
      [] k = "space" -> "NUL" [] k = "esc" -> "junk" [] k = "bs" -> "junk"]

MCChar == {"NUL"} \cup {MCPlain[k] : k \in MCKey} \cup {MCShifted[k] : k \in MCKey}
=============================================================================
