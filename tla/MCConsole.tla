------------------------------ MODULE MCConsole ------------------------------
EXTENDS Console

MCCharacters == {" ", "\n", "a", "b", "@"}

\* A full row, one past the edge, two lines, and a prompt.
MCTexts == {<<"a", "b">>, <<"b", "a", "b">>, <<"b", "\n">>, <<"@">>}
\* Zeros, or another text.
MCBehinds == {<<>>, <<"a">>}
\* One line each, some longer than a row, and a prompt.
MCLines == {<<"a", "b">>, <<"b", "a", "b", "a">>, <<"@">>}
=============================================================================
