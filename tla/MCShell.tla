------------------------------- MODULE MCShell -------------------------------
EXTENDS Shell

MCLetters == [w \in {"rootfs", "sbush", "a", "bb", "ccc", ""} |->
                 CASE w = "" -> <<>> [] w = "rootfs" -> <<"r">> [] w = "sbush" -> <<"$">>
                   [] w = "a" -> <<"a">> [] w = "bb" -> <<"b", "b">>
                   [] OTHER -> <<"c", "c", "c">>]
MCScriptOf == [w \in {"./s", "./t", "./b", "./long", "./none"} |->
                  CASE w = "./s" -> "s" [] w = "./t" -> "t" [] w = "./b" -> "b"
                    [] w = "./long" -> "long" [] OTHER -> "none"]
\* Scripts with lines before the shebang, with one that reads a line, with
\* a blank line; text without a shebang; a long file.
MCFiles == [f \in {"s", "t", "b", "text", "long"} |->
               CASE f = "s" -> <<<<"x">>, Shebang, <<"export", "$PATH", "a">>,
                                 <<"cat", "none">>, <<"cd", "lib">>, <<"ls">>>>
                 [] f = "t" -> <<<<"ls">>>>
                 [] f = "b" -> <<Shebang, <<"ls">>, <<"">>, <<"ps">>>>
                 [] OTHER -> <<<<"text">>>>]
MCSeconds == [w \in {"1", "4", "6"} |->
                 CASE w = "1" -> 1 [] w = "4" -> 4 [] OTHER -> 6]
MCLines == {<<"">>, <<"cd">>, <<"cd", "lib">>, <<"cd", "", "lib">>, <<"", "ls">>,
            <<"ls">>, <<"ls", "bin">>, <<"cat", "text">>, <<"cat", "none">>,
            <<"cat">>, <<"cat", "long">>, <<"pwd">>, <<"exit">>, <<"echo">>,
            <<"echo", "bb", "ccc">>, <<"echo", "$PATH">>, <<"echo", "$PS1">>,
            <<"echo", "$none">>, <<"export">>, <<"export", "$PATH">>,
            <<"export", "$PATH", "a">>, <<"export", "$PATH", "bb">>,
            <<"export", "$PS1", "ccc">>, <<"export", "x", "a">>,
            <<"export", "$PATH", "", "ccc">>, <<"export", "$PATH", "", "">>,
            <<"EXPORT", "$path", "a">>, <<"echo", "$ps1">>,
            <<"sleep">>, <<"sleep", "1">>, <<"sleep", "4">>, <<"sleep", "6">>,
            <<"a|b">>, <<"a&", "x">>, <<"clear">>, <<"x", "">>,
            <<"./s">>, <<"./t">>, <<"./b">>, <<"./long">>, <<"./none">>, Shebang}
=============================================================================
