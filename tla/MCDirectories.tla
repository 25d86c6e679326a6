---------------------------- MODULE MCDirectories ----------------------------
EXTENDS Directories

Dir(name) == [name |-> name, flag |-> 5, digits |-> <<0, 0>>, data |-> <<>>]
File(name, digits, data) ==
    [name |-> name, flag |-> 0, digits |-> digits, data |-> data]
Spells(name, digits) == [name |-> name, flag |-> 0, digits |-> digits]

Words == Spells(<<"words">>, <<>>)
Zeros == Spells(<<"">>, <<>>)
Shell == Spells(<<"bin", "sh">>, <<>>)

\* The archive of the build, cut down: a file comes first.  Sizes around the
\* block, with two octal digits that differ from their reading in base ten.
\* The contents spell names of files, and sizes.
MCRest == <<Dir(<<"lib", "">>), File(<<"lib", "crt">>, <<2, 0>>, <<Shell, Zeros>>),
            Dir(<<"test", "">>), Dir(<<"test", "lib", "">>),
            File(<<"test", "lib", "crt">>, <<1, 1>>, <<Zeros, Shell>>),
            Dir(<<"bin", "">>), File(<<"bin", "sh">>, <<1, 7>>, <<Shell, Words>>),
            File(<<"bin", "lib">>, <<0, 0>>, <<>>)>>

\* First files: words; sizes that lead from block to block or to the second
\* header, octal or not; and then such as mislead the walk, by a name, by
\* zeros, by a size that leads past the second header, or past all.
MCFirst == {<<Words, Words, Words>>,
            <<Spells(<<"lib">>, <<1>>), Shell, Words>>,
            <<Spells(<<"lib", "">>, <<1, 8>>), Shell, Zeros>>,
            <<Spells(<<"lib", "">>, <<9>>), Words, Words>>,
            <<Words, Spells(<<"">>, <<3>>), Words>>,
            <<Words, Words, Shell>>,
            <<Words, Spells(<<"words">>, <<2, 9>>), Words>>,
            <<Spells(<<"words">>, <<7, 7, 7>>), Words, Words>>}
MCArchives == {<<Dir(<<"etc", "">>)>> \o MCRest,
               <<File(<<"readme">>, <<0, 3>>, <<Words>>)>> \o MCRest,
               <<File(<<"readme">>, <<0, 0>>, <<>>)>> \o MCRest}
              \cup {<<File(<<"readme">>, <<2, 1>>, data)>> \o MCRest : data \in MCFirst}

MCComponents == {"", ".", "..", "lib", "crt", "none"}
MCPaths == UNION {[1 .. n -> MCComponents] : n \in 1 .. 3}
              \cup {<<"test">>, <<"bin", "">>, <<"test", "lib">>, <<"..", "bin">>,
                    <<"bin", "lib">>, <<"readme">>, <<"..", "test", "lib", "crt">>}
MCPrograms == {<<"bin", "sh">>, <<"lib", "crt">>, <<"test", "lib", "crt">>,
               <<"bin", "lib">>, <<"", "bin", "sh">>, <<"readme">>}
MCNameLen == [c \in {"", "rootfs", "lib", "test", "bin", "etc"} |->
                 CASE c = "" -> 0 [] c = "rootfs" -> 6 [] c = "test" -> 4 [] OTHER -> 3]
=============================================================================
