-------------------------------- MODULE Shell --------------------------------
(***************************************************************************)
(* The shell, bin/sbush/sbush.c: the prompt loop of main, its tokenizer,   *)
(* the commands of execute_binaries, the interpreter of scripts, the two   *)
(* variables of envvars, and what gets, open and read of libc add.         *)
(*                                                                         *)
(* A line is its words: they are separated by single spaces, so two spaces *)
(* leave the word "" between them.  A command is one step; a script is one *)
(* step per line.  What the kernel does with the calls is the matter of    *)
(* Directories, Console, Keyboard, FileTable and Process.                  *)
(*                                                                         *)
(* envvars is memory: path[20] with PS1[30] right behind it.  A use of     *)
(* NULL, by the shell or by the kernel for it, stops the machine.          *)
(***************************************************************************)
EXTENDS Integers, Sequences, SequencesExt

CONSTANTS Lines,      \* what is typed: sequences of words
          Letters,    \* the characters of a word that is exported
          ScriptOf,   \* the file a word "./..." names
          Files,      \* lines of the files there are
          Long,       \* files as long as the buffer in read (100) or longer
          Seconds,    \* the number a word is
          PATHCAP, PS1CAP, SLACK,  \* cells of path, PS1, and of what we follow behind
          PERSEC, WORD,  \* counts for a second; 2^32
          Semicolon, EndMark

Shebang == <<"#!rootfs/bin/sbush">>
Cells == 0 .. PATHCAP + PS1CAP + SLACK - 1
Never == -1

\* The commands and the variables that have two spellings.
Exporting == {"export", "EXPORT"}
PathNames == {"$PATH", "$path"}
PS1Names == {"$PS1", "$ps1"}

\* The lines there are, and what they export: a value, and behind an empty
\* one the next word.
AllLines == Lines \cup UNION {ToSet(Files[f]) : f \in DOMAIN Files}
ExportLines(n) == {l \in AllLines : Len(l) >= n /\ l[1] \in Exporting}
Values == {l[3] : l \in ExportLines(3)} \cup {l[4] : l \in {k \in ExportLines(4) : k[3] = ""}}

\* A value is a C string, and fits in what is followed behind PS1.
IsValue(w) ==
    /\ w \in DOMAIN Letters
    /\ Letters[w] \in Seq(STRING) /\ Len(Letters[w]) < PS1CAP + SLACK
    /\ \A i \in DOMAIN Letters[w] : Letters[w][i] # EndMark

ShellConstants ==
    /\ PATHCAP \in Nat /\ PS1CAP \in Nat /\ SLACK \in Nat
    /\ PERSEC \in Nat /\ WORD \in Nat \ {0}
    /\ AllLines \subseteq Seq(STRING)
    /\ \A f \in DOMAIN Files : Files[f] \in Seq(AllLines)
    /\ EndMark \in STRING /\ Semicolon \in STRING \ {EndMark}
    /\ \A w \in Values \cup {"rootfs", "sbush"} : IsValue(w)
ASSUME ShellAssumption == ShellConstants

VARIABLES pc,       \* what the shell is at
          tokens,   \* the words of the command
          mode,     \* "line" or "script": where the command stands
          script,   \* the lines of the script that are left
          env,      \* the memory of envvars
          did,      \* the commands since the prompt, each with what it led to
          prompt,   \* the prompt that is shown
          source,   \* ghost: the lines read as a script
          exported  \* ghost: what path is with all that was exported, the
                    \* last value for PS1, and how far the copies for path
                    \* would have gone

shellVars == <<pc, tokens, mode, script, env, did, prompt, source, exported>>

\* tokenize_input: the pieces between separators, but no last one that is
\* empty.
tokenize_input(pieces) ==
    IF pieces # <<>> /\ Last(pieces) = "" THEN Front(pieces) ELSE pieces

\* Strings in the memory of envvars.
EndOf(e, at) ==
    CHOOSE j \in Cells : /\ j >= at /\ e[j] = EndMark
                         /\ \A k \in at .. j - 1 : e[k] # EndMark
TextAt(e, at) == [k \in 1 .. EndOf(e, at) - at |-> e[at + k - 1]]
strcpy1(e, at, s) ==
    [j \in Cells |-> IF j \in at .. at + Len(s) - 1 THEN s[j - at + 1]
                     ELSE IF j = at + Len(s) THEN EndMark ELSE e[j]]

\* strcat copies before it looks for the NUL: of an empty string it copies the
\* NUL, and then what lies behind it up to the next one.
Copied(s, behind) == IF s = <<>> THEN <<EndMark>> \o behind ELSE s
strcat(e, at, s, behind) == strcpy1(e, EndOf(e, at), Copied(s, behind))

Path == 0
PS1 == PATHCAP

\* Mutant: the value replaces the path.
setenv_Replaces(e, name, value, behind) ==
    IF name \in PathNames THEN strcpy1(strcpy1(e, Path, <<Semicolon>>), Path, value)
    ELSE IF name \in PS1Names THEN strcpy1(e, PS1, value) ELSE e

\* setenv: a path is appended after a semicolon, with no look at the room.
setenv(e, name, value, behind) ==
    IF name \in PathNames
    THEN strcat(strcat(e, Path, <<Semicolon>>, <<>>), Path, value, behind)
    ELSE IF name \in PS1Names THEN strcpy1(e, PS1, value) ELSE e

\* mysleep: the product as an int, then widened: how far the loop counts.
counts(time) ==
    LET product == (PERSEC * time) % WORD
    IN  IF product < WORD \div 2 THEN product ELSE Never

ShellInit ==
    /\ pc = "prompt"
    /\ tokens = <<>> /\ mode = "line" /\ script = <<>> /\ did = <<>>
    /\ env = strcpy1(strcpy1([j \in Cells |-> EndMark], Path, Letters["rootfs"]),
                     PS1, Letters["sbush"])
    /\ prompt = <<>>
    /\ source = <<>>
    /\ exported = [path |-> Letters["rootfs"], ps1 |-> "sbush",
                   reach |-> Len(Letters["rootfs"])]

\* main: the prompt.
ShowPrompt ==
    /\ pc = "prompt"
    /\ prompt' = TextAt(env, PS1)
    /\ pc' = "gets" /\ mode' = "line" /\ did' = <<>> /\ source' = <<>>
    /\ UNCHANGED <<tokens, script, env, exported>>

\* gets and the tokenizer.  An empty line is not looked at.
Gets(line) ==
    /\ pc = "gets"
    /\ tokens' = tokenize_input(line)
    /\ pc' = IF line = <<"">> THEN "prompt" ELSE "run"
    /\ UNCHANGED <<mode, script, env, did, prompt, source, exported>>

\* A command has led to that; where the shell goes on.
Back == IF mode = "script" THEN "script" ELSE "prompt"
Did(what) == did' = Append(did, [tokens |-> tokens, what |-> what])
Does(what) ==
    /\ Did(what) /\ pc' = Back
    /\ UNCHANGED <<tokens, mode, script, env, prompt, source, exported>>
Ends(how) ==
    /\ pc' = how
    /\ UNCHANGED <<tokens, mode, script, env, did, prompt, source, exported>>

Arg(i) == IF i \in DOMAIN tokens THEN tokens[i] ELSE "NULL"

\* What lies behind the NUL of an empty word: the next word of the line.
Behind(word, next) == IF word # "" \/ next = "NULL" THEN <<>> ELSE Letters[next]

\* cat: open answers 0 for a missing file, so that read waits for a line
\* that is typed; read's own buffer is overrun by a long file.
Cat ==
    /\ Arg(1) = "cat"
    /\ IF Len(tokens) # 2 THEN Does("usage")
       ELSE IF Arg(2) \notin DOMAIN Files THEN Ends("readCat")
       ELSE IF Arg(2) \in Long THEN Ends("astray")
       ELSE Does(Files[Arg(2)])

Sleep ==
    /\ Arg(1) = "sleep"
    /\ IF Len(tokens) = 1 THEN Does("usage")
       ELSE IF counts(Seconds[Arg(2)]) = Never THEN Ends("sleeps")
       ELSE Does([count |-> counts(Seconds[Arg(2)])])

\* The ghost of an export: path has the value behind a semicolon.
Exports(name, word, behind) ==
    IF name \in PathNames
    THEN LET end == Len(exported.path) + 1 + Len(Copied(Letters[word], behind))
         IN  [exported EXCEPT !.path = @ \o <<Semicolon>> \o Letters[word],
                              !.reach = IF end > @ THEN end ELSE @]
    ELSE [exported EXCEPT !.ps1 = word]

\* export.  Bound: the strings end in the memory that is followed.
Export ==
    /\ Arg(1) \in Exporting
    /\ IF "NULL" \in {Arg(2), Arg(3)} /\ Arg(2) \in {"NULL"} \cup PathNames \cup PS1Names
       THEN Ends("halted")
       ELSE IF Arg(2) \notin PathNames \cup PS1Names THEN Does("usage")
       ELSE /\ env' = setenv(env, Arg(2), Letters[Arg(3)], Behind(Arg(3), Arg(4)))
            /\ exported' = Exports(Arg(2), Arg(3), Behind(Arg(3), Arg(4)))
            /\ Did("export") /\ pc' = Back
            /\ UNCHANGED <<tokens, mode, script, prompt, source>>

\* echo: a variable, or the words; puts(NULL) after an unknown variable.
Echo ==
    /\ Arg(1) = "echo"
    /\ IF Arg(2) \in {"NULL", "$none"} THEN Ends("halted")
       ELSE Does(CASE Arg(2) \in PathNames -> TextAt(env, Path)
                   [] Arg(2) \in PS1Names -> TextAt(env, PS1)
                   [] OTHER -> Tail(tokens))

\* ls, ps and clear are one system call; what is not known is ignored.
Call ==
    /\ Arg(1) \notin {"cat", "sleep", "echo", "NULL"} \cup Exporting
    /\ Does(CASE Arg(1) \in {"ps", "clear"} -> Arg(1)
              [] Arg(1) = "ls" -> <<"readdir", IF Len(tokens) = 1 THEN "" ELSE Arg(2)>>
              [] OTHER -> "nothing")

\* execute_binaries, of no word too.
execute_binaries ==
    \/ Cat \/ Sleep \/ Export \/ Echo \/ Call
    \/ Arg(1) = "NULL" /\ Ends("halted")

\* change_directory; of NULL in a script, and of "" the kernel stops.
change_directory(dir) ==
    IF dir \in {"NULL", ""} THEN Ends("halted") ELSE Does(<<"chdir", dir>>)

\* parse_scripts, of what was read: it is shown and cut into lines.
ReadScript(lines) ==
    /\ Did(lines)
    /\ script' = lines
    /\ source' = lines
    /\ pc' = "shebang"
    /\ UNCHANGED <<tokens, mode, env, prompt, exported>>

\* The words that main looks at before execute_binaries.
RunLine ==
    /\ pc = "run"
    /\ CASE Arg(1) = "cd" ->
                change_directory(IF Len(tokens) = 1 THEN "./" ELSE Arg(2))
         [] Arg(1) \in DOMAIN ScriptOf ->
                IF ScriptOf[Arg(1)] \notin DOMAIN Files THEN Ends("readScript")
                ELSE IF ScriptOf[Arg(1)] \in Long THEN Ends("astray")
                ELSE ReadScript(Files[ScriptOf[Arg(1)]])
         [] Arg(1) = "exit" -> Ends("exited")
         [] Arg(1) \in {"a|b", "a&"} -> Ends("forked")
         [] Arg(1) = "pwd" -> Does("pwd")
         [] OTHER -> execute_binaries

\* read of the keyboard in place of a missing file.
ReadTyped(line) ==
    \/ pc = "readCat" /\ Does(<<line>>)
    \/ pc = "readScript" /\ ReadScript(IF line = <<"">> THEN <<>> ELSE <<line>>)

\* Mutant: the line of the shebang is run too.
FindShebang_Runs ==
    /\ pc = "shebang"
    /\ script # <<>>
    /\ pc' = IF Head(script) = Shebang THEN "script" ELSE "shebang"
    /\ mode' = IF Head(script) = Shebang THEN "script" ELSE "line"
    /\ script' = IF Head(script) = Shebang THEN script ELSE Tail(script)
    /\ UNCHANGED <<tokens, env, did, prompt, source, exported>>

\* Mutant: the search looks at the first line again and again.
FindShebang_Stays ==
    /\ pc = "shebang"
    /\ script # <<>>
    /\ pc' = IF Head(script) = Shebang THEN "script" ELSE "shebang"
    /\ mode' = IF Head(script) = Shebang THEN "script" ELSE "line"
    /\ script' = IF Head(script) = Shebang THEN Tail(script) ELSE script
    /\ UNCHANGED <<tokens, env, did, prompt, source, exported>>

\* execute_scripts: skip the lines before the shebang, and it.
FindShebang ==
    /\ pc = "shebang"
    /\ script # <<>>
    /\ pc' = IF Head(script) = Shebang THEN "script" ELSE "shebang"
    /\ mode' = IF Head(script) = Shebang THEN "script" ELSE "line"
    /\ script' = Tail(script)
    /\ UNCHANGED <<tokens, env, did, prompt, source, exported>>

\* No shebang: the end of the list is compared with it.
NoShebang == pc = "shebang" /\ script = <<>> /\ Ends("halted")

\* execute_scripts: the next line.
NextLine ==
    /\ pc = "script"
    /\ script # <<>>
    /\ tokens' = tokenize_input(Head(script))
    /\ script' = Tail(script)
    /\ pc' = "runScript"
    /\ UNCHANGED <<mode, env, did, prompt, source, exported>>

RunScriptLine ==
    /\ pc = "runScript"
    /\ IF Arg(1) = "cd" THEN change_directory(Arg(2)) ELSE execute_binaries

ScriptEnds == pc = "script" /\ script = <<>> /\ Ends("prompt")

\* Bound: no line is typed that may export once path was given more than it
\* holds, or that would export beyond the memory that is followed.
Room(line) ==
    ToSet(line) \cap (Exporting \cup DOMAIN ScriptOf) # {} =>
        /\ Len(exported.path) <= PATHCAP
        /\ EndOf(env, Path) < PATHCAP + PS1CAP /\ EndOf(env, PS1) < PATHCAP + PS1CAP

ShellStep ==
    \/ ShowPrompt \/ RunLine \/ FindShebang \/ NoShebang
    \/ NextLine \/ RunScriptLine \/ ScriptEnds

ShellNext ==
    \/ ShellStep
    \/ \E line \in Lines : Room(line) /\ (Gets(line) \/ ReadTyped(line))

ShellSpec == ShellInit /\ [][ShellNext]_shellVars /\ WF_shellVars(ShellStep)
-----------------------------------------------------------------------------
Waiting == {"gets", "readCat", "readScript", "sleeps"}
Stopped == {"halted", "astray", "forked", "exited"}

\* Types; lines of the prompt are not run as lines of a script.
ShellTypeOK ==
    /\ pc \in Waiting \cup Stopped \cup {"prompt", "run", "shebang", "script", "runScript"}
    /\ mode = CASE pc \in {"gets", "run", "readScript", "shebang", "forked"} -> "line"
                [] pc \in {"script", "runScript"} -> "script"
                [] OTHER -> mode
    /\ mode \in {"line", "script"}
    /\ \A at \in {Path, PS1} : \E j \in Cells : j >= at /\ env[j] = EndMark

\* As long as no copy for path went beyond its cells, what strcat copies of
\* the words behind an empty value included, path holds all values exported
\* for it in order, and PS1 the last one (setenv, sbush.c:174-186).
EnvKept ==
    exported.reach < PATHCAP =>
        /\ TextAt(env, Path) = exported.path
        /\ TextAt(env, PS1) = Letters[exported.ps1]

\* A script (sbush.c:318-349) runs the lines after the first shebang, each
\* once and in order, and is left only after the last.  The first of did is
\* the command that read the script.
FirstShebang(first) ==
    /\ source[first] = Shebang
    /\ \A i \in 1 .. first - 1 : source[i] # Shebang
ScriptInOrder ==
    mode = "script" =>
        \E first \in 1 .. Len(source) :
            /\ FirstShebang(first)
            /\ \A i \in 2 .. Len(did) :
                   did[i].tokens = tokenize_input(source[first + (i - 1)])
            /\ pc = "script" => first + (Len(did) - 1) + Len(script) = Len(source)
            /\ pc = "prompt" => first + (Len(did) - 1) = Len(source)

\* A line leads back to the prompt, to a read or a sleep, or to an end
\* (sbush.c:464-560): the shell is not left running for ever.
EveryLineEnds == pc \notin Waiting ~> pc \in Waiting \cup Stopped

\* The prompt is the value exported for it ("Usage: export $PATH <path> or
\* $PS1 <ps1>", sbush.c:184).
PromptFollowsExport == pc = "gets" => prompt = Letters[exported.ps1]

\* An export that leaves path shorter than its cells leaves PS1 alone: what
\* strcat copies behind an empty word may reach it (string.c:89-92).
ShortPathHarmless ==
    Len(exported.path) < PATHCAP => TextAt(env, PS1) = Letters[exported.ps1]

\* A file without a shebang is refused ("Not a sbush script. Cannot
\* execute", sbush.c:347), and does not stop the machine.
ScriptRefused ==
    pc = "halted" /\ mode = "line" /\ source # <<>> => Shebang \in ToSet(source)

\* cat of a file there is returns ("cat : prints the content of file",
\* README:43).
CatReturns == pc = "astray" => Arg(1) # "cat"

\* sleep counts as far as its seconds ("sleep <forhowmuchtimeinseconds>",
\* sbush.c:265).
SleepsLongEnough ==
    \A i \in DOMAIN did :
        Len(did[i].tokens) > 1 /\ did[i].tokens[1] = "sleep" =>
            did[i].what.count >= PERSEC * Seconds[did[i].tokens[2]]
=============================================================================
