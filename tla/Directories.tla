----------------------------- MODULE Directories -----------------------------
(***************************************************************************)
(* What the shell does with names in the root file system: cd, ls and the  *)
(* opens of cat and of scripts (bin/sbush/sbush.c), through the wrappers   *)
(* of libc (chdir.c, open.c, getcwd.c) to getAbsolutePath, open_dir,       *)
(* read_dir and open of sys/dir.c; and the lookup of execve.  A call is    *)
(* one step: nothing preempts the shell in it.                             *)
(*                                                                         *)
(* chdir and open copy the name before the kernel gets it.  ls hands over  *)
(* its argument itself, and read_dir writes there: an absolute name, and   *)
(* then as many zeros.  The argument of an ls typed alone is a literal of  *)
(* the shell, and behind it lie others (rootfs/bin/sbush: "./" one byte    *)
(* and "exit" four bytes further on).                                      *)
(***************************************************************************)
EXTENDS Tarfs

CONSTANTS Paths,     \* the names that are typed
          Programs,  \* the names handed to execve
          NameLen,   \* bytes of each component
          DotSlash, Exit  \* how far behind the argument of ls they lie

ASSUME DirectoriesAssumption ==
    /\ NameLen[Nil] = 0
    /\ \A p \in Paths : p \in Seq(STRING) /\ p # <<>>

VARIABLES cwd,     \* currentTask->cwd
          out,     \* what the last command showed or answered
          wiped    \* bytes of literals read_dir has set to zero

dirVars == <<archive, temp, table, machine, cwd, out, wiped>>

Nothing == [cmd |-> "none"]

\* strlen of a name.
Bytes(p) == FoldLeft(LAMBDA n, c : n + NameLen[c], Len(p) - 1, p)

\* A literal of the shell as a name, if its bytes are still there.
Literal(p, at) == IF at < wiped THEN Blank ELSE p

\* strtok with '/': a last component that is empty is not given.
strtok(p) == IF Last(p) = Nil THEN Front(p) ELSE p

\* getFileParent: the name of the directory above cwd; the root has entry
\* ENTRIES above it, whose name is empty.
getFileParent ==
    LET i == Named(cwd)
    IN  IF i = 0 THEN Blank ELSE Fs(table[i].par).name

\* Mutant: a first component "." stays in the name.
getAbsolutePath_KeepsDot(p, flagType) ==
    LET tokens == strtok(p)
        base == IF tokens[1] = ".." THEN getFileParent ELSE cwd
        rest == IF tokens[1] = ".." THEN Tail(tokens) ELSE tokens
        full == IF rest = <<>> THEN base ELSE strcat(base, rest)
    IN  IF flagType = DirFlag /\ full # Blank /\ Last(full) # Nil
        THEN Append(full, Nil) ELSE full

\* getAbsolutePath, of a name with a component: only the first one's dots
\* mean anything; a directory's name gets a final slash.
getAbsolutePath(p, flagType) ==
    LET tokens == strtok(p)
        base == IF tokens[1] = ".." THEN getFileParent ELSE cwd
        rest == IF tokens[1] \in {".", ".."} THEN Tail(tokens) ELSE tokens
        full == IF rest = <<>> THEN base ELSE strcat(base, rest)
    IN  IF flagType = DirFlag /\ full # Blank /\ Last(full) # Nil
        THEN Append(full, Nil) ELSE full

\* The entry of the table with that name and type, or 0.
Lookup(name, flagType) ==
    SelectInSeq(table, LAMBDA e : e.name = name /\ e.flagType = flagType)

DirInit ==
    /\ TarInit
    /\ cwd = RootName
    /\ out = Nothing
    /\ wiped = 0

\* The walk at boot.
Boot == (ReadHeader \/ WalkEnds) /\ UNCHANGED <<cwd, out, wiped>>

\* chdir of libc, on a copy of the name, and of the kernel; what the kernel
\* answers is never -1, and the wrapper answers 0.  A name with no component
\* makes getAbsolutePath compare the string at NULL.
chdir(p) ==
    /\ IF strtok(p) = <<>>
       THEN machine' = "halted" /\ cwd' = cwd
       ELSE LET name == getAbsolutePath(p, DirFlag)
            IN  /\ cwd' = IF Lookup(name, DirFlag) # 0 THEN name ELSE cwd
                /\ machine' = machine
    /\ UNCHANGED <<archive, temp, table, wiped>>

\* change_directory: after a chdir that answers 0 it shows where it is.
change_directory(p, cmd) ==
    /\ chdir(p)
    /\ out' = [cmd |-> cmd, path |-> p, shown |-> cwd']

\* The shell reads a command after it has shown the prompt.
Reads == machine = "runs" /\ out = Nothing
Prompt ==
    /\ machine = "runs"
    /\ out # Nothing
    /\ out' = Nothing
    /\ UNCHANGED <<archive, temp, table, machine, cwd, wiped>>

\* cd with and without an argument.
Cd(p) == Reads /\ change_directory(p, "cd")
CdAlone == Reads /\ change_directory(Literal(<<".", Nil>>, DotSlash), "cd alone")

\* pwd.
Pwd ==
    /\ Reads
    /\ out' = [cmd |-> "pwd", shown |-> cwd]
    /\ UNCHANGED <<archive, temp, table, machine, cwd, wiped>>

\* read_dir and open take the empty name for "./".
Typed(p) == IF p = Blank THEN <<".", Nil>> ELSE p

\* The numbers of a set up to n, in order.
InOrder(I, n) ==
    LET Upto[k \in 0 .. n] ==
            IF k = 0 THEN <<>>
            ELSE IF k \in I THEN Append(Upto[k - 1], k) ELSE Upto[k - 1]
    IN  Upto[n]

\* Mutant: the parent of an entry is not looked at.
read_dir_AnyDepth(dir) ==
    LET n == Named(dir)
    IN  IF n = 0 THEN {}
        ELSE {i \in n .. Len(table) - 1 : IsPrefix(Front(dir), Fs(i).name)}

\* read_dir: the entries that are listed, those after the directory itself
\* that begin with its name and have it as parent.
read_dir(dir) ==
    LET n == Named(dir)
    IN  IF n = 0 THEN {}
        ELSE {i \in n .. Len(table) - 1 :
                 IsPrefix(Front(dir), Fs(i).name) /\ Fs(i).par = n - 1}

\* What follows the directory in the names that are listed, in order.
ShowDir(dir) ==
    out' = [cmd |-> "ls", dir |-> dir,
            shown |-> LET listed == InOrder(read_dir(dir), Len(table) - 1)
                      IN  [k \in DOMAIN listed |->
                              LET name == Fs(listed[k]).name
                              IN  SubSeq(name, Len(dir), Len(name))]]

\* ls with an argument, which is in the shell's input and gone afterwards.
Ls(p) ==
    /\ Reads
    /\ ShowDir(getAbsolutePath(Typed(p), DirFlag))
    /\ UNCHANGED <<archive, temp, table, machine, cwd, wiped>>

\* ls alone: the argument is a literal, and the name of cwd is longer.
LsAlone ==
    /\ Reads
    /\ ShowDir(getAbsolutePath(Typed(Blank), DirFlag))
    /\ wiped' = IF Bytes(cwd) + 1 > wiped THEN Bytes(cwd) + 1 ELSE wiped
    /\ UNCHANGED <<archive, temp, table, machine, cwd>>

\* Mutant: the type of the entry is not looked at.
open_AnyType(p) ==
    LET name == getAbsolutePath(Typed(p), DirFlag)
    IN  Named(name)

\* open: the entry whose descriptor is answered; 0, a descriptor too, if the
\* search ends.
open(p) ==
    LET name == getAbsolutePath(Typed(p), FileFlag)
    IN  Lookup(name, FileFlag)

\* cat, or a script, opens a file.
Open(p) ==
    /\ Reads
    /\ out' = [cmd |-> "open", path |-> p, entry |-> open(p)]
    /\ UNCHANGED <<archive, temp, table, machine, cwd, wiped>>

\* load_binaries takes an offset for the program and answers -1 if that is
\* below zero.
LoadProgram(file) ==
    /\ Reads
    /\ out' = [cmd |-> "exec", file |-> file, offset |-> getFileOffset(file),
               answer |-> IF getFileOffset(file) >= 0 THEN 0 ELSE -1]
    /\ UNCHANGED <<archive, temp, table, machine, cwd, wiped>>

\* exit typed: compared with a literal of the shell.
TypeExit ==
    /\ Reads
    /\ machine' = IF Literal(<<"exit">>, Exit) = <<"exit">> THEN "exited" ELSE machine
    /\ out' = [cmd |-> "exit"]
    /\ UNCHANGED <<archive, temp, table, cwd, wiped>>

DirNext ==
    \/ Boot
    \/ \E p \in Paths : Cd(p) \/ Ls(p) \/ Open(p)
    \/ Prompt \/ Pwd \/ CdAlone \/ LsAlone \/ TypeExit
    \/ \E file \in Programs : LoadProgram(file)

DirSpec == DirInit /\ [][DirNext]_dirVars
-----------------------------------------------------------------------------
(* What the file system promises, said over the archive and not the table. *)

\* The name in the table of entry i of the archive.
FullName(i) == strcat(RootName, archive[i].name)

Dirs == {RootName} \cup
        {FullName(i) : i \in {j \in DOMAIN archive : archive[j].flag = DirFlag}}

\* The entries in a directory, and their names from its last slash on.
Inside(dir) == {i \in DOMAIN archive : DirName(FullName(i)) = dir}
Children(dir) ==
    LET inside == InOrder(Inside(dir), Len(archive))
    IN  [k \in DOMAIN inside |->
            SubSeq(FullName(inside[k]), Len(dir), Len(FullName(inside[k])))]

\* One component from a directory on: where it leads, or Blank.
Follow(d, c) ==
    IF d = Blank \/ c = "." THEN d
    ELSE IF c = ".." THEN IF d = RootName THEN d ELSE DirName(d)
    ELSE IF Front(d) \o <<c, Nil>> \in Dirs THEN Front(d) \o <<c, Nil>> ELSE Blank

Resolve(tokens) ==
    LET To[k \in 0 .. Len(tokens)] ==
            IF k = 0 THEN cwd ELSE Follow(To[k - 1], tokens[k])
    IN  To[Len(tokens)]

\* Names the resolution is meant for: relative, dots in the first component
\* only, and not from the root upwards.
Plain(p) ==
    LET tokens == strtok(p)
    IN  /\ tokens # <<>>
        /\ \A i \in DOMAIN tokens : tokens[i] # Nil
        /\ \A i \in 2 .. Len(tokens) : tokens[i] \notin {".", ".."}
        /\ cwd = RootName => tokens[1] # ".."

\* Types; cwd is always a directory.
DirTypeOK ==
    /\ machine \in {"boots", "runs", "halted", "exited"}
    /\ temp \in Nat /\ wiped \in Nat
    /\ \A i \in DOMAIN table : table[i].par \in 0 .. ENTRIES
    /\ cwd \in Dirs

\* cd (dir.c:25-92, sbush.c:137-156) goes where the name leads, and stays
\* where it is if that is nowhere.
CdStep ==
    out'.cmd = "cd" /\ Plain(out'.path) =>
        LET dir == Resolve(strtok(out'.path))
        IN  cwd' = IF dir = Blank THEN cwd ELSE dir

CdReaches == [][CdStep]_dirVars

\* ls (dir.c:94-126) shows exactly the entries of the directory, in order.
LsShowsChildren == out.cmd = "ls" => out.shown = Children(out.dir)

\* open (dir.c:128-155) finds the file the name leads to, and only that.
OpenStep ==
    out'.cmd = "open" /\ Plain(out'.path) =>
        LET tokens == strtok(out'.path)
            dir == Resolve(Front(tokens))
            name == Append(Front(dir), Last(tokens))
        IN  IF out'.entry # 0
            THEN /\ dir # Blank
                 /\ archive[out'.entry - 1].flag = FileFlag
                 /\ FullName(out'.entry - 1) = name
            ELSE dir = Blank \/ ~ \E i \in DOMAIN archive :
                                    /\ archive[i].flag = FileFlag
                                    /\ FullName(i) = name

OpenFinds == [][OpenStep]_dirVars

\* Block k of the contents of the first entry leads the walk of getFileOffset
\* on, and not past the second header, when it is taken for a header.
LeadsOn(k, file) ==
    LET block == archive[1].data[k]
    IN  /\ block.name \notin {Blank, file}
        /\ BLOCK * k + Step(decimalSize(block.digits)) <= At(2)

\* getFileOffset (dir.c:214-252) gives execve the contents of the file named,
\* unless it is the first of the archive: the walk takes the contents of that
\* for headers, and comes through if each of its blocks leads on.
ExecFindsFile ==
    out.cmd = "exec" /\ (\A k \in DOMAIN archive[1].data : LeadsOn(k, out.file)) =>
        \A i \in 2 .. Len(archive) :
            archive[i].name = out.file => out.offset = At(i) + BLOCK

\* execve finds the program whatever the first file holds.
ExecFindsAlways ==
    out.cmd = "exec" =>
        \A i \in 2 .. Len(archive) :
            archive[i].name = out.file => out.offset = At(i) + BLOCK

\* cd shows the directory only if it went there ("sbush: No such file or
\* directory", sbush.c:152).
CdReportsMissing ==
    out.cmd = "cd" /\ machine = "runs" /\ strtok(out.path) = <<"none">> =>
        out.shown # cwd

\* A program that is not in the archive is refused ("Binary could not be
\* loaded", process.c:511).
MissingRefused ==
    out.cmd = "exec" /\ (\A i \in DOMAIN archive : archive[i].name # out.file) =>
        out.answer = -1

\* cd alone (sbush.c:490-498) leaves the machine running.
CdAloneStays == out.cmd = "cd alone" => machine = "runs"
=============================================================================
