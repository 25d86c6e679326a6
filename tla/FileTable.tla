------------------------------ MODULE FileTable ------------------------------
(***************************************************************************)
(* The descriptor table fd[20] of a task: setfdArray, getfd and            *)
(* copyfdArray of sys/process.c, open, read_file and close of sys/dir.c,   *)
(* and the wrapper of libc/close.c, which decides the descriptor that      *)
(* close gets.  Each system call of the running task is one step: nothing  *)
(* preempts a task in the kernel.                                          *)
(*                                                                         *)
(* open does not check getfd for -1.  The task structure is packed, and    *)
(* fd[-1].node is its nextTask field, so link (that field) belongs here    *)
(* too; module Process says what the field is for.                         *)
(***************************************************************************)
EXTENDS Integers

CONSTANTS Task,            \* task structures
          File,            \* the regular files of tarfs
          FDS, FIRSTFD,    \* entries of fd[] (20), the first getfd gives (3)
          NoNode,          \* NULL
          Keyboard, Nothing  \* what a read delivers: a typed line, or -1

Fd == 0 .. FDS - 1

ASSUME FileTableAssumption ==
    /\ FDS \in Nat
    /\ FIRSTFD \in 1 .. FDS - 1
    /\ Task \cap File = {}
    /\ NoNode \notin Task \cup File
    /\ {Keyboard, Nothing} \cap File = {}

VARIABLES node,      \* node[t][i]: t->fd[i].node
          link,      \* t->nextTask, and t->fd[-1].node
          current,   \* currentTask
          machine,   \* "runs", or how it was lost
          answer,    \* what the last open, close, fork or waitpid returned
          data,      \* what the last read delivered
          held       \* ghost: the file a program got each descriptor for

fileVars == <<node, link, current, machine, answer, data, held>>

\* setfdArray: an empty table.
setfdArray == [fd \in Fd |-> NoNode]

\* Mutant: the copy forgets the last entry.
copyfdArray_ShortByOne(table) ==
    [fd \in Fd |-> IF fd < FDS - 1 THEN table[fd] ELSE NoNode]

\* copyfdArray: the table a child gets.
copyfdArray(table) == [fd \in Fd |-> table[fd]]

\* getfd returns fd: the first entry from FIRSTFD on with no node.
getfd(table, fd) ==
    /\ fd \in FIRSTFD .. FDS - 1
    /\ table[fd] = NoNode
    /\ \A i \in FIRSTFD .. fd - 1 : table[i] # NoNode

\* getfd returns -1.
Full(table) == \A fd \in FIRSTFD .. FDS - 1 : table[fd] # NoNode

FileInit ==
    /\ node = [t \in Task |-> setfdArray]
    /\ link \in [Task -> Task]
    /\ current \in Task
    /\ machine = "runs"
    /\ answer = 0
    /\ data = Nothing
    /\ held = node

\* open finds the file and a free entry.
OpenFile(f) ==
    /\ \E fd \in Fd :
          /\ getfd(node[current], fd)
          /\ node' = [node EXCEPT ![current][fd] = f]
          /\ held' = [held EXCEPT ![current][fd] = f]
          /\ answer' = fd
    /\ UNCHANGED <<link, current, machine, data>>

\* open finds the file and no free entry: the node is stored all the same.
OpenFull(f) ==
    /\ Full(node[current])
    /\ link' = [link EXCEPT ![current] = f]
    /\ answer' = -1
    /\ UNCHANGED <<node, current, machine, data, held>>

\* open does not find the name: it answers 0, the descriptor of the keyboard.
OpenMissing ==
    /\ answer' = 0
    /\ UNCHANGED <<node, link, current, machine, data, held>>

\* libc close puts 0 in rbx, where the kernel looks for the descriptor.
DescriptorPassed(fd) == 0

Close(fd) ==
    /\ node' = [node EXCEPT ![current][DescriptorPassed(fd)] = NoNode]
    /\ held' = [held EXCEPT ![current][fd] = NoNode]
    /\ answer' = 0
    /\ UNCHANGED <<link, current, machine, data>>

\* The node read_file takes for a descriptor that open may have answered.
NodeAt(fd) == IF fd = -1 THEN link[current] ELSE node[current][fd]

\* sys_read sends descriptor 0 to the keyboard.
ReadKeyboard ==
    /\ data' = Keyboard
    /\ UNCHANGED <<node, link, current, machine, answer, held>>

\* A node of tarfs has a header, and the file's bytes follow it.  Taken for a
\* node, a task structure has fd[2].node for its header address, which is
\* never set: the read returns -1.
ReadNode(fd) ==
    /\ fd # 0
    /\ NodeAt(fd) # NoNode
    /\ data' = IF NodeAt(fd) \in File THEN NodeAt(fd) ELSE Nothing
    /\ UNCHANGED <<node, link, current, machine, answer, held>>

\* An entry with no node: the page fault on NULL stops the machine.
ReadNull(fd) ==
    /\ fd # 0
    /\ NodeAt(fd) = NoNode
    /\ machine' = "halted"
    /\ UNCHANGED <<node, link, current, answer, data, held>>

FileNext ==
    /\ machine = "runs"
    /\ \/ \E f \in File : OpenFile(f) \/ OpenFull(f)
       \/ OpenMissing
       \/ \E fd \in Fd : Close(fd)
       \/ ReadKeyboard
       \/ \E fd \in Fd \cup {-1} : ReadNode(fd) \/ ReadNull(fd)

FileSpec == FileInit /\ [][FileNext]_fileVars

-----------------------------------------------------------------------------
(* Properties *)

\* Every field holds a value the code can put there; entries below FIRSTFD
\* never hold a node, so a read through fd[2].node is a read of NULL.
FileTypeOK ==
    /\ node \in [Task -> [Fd -> File \cup {NoNode}]]
    /\ \A t \in Task : \A fd \in 0 .. FIRSTFD - 1 : node[t][fd] = NoNode
    /\ held \in [Task -> [Fd -> File \cup {NoNode}]]
    /\ link \in [Task -> Task \cup File \cup {NoNode}]
    /\ current \in Task
    /\ machine \in {"runs", "halted", "reset", "astray"}
    /\ answer \in Int
    /\ data \in File \cup {Keyboard, Nothing}

\* A descriptor open answered leads to the file it was opened for until the
\* program closes it, whatever else is opened, closed, inherited or refused.
HeldStayOpen ==
    \A t \in Task, fd \in Fd :
        held[t][fd] # NoNode => node[t][fd] = held[t][fd]

\* What a program may conclude from "close" in the list of supported system
\* calls: open is refused only to one that holds every descriptor.
RefusedOnlyWhenHeld == answer = -1 => Full(held[current])
=============================================================================
