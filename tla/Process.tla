------------------------------- MODULE Process -------------------------------
(***************************************************************************)
(* Tasks of sys/process.c: getPid, fork, waitpid and contextSwitch, execve *)
(* as far as it changes the task, and, through FileTable, the descriptor   *)
(* calls of the running task.  The initial state is what createInitThread  *)
(* leaves: First (the shell) runs, Boot (the boot thread) is on the list.  *)
(*                                                                         *)
(* Two globals name the running task and the next one; the list behind     *)
(* them is threaded through nextTask.  There is no scheduler: only waitpid *)
(* switches, and only to the task in nextTask.                             *)
(*                                                                         *)
(* Kernel stacks are measured in words down from where kstack - 32 points. *)
(* The calls from the system call gate to the label in fork where a child  *)
(* resumes take FRAME words, 55 in the built kernel, and the processor     *)
(* aligns the stack to two words before it pushes the first.               *)
(***************************************************************************)
EXTENDS FileTable

CONSTANTS MAXPROC,        \* entries of processArray (2048)
          FRAME,          \* words from the gate to the label in fork
          Boot, First     \* thread1 and thread2

Pid == 0 .. MAXPROC - 1

NoTask == NoNode

ASSUME ProcessAssumption ==
    /\ MAXPROC \in Nat /\ MAXPROC >= 2
    /\ FRAME \in Nat /\ FRAME % 2 = 1
    /\ {Boot, First} \subseteq Task
    /\ Boot # First

VARIABLES pids,     \* the entries of processArray that are 1
          tasks,    \* the task structures in use
          pid, ppid,
          next,     \* nextTask, the global
          rip,      \* where contextSwitch jumps: "none", "entry", "fork"
          krsp,     \* the depth of the kernel stack contextSwitch resumes at
          frame     \* the depths of t's stack where a frame of fork ends

stackVars == <<rip, krsp, frame>>
taskVars  == <<pids, tasks, pid, ppid>>

vars == <<fileVars, taskVars, next, stackVars>>

\* getPid finds the first free entry of processArray and marks it.
getPid(p) ==
    /\ p \in Pid \ pids
    /\ \A q \in 0 .. p - 1 : q \in pids
    /\ pids' = pids \cup {p}

Init ==
    /\ node = [t \in Task |-> setfdArray]
    /\ held = node
    /\ machine = "runs"
    /\ answer = 0
    /\ data = Nothing
    /\ pids = {0, 1}
    /\ tasks = {Boot, First}
    /\ pid  = [t \in Task |-> IF t = First THEN 1 ELSE 0]
    /\ ppid = [t \in Task |-> IF t = First THEN 1 ELSE 0]
    /\ current = First
    /\ next = Boot
    /\ link = [t \in Task |-> IF t = First THEN Boot
                              ELSE IF t = Boot THEN First ELSE NoTask]
    /\ rip  = [t \in Task |-> IF t = First THEN "entry" ELSE "none"]
    /\ krsp = [t \in Task |-> 0]
    /\ frame = [t \in Task |-> {}]

\* fork with no pid left.
ForkNoPid ==
    /\ Pid \subseteq pids
    /\ answer' = -1
    /\ UNCHANGED <<node, link, current, machine, data, held,
                   taskVars, next, stackVars>>

\* The child's top page table comes from allocatePage as some earlier user
\* left it, and the copy stops before entry 511, which maps the kernel.
\* Loading it unmaps fork itself, unless the stale entry happens to map the
\* kernel.
ForkResets ==
    /\ \E p \in Pid : getPid(p)
    /\ machine' = "reset"
    /\ UNCHANGED <<node, link, current, answer, data, held,
                   tasks, pid, ppid, next, stackVars>>

\* Mutant: the parent's field is set and the global is forgotten.
Insert_GlobalKept(parent, child) ==
    /\ link' = [link EXCEPT ![parent] = child, ![child] = next]
    /\ next' = next

\* fork puts the child between the running task and the next one.
Insert(parent, child) ==
    /\ link' = [link EXCEPT ![parent] = child, ![child] = next]
    /\ next' = child

\* Where the processor starts to push when t enters the kernel.
GateDepth(t) == krsp[t] + (krsp[t] % 2)

\* Mutant: the depth is counted from where the parent's calls really start.
ChildDepth_FromGate(p) == (0 - GateDepth(p)) + (GateDepth(p) + FRAME)

\* child->krsp - parent->krsp + offset: child->krsp is at depth 0 here, and
\* offset is rsp in the parent's fork.
ChildDepth(p) == (0 - krsp[p]) + (GateDepth(p) + FRAME)

\* The child gets a copy of the parent's kernel stack, with the frame of this
\* call in it.  What deeper frames the stack held, the call has overwritten.
CopyStack(parent, child) ==
    LET kept == {d \in frame[parent] : d <= GateDepth(parent)}
        f    == kept \cup {GateDepth(parent) + FRAME}
    IN  frame' = [frame EXCEPT ![parent] = f, ![child] = f]

\* fork when the stale entry maps the kernel.
Fork(child) ==
    /\ \E p \in Pid : /\ getPid(p)
                      /\ pid' = [pid EXCEPT ![child] = p]
                      /\ answer' = p
    /\ tasks' = tasks \cup {child}
    /\ ppid' = [ppid EXCEPT ![child] = pid[current]]
    /\ node' = [node EXCEPT ![child] = copyfdArray(node[current])]
    /\ held' = [held EXCEPT ![child] = held[current]]
    /\ Insert(current, child)
    /\ CopyStack(current, child)
    /\ krsp' = [krsp EXCEPT ![child] = ChildDepth(current)]
    /\ rip' = [rip EXCEPT ![child] = "fork"]
    /\ UNCHANGED <<current, machine, data>>

\* Mutant: the field of the running task is used for the global.
Rotate_ByField ==
    /\ link' = [link EXCEPT ![current] = link[next], ![next] = current]
    /\ current' = next
    /\ next' = link[next]

\* waitpid swaps the first two of the list, whatever pid it is given.
Rotate ==
    /\ link' = [link EXCEPT ![current] = link[next], ![next] = current]
    /\ current' = next
    /\ next' = current

\* contextSwitch to a task made by fork, at the end of a frame of fork: fork
\* returns there.  It compares currentTask with parent and child, which it
\* kept in registers that nothing restores: any comparison may hold.
ResumeInFork ==
    /\ rip[next] = "fork"
    /\ krsp[next] \in frame[next]
    /\ \/ /\ answer' \in {0, -1}
          /\ machine' = machine
       \/ /\ machine' = "astray"
          /\ answer' = answer

\* contextSwitch to First or to a task that called execve enters user code in
\* ring 0 on the kernel stack; to Boot, it jumps to a field never written; to
\* a task whose krsp is in the middle of a frame, fork returns to whatever
\* word lies there.
ResumeAstray ==
    /\ rip[next] # "fork" \/ krsp[next] \notin frame[next]
    /\ machine' = "astray"
    /\ answer' = answer

Waitpid ==
    /\ Rotate
    /\ ResumeInFork \/ ResumeAstray
    /\ UNCHANGED <<node, data, held, taskVars, stackVars>>

\* execve starts the new program with the old table: it holds no descriptor,
\* but they are all still open.
Execve ==
    /\ rip' = [rip EXCEPT ![current] = "entry"]
    /\ held' = [held EXCEPT ![current] = [fd \in Fd |-> NoNode]]
    /\ UNCHANGED <<node, link, current, machine, answer, data,
                   taskVars, next, krsp, frame>>

Files ==
    /\ FileNext
    /\ UNCHANGED <<taskVars, next, stackVars>>

Next ==
    /\ machine = "runs"
    /\ \/ Files
       \/ ForkNoPid
       \/ ForkResets
       \/ \E child \in Task \ tasks : Fork(child)
       \/ Waitpid
       \/ Execve

Spec == Init /\ [][Next]_vars

-----------------------------------------------------------------------------
(* Properties *)

\* Every field holds a value the code can put there; no fork leaves a child
\* deeper than one frame and the word of alignment.
TypeOK ==
    /\ FileTypeOK
    /\ pids \subseteq Pid
    /\ tasks \subseteq Task
    /\ pid \in [Task -> Pid] /\ ppid \in [Task -> Pid]
    /\ next \in tasks /\ current \in tasks
    /\ rip \in [Task -> {"none", "entry", "fork"}]
    /\ krsp \in [Task -> 0 .. FRAME + 1]
    /\ frame \in [Task -> SUBSET Nat]

\* No two tasks have one pid, and every pid in use is marked: a pid returned
\* by fork names one task for ever.
PidsUnique ==
    /\ \A t \in tasks : pid[t] \in pids
    /\ \A t, u \in tasks : pid[t] = pid[u] => t = u

\* open with a full table overwrites nextTask of the running task with a node.
\* The list code rewrites that field before anything follows it, so the field
\* of a task that does not run, which waitpid does follow, names a task.
OnlyCurrentOverwritten == \A t \in tasks \ {current} : link[t] \in tasks

\* The field that is followed after a task.
Followed(t) == IF t = current THEN next ELSE link[t]

\* The list loses no task: a set that holds the running task and what is
\* followed from each of its members holds every task.
ListReachesAll ==
    \A S \in SUBSET tasks :
        (current \in S /\ \A t \in S : Followed(t) \in S) => S = tasks

\* The machine survives one switch, from First to a child of its own.  First
\* can not be resumed, and the child of a child is left one word off the frame
\* it should resume in: whichever task the second waitpid runs, it is lost.
OneSwitchSurvives ==
    [][current' # current /\ machine' = "runs" =>
           current = First /\ ppid[current'] = pid[First]]_vars

\* A task behind the first two is never run again: fork only adds in front of
\* it and waitpid only swaps the first two.  A parent that forks twice has
\* lost its first child.
BehindNeverRuns ==
    [][\A t \in tasks \ {current, next} : t \notin {current', next'}]_vars

\* "fork(returns pid)": fork brings the caller back.
ForkReturns == machine # "reset"

\* A child finds 0 in pid, as the test program expects: the switch to a task
\* made by fork leaves it 0.
ChildGetsZero ==
    [][current' # current /\ machine' = "runs" => answer' = 0]_vars
=============================================================================
