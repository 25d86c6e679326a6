--------------------------- MODULE Process_proofs ---------------------------
(***************************************************************************)
(* Proofs about module Process, for every number of tasks, pids, files and *)
(* descriptors.  The inductive invariant adds to the checked invariants    *)
(* that the first two of the list differ (Front) and how deep the stacks   *)
(* of the tasks that can run are (Stacks).  Of FileTable alone, which      *)
(* Process extends, the last part proves what holds while nobody forks.    *)
(***************************************************************************)
EXTENDS Process, TLAPS

\* The first two of the list differ, and the two tasks of createInitThread
\* stay on it and are never resumed in fork.
Front ==
    /\ {Boot, First} \subseteq tasks
    /\ current # next
    /\ rip[Boot] # "fork" /\ rip[First] # "fork"

\* A switch to t can not succeed.
Doomed(t) == rip[t] # "fork" \/ krsp[t] \notin frame[t]

\* Frames of fork end at odd depths.  While First runs, all other tasks are
\* its children and one frame deep; once a child runs, it is one frame deep
\* and the next task is doomed.
Stacks ==
    /\ krsp[First] = 0
    /\ \A t \in tasks : \A d \in frame[t] : d % 2 = 1
    /\ machine = "runs" =>
          IF current = First
          THEN \A t \in tasks \ {Boot, First} :
                  ppid[t] = pid[First] /\ krsp[t] = FRAME
          ELSE krsp[current] = FRAME /\ Doomed(next)

IInv ==
    /\ TypeOK
    /\ PidsUnique
    /\ HeldStayOpen
    /\ Front
    /\ OnlyCurrentOverwritten
    /\ ListReachesAll
    /\ Stacks

-----------------------------------------------------------------------------
(* Lemmas about the operators.                                             *)

\* Entries 0 to 2 of a table are descriptors, and getfd gives none of them.
LEMMA LowDescriptors ==
    /\ 0 \in Fd /\ 0 \notin FIRSTFD .. FDS - 1
    /\ FIRSTFD .. FDS - 1 \subseteq Fd
    /\ \A fd \in Fd : fd \in FIRSTFD .. FDS - 1 \/ fd \in 0 .. FIRSTFD - 1
BY FileTableAssumption DEF Fd

\* Inherited tables are equal: copyfdArray copies every entry.
LEMMA CopyIsEqual ==
    ASSUME NEW table \in [Fd -> File \cup {NoNode}]
    PROVE  copyfdArray(table) = table
BY DEF copyfdArray

\* fork leaves the child of First one frame deep, and the child of a task that
\* is one frame deep one word deeper.
LEMMA Depths ==
    ASSUME TypeOK, NEW p \in Task
    PROVE  /\ GateDepth(p) \in Nat
           /\ GateDepth(p) % 2 = 0
           /\ (GateDepth(p) + FRAME) % 2 = 1
           /\ ChildDepth(p) \in 0 .. FRAME + 1
           /\ krsp[p] = 0 => ChildDepth(p) = FRAME
           /\ krsp[p] = FRAME => /\ ChildDepth(p) = FRAME + 1
                                 /\ (FRAME + 1) % 2 = 0
<1>1. krsp[p] \in Nat /\ FRAME \in Nat /\ FRAME % 2 = 1
  BY ProcessAssumption DEF TypeOK
<1> QED BY <1>1 DEF GateDepth, ChildDepth

-----------------------------------------------------------------------------
(* The invariant holds initially and is preserved by every action.         *)

LEMMA InitIInv == Init => IInv
<1> SUFFICES ASSUME Init PROVE IInv
  OBVIOUS
<1> USE FileTableAssumption, ProcessAssumption
<1>1. TypeOK
  <2>1. FileTypeOK
    <3>1. node = [t \in Task |-> [fd \in Fd |-> NoNode]] /\ held = node
      BY DEF Init, setfdArray
    <3>2. \A t \in Task : \A fd \in 0 .. FIRSTFD - 1 : node[t][fd] = NoNode
      BY <3>1, 0 .. FIRSTFD - 1 \subseteq Fd DEF Fd
    <3>3. link \in [Task -> Task \cup File \cup {NoNode}]
      BY DEF Init, NoTask
    <3> QED BY <3>1, <3>2, <3>3 DEF Init, FileTypeOK
  <2> QED BY <2>1 DEF Init, TypeOK, Pid
<1>2. PidsUnique
  BY DEF Init, PidsUnique
<1>3. HeldStayOpen
  BY DEF Init, HeldStayOpen
<1>4. Front
  BY DEF Init, Front
<1>5. OnlyCurrentOverwritten
  BY DEF Init, OnlyCurrentOverwritten
<1>6. ListReachesAll
  <2> SUFFICES ASSUME NEW S \in SUBSET tasks, current \in S,
                      \A t \in S : Followed(t) \in S
               PROVE  S = tasks
    BY DEF ListReachesAll
  <2>1. First \in S /\ Boot \in S
    BY DEF Init, Followed
  <2> QED BY <2>1 DEF Init
<1>7. Stacks
  BY DEF Init, Stacks
<1> QED BY <1>1, <1>2, <1>3, <1>4, <1>5, <1>6, <1>7 DEF IInv

\* A descriptor call of the running task.
LEMMA FilesIInv == IInv /\ Files => IInv'
<1> SUFFICES ASSUME IInv, Files PROVE IInv'
  OBVIOUS
<1> USE FileTableAssumption, LowDescriptors DEF IInv
<1>1. PICK t \in Task : t = current /\ t \in tasks
  BY DEF TypeOK
<1>2. UNCHANGED <<taskVars, next, stackVars, current>>
  BY DEF Files, FileNext, OpenFile, OpenFull, OpenMissing, Close, ReadKeyboard,
         ReadNode, ReadNull
<1>3. /\ \A u \in Task \ {current} : link'[u] = link[u]
      /\ machine' = "runs" => machine = "runs"
  BY DEF Files, FileNext, OpenFile, OpenFull, OpenMissing, Close, ReadKeyboard,
         ReadNode, ReadNull, TypeOK, FileTypeOK
<1>4. FileTypeOK' /\ HeldStayOpen'
  <2>0. FileTypeOK /\ HeldStayOpen /\ current \in Task
    BY DEF TypeOK
  <2>1. ASSUME NEW f \in File, OpenFile(f) PROVE FileTypeOK' /\ HeldStayOpen'
    <3>1. PICK fd \in FIRSTFD .. FDS - 1 :
             /\ node' = [node EXCEPT ![current][fd] = f]
             /\ held' = [held EXCEPT ![current][fd] = f]
             /\ answer' = fd
      BY <2>1 DEF OpenFile, getfd
    <3>2. fd \in Fd /\ fd \in Int /\ fd \notin 0 .. FIRSTFD - 1
      BY DEF Fd
    <3>3. FileTypeOK'
      BY <2>0, <2>1, <3>1, <3>2 DEF OpenFile, FileTypeOK
    <3>4. HeldStayOpen'
      BY <2>0, <3>1, <3>2 DEF HeldStayOpen, FileTypeOK
    <3> QED BY <3>3, <3>4
  <2>2. ASSUME NEW f \in File, OpenFull(f) PROVE FileTypeOK' /\ HeldStayOpen'
    BY <2>0, <2>2 DEF OpenFull, FileTypeOK, HeldStayOpen
  <2>3. ASSUME OpenMissing PROVE FileTypeOK' /\ HeldStayOpen'
    BY <2>0, <2>3 DEF OpenMissing, FileTypeOK, HeldStayOpen
  <2>4. ASSUME NEW fd \in Fd, Close(fd) PROVE FileTypeOK' /\ HeldStayOpen'
    <3>1. node[current][0] = NoNode /\ held[current][0] = NoNode
      <4>1. 0 \in 0 .. FIRSTFD - 1
        OBVIOUS
      <4> QED BY <2>0, <4>1 DEF FileTypeOK, HeldStayOpen
    <3>2. /\ node' = [node EXCEPT ![current][0] = NoNode]
          /\ held' = [held EXCEPT ![current][fd] = NoNode]
          /\ UNCHANGED <<link, current, machine, data>> /\ answer' = 0
      BY <2>4 DEF Close, DescriptorPassed
    <3>3. FileTypeOK'
      <4>1. node' = node
        <5>1. [node[current] EXCEPT ![0] = NoNode] = node[current]
          BY <2>0, <3>1 DEF FileTypeOK
        <5> QED BY <2>0, <3>2, <5>1 DEF FileTypeOK
      <4> QED BY <2>0, <2>4, <3>2, <4>1 DEF FileTypeOK
    <3>4. HeldStayOpen'
      BY <2>0, <3>2 DEF HeldStayOpen, FileTypeOK
    <3> QED BY <3>3, <3>4
  <2>5. ASSUME ReadKeyboard PROVE FileTypeOK' /\ HeldStayOpen'
    BY <2>0, <2>5 DEF ReadKeyboard, FileTypeOK, HeldStayOpen
  <2>6. ASSUME NEW fd \in Fd \cup {-1}, ReadNode(fd)
        PROVE  FileTypeOK' /\ HeldStayOpen'
    BY <2>0, <2>6 DEF ReadNode, FileTypeOK, HeldStayOpen
  <2>7. ASSUME NEW fd \in Fd \cup {-1}, ReadNull(fd)
        PROVE  FileTypeOK' /\ HeldStayOpen'
    BY <2>0, <2>7 DEF ReadNull, FileTypeOK, HeldStayOpen
  <2> QED BY <2>1, <2>2, <2>3, <2>4, <2>5, <2>6, <2>7 DEF Files, FileNext
<1>5. TypeOK'
  BY <1>2, <1>4 DEF TypeOK, taskVars, stackVars
<1>6. PidsUnique'
  BY <1>2 DEF PidsUnique, taskVars
<1>7. Front'
  BY <1>2 DEF Front, taskVars, stackVars
<1>8. OnlyCurrentOverwritten'
  BY <1>2, <1>3 DEF OnlyCurrentOverwritten, taskVars, TypeOK
<1>9. ListReachesAll'
  <2>1. \A u \in tasks : Followed(u)' = Followed(u)
    BY <1>2, <1>3 DEF Followed, TypeOK
  <2> QED BY <1>2, <2>1 DEF ListReachesAll, taskVars
<1>10. Stacks'
  BY <1>2, <1>3 DEF Stacks, Doomed, taskVars, stackVars
<1> QED BY <1>4, <1>5, <1>6, <1>7, <1>8, <1>9, <1>10

\* Nothing but the answer changes.
LEMMA ForkNoPidIInv == IInv /\ ForkNoPid => IInv'
<1> SUFFICES ASSUME IInv, ForkNoPid PROVE IInv'
  OBVIOUS
<1> USE DEF IInv, ForkNoPid, taskVars, stackVars
<1>1. TypeOK'
  BY DEF TypeOK, FileTypeOK
<1>2. PidsUnique' /\ HeldStayOpen' /\ Front' /\ OnlyCurrentOverwritten'
  BY DEF PidsUnique, HeldStayOpen, Front, OnlyCurrentOverwritten
<1>3. ListReachesAll'
  BY DEF ListReachesAll, Followed
<1>4. Stacks'
  BY DEF Stacks, Doomed
<1> QED BY <1>1, <1>2, <1>3, <1>4

\* The pid is taken and the machine is gone.
LEMMA ForkResetsIInv == IInv /\ ForkResets => IInv'
<1> SUFFICES ASSUME IInv, ForkResets PROVE IInv'
  OBVIOUS
<1>1. PICK p \in Pid : pids' = pids \cup {p}
  BY DEF ForkResets, getPid
<1> USE DEF IInv, ForkResets, stackVars
<1>2. TypeOK'
  BY <1>1 DEF TypeOK, FileTypeOK
<1>3. PidsUnique' /\ HeldStayOpen' /\ Front' /\ OnlyCurrentOverwritten'
  BY <1>1 DEF PidsUnique, HeldStayOpen, Front, OnlyCurrentOverwritten
<1>4. ListReachesAll'
  BY DEF ListReachesAll, Followed
<1>5. Stacks'
  BY DEF Stacks, Doomed
<1> QED BY <1>2, <1>3, <1>4, <1>5

\* fork: the child goes between the first two of the list, and gets a fresh
\* pid, the parent's table and its own depth.
LEMMA ForkIInv ==
    ASSUME NEW child \in Task \ tasks
    PROVE  IInv /\ Fork(child) => IInv'
<1> SUFFICES ASSUME IInv, Fork(child) PROVE IInv'
  OBVIOUS
<1> USE FileTableAssumption, ProcessAssumption DEF IInv
<1>1. PICK p \in Pid \ pids : /\ pids' = pids \cup {p}
                              /\ pid' = [pid EXCEPT ![child] = p]
                              /\ answer' = p
  BY DEF Fork, getPid
<1>2. /\ current \in tasks /\ next \in tasks /\ tasks \subseteq Task
      /\ child \notin tasks /\ current' = current /\ next' = child
      /\ tasks' = tasks \cup {child} /\ machine' = machine
  BY DEF Fork, Insert, TypeOK
<1>3. /\ krsp' = [krsp EXCEPT ![child] = ChildDepth(current)]
      /\ rip' = [rip EXCEPT ![child] = "fork"]
      /\ ppid' = [ppid EXCEPT ![child] = pid[current]]
      /\ link' = [link EXCEPT ![current] = child, ![child] = next]
  BY DEF Fork, Insert
<1>4. /\ node' = [node EXCEPT ![child] = node[current]]
      /\ held' = [held EXCEPT ![child] = held[current]]
  BY <1>2, CopyIsEqual DEF Fork, TypeOK, FileTypeOK
<1> DEFINE f == {d \in frame[current] : d <= GateDepth(current)}
                   \cup {GateDepth(current) + FRAME}
<1>5. frame' = [frame EXCEPT ![current] = f, ![child] = f]
  BY DEF Fork, CopyStack
<1>6. TypeOK'
  <2>1. FileTypeOK'
    <3>0. FileTypeOK
      BY DEF TypeOK
    <3>1. /\ node' \in [Task -> [Fd -> File \cup {NoNode}]]
          /\ held' \in [Task -> [Fd -> File \cup {NoNode}]]
      BY <1>2, <1>4, <3>0 DEF FileTypeOK
    <3>2. \A t \in Task : \A fd \in 0 .. FIRSTFD - 1 : node'[t][fd] = NoNode
      BY <1>2, <1>4, <3>0 DEF FileTypeOK
    <3>3. link' \in [Task -> Task \cup File \cup {NoNode}]
      BY <1>2, <1>3, <3>0 DEF FileTypeOK
    <3>4. current' \in Task /\ answer' \in Int /\ data' = data
      BY <1>1, <1>2 DEF Fork, Pid
    <3> QED BY <1>2, <3>0, <3>1, <3>2, <3>3, <3>4 DEF FileTypeOK
  <2>2. ChildDepth(current) \in 0 .. FRAME + 1 /\ f \in SUBSET Nat
    <3>1. /\ ChildDepth(current) \in 0 .. FRAME + 1
          /\ GateDepth(current) \in Nat
      BY <1>2, Depths
    <3>2. frame[current] \in SUBSET Nat /\ FRAME \in Nat
      BY <1>2 DEF TypeOK
    <3> QED BY <3>1, <3>2
  <2>3. pid' \in [Task -> Pid] /\ ppid' \in [Task -> Pid] /\ pids' \subseteq Pid
    BY <1>1, <1>2, <1>3 DEF TypeOK
  <2>4. /\ krsp' \in [Task -> 0 .. FRAME + 1]
        /\ rip' \in [Task -> {"none", "entry", "fork"}]
    BY <1>3, <2>2 DEF TypeOK
  <2>5. frame' \in [Task -> SUBSET Nat]
    BY <1>5, <2>2 DEF TypeOK
  <2> QED BY <1>2, <2>1, <2>3, <2>4, <2>5 DEF TypeOK
<1>7. PidsUnique'
  BY <1>1, <1>2 DEF PidsUnique, TypeOK
<1>8. HeldStayOpen'
  BY <1>2, <1>4 DEF HeldStayOpen, TypeOK, FileTypeOK
<1>9. Front'
  BY <1>2, <1>3 DEF Front, TypeOK
<1>10. OnlyCurrentOverwritten'
  BY <1>2, <1>3 DEF OnlyCurrentOverwritten, TypeOK, FileTypeOK
<1>11. ListReachesAll'
  <2> SUFFICES ASSUME NEW S \in SUBSET tasks', current' \in S,
                      \A t \in S : Followed(t)' \in S
               PROVE  S = tasks'
    BY DEF ListReachesAll
  <2>1. child \in S /\ Followed(child)' = next /\ next \in S
    BY <1>2, <1>3 DEF Followed, TypeOK, FileTypeOK
  <2>2. \A t \in S \ {child} : Followed(t) \in S \ {child}
    <3> TAKE t \in S \ {child}
    <3>1. t \in tasks
      BY <1>2
    <3>2. CASE t = current
      BY <1>2, <2>1, <3>2 DEF Followed
    <3>3. CASE t # current
      <4>1. Followed(t)' = link[t] /\ Followed(t) = link[t]
        BY <1>2, <1>3, <3>1, <3>3 DEF Followed, TypeOK, FileTypeOK
      <4>2. link[t] \in tasks
        BY <3>1, <3>3 DEF OnlyCurrentOverwritten
      <4> QED BY <1>2, <4>1, <4>2
    <3> QED BY <3>2, <3>3
  <2>3. S \ {child} = tasks
    BY <1>2, <2>2 DEF ListReachesAll
  <2> QED BY <1>2, <2>1, <2>3
<1>12. Stacks'
  <2>1. krsp'[First] = 0
    BY <1>2, <1>3 DEF Stacks, Front, TypeOK
  <2>2. \A t \in tasks' : \A d \in frame'[t] : d % 2 = 1
    <3>1. \A d \in f : d % 2 = 1
      BY <1>2, Depths DEF Stacks, TypeOK
    <3> QED BY <1>2, <1>5, <3>1 DEF Stacks, TypeOK
  <2>3. CASE current = First
    <3>1. ChildDepth(current) = FRAME
      BY <1>2, <2>3, Depths DEF Stacks, TypeOK
    <3>2. \A t \in tasks' \ {Boot, First} :
             machine = "runs" => ppid'[t] = pid'[First] /\ krsp'[t] = FRAME
      BY <1>1, <1>2, <1>3, <2>3, <3>1 DEF Stacks, Front, TypeOK
    <3> QED BY <1>2, <2>1, <2>2, <2>3, <3>2 DEF Stacks
  <2>4. CASE current # First /\ machine = "runs"
    <3>1. krsp[current] = FRAME
      BY <2>4 DEF Stacks
    <3>2. ChildDepth(current) = FRAME + 1 /\ (FRAME + 1) % 2 = 0
      BY <1>2, <3>1, Depths DEF TypeOK
    <3>3. krsp'[child] % 2 = 0 /\ krsp'[current] = FRAME
      BY <1>2, <1>3, <3>1, <3>2 DEF TypeOK
    <3>4. Doomed(next)'
      <4>1. krsp'[child] \notin frame'[child]
        BY <1>2, <2>2, <3>3
      <4> QED BY <1>2, <4>1 DEF Doomed
    <3> QED BY <1>2, <2>1, <2>2, <2>4, <3>3, <3>4 DEF Stacks
  <2>5. CASE current # First /\ machine # "runs"
    BY <1>2, <2>1, <2>2, <2>5 DEF Stacks
  <2> QED BY <2>3, <2>4, <2>5
<1> QED BY <1>6, <1>7, <1>8, <1>9, <1>10, <1>11, <1>12

\* waitpid: the first two of the list change places.
LEMMA WaitpidIInv == IInv /\ Waitpid /\ machine = "runs" => IInv'
<1> SUFFICES ASSUME IInv, Waitpid, machine = "runs" PROVE IInv'
  OBVIOUS
<1> USE DEF IInv, stackVars, taskVars
<1>1. /\ current \in tasks /\ next \in tasks /\ tasks \subseteq Task
      /\ current # next /\ current' = next /\ next' = current
      /\ link' = [link EXCEPT ![current] = link[next], ![next] = current]
  BY DEF Waitpid, Rotate, TypeOK, Front
<1>2. UNCHANGED <<node, data, held, taskVars, stackVars>>
  BY DEF Waitpid
<1>3. /\ answer' \in Int
      /\ machine' \in {"runs", "astray"}
      /\ machine' = "runs" => rip[next] = "fork" /\ krsp[next] \in frame[next]
  BY DEF Waitpid, ResumeInFork, ResumeAstray, TypeOK, FileTypeOK
<1>4. link[next] \in tasks
  BY <1>1 DEF OnlyCurrentOverwritten
<1>5. TypeOK'
  <2>1. link' \in [Task -> Task \cup File \cup {NoNode}]
    BY <1>1, <1>4 DEF TypeOK, FileTypeOK
  <2>2. FileTypeOK'
    BY <1>1, <1>2, <1>3, <2>1 DEF TypeOK, FileTypeOK
  <2> QED BY <1>1, <1>2, <2>2 DEF TypeOK
<1>6. PidsUnique' /\ HeldStayOpen' /\ Front'
  BY <1>1, <1>2 DEF PidsUnique, HeldStayOpen, Front
<1>7. OnlyCurrentOverwritten'
  BY <1>1, <1>2, <1>4 DEF OnlyCurrentOverwritten, TypeOK, FileTypeOK
<1>8. ListReachesAll'
  <2> SUFFICES ASSUME NEW S \in SUBSET tasks, next \in S,
                      \A t \in S : Followed(t)' \in S
               PROVE  S = tasks
    BY <1>1, <1>2 DEF ListReachesAll
  <2>1. current \in S
    BY <1>1 DEF Followed
  <2>2. \A t \in S : t = current => Followed(t)' = link[next]
    BY <1>1 DEF Followed, TypeOK, FileTypeOK
  <2>3. \A t \in S : Followed(t) \in S
    <3> TAKE t \in S
    <3>1. CASE t = current
      BY <3>1 DEF Followed
    <3>2. CASE t = next
      BY <1>1, <2>1, <2>2, <3>2 DEF Followed
    <3>3. CASE t # current /\ t # next
      BY <1>1, <3>3 DEF Followed, TypeOK, FileTypeOK
    <3> QED BY <3>1, <3>2, <3>3
  <2> QED BY <2>1, <2>3 DEF ListReachesAll
<1>9. Stacks'
  <2>1. krsp'[First] = 0 /\ \A t \in tasks' : \A d \in frame'[t] : d % 2 = 1
    BY <1>2 DEF Stacks
  <2>2. ASSUME machine' = "runs"
        PROVE  /\ current = First /\ next \notin {Boot, First}
               /\ krsp'[next] = FRAME /\ Doomed(next)'
    <3>1. rip[next] = "fork" /\ krsp[next] \in frame[next]
      BY <1>3, <2>2
    <3>2. current = First
      BY <3>1 DEF Stacks, Doomed
    <3>3. next \notin {Boot, First}
      BY <3>1 DEF Front
    <3>4. krsp[next] = FRAME
      BY <1>1, <3>2, <3>3 DEF Stacks
    <3>5. Doomed(next)'
      BY <1>1, <1>2, <3>2 DEF Doomed, Front
    <3> QED BY <1>2, <3>2, <3>3, <3>4, <3>5
  <2>3. machine' = "runs" =>
           current' # First /\ krsp'[current'] = FRAME /\ Doomed(next)'
    BY <1>1, <2>2
  <2> QED BY <2>1, <2>3 DEF Stacks
<1> QED BY <1>5, <1>6, <1>7, <1>8, <1>9

\* execve: the resume address and the ghost change.
LEMMA ExecveIInv == IInv /\ Execve => IInv'
<1> SUFFICES ASSUME IInv, Execve PROVE IInv'
  OBVIOUS
<1> USE DEF IInv, Execve, taskVars
<1>1. current \in Task /\ rip' = [rip EXCEPT ![current] = "entry"]
  BY DEF TypeOK, FileTypeOK
<1>2. TypeOK'
  BY <1>1 DEF TypeOK, FileTypeOK
<1>3. PidsUnique' /\ Front' /\ OnlyCurrentOverwritten'
  BY <1>1 DEF PidsUnique, Front, OnlyCurrentOverwritten, TypeOK
<1>4. HeldStayOpen'
  BY DEF HeldStayOpen, TypeOK, FileTypeOK
<1>5. ListReachesAll'
  BY DEF ListReachesAll, Followed
<1>6. Stacks'
  BY <1>1 DEF Stacks, Doomed, TypeOK
<1> QED BY <1>2, <1>3, <1>4, <1>5, <1>6

LEMMA NextIInv == IInv /\ [Next]_vars => IInv'
<1> SUFFICES ASSUME IInv, [Next]_vars PROVE IInv'
  OBVIOUS
<1>1. CASE Next
  <2>1. machine = "runs"
    BY <1>1 DEF Next
  <2> QED
    BY <1>1, <2>1, FilesIInv, ForkNoPidIInv, ForkResetsIInv, ForkIInv,
       WaitpidIInv, ExecveIInv DEF Next
<1>2. CASE UNCHANGED vars
  <2> USE <1>2 DEF IInv, vars, fileVars, taskVars, stackVars
  <2>1. TypeOK'
    BY DEF TypeOK, FileTypeOK
  <2>2. PidsUnique' /\ HeldStayOpen' /\ Front' /\ OnlyCurrentOverwritten'
    BY DEF PidsUnique, HeldStayOpen, Front, OnlyCurrentOverwritten
  <2>3. ListReachesAll'
    BY DEF ListReachesAll, Followed
  <2>4. Stacks'
    BY DEF Stacks, Doomed
  <2> QED BY <2>1, <2>2, <2>3, <2>4
<1> QED BY <1>1, <1>2

-----------------------------------------------------------------------------
(* The theorems.                                                           *)

\* The inductive invariant holds in every reachable state.
THEOREM Inductive == Spec => []IInv
BY InitIInv, NextIInv, PTL DEF Spec

\* Every field of every task keeps its type through any sequence of calls.
THEOREM TypeCorrect == Spec => []TypeOK
<1>1. IInv => TypeOK
  BY DEF IInv
<1> QED BY <1>1, Inductive, PTL

\* getPid never marks an entry for two tasks.
THEOREM PidsAreUnique == Spec => []PidsUnique
<1>1. IInv => PidsUnique
  BY DEF IInv
<1> QED BY <1>1, Inductive, PTL

\* A descriptor leads to the file it was opened for, across fork as well.
THEOREM DescriptorsHold == Spec => []HeldStayOpen
<1>1. IInv => HeldStayOpen
  BY DEF IInv
<1> QED BY <1>1, Inductive, PTL

\* What open writes through fd[-1] never stays in a field waitpid follows.
THEOREM OverwriteContained == Spec => []OnlyCurrentOverwritten
<1>1. IInv => OnlyCurrentOverwritten
  BY DEF IInv
<1> QED BY <1>1, Inductive, PTL

\* fork and waitpid lose no task of the list.
THEOREM ListWhole == Spec => []ListReachesAll
<1>1. IInv => ListReachesAll
  BY DEF IInv
<1> QED BY <1>1, Inductive, PTL

\* A step that changes the running task is a waitpid, and it succeeds only
\* from First to a child of First.
LEMMA SwitchStep ==
    ASSUME IInv, [Next]_vars, current' # current, machine' = "runs"
    PROVE  current = First /\ ppid[current'] = pid[First]
<1>1. Waitpid /\ machine = "runs"
  BY DEF Next, Files, FileNext, OpenFile, OpenFull, OpenMissing, Close,
         ReadKeyboard, ReadNode, ReadNull, ForkNoPid, ForkResets, Fork, Execve,
         vars, fileVars
<1>2. /\ current' = next /\ rip[next] = "fork" /\ krsp[next] \in frame[next]
  BY <1>1 DEF Waitpid, Rotate, ResumeInFork, ResumeAstray
<1>3. current = First
  BY <1>1, <1>2 DEF IInv, Stacks, Doomed
<1>4. next \in tasks \ {Boot, First}
  BY <1>2 DEF IInv, Front, TypeOK
<1> QED BY <1>1, <1>2, <1>3, <1>4 DEF IInv, Stacks

\* Of all the switches waitpid may attempt, only the first, from First to one
\* of its children, leaves a machine that runs.
THEOREM SurvivesOnce == Spec => OneSwitchSurvives
<1>1. IInv /\ [Next]_vars =>
        [current' # current /\ machine' = "runs" =>
            current = First /\ ppid[current'] = pid[First]]_vars
  BY SwitchStep
<1> QED BY <1>1, Inductive, PTL DEF Spec, OneSwitchSurvives

\* fork and waitpid never bring back a task from behind the first two.
THEOREM NeverFromBehind == Spec => BehindNeverRuns
<1>1. IInv /\ [Next]_vars =>
        [\A t \in tasks \ {current, next} : t \notin {current', next'}]_vars
  <2> SUFFICES ASSUME IInv, Next, NEW t \in tasks \ {current, next}
               PROVE  t \notin {current', next'}
    OBVIOUS
  <2>1. CASE \E child \in Task \ tasks : Fork(child)
    BY <2>1 DEF Fork, Insert
  <2>2. CASE Waitpid
    BY <2>2 DEF Waitpid, Rotate
  <2>3. CASE Files \/ ForkNoPid \/ ForkResets \/ Execve
    BY <2>3 DEF Files, FileNext, OpenFile, OpenFull, OpenMissing, Close,
         ReadKeyboard, ReadNode, ReadNull, ForkNoPid, ForkResets, Execve
  <2> QED BY <2>1, <2>2, <2>3 DEF Next
<1> QED BY <1>1, Inductive, PTL DEF Spec, BehindNeverRuns

-----------------------------------------------------------------------------
(* The descriptor tables by themselves: FileSpec, whose tasks only open,   *)
(* read and close, with the standard three still without a node.           *)

FileIInv == FileTypeOK /\ HeldStayOpen

\* It holds at the start.
LEMMA FileInitIInv == FileInit => FileIInv
<1> SUFFICES ASSUME FileInit PROVE FileIInv
  OBVIOUS
<1>1. \A fd \in 0 .. FIRSTFD - 1 : fd \in Fd
  BY FileTableAssumption DEF Fd
<1>2. FileTypeOK
  BY <1>1 DEF FileInit, FileTypeOK, setfdArray
<1>3. HeldStayOpen
  BY DEF FileInit, HeldStayOpen
<1> QED
  BY <1>2, <1>3 DEF FileIInv

\* Opening: the entry was free and is not one of the standard three.
LEMMA OpenIInv ==
    ASSUME FileIInv, NEW f \in File, OpenFile(f)
    PROVE  FileIInv'
<1>1. PICK fd \in Fd :
          /\ getfd(node[current], fd)
          /\ node' = [node EXCEPT ![current][fd] = f]
          /\ held' = [held EXCEPT ![current][fd] = f]
          /\ answer' = fd
  BY DEF OpenFile
<1>2. fd \in FIRSTFD .. FDS - 1 /\ fd \in Int /\ fd \notin 0 .. FIRSTFD - 1
  BY <1>1, FileTableAssumption DEF getfd
<1>3. FileTypeOK'
  <2>1. \A t \in Task : \A d \in 0 .. FIRSTFD - 1 : node'[t][d] = NoNode
    BY <1>1, <1>2 DEF FileIInv, FileTypeOK
  <2> QED
    BY <1>1, <1>2, <2>1 DEF FileIInv, FileTypeOK, OpenFile
<1>4. HeldStayOpen'
  BY <1>1 DEF FileIInv, FileTypeOK, HeldStayOpen
<1> QED
  BY <1>3, <1>4 DEF FileIInv

\* close clears the first entry (libc/close.c:10), which getfd never gives.
LEMMA CloseIInv ==
    ASSUME FileIInv, NEW fd \in Fd, Close(fd)
    PROVE  FileIInv'
<1>1. node' = [node EXCEPT ![current][0] = NoNode]
  BY DEF Close, DescriptorPassed
<1>2. held' = [held EXCEPT ![current][fd] = NoNode]
  BY DEF Close
<1>3. FileTypeOK'
  <2>1. /\ node \in [Task -> [Fd -> File \cup {NoNode}]]
        /\ current \in Task
        /\ held \in [Task -> [Fd -> File \cup {NoNode}]]
    BY DEF FileIInv, FileTypeOK
  <2>2. 0 \in 0 .. FIRSTFD - 1
    BY FileTableAssumption
  <2>3. node[current][0] = NoNode
    BY <2>1, <2>2 DEF FileIInv, FileTypeOK
  <2>4. [node[current] EXCEPT ![0] = NoNode] = node[current]
    BY <2>1, <2>3
  <2>5. node' = node
    BY <1>1, <2>1, <2>4
  <2>6. held' \in [Task -> [Fd -> File \cup {NoNode}]]
    <3>1. NoNode \in File \cup {NoNode}
      OBVIOUS
    <3>2. [held[current] EXCEPT ![fd] = NoNode] \in [Fd -> File \cup {NoNode}]
      BY <2>1, <3>1
    <3>3. held' = [held EXCEPT ![current] = [held[current] EXCEPT ![fd] = NoNode]]
      BY <1>2
    <3> QED
      BY <2>1, <3>2, <3>3
  <2>7. answer' = 0 /\ UNCHANGED <<node, link, current, machine, data>>
    BY <2>5 DEF Close
  <2> QED
    BY <2>6, <2>7 DEF FileIInv, FileTypeOK
<1>4. HeldStayOpen'
  <2> SUFFICES ASSUME NEW t \in Task, NEW d \in Fd, held'[t][d] # NoNode
               PROVE  node'[t][d] = held'[t][d]
    BY DEF HeldStayOpen
  <2>1. held[t][d] # NoNode /\ held'[t][d] = held[t][d]
    BY <1>2 DEF FileIInv, FileTypeOK
  <2>2. node[t][d] = held[t][d]
    BY <2>1 DEF FileIInv, HeldStayOpen
  <2>3. d # 0
    BY <2>1, <2>2, FileTableAssumption DEF FileIInv, FileTypeOK
  <2> QED
    BY <1>1, <2>1, <2>2, <2>3 DEF FileIInv, FileTypeOK
<1> QED
  BY <1>3, <1>4 DEF FileIInv

\* Reads and refused opens leave the tables alone.
LEMMA OthersIInv ==
    ASSUME FileIInv, UNCHANGED <<node, held, current>>,
           \/ \E f \in File : OpenFull(f)
           \/ OpenMissing
           \/ ReadKeyboard
           \/ \E fd \in Fd \cup {-1} : ReadNode(fd) \/ ReadNull(fd)
           \/ UNCHANGED fileVars
    PROVE  FileIInv'
<1>1. HeldStayOpen'
  BY DEF FileIInv, HeldStayOpen
<1>2. ASSUME NEW f \in File, OpenFull(f)
      PROVE  FileTypeOK'
  BY <1>2 DEF OpenFull, FileIInv, FileTypeOK
<1>3. CASE OpenMissing
  BY <1>1, <1>3 DEF OpenMissing, FileIInv, FileTypeOK
<1>4. CASE ReadKeyboard
  BY <1>1, <1>4 DEF ReadKeyboard, FileIInv, FileTypeOK
<1>5. ASSUME NEW fd \in Fd \cup {-1}, ReadNode(fd)
      PROVE  FileTypeOK'
  BY <1>5 DEF ReadNode, FileIInv, FileTypeOK
<1>6. ASSUME NEW fd \in Fd \cup {-1}, ReadNull(fd)
      PROVE  FileTypeOK'
  BY <1>6 DEF ReadNull, FileIInv, FileTypeOK
<1>7. CASE UNCHANGED fileVars
  BY <1>1, <1>7 DEF fileVars, FileIInv, FileTypeOK
<1> QED
  BY <1>1, <1>2, <1>3, <1>4, <1>5, <1>6, <1>7 DEF FileIInv

\* Every step keeps it.
LEMMA FileNextIInv == FileIInv /\ [FileNext]_fileVars => FileIInv'
<1> SUFFICES ASSUME FileIInv, [FileNext]_fileVars PROVE FileIInv'
  OBVIOUS
<1>1. ASSUME NEW f \in File, OpenFile(f) PROVE FileIInv'
  BY <1>1, OpenIInv
<1>2. ASSUME NEW fd \in Fd, Close(fd) PROVE FileIInv'
  BY <1>2, CloseIInv
<1>3. ASSUME NEW f \in File, OpenFull(f) PROVE FileIInv'
  <2>1. UNCHANGED <<node, held, current>>
    BY <1>3 DEF OpenFull
  <2> QED
    BY <1>3, <2>1, OthersIInv
<1>4. CASE OpenMissing
  <2>1. UNCHANGED <<node, held, current>>
    BY <1>4 DEF OpenMissing
  <2> QED
    BY <1>4, <2>1, OthersIInv
<1>5. CASE ReadKeyboard
  <2>1. UNCHANGED <<node, held, current>>
    BY <1>5 DEF ReadKeyboard
  <2> QED
    BY <1>5, <2>1, OthersIInv
<1>6. ASSUME NEW fd \in Fd \cup {-1}, ReadNode(fd) \/ ReadNull(fd) PROVE FileIInv'
  <2>1. UNCHANGED <<node, held, current>>
    BY <1>6 DEF ReadNode, ReadNull
  <2> QED
    BY <1>6, <2>1, OthersIInv
<1>7. CASE UNCHANGED fileVars
  <2>1. UNCHANGED <<node, held, current>>
    BY <1>7 DEF fileVars
  <2> QED
    BY <1>7, <2>1, OthersIInv
<1> QED
  BY <1>1, <1>2, <1>3, <1>4, <1>5, <1>6, <1>7 DEF FileNext

\* It always holds.
LEMMA FileInductive == FileSpec => []FileIInv
BY FileInitIInv, FileNextIInv, PTL DEF FileSpec

\* Types, for every table size: entries below the first that is given stay
\* without a node.
THEOREM TypesHold == FileSpec => []FileTypeOK
<1>1. FileIInv => FileTypeOK
  BY DEF FileIInv
<1> QED
  BY <1>1, FileInductive, PTL

\* A descriptor leads to the file it was opened for until the program closes
\* it (dir.c:128-205).
THEOREM DescriptorsStay == FileSpec => []HeldStayOpen
<1>1. FileIInv => HeldStayOpen
  BY DEF FileIInv
<1> QED
  BY <1>1, FileInductive, PTL
===============================================================================
