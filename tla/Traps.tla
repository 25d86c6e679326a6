-------------------------------- MODULE Traps --------------------------------
(***************************************************************************)
(* How the kernel is entered and left: the stubs of sys/irq.s, the table   *)
(* of handlers in sys/irq.c, my_syscalls_function of sys/syscalls.c, and   *)
(* the system calls of libc with the registers they pass.  A stub runs     *)
(* with interrupts off, up to the call of its handler in one step and from *)
(* there to iretq in another.  In between there may be page faults, and    *)
(* interrupts once a read has executed sti.  (What fork and waitpid do to  *)
(* the stacks is the matter of Process.)                                   *)
(*                                                                         *)
(* A value of a register says who put it there: <<"user", r>> the program, *)
(* <<"number", n>> and <<"arg", r>> a wrapper of libc, <<"kernel", n, r>>  *)
(* the n-th of the handlers that run within each other, <<"answer", n>>    *)
(* the function that serves call n; Unknown is whatever happens to be      *)
(* there.                                                                  *)
(* The words the processor pushes itself are left out, but for the error   *)
(* code, which the stub has to take off.                                   *)
(***************************************************************************)
EXTENDS Integers, Sequences, SequencesExt

CONSTANT DEPTH  \* bound: entries of the kernel within each other

\* The order of the pushes, the same in all four stubs.
Pushes == <<"rax", "rbx", "rcx", "rdx", "rsi", "rdi", "rbp", "r8", "r9", "r10",
            "r11", "r12", "r13", "r14", "r15">>
Reg == Range(Pushes)

Timer == 32
Key == 33
Gate == 128
Page == 14

ASSUME TrapsAssumption == DEPTH \in Nat \ {0}

\* The system calls of libc: the number in rax, the registers of arguments,
\* and whether rax is an output.
read == [number |-> 3, args |-> {"rbx", "rcx", "rdx"}, out |-> TRUE]
gets == [number |-> 3, args |-> {"rbx", "rcx", "rdx"}, out |-> TRUE]
write == [number |-> 4, args |-> {"rbx", "rcx", "rdx"}, out |-> TRUE]
puts == [number |-> 4, args |-> {"rbx", "rcx", "rdx"}, out |-> TRUE]
putchar == [number |-> 4, args |-> {"rbx", "rcx", "rdx"}, out |-> TRUE]
open == [number |-> 5, args |-> {"rbx", "rcx"}, out |-> TRUE]
close == [number |-> 6, args |-> {"rbx", "rcx"}, out |-> TRUE]
chdir == [number |-> 12, args |-> {"rbx"}, out |-> TRUE]
getcwd == [number |-> 183, args |-> {"rbx", "rcx"}, out |-> TRUE]
ls == [number |-> 200, args |-> {"rbx"}, out |-> TRUE]
ps == [number |-> 270, args |-> {}, out |-> FALSE]
clearscreen == [number |-> 14, args |-> {}, out |-> FALSE]
getpid == [number |-> 20, args |-> {}, out |-> TRUE]
getppid == [number |-> 64, args |-> {}, out |-> TRUE]
fork == [number |-> 2, args |-> {}, out |-> TRUE]
waitpid == [number |-> 7, args |-> {"rbx", "rcx"}, out |-> TRUE]
wait == [number |-> 114, args |-> {"rbx"}, out |-> TRUE]
execve == [number |-> 59, args |-> {"rbx", "rcx", "rdx"}, out |-> TRUE]
execvpe == [number |-> 59, args |-> {"rbx", "rcx", "rdx"}, out |-> TRUE]
exit == [number |-> 1, args |-> {"rbx"}, out |-> FALSE]
sleep == [number |-> 162, args |-> {"rbx"}, out |-> TRUE]
pipe == [number |-> 42, args |-> {"rbx"}, out |-> TRUE]
dup2 == [number |-> 63, args |-> {"rbx", "rcx"}, out |-> TRUE]
Calls == {read, gets, write, puts, putchar, open, close, chdir, getcwd, ls, ps,
          clearscreen, getpid, getppid, fork, waitpid, wait, execve, execvpe,
          exit, sleep, pipe, dup2}
NoCall == [number |-> 0, args |-> {}, out |-> FALSE]

VARIABLES regs,      \* the registers
          stack,     \* the words the stubs pushed on the kernel stack
          entries,   \* the entries of the kernel that are not left yet; their
                     \* fields before, call and under are ghosts
          handlers,  \* interrupt_handlers: the vectors that are registered
          at,        \* "boot", "user", "kernel" or "lost"
          last       \* ghost: the entry that was left last

vars == <<regs, stack, entries, handlers, at, last>>

None == [vector |-> 0, call |-> NoCall]  \* no entry
Kernel(n) == [r \in Reg |-> <<"kernel", n, r>>]
Unknown == <<"any", 0>>
Error == <<"error", 0>>
User == [r \in Reg |-> <<"user", r>>]

-----------------------------------------------------------------------------
(* The stubs.  stack ends with its top.                                    *)

push(words, values) == words \o [i \in DOMAIN Pushes |-> values[Pushes[i]]]

\* The registers after a sequence of pops, each from the top of what is left:
\* what a register has is its last one.
PopAll(values, words, pops) ==
    [r \in Reg |->
        IF r \notin Range(pops) THEN values[r]
        ELSE LET last_pop == CHOOSE i \in DOMAIN pops :
                                pops[i] = r /\ \A j \in DOMAIN pops : j > i => pops[j] # r
             IN  words[Len(words) + 1 - last_pop]]

\* What lies above the saved registers when the handler is called, and what
\* the processor pushed below them.
Extra(vector) == IF vector = Gate THEN <<<<"number", 0>>>> ELSE <<>>
ErrorCode(vector) == IF vector = Page THEN <<Error>> ELSE <<>>

\* Mutant: the registers of an interrupt come back in another order.
Pops_Swapped(vector) ==
    CASE vector = Gate -> <<"r11">> \o Reverse(Tail(Pushes)) \o <<"r13">>
      [] vector = Page -> Reverse(Pushes) \o <<"rbp">>
      [] OTHER -> Reverse(<<"rax", "rbx", "rdx", "rcx">> \o SubSeq(Pushes, 5, 15))

\* Mutant: the system call stub restores rax.
Pops_Rax(vector) ==
    CASE vector = Gate -> <<"r11">> \o Reverse(Pushes)
      [] vector = Page -> Reverse(Pushes) \o <<"rbp">>
      [] OTHER -> Reverse(Pushes)

\* Mutant: the error code stays on the stack.
Pops_KeepsError(vector) ==
    CASE vector = Gate -> <<"r11">> \o Reverse(Tail(Pushes)) \o <<"r13">>
      [] OTHER -> Reverse(Pushes)

\* The pops of each stub: the system call stub gives rax to r13, and the
\* page fault stub the error code to rbp.
Pops(vector) ==
    CASE vector = Gate -> <<"r11">> \o Reverse(Tail(Pushes)) \o <<"r13">>
      [] vector = Page -> Reverse(Pushes) \o <<"rbp">>
      [] OTHER -> Reverse(Pushes)

\* The how manieth push is r.
Place(r) == CHOOSE i \in DOMAIN Pushes : Pushes[i] = r

\* Mutant: the struct has no field for the word above the registers.
Field_NoFlags(words, r) ==
    words[Len(words) - Len(Pushes) + Place(r)]

\* struct our_registers, the argument of the handlers: from the top of the
\* stack on, flags, r15, and so on to rax.
Field(words, r) ==
    words[Len(words) - 1 - Len(Pushes) + Place(r)]

-----------------------------------------------------------------------------
\* The table at boot is empty; irq_main begins with sti.
Init ==
    /\ regs = Kernel(0)
    /\ stack = <<>> /\ entries = <<>>
    /\ handlers = <<>>
    /\ at = "boot"
    /\ last = None

\* irq_main registers the handlers in this order.
Order == <<Key, Timer, Gate, Page>>
register_handler ==
    /\ at = "boot" /\ entries = <<>>
    /\ Len(handlers) < Len(Order)
    /\ handlers' = Append(handlers, Order[Len(handlers) + 1])
    /\ UNCHANGED <<regs, stack, entries, at, last>>

\* createInitThread ends with the switch to the shell.
switch_to_ring3 ==
    /\ at = "boot" /\ entries = <<>>
    /\ Len(handlers) = Len(Order)
    /\ at' = "user"
    /\ UNCHANGED <<regs, stack, entries, handlers, last>>

\* The program puts its values in the registers.
Compute ==
    /\ at = "user"
    /\ regs' = User
    /\ UNCHANGED <<stack, entries, handlers, at, last>>

\* The processor and a stub, up to the handler.  One that is not registered
\* is a call of address 0: the page fault that follows has no handler either
\* while the machine boots.
Enter(vector, values, call) ==
    /\ Len(entries) < DEPTH
    /\ IF vector \in Range(handlers)
       THEN /\ stack' = push(stack \o ErrorCode(vector), values) \o Extra(vector)
            /\ entries' = Append(entries, [vector |-> vector, before |-> values,
                                           call |-> call, from |-> at,
                                           interrupts |-> "off", under |-> stack])
            /\ at' = "kernel"
       ELSE at' = "lost" /\ UNCHANGED <<stack, entries>>
    /\ regs' = Kernel(Len(entries) + 1)
    /\ UNCHANGED <<handlers, last>>

\* A wrapper of libc: its number and arguments, the other registers as they
\* are.
Int80(c) ==
    /\ at = "user"
    /\ Enter(Gate,
             [r \in Reg |-> CASE r = "rax" -> <<"number", c.number>>
                              [] r \in c.args -> <<"arg", r>>
                              [] OTHER -> regs[r]], c)

\* An interrupt, where they are on: in the program, in a read, at boot.
Irq(vector) ==
    /\ \/ at = "user"
       \/ at = "boot"
       \/ at = "kernel" /\ Last(entries).interrupts = "on"
    /\ Enter(vector, regs, NoCall)

\* A page fault: in the program, or where a system call uses its memory.
Fault ==
    /\ at = "user" \/ (at = "kernel" /\ Last(entries).vector = Gate)
    /\ Enter(Page, regs, NoCall)

\* What my_syscalls_function calls for the number it finds in its argument,
\* and with which registers; nothing for a number that has no case.
Served ==
    [number |-> Field(stack, "rax"),
     args |-> [r \in {"rbx", "rcx", "rdx"} |-> Field(stack, r)]]

\* readFromStdin executes sti.
Sti ==
    /\ at = "kernel"
    /\ Last(entries).vector = Gate
    /\ Served.number = <<"number", 3>>
    /\ Last(entries).interrupts = "off"
    /\ entries' = [entries EXCEPT ![Len(entries)].interrupts = "on"]
    /\ UNCHANGED <<regs, stack, handlers, at, last>>

\* The calls whose function leaves its answer in rax.  my_syscalls_function
\* drops the answers and returns nothing; the other calls, and numbers with
\* no case, leave what the build happens to.
Answering == {2, 3, 5, 6, 7, 12, 20, 59, 64, 200}

\* rax when the handler of an entry returns.
Answer(entry) ==
    IF entry.vector = Gate /\ Served.number \in {"number"} \X Answering
    THEN <<"answer", Served.number[2]>> ELSE Unknown

\* The handler returns, and the stub restores what it pops.
Leave ==
    /\ at = "kernel"
    /\ LET entry == Last(entries)
           pops == Pops(entry.vector)
       IN  /\ regs' = PopAll([regs EXCEPT !["rax"] = Answer(entry)], stack, pops)
           /\ stack' = SubSeq(stack, 1, Len(stack) - Len(pops))
           /\ entries' = Front(entries)
           /\ at' = entry.from
           /\ last' = entry
    /\ UNCHANGED handlers

Next ==
    \/ register_handler \/ switch_to_ring3 \/ Compute
    \/ \E c \in Calls : Int80(c)
    \/ \E vector \in {Timer, Key} : Irq(vector)
    \/ Fault \/ Sti \/ Leave

Spec == Init /\ [][Next]_vars

-----------------------------------------------------------------------------
Values == {Unknown, Error} \cup ({"number"} \X {c.number : c \in Calls})
              \cup ({"user", "arg"} \X Reg) \cup ({"kernel"} \X (0 .. DEPTH) \X Reg)
              \cup ({"answer"} \X Answering)

\* Types.
TypeOK ==
    /\ regs \in [Reg -> Values]
    /\ at \in {"boot", "user", "kernel", "lost"}
    /\ at = "kernel" <=> entries # <<>>
    /\ Len(entries) <= DEPTH

\* What a stub put on top of the stack it found.
Saved(e) == push(e.under \o ErrorCode(e.vector), e.before) \o Extra(e.vector)

\* The stack is what the entries not left put there, one on top of the other,
\* whichever stubs (irq.s:10-147) ran within which: no word is left behind, in
\* the program or under a stub that goes on.
StackBalanced ==
    at # "lost" =>
        /\ stack = IF entries = <<>> THEN <<>> ELSE Saved(Last(entries))
        /\ \A i \in DOMAIN entries :
              entries[i].under = IF i = 1 THEN <<>> ELSE Saved(entries[i - 1])

\* The stubs give back the registers (irq.s:27-41, 62-77, 97-111, 131-146):
\* an interrupt all of them, a call all but its answer and r13, a page
\* fault all but rbp; also when they run within a read.
Lost(vector) == CASE vector = Gate -> {"rax", "r13"} [] vector = Page -> {"rbp"}
                  [] OTHER -> {}
GivesBack(vectors, lost) ==
    Len(entries') < Len(entries) /\ Last(entries).vector \in vectors =>
        \A r \in Reg \ lost : regs'[r] = Last(entries).before[r]
Transparent ==
    [][\A v \in {Timer, Key, Gate, Page} : GivesBack({v}, Lost(v))]_vars

\* The switch on r.rax, and its arguments r.rbx, r.rcx and r.rdx
\* (syscalls.c:153-156), find what the wrapper passed.
ArgumentsArrive ==
    at = "kernel" /\ Last(entries).vector = Gate =>
        /\ Served.number = <<"number", Last(entries).call.number>>
        /\ \A r \in Last(entries).call.args : Served.args[r] = <<"arg", r>>

\* A wrapper takes from rax the answer of the function that served its call,
\* although nothing hands it on (syscalls.c:160-225, irq.s:61-78).
AnswerArrives ==
    [][Len(entries') < Len(entries) /\ Last(entries).vector = Gate
           /\ Last(entries).call.out
           /\ Last(entries).call.number \in Answering =>
          regs'["rax"] = <<"answer", Last(entries).call.number>>]_vars

\* A call changes no register but rax, as the wrappers tell the compiler
\* ("=a" (ret) and the clobber "memory", libc/puts.c:8-10).
OnlyRaxChanges == [][GivesBack({Gate}, {"rax"})]_vars

\* A page fault is not noticed ("Gracefully handling pagefault at %x",
\* irq.c:133).
FaultNotNoticed == [][GivesBack({Page}, {})]_vars

\* exit does not come back ("12.exit", README:59).
ExitEnds == last.call # exit

\* An interrupt finds its handler ("Map IRQ0 to index 32, IRQ1 to index 33",
\* idt.c:67).
IrqHandled == at # "lost"
=============================================================================
