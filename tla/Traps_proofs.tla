----------------------------- MODULE Traps_proofs -----------------------------
(***************************************************************************)
(* The theorems of Traps, for every depth to which the kernel may be       *)
(* entered.  The argument has two parts.  The first is about one stub, as  *)
(* words and places: where each register lies in what the stub saved       *)
(* (SavedWords), which pop reaches which word (PopOrder, Popped), and so   *)
(* what comes back (StubRestores) and what a handler finds (FieldSaved).   *)
(* The second is the invariant IInv: the stack is the frames of the        *)
(* entries, one on top of the other, and an entry of a system call has the *)
(* registers its wrapper loaded.  It also has to say why a stub never runs *)
(* without its handler: only irq_main runs before all are registered, and  *)
(* only a system call is interrupted in the kernel.                        *)
(***************************************************************************)
EXTENDS Traps, SequenceTheorems, TLAPS

-----------------------------------------------------------------------------
(* The fifteen registers.                                                  *)

\* Each is pushed once.
LEMMA PushedOnce ==
    /\ Len(Pushes) = 15 /\ DOMAIN Pushes = 1 .. 15
    /\ Pushes[1] = "rax" /\ Pushes[6] = "rdi" /\ Pushes[7] = "rbp" /\ Pushes[11] = "r11" /\ Pushes[13] = "r13"
    /\ Pushes[2] = "rbx" /\ Pushes[3] = "rcx" /\ Pushes[4] = "rdx"
    /\ \A i \in 1 .. 15 : Pushes[i] \in Reg
    /\ \A r \in Reg : \E i \in 1 .. 15 : Pushes[i] = r
    /\ \A i, j \in 1 .. 15 : Pushes[i] = Pushes[j] => i = j
<1>1. /\ Len(Pushes) = 15 /\ DOMAIN Pushes = 1 .. 15
      /\ Pushes[1] = "rax" /\ Pushes[7] = "rbp" /\ Pushes[11] = "r11" /\ Pushes[13] = "r13"
      /\ Pushes[2] = "rbx" /\ Pushes[3] = "rcx" /\ Pushes[4] = "rdx"  /\ Pushes[6] = "rdi"
  BY DEF Pushes
<1>2. /\ \A i \in 1 .. 15 : Pushes[i] \in Reg
      /\ \A r \in Reg : \E i \in 1 .. 15 : Pushes[i] = r
  BY <1>1 DEF Reg, Range
<1>3. \A i, j \in 1 .. 15 : Pushes[i] = Pushes[j] => i = j
  <2>1. ASSUME NEW i \in 1 .. 15, NEW j \in 1 .. 15, i < j PROVE Pushes[i] # Pushes[j]
    <3>1. i \in {1, 2, 3, 4, 5, 6, 7, 8, 9, 10, 11, 12, 13, 14}
      BY <2>1
    <3>2. QED
      BY <2>1, <3>1 DEF Pushes
  <2>2. QED
    BY <2>1
<1>4. QED
  BY <1>1, <1>2, <1>3

\* The place of a register among the pushes.
LEMMA PlaceOf ==
    ASSUME NEW r \in Reg
    PROVE  Place(r) \in 1 .. 15 /\ Pushes[Place(r)] = r /\ \A i \in 1 .. 15 : Pushes[i] = r => i = Place(r)
BY PushedOnce DEF Place

\* What the wrappers pass is in the registers my_syscalls_function reads.
LEMMA CallTypes ==
    /\ \A c \in Calls : c.args \subseteq {"rbx", "rcx", "rdx"}
    /\ \A c \in Calls : c.number \in Nat
<1>1. \A c \in Calls : c.args \subseteq {"rbx", "rcx", "rdx"}
BY DEF Calls, read, gets, write, puts, putchar, open, close, chdir, getcwd, ls, ps,
          clearscreen, getpid, getppid, fork, waitpid, wait, execve, execvpe,
          exit, sleep, pipe, dup2
<1>2. \A c \in Calls : c.number \in Nat
BY DEF Calls, read, gets, write, puts, putchar, open, close, chdir, getcwd, ls, ps,
          clearscreen, getpid, getppid, fork, waitpid, wait, execve, execvpe,
          exit, sleep, pipe, dup2
<1> QED BY <1>1, <1>2

\* A register has the word that its last pop takes.
LEMMA Popped ==
    ASSUME NEW values, NEW words, NEW pops \in Seq(Reg), NEW i \in 1 .. Len(pops),
           \A j \in 1 .. Len(pops) : j > i => pops[j] # pops[i]
    PROVE  PopAll(values, words, pops)[pops[i]] = words[Len(words) + 1 - i]
<1>1. DOMAIN pops = 1 .. Len(pops) /\ Len(pops) \in Nat /\ pops[i] \in Reg
  OBVIOUS
<1> DEFINE lp == CHOOSE k \in DOMAIN pops :
                    pops[k] = pops[i] /\ \A j \in DOMAIN pops : j > k => pops[j] # pops[i]
<1>7. \E k \in DOMAIN pops : pops[k] = pops[i] /\ \A j \in DOMAIN pops : j > k => pops[j] # pops[i]
  BY <1>1
<1>2. lp \in DOMAIN pops /\ pops[lp] = pops[i] /\ \A j \in DOMAIN pops : j > lp => pops[j] # pops[i]
  BY <1>7
<1>3. lp = i
  BY <1>1, <1>2
<1>4. pops[i] \in Range(pops)
  BY <1>1 DEF Range
<1>5. PopAll(values, words, pops)[pops[i]] = words[Len(words) + 1 - lp]
  BY <1>1, <1>4 DEF PopAll
<1>6. QED
  BY <1>3, <1>5

\* A register that no pop takes stays.
LEMMA NotPopped ==
    ASSUME NEW values, NEW words, NEW pops, NEW r \in Reg, r \notin Range(pops)
    PROVE  PopAll(values, words, pops)[r] = values[r]
BY DEF PopAll

-----------------------------------------------------------------------------
(* Sequences.                                                              *)

\* A function on 1 .. n is a sequence.
LEMMA AsSequence ==
    ASSUME NEW S, NEW n \in Nat, NEW f \in [1 .. n -> S]
    PROVE  f \in Seq(S) /\ Len(f) = n
OBVIOUS

\* The two parts of a concatenation.
LEMMA Parts ==
    ASSUME NEW S, NEW s \in Seq(S), NEW t \in Seq(S)
    PROVE  /\ s \o t \in Seq(S)
           /\ Len(s) \in Nat /\ Len(t) \in Nat /\ Len(s \o t) = Len(s) + Len(t)
           /\ \A i \in 1 .. Len(s) : (s \o t)[i] = s[i]
           /\ \A i \in 1 .. Len(t) : (s \o t)[Len(s) + i] = t[i]
<1>1. Len(s) \in Nat /\ Len(t) \in Nat
  OBVIOUS
<1>2. /\ s \o t \in Seq(S) /\ Len(s \o t) = Len(s) + Len(t)
      /\ \A i \in 1 .. Len(s) + Len(t) :
            (s \o t)[i] = IF i <= Len(s) THEN s[i] ELSE t[i - Len(s)]
  BY ConcatProperties
<1>3. ASSUME NEW i \in 1 .. Len(t) PROVE (s \o t)[Len(s) + i] = t[i]
  <2>1. Len(s) + i \in 1 .. Len(s) + Len(t) /\ ~ (Len(s) + i <= Len(s)) /\ Len(s) + i - Len(s) = i
    BY <1>1
  <2>2. QED
    BY <1>2, <2>1
<1>4. QED
  BY <1>1, <1>2, <1>3

\* A sequence backwards.
LEMMA Reversed ==
    ASSUME NEW S, NEW s \in Seq(S)
    PROVE  /\ Reverse(s) \in Seq(S) /\ Len(Reverse(s)) = Len(s)
           /\ \A i \in 1 .. Len(s) : Reverse(s)[i] = s[Len(s) + 1 - i]
<1>1. Len(s) \in Nat /\ \A i \in 1 .. Len(s) : s[i] \in S
  OBVIOUS
<1>2. \A i \in 1 .. Len(s) : Len(s) - i + 1 \in 1 .. Len(s) /\ Len(s) - i + 1 = Len(s) + 1 - i
  BY <1>1
<1>3. Reverse(s) \in [1 .. Len(s) -> S]
  BY <1>1, <1>2 DEF Reverse
<1>4. QED
  BY <1>1, <1>2, <1>3, AsSequence DEF Reverse

-----------------------------------------------------------------------------
(* What the stubs save and take.                                           *)

Vectors == {Timer, Key, Gate, Page}

\* The words on the stack.
Words == Values \cup {<<"number", 0>>}

\* What is pushed lies above what there was, in the order of the pushes.
LEMMA PushedWords ==
    ASSUME NEW u \in Seq(Words), NEW before \in [Reg -> Values]
    PROVE  /\ push(u, before) \in Seq(Words) /\ Len(push(u, before)) = Len(u) + 15
           /\ \A i \in 1 .. 15 : push(u, before)[Len(u) + i] = before[Pushes[i]]
           /\ \A i \in 1 .. Len(u) : push(u, before)[i] = u[i]
<1> DEFINE top == [i \in DOMAIN Pushes |-> before[Pushes[i]]]
<1>1. /\ top \in Seq(Words) /\ Len(top) = 15
      /\ \A i \in 1 .. 15 : top[i] = before[Pushes[i]]
  <2>1. top \in [1 .. 15 -> Words]
    BY PushedOnce DEF Words
  <2>2. \A i \in 1 .. 15 : top[i] = before[Pushes[i]]
    BY PushedOnce
  <2> HIDE DEF top
  <2>3. top \in Seq(Words) /\ Len(top) = 15
    <3>1. 15 \in Nat
      OBVIOUS
    <3>2. QED
      BY <2>1, <3>1, AsSequence, Zenon
  <2>4. QED
    BY <2>2, <2>3
<1>2. push(u, before) = u \o top
  BY DEF push
<1> HIDE DEF top
<1>3. /\ u \o top \in Seq(Words) /\ Len(u \o top) = Len(u) + Len(top)
      /\ \A i \in 1 .. Len(u) : (u \o top)[i] = u[i]
      /\ \A i \in 1 .. Len(top) : (u \o top)[Len(u) + i] = top[i]
  <2>1. top \in Seq(Words)
    BY <1>1
  <2>2. QED
    BY <2>1, Parts
<1> DEFINE all == u \o top
<1> HIDE DEF all
<1>4. /\ all \in Seq(Words) /\ Len(all) = Len(u) + 15
      /\ \A i \in 1 .. Len(u) : all[i] = u[i]
  BY <1>1, <1>3 DEF all
<1>5. \A i \in 1 .. 15 : all[Len(u) + i] = before[Pushes[i]]
  BY <1>1, <1>3 DEF all
<1>6. push(u, before) = all
  BY <1>2 DEF all
<1>7. QED
  BY <1>4, <1>5, <1>6

\* The pops, from the first.
LEMMA PopOrder ==
    ASSUME NEW v \in Vectors
    PROVE  /\ Pops(v) \in Seq(Reg)
           /\ v \in {Timer, Key} => /\ Len(Pops(v)) = 15
                                    /\ \A i \in 1 .. 15 : Pops(v)[i] = Pushes[16 - i]
           /\ v = Page => /\ Len(Pops(v)) = 16 /\ Pops(v)[16] = "rbp"
                          /\ \A i \in 1 .. 15 : Pops(v)[i] = Pushes[16 - i]
           /\ v = Gate => /\ Len(Pops(v)) = 16 /\ Pops(v)[1] = "r11" /\ Pops(v)[16] = "r13"
                          /\ \A i \in 2 .. 15 : Pops(v)[i] = Pushes[17 - i]
<1>1. Pushes \in Seq(Reg) /\ Len(Pushes) = 15
  <2>1. Pushes \in [1 .. 15 -> Reg]
    <3>1. Pushes = [i \in 1 .. 15 |-> Pushes[i]]
      BY DEF Pushes
    <3>2. QED
      BY <3>1, PushedOnce
  <2>2. QED
    BY <2>1, AsSequence
<1>2. "r11" \in Reg /\ "r13" \in Reg /\ "rbp" \in Reg
  BY PushedOnce
<1>3. /\ Reverse(Pushes) \in Seq(Reg) /\ Len(Reverse(Pushes)) = 15
      /\ \A i \in 1 .. 15 : Reverse(Pushes)[i] = Pushes[16 - i]
  <2>1. /\ Reverse(Pushes) \in Seq(Reg) /\ Len(Reverse(Pushes)) = Len(Pushes)
        /\ \A i \in 1 .. Len(Pushes) : Reverse(Pushes)[i] = Pushes[Len(Pushes) + 1 - i]
    BY <1>1, Reversed
  <2>2. QED
    BY <1>1, <2>1
<1>4. /\ Tail(Pushes) \in Seq(Reg) /\ Len(Tail(Pushes)) = 14
      /\ \A i \in 1 .. 14 : Tail(Pushes)[i] = Pushes[i + 1]
  <2>1. Pushes # <<>>
    BY <1>1
  <2>2. /\ Tail(Pushes) \in Seq(Reg) /\ Len(Tail(Pushes)) = Len(Pushes) - 1
        /\ \A i \in 1 .. Len(Tail(Pushes)) : Tail(Pushes)[i] = Pushes[i + 1]
    BY <1>1, <2>1, HeadTailProperties
  <2> DEFINE rest == Tail(Pushes)
  <2> HIDE DEF rest
  <2>3. /\ rest \in Seq(Reg) /\ Len(rest) = Len(Pushes) - 1
        /\ \A i \in 1 .. Len(rest) : rest[i] = Pushes[i + 1]
    BY <2>2 DEF rest
  <2>4. /\ rest \in Seq(Reg) /\ Len(rest) = 14
        /\ \A i \in 1 .. 14 : rest[i] = Pushes[i + 1]
    BY <1>1, <2>3
  <2>5. QED
    BY <2>4 DEF rest
<1>5. /\ Reverse(Tail(Pushes)) \in Seq(Reg) /\ Len(Reverse(Tail(Pushes))) = 14
      /\ \A i \in 1 .. 14 : Reverse(Tail(Pushes))[i] = Pushes[16 - i]
  <2> DEFINE rest == Tail(Pushes)
  <2> HIDE DEF rest
  <2>4. rest \in Seq(Reg) /\ Len(rest) = 14
    BY <1>4 DEF rest
  <2>5. /\ Reverse(rest) \in Seq(Reg) /\ Len(Reverse(rest)) = Len(rest)
        /\ \A i \in 1 .. Len(rest) : Reverse(rest)[i] = rest[Len(rest) + 1 - i]
    BY <2>4, Reversed
  <2>1. /\ Reverse(rest) \in Seq(Reg) /\ Len(Reverse(rest)) = 14
        /\ \A i \in 1 .. 14 : Reverse(rest)[i] = rest[15 - i]
    BY <2>4, <2>5
  <2>2. ASSUME NEW i \in 1 .. 14 PROVE rest[15 - i] = Pushes[16 - i]
    <3>1. 15 - i \in 1 .. 14 /\ (15 - i) + 1 = 16 - i
      OBVIOUS
    <3>2. rest[15 - i] = Pushes[(15 - i) + 1]
      BY <1>4, <3>1 DEF rest
    <3>3. QED
      BY <3>1, <3>2
  <2>3. QED
    BY <2>1, <2>2 DEF rest
<1>6. CASE v \in {Timer, Key}
  <2>1. Pops(v) = Reverse(Pushes)
    BY <1>6 DEF Pops, Timer, Key, Gate, Page
  <2>2. v # Gate /\ v # Page
    BY <1>6 DEF Timer, Key, Gate, Page
  <2>3. QED
    BY <1>3, <1>6, <2>1, <2>2
<1>7. CASE v = Page
  <2>1. Pops(v) = Reverse(Pushes) \o <<"rbp">>
    BY <1>7 DEF Pops, Gate, Page
  <2>2. <<"rbp">> \in Seq(Reg) /\ Len(<<"rbp">>) = 1 /\ <<"rbp">>[1] = "rbp"
    BY <1>2
  <2> DEFINE all == Reverse(Pushes) \o <<"rbp">>
  <2> DEFINE back == Reverse(Pushes)
             one == <<"rbp">>
  <2> HIDE DEF back, one
  <2>8. back \in Seq(Reg) /\ one \in Seq(Reg)
    BY <1>3, <2>2 DEF back, one
  <2>12. Len(back) = 15 /\ Len(one) = 1
    BY <1>3, <2>2 DEF back, one
  <2>10. all = back \o one
    BY DEF back, one
  <2> HIDE DEF all
  <2>9. /\ all \in Seq(Reg) /\ Len(all) = Len(back) + Len(one)
        /\ \A i \in 1 .. Len(back) : all[i] = back[i]
        /\ \A i \in 1 .. Len(one) : all[Len(back) + i] = one[i]
    BY <2>8, <2>10, Parts
  <2>11. /\ all \in Seq(Reg) /\ Len(all) = 16
         /\ \A i \in 1 .. 15 : all[i] = back[i]
         /\ \A i \in 1 .. 1 : all[15 + i] = one[i]
    BY <2>9, <2>12
  <2>3. /\ all \in Seq(Reg) /\ Len(all) = 16
        /\ \A i \in 1 .. 15 : all[i] = Reverse(Pushes)[i]
        /\ \A i \in 1 .. 1 : all[15 + i] = <<"rbp">>[i]
    BY <2>11 DEF back, one
  <2>4. all[15 + 1] = "rbp"
    BY <2>2, <2>3
  <2> HIDE DEF all
  <2>5. v # Gate /\ v # Timer /\ v # Key
    BY <1>7 DEF Timer, Key, Gate, Page
  <2>6. Pops(v) = all
    BY <2>1 DEF all
  <2>7. QED
    BY <1>3, <1>7, <2>3, <2>4, <2>5, <2>6
<1>8. CASE v = Gate
  <2> DEFINE rest == Reverse(Tail(Pushes))
             first == <<"r11">> \o rest
             all == first \o <<"r13">>
  <2>1. Pops(v) = all
    BY <1>8 DEF Pops, Gate, Page
  <2>2. /\ <<"r13">> \in Seq(Reg) /\ Len(<<"r13">>) = 1 /\ <<"r13">>[1] = "r13"
        /\ <<"r11">> \in Seq(Reg) /\ Len(<<"r11">>) = 1 /\ <<"r11">>[1] = "r11"
    BY <1>2
  <2> DEFINE r11 == <<"r11">>
             r13 == <<"r13">>
  <2>10. /\ rest \in Seq(Reg) /\ r11 \in Seq(Reg) /\ r13 \in Seq(Reg)
         /\ first = r11 \o rest /\ all = first \o r13
    BY <1>5, <2>2
  <2>11. /\ Len(rest) = 14 /\ Len(r11) = 1 /\ r11[1] = "r11" /\ Len(r13) = 1 /\ r13[1] = "r13"
         /\ \A i \in 1 .. 14 : rest[i] = Pushes[16 - i]
    BY <1>5, <2>2
  <2> HIDE DEF rest, first, all, r11, r13
  <2>12. /\ first \in Seq(Reg) /\ Len(first) = Len(r11) + Len(rest)
         /\ \A i \in 1 .. Len(r11) : first[i] = r11[i]
         /\ \A i \in 1 .. Len(rest) : first[Len(r11) + i] = rest[i]
    BY <2>10, Parts
  <2>3. /\ first \in Seq(Reg) /\ Len(first) = 15
        /\ \A i \in 1 .. 1 : first[i] = r11[i]
        /\ \A i \in 1 .. 14 : first[1 + i] = rest[i]
    BY <2>11, <2>12
  <2>4. ASSUME NEW i \in 2 .. 15 PROVE first[i] = Pushes[17 - i]
    <3>1. i - 1 \in 1 .. 14 /\ 1 + (i - 1) = i /\ 16 - (i - 1) = 17 - i
      OBVIOUS
    <3>2. first[1 + (i - 1)] = rest[i - 1]
      BY <2>3, <3>1
    <3>3. rest[i - 1] = Pushes[16 - (i - 1)]
      BY <2>11, <3>1
    <3>4. QED
      BY <3>1, <3>2, <3>3
  <2>5. first[1] = "r11"
    BY <2>3, <2>11
  <2>13. first \in Seq(Reg)
    BY <2>3
  <2>14. /\ all \in Seq(Reg) /\ Len(all) = Len(first) + Len(r13)
         /\ \A i \in 1 .. Len(first) : all[i] = first[i]
         /\ \A i \in 1 .. Len(r13) : all[Len(first) + i] = r13[i]
    BY <2>10, <2>13, Parts
  <2>6. /\ all \in Seq(Reg) /\ Len(all) = 16
        /\ \A i \in 1 .. 15 : all[i] = first[i]
        /\ \A i \in 1 .. 1 : all[15 + i] = r13[i]
    BY <2>3, <2>11, <2>14
  <2>7. all[15 + 1] = "r13" /\ all[1] = "r11"
    BY <2>5, <2>6, <2>11
  <2>8. v # Page /\ v # Timer /\ v # Key
    BY <1>8 DEF Timer, Key, Gate, Page
  <2>9. QED
    BY <1>8, <2>1, <2>4, <2>6, <2>7, <2>8
<1>9. QED
  BY <1>6, <1>7, <1>8 DEF Vectors

\* What the fields of an entry that say what is saved may be.
Saves(e) ==
    e.vector \in Vectors /\ e.before \in [Reg -> Values] /\ e.under \in Seq(Words)

\* The words of an entry.
LEMMA SavedWords ==
    ASSUME NEW e, Saves(e)
    PROVE  /\ Saved(e) \in Seq(Words) /\ Len(e.under) \in Nat
           /\ Len(Saved(e)) = Len(e.under) + Len(Pops(e.vector))
           /\ SubSeq(Saved(e), 1, Len(e.under)) = e.under
           /\ \E base \in Nat :
                 /\ Len(Saved(e)) = base + 15 + (IF e.vector = Gate THEN 1 ELSE 0)
                 /\ \A i \in 1 .. 15 : Saved(e)[base + i] = e.before[Pushes[i]]
                 /\ e.vector = Page => Saved(e)[base] = Error
<1> DEFINE v == e.vector
           u == e.under \o ErrorCode(v)
           p == push(u, e.before)
<1>0. v \in Vectors /\ e.before \in [Reg -> Values] /\ e.under \in Seq(Words)
  BY DEF Saves
<1>1. /\ ErrorCode(v) \in Seq(Words) /\ Len(ErrorCode(v)) = IF v = Page THEN 1 ELSE 0
      /\ v = Page => ErrorCode(v)[1] = Error
  <2>1. Error \in Words
    BY DEF Words, Values
  <2>2. QED
    BY <2>1 DEF ErrorCode
<1>2. Extra(v) \in Seq(Words) /\ Len(Extra(v)) = IF v = Gate THEN 1 ELSE 0
  <2>1. <<"number", 0>> \in Words
    BY DEF Words
  <2>2. QED
    BY <2>1 DEF Extra
<1>3. /\ u \in Seq(Words) /\ Len(u) = Len(e.under) + Len(ErrorCode(v))
      /\ Len(e.under) \in Nat /\ Len(ErrorCode(v)) \in Nat
      /\ \A i \in 1 .. Len(e.under) : u[i] = e.under[i]
      /\ \A i \in 1 .. Len(ErrorCode(v)) : u[Len(e.under) + i] = ErrorCode(v)[i]
  <2> DEFINE x == e.under
             y == ErrorCode(v)
  <2>1. x \in Seq(Words) /\ y \in Seq(Words) /\ u = x \o y
    BY <1>0, <1>1
  <2> HIDE DEF x, y, u
  <2>2. /\ x \o y \in Seq(Words) /\ Len(x \o y) = Len(x) + Len(y)
        /\ Len(x) \in Nat /\ Len(y) \in Nat
        /\ \A i \in 1 .. Len(x) : (x \o y)[i] = x[i]
        /\ \A i \in 1 .. Len(y) : (x \o y)[Len(x) + i] = y[i]
    BY <2>1, Parts
  <2>3. QED
    BY <2>1, <2>2 DEF x, y
<1>4. Saved(e) = p \o Extra(v)
  BY DEF Saved
<1> HIDE DEF u
<1>5. /\ p \in Seq(Words) /\ Len(p) = Len(u) + 15
      /\ \A i \in 1 .. 15 : p[Len(u) + i] = e.before[Pushes[i]]
      /\ \A i \in 1 .. Len(u) : p[i] = u[i]
  BY <1>0, <1>3, PushedWords
<1> HIDE DEF p, v
<1> DEFINE w == Saved(e)
           x == e.under
           code == ErrorCode(v)
           extra == Extra(v)
<1>6. /\ p \in Seq(Words) /\ extra \in Seq(Words) /\ w = p \o extra
  BY <1>2, <1>4, <1>5
<1>7. /\ x \in Seq(Words) /\ Len(u) = Len(x) + Len(code) /\ Len(x) \in Nat /\ Len(code) \in Nat
      /\ \A i \in 1 .. Len(x) : u[i] = x[i]
      /\ \A i \in 1 .. Len(code) : u[Len(x) + i] = code[i]
  BY <1>0, <1>3
<1>8. /\ Len(extra) = IF v = Gate THEN 1 ELSE 0
      /\ Len(code) = IF v = Page THEN 1 ELSE 0
      /\ v = Page => code[1] = Error
  BY <1>1, <1>2
<1> HIDE DEF w, x, code, extra
<1>9. /\ w \in Seq(Words) /\ Len(w) = Len(p) + Len(extra)
      /\ Len(p) \in Nat /\ Len(extra) \in Nat
      /\ \A i \in 1 .. Len(p) : w[i] = p[i]
  BY <1>6, Parts
<1>10. Len(Pops(v)) = 15 + Len(extra) + Len(code)
  <2>1. v \in Vectors
    BY <1>0
  <2>2. /\ v \in {Timer, Key} => Len(Pops(v)) = 15
        /\ v = Page => Len(Pops(v)) = 16
        /\ v = Gate => Len(Pops(v)) = 16
    BY <2>1, PopOrder
  <2>3. Gate # Page /\ Gate \notin {Timer, Key} /\ Page \notin {Timer, Key}
    BY DEF Timer, Key, Gate, Page
  <2>4. /\ v \in {Timer, Key} => Len(extra) = 0 /\ Len(code) = 0
        /\ v = Page => Len(extra) = 0 /\ Len(code) = 1
        /\ v = Gate => Len(extra) = 1 /\ Len(code) = 0
    BY <1>8, <2>3
  <2>5. v \in {Timer, Key} \/ v = Page \/ v = Gate
    BY <2>1 DEF Vectors
  <2> HIDE DEF v
  <2>6. CASE v \in {Timer, Key}
    <3>1. Len(Pops(v)) = 15
      BY <2>2, <2>6
    <3>2. Len(extra) = 0 /\ Len(code) = 0
      BY <2>4, <2>6
    <3>3. QED
      BY <3>1, <3>2
  <2>7. CASE v = Page
    <3>1. Len(Pops(v)) = 16
      BY <2>2, <2>7
    <3>2. Len(extra) = 0 /\ Len(code) = 1
      BY <2>4, <2>7
    <3>3. QED
      BY <3>1, <3>2
  <2>8. CASE v = Gate
    <3>1. Len(Pops(v)) = 16
      BY <2>2, <2>8
    <3>2. Len(extra) = 1 /\ Len(code) = 0
      BY <2>4, <2>8
    <3>3. QED
      BY <3>1, <3>2
  <2>9. QED
    BY <2>5, <2>6, <2>7, <2>8
<1>11. \A i \in 1 .. 15 : w[Len(u) + i] = e.before[Pushes[i]]
  <2>1. \A i \in 1 .. 15 : Len(u) + i \in 1 .. Len(p)
    BY <1>5, <1>7
  <2>2. QED
    BY <1>5, <1>9, <2>1
<1>12. SubSeq(w, 1, Len(x)) = x
  <2>1. \A i \in 1 .. Len(x) : i \in 1 .. Len(u) /\ i \in 1 .. Len(p)
    BY <1>5, <1>7
  <2>2. \A i \in 1 .. Len(x) : w[i] = x[i]
    BY <1>5, <1>7, <1>9, <2>1
  <2> DEFINE low == SubSeq(w, 1, Len(x))
  <2>3. \A i \in 1 .. Len(x) : x[i] \in Words
    BY <1>7, ElementOfSeq
  <2>4. \A i \in 1 .. Len(x) : w[i] \in Words
    BY <2>2, <2>3
  <2>5. /\ low \in Seq(Words) /\ Len(low) = IF 1 <= Len(x) THEN Len(x) - 1 + 1 ELSE 0
        /\ \A i \in 1 .. Len(x) - 1 + 1 : low[i] = w[1 + i - 1]
    BY <1>7, <2>4, SubSeqProperties
  <2> HIDE DEF low
  <2>6. Len(low) = Len(x) /\ \A i \in 1 .. Len(x) : low[i] = w[i]
    BY <1>7, <2>5
  <2>7. low \in Seq(Words) /\ Len(low) = Len(x) /\ \A i \in 1 .. Len(low) : low[i] = x[i]
    BY <2>2, <2>5, <2>6
  <2>8. low = x
    BY <1>7, <2>7, SeqEqual
  <2>9. QED
    BY <2>8 DEF low
<1>13. v = Page => w[Len(u)] = Error
  <2>1. SUFFICES ASSUME v = Page PROVE w[Len(u)] = Error
    OBVIOUS
  <2>2. Len(u) = Len(x) + 1 /\ u[Len(x) + 1] = Error
    BY <1>7, <1>8, <2>1
  <2>3. Len(u) \in 1 .. Len(u) /\ Len(u) \in 1 .. Len(p)
    BY <1>5, <1>7, <2>2
  <2>4. QED
    BY <1>5, <1>9, <2>2, <2>3
<1>14. Len(w) = Len(u) + 15 + Len(extra)
  BY <1>5, <1>9
<1>15. Len(w) = Len(x) + Len(Pops(v))
  <2>1. Len(x) \in Nat /\ Len(code) \in Nat /\ Len(extra) \in Nat
    BY <1>7, <1>9
  <2>2. Len(u) = Len(x) + Len(code)
    BY <1>7
  <2>3. QED
    BY <1>10, <1>14, <2>1, <2>2
<1>16. Len(w) = Len(u) + 15 + (IF v = Gate THEN 1 ELSE 0)
  BY <1>8, <1>14
<1>17. Len(u) \in Nat
  BY <1>7
<1>18. QED
  BY <1>7, <1>9, <1>11, <1>12, <1>13, <1>15, <1>16, <1>17 DEF v, w, x

\* The last of the pops of r is the k-th.
LastPopIs(pops, k, r) ==
    /\ k \in 1 .. Len(pops) /\ pops[k] = r
    /\ \A j \in 1 .. Len(pops) : j > k => pops[j] # r

\* The pops take the pushes backwards: from the first one on, or after one for
\* the word above the registers.
Backwards(pops) == Len(pops) >= 15 /\ \A j \in 1 .. 15 : pops[j] = Pushes[16 - j]
BackwardsAfterOne(pops) == Len(pops) >= 15 /\ \A j \in 2 .. 15 : pops[j] = Pushes[17 - j]

\* No pop after the fifteenth is of r.
NotAgain(pops, r) == \A j \in 1 .. Len(pops) : j > 15 => pops[j] # r

\* What the last pop of r gives.
LEMMA LastPop ==
    ASSUME NEW values, NEW words, NEW pops \in Seq(Reg), NEW k, NEW r \in Reg, LastPopIs(pops, k, r)
    PROVE  PopAll(values, words, pops)[r] = words[Len(words) + 1 - k]
<1>1. k \in 1 .. Len(pops) /\ pops[k] = r
  BY DEF LastPopIs
<1>2. \A j \in 1 .. Len(pops) : j > k => pops[j] # pops[k]
  BY <1>1 DEF LastPopIs
<1>3. QED
  BY <1>1, <1>2, Popped

\* In a stub of an interrupt the last pop of a register is the one that undoes
\* its push.
LEMMA PoppedBackwards ==
    ASSUME NEW pops \in Seq(Reg), Backwards(pops), NEW i \in 1 .. 15, NotAgain(pops, Pushes[i])
    PROVE  LastPopIs(pops, 16 - i, Pushes[i])
<1>1. PICK k \in 1 .. 15 : k = 16 - i
  OBVIOUS
<1>2. pops[k] = Pushes[i] /\ k \in 1 .. Len(pops)
  <2>1. Len(pops) \in Nat /\ 16 - k = i
    BY <1>1
  <2>2. Len(pops) >= 15 /\ pops[k] = Pushes[16 - k]
    BY <1>1 DEF Backwards
  <2>3. pops[k] = Pushes[i]
    BY <2>1, <2>2, Zenon
  <2>4. QED
    BY <1>1, <2>1, <2>2, <2>3
<1>3. ASSUME NEW j \in 1 .. Len(pops), j > k PROVE pops[j] # Pushes[i]
  <2>1. CASE j > 15
    BY <2>1 DEF NotAgain
  <2>2. CASE j <= 15
    <3>1. j \in 1 .. 15
      BY <2>2
    <3>2. PICK m \in 1 .. 15 : m = 16 - j
      BY <3>1
    <3>3. m # i
      BY <1>1, <1>3, <3>2
    <3>4. pops[j] = Pushes[m]
      BY <3>1, <3>2 DEF Backwards
    <3>5. QED
      BY <3>3, <3>4, PushedOnce
  <2>3. QED
    BY <2>1, <2>2
<1>4. QED
  BY <1>1, <1>2, <1>3 DEF LastPopIs

\* So it is in the system call stub, one pop later.
LEMMA PoppedAfterOne ==
    ASSUME NEW pops \in Seq(Reg), BackwardsAfterOne(pops), NEW i \in 2 .. 15, NotAgain(pops, Pushes[i])
    PROVE  LastPopIs(pops, 17 - i, Pushes[i])
<1>1. PICK k \in 2 .. 15 : k = 17 - i
  OBVIOUS
<1>2. pops[k] = Pushes[i] /\ k \in 1 .. Len(pops)
  <2>1. Len(pops) \in Nat /\ 17 - k = i
    BY <1>1
  <2>2. Len(pops) >= 15 /\ pops[k] = Pushes[17 - k]
    BY <1>1 DEF BackwardsAfterOne
  <2>3. pops[k] = Pushes[i]
    BY <2>1, <2>2, Zenon
  <2>4. QED
    BY <1>1, <2>1, <2>2, <2>3
<1>3. ASSUME NEW j \in 1 .. Len(pops), j > k PROVE pops[j] # Pushes[i]
  <2>1. CASE j > 15
    BY <2>1 DEF NotAgain
  <2>2. CASE j <= 15
    <3>1. j \in 2 .. 15
      BY <1>1, <1>3, <2>2
    <3>2. PICK m \in 2 .. 15 : m = 17 - j
      BY <3>1
    <3>3. m # i /\ i \in 1 .. 15 /\ m \in 1 .. 15
      BY <1>1, <1>3, <3>2
    <3>4. pops[j] = Pushes[m]
      BY <3>1, <3>2 DEF BackwardsAfterOne
    <3>5. QED
      BY <3>3, <3>4, PushedOnce
  <2>3. QED
    BY <2>1, <2>2
<1>4. QED
  BY <1>1, <1>2, <1>3 DEF LastPopIs

\* A stub gives back what it saved, but for what it is meant to lose.
LEMMA StubRestores ==
    ASSUME NEW e, Saves(e), NEW values \in [Reg -> Values]
    PROVE  LET after == PopAll(values, Saved(e), Pops(e.vector))
           IN  /\ after \in [Reg -> Values]
               /\ \A r \in Reg \ Lost(e.vector) : after[r] = e.before[r]
               /\ e.vector = Gate => after["rax"] = values["rax"]
<1> DEFINE v == e.vector
           pops == Pops(v)
           words == Saved(e)
           after == PopAll(values, words, pops)
<1>0. v \in Vectors /\ e.before \in [Reg -> Values] /\ e.under \in Seq(Words)
  BY DEF Saves
<1>1. v \in Vectors /\ pops \in Seq(Reg)
  BY <1>0, PopOrder
<1>2. \A r \in Reg : \E i \in 1 .. 15 : Pushes[i] = r
  BY PushedOnce
<1>3. DOMAIN after = Reg /\ after = [r \in Reg |-> after[r]]
  BY DEF PopAll
<1>4. /\ v \in {Timer, Key} => /\ Len(pops) = 15
                               /\ \A i \in 1 .. 15 : pops[i] = Pushes[16 - i]
      /\ v = Page => /\ Len(pops) = 16 /\ pops[16] = "rbp"
                     /\ \A i \in 1 .. 15 : pops[i] = Pushes[16 - i]
      /\ v = Gate => /\ Len(pops) = 16 /\ pops[1] = "r11" /\ pops[16] = "r13"
                     /\ \A i \in 2 .. 15 : pops[i] = Pushes[17 - i]
  BY <1>0, PopOrder
<1>6. /\ Gate # Page /\ Gate \notin {Timer, Key} /\ Page \notin {Timer, Key}
      /\ Lost(Gate) = {"rax", "r13"} /\ Lost(Page) = {"rbp"}
      /\ \A x \in {Timer, Key} : Lost(x) = {}
  BY DEF Timer, Key, Gate, Page, Lost
<1>7. PICK n \in Nat : /\ Len(words) = n + 15 + (IF v = Gate THEN 1 ELSE 0)
                       /\ \A i \in 1 .. 15 : words[n + i] = e.before[Pushes[i]]
                       /\ v = Page => words[n] = Error
  BY SavedWords
<1>8. /\ \A i \in 1 .. 15 : words[n + i] = e.before[Pushes[i]]
      /\ v = Page => words[n] = Error
  BY <1>7
<1> HIDE DEF after, pops, words, v
<1>10. CASE v \in {Timer, Key}
  <2>1. ASSUME NEW i \in 1 .. 15 PROVE after[Pushes[i]] = e.before[Pushes[i]]
    <3>1. Backwards(pops)
      <4>1. Len(pops) = 15
        BY <1>4, <1>10
      <4>2. \A j \in 1 .. 15 : pops[j] = Pushes[16 - j]
        BY <1>4, <1>10, Zenon
      <4>3. QED
        BY <4>1, <4>2 DEF Backwards
    <3>2. Len(pops) = 15
      BY <1>4, <1>10
    <3>3. NotAgain(pops, Pushes[i])
      BY <3>2 DEF NotAgain
    <3>4. LastPopIs(pops, 16 - i, Pushes[i])
      BY <1>1, <3>1, <3>3, PoppedBackwards
    <3>5. Pushes[i] \in Reg /\ i \in 1 .. 15
      BY PushedOnce
    <3>6. after[Pushes[i]] = words[Len(words) + 1 - (16 - i)]
      BY <1>1, <3>4, <3>5, LastPop DEF after
    <3>7. Len(words) = n + 15
      BY <1>6, <1>7, <1>10
    <3>8. Len(words) + 1 - (16 - i) = n + i
      BY <3>7
    <3>9. QED
      BY <1>8, <3>5, <3>6, <3>8
  <2>2. \A r \in Reg : after[r] = e.before[r]
    BY <1>2, <2>1
  <2>3. after \in [Reg -> Values]
    BY <1>0, <1>3, <2>2
  <2>4. QED
    BY <1>6, <1>10, <2>2, <2>3 DEF v, pops, words, after
<1>11. CASE v = Page
  <2>1. ASSUME NEW i \in 1 .. 15, i # 7 PROVE after[Pushes[i]] = e.before[Pushes[i]]
    <3>1. Backwards(pops)
      <4>1. Len(pops) = 16
        BY <1>4, <1>11
      <4>2. \A j \in 1 .. 15 : pops[j] = Pushes[16 - j]
        BY <1>4, <1>11, Zenon
      <4>3. QED
        BY <4>1, <4>2 DEF Backwards
    <3>2. Len(pops) = 16
      BY <1>4, <1>11
    <3>3. NotAgain(pops, Pushes[i])
      <4>1. pops[16] # Pushes[i]
        BY <1>4, <1>11, <2>1, PushedOnce
      <4>2. QED
        BY <3>2, <4>1 DEF NotAgain
    <3>4. LastPopIs(pops, 16 - i, Pushes[i])
      BY <1>1, <3>1, <3>3, PoppedBackwards
    <3>5. Pushes[i] \in Reg /\ i \in 1 .. 15
      BY PushedOnce
    <3>6. after[Pushes[i]] = words[Len(words) + 1 - (16 - i)]
      BY <1>1, <3>4, <3>5, LastPop DEF after
    <3>7. Len(words) = n + 15
      BY <1>6, <1>7, <1>11
    <3>8. Len(words) + 1 - (16 - i) = n + i
      BY <3>7
    <3>9. QED
      BY <1>8, <3>5, <3>6, <3>8
  <2>2. after["rbp"] = Error
    <3>1. Len(pops) = 16 /\ pops[16] = "rbp"
      BY <1>4, <1>11
    <3>2. 16 \in 1 .. Len(pops) /\ \A j \in 1 .. Len(pops) : j > 16 => pops[j] # pops[16]
      BY <3>1
    <3>3. after[pops[16]] = words[Len(words) + 1 - 16]
      BY <1>1, <3>2, Popped DEF after
    <3>6. Len(words) = n + 15
      BY <1>6, <1>7, <1>11
    <3>4. Len(words) + 1 - 16 = n
      BY <3>6
    <3>5. QED
      BY <1>8, <1>11, <3>1, <3>3, <3>4
  <2>3. \A r \in Reg \ {"rbp"} : after[r] = e.before[r]
    BY <1>2, <2>1, PushedOnce
  <2>4. Error \in Values
    BY DEF Values
  <2>5. \A r \in Reg : after[r] \in Values
    BY <1>0, <2>2, <2>3, <2>4
  <2>6. after \in [Reg -> Values]
    BY <1>3, <2>5
  <2>7. QED
    BY <1>6, <1>11, <2>3, <2>6 DEF v, pops, words, after
<1>12. CASE v = Gate
  <2>1. ASSUME NEW i \in 2 .. 15, i # 13 PROVE after[Pushes[i]] = e.before[Pushes[i]]
    <3>1. BackwardsAfterOne(pops)
      <4>1. Len(pops) = 16
        BY <1>4, <1>12
      <4>2. \A j \in 2 .. 15 : pops[j] = Pushes[17 - j]
        BY <1>4, <1>12, Zenon
      <4>3. QED
        BY <4>1, <4>2 DEF BackwardsAfterOne
    <3>2. Len(pops) = 16
      BY <1>4, <1>12
    <3>3. NotAgain(pops, Pushes[i])
      <4>1. pops[16] # Pushes[i]
        BY <1>4, <1>12, <2>1, PushedOnce
      <4>2. QED
        BY <3>2, <4>1 DEF NotAgain
    <3>4. LastPopIs(pops, 17 - i, Pushes[i])
      BY <1>1, <3>1, <3>3, PoppedAfterOne
    <3>5. Pushes[i] \in Reg /\ i \in 1 .. 15
      BY PushedOnce
    <3>6. after[Pushes[i]] = words[Len(words) + 1 - (17 - i)]
      BY <1>1, <3>4, <3>5, LastPop DEF after
    <3>7. Len(words) = n + 16
      BY <1>6, <1>7, <1>12
    <3>8. Len(words) + 1 - (17 - i) = n + i
      BY <3>7
    <3>9. QED
      BY <1>8, <3>5, <3>6, <3>8
  <2>2. after["r13"] = e.before["rax"]
    <3>1. Len(pops) = 16 /\ pops[16] = "r13"
      BY <1>4, <1>12
    <3>2. 16 \in 1 .. Len(pops) /\ \A j \in 1 .. Len(pops) : j > 16 => pops[j] # pops[16]
      BY <3>1
    <3>3. after[pops[16]] = words[Len(words) + 1 - 16]
      BY <1>1, <3>2, Popped DEF after
    <3>7. Len(words) = n + 16
      BY <1>7, <1>12
    <3>4. Len(words) + 1 - 16 = n + 1
      BY <3>7
    <3>5. words[n + 1] = e.before["rax"]
      BY <1>8, PushedOnce
    <3>6. QED
      BY <3>1, <3>3, <3>4, <3>5
  <2>3. after["rax"] = values["rax"]
    <3>1. ASSUME NEW j \in 1 .. Len(pops) PROVE pops[j] # "rax"
      <4>1. CASE j = 1 \/ j = 16
        BY <1>4, <1>12, <4>1
      <4>2. CASE j \in 2 .. 15
        <5>1. PICK m \in 2 .. 15 : m = 17 - j
          BY <4>2
        <5>2. pops[j] = Pushes[m]
          BY <1>4, <1>12, <4>2, <5>1
        <5>3. QED
          BY <5>2, PushedOnce
      <4>3. j \in 1 .. 16
        BY <1>4, <1>12
      <4>4. QED
        BY <4>1, <4>2, <4>3
    <3>2. DOMAIN pops = 1 .. Len(pops)
      BY <1>1
    <3>3. "rax" \in Reg /\ "rax" \notin Range(pops)
      BY <3>1, <3>2, PushedOnce DEF Range
    <3>4. QED
      BY <3>3, NotPopped DEF after
  <2>4. \A r \in Reg \ {"rax", "r13"} : after[r] = e.before[r]
    BY <1>2, <2>1, PushedOnce
  <2>5. \A r \in Reg : after[r] \in Values
    BY <1>0, <2>2, <2>3, <2>4, PushedOnce
  <2>6. after \in [Reg -> Values]
    BY <1>3, <2>5
  <2>7. QED
    BY <1>6, <1>12, <2>3, <2>4, <2>6 DEF v, pops, words, after
<1>13. QED
  BY <1>1, <1>10, <1>11, <1>12 DEF Vectors

\* What the handlers find in their argument.
LEMMA FieldSaved ==
    ASSUME NEW e, Saves(e), e.vector = Gate, NEW r \in Reg
    PROVE  Field(Saved(e), r) = e.before[r]
<1>1. Place(r) \in 1 .. 15 /\ Pushes[Place(r)] = r
  BY PlaceOf
<1>2. PICK n \in Nat : /\ Len(Saved(e)) = n + 15 + (IF e.vector = Gate THEN 1 ELSE 0)
                       /\ \A i \in 1 .. 15 : Saved(e)[n + i] = e.before[Pushes[i]]
                       /\ e.vector = Page => Saved(e)[n] = Error
  BY SavedWords
<1> DEFINE words == Saved(e)
<1> HIDE DEF words
<1>3. Len(words) = n + 15 + 1
  BY <1>2 DEF words
<1>4. Len(Pushes) = 15
  BY PushedOnce
<1>5. Len(words) - 1 - Len(Pushes) + Place(r) = n + Place(r)
  BY <1>1, <1>3, <1>4
<1>6. words[n + Place(r)] = e.before[r]
  <2>1. \A i \in 1 .. 15 : words[n + i] = e.before[Pushes[i]]
    BY <1>2 DEF words
  <2>2. words[n + Place(r)] = e.before[Pushes[Place(r)]]
    BY <1>1, <2>1, Zenon
  <2>3. QED
    BY <1>1, <2>2, Zenon
<1>7. QED
  BY <1>5, <1>6 DEF Field, words

-----------------------------------------------------------------------------
(* The inductive invariant.                                                *)

\* An entry of the kernel.
Entry == [vector : Vectors, before : [Reg -> Values], call : Calls \cup {NoCall},
          from : {"boot", "user", "kernel"}, interrupts : {"on", "off"},
          under : Seq(Words)]

\* An entry has the fields the frame is made of.
LEMMA EntrySaves ==
    ASSUME NEW e \in Entry
    PROVE  Saves(e)
BY DEF Entry, Saves

\* The handlers that are registered are the first ones of irq_main.
Registered ==
    /\ handlers \in Seq(Vectors) /\ Len(handlers) <= 4
    /\ \A i \in 1 .. Len(handlers) : handlers[i] = Order[i]

\* A program runs, and is entered from, only when all handlers are there.
Ready ==
    /\ at = "user" => Len(handlers) = 4
    /\ \A i \in 1 .. Len(entries) : entries[i].from # "boot" => Len(handlers) = 4

\* A system call comes from the program, with what its wrapper passes; only
\* one has interrupts on.
Called(e) ==
    /\ e.vector = Gate =>
          /\ e.from = "user" /\ e.call \in Calls
          /\ e.before["rax"] = <<"number", e.call.number>>
          /\ \A r \in e.call.args : e.before[r] = <<"arg", r>>
    /\ e.interrupts = "on" => e.vector = Gate

\* Each entry is made within the one before it, which is a system call.
Within ==
    /\ at = "kernel" <=> entries # <<>>
    /\ \A i \in 1 .. Len(entries) : entries[i].from = "kernel" <=> i > 1
    /\ \A i \in 1 .. Len(entries) - 1 : entries[i].vector = Gate

\* What the stubs have put on the stack.
TopOf(es) == IF es = <<>> THEN <<>> ELSE Saved(es[Len(es)])
Stacked ==
    /\ stack = TopOf(entries)
    /\ \A i \in 1 .. Len(entries) :
          entries[i].under = IF i = 1 THEN <<>> ELSE Saved(entries[i - 1])

IInv ==
    /\ regs \in [Reg -> Values]
    /\ at \in {"boot", "user", "kernel", "lost"}
    /\ entries \in Seq(Entry) /\ Len(entries) <= DEPTH
    /\ Registered /\ Ready /\ Within /\ Stacked
    /\ \A i \in 1 .. Len(entries) : Called(entries[i])

\* It holds at boot.
LEMMA InitIInv == Init => IInv
<1> SUFFICES ASSUME Init PROVE IInv
  OBVIOUS
<1>1. Kernel(0) \in [Reg -> Values]
  BY TrapsAssumption DEF Kernel, Values
<1>2. entries \in Seq(Entry) /\ Len(entries) = 0 /\ handlers \in Seq(Vectors) /\ Len(handlers) = 0
  BY DEF Init
<1>3. QED
  BY <1>1, <1>2, TrapsAssumption DEF Init, IInv, Registered, Ready, Within, Stacked, TopOf

\* Once irq_main is through, every vector has its handler.
LEMMA AllThere ==
    ASSUME Registered, Len(handlers) = 4, NEW v \in Vectors
    PROVE  v \in Range(handlers)
<1>1. Order[1] = Key /\ Order[2] = Timer /\ Order[3] = Gate /\ Order[4] = Page
  BY DEF Order
<1>2. handlers[1] = Key /\ handlers[2] = Timer /\ handlers[3] = Gate /\ handlers[4] = Page
  BY <1>1 DEF Registered
<1>3. DOMAIN handlers = 1 .. 4
  BY DEF Registered
<1>4. QED
  BY <1>2, <1>3 DEF Range, Vectors

\* The entries with one more.
LEMMA PutOn ==
    ASSUME NEW es \in Seq(Entry), NEW e \in Entry
    PROVE  /\ Append(es, e) \in Seq(Entry) /\ Append(es, e) # <<>>
           /\ Len(es) \in Nat /\ Len(Append(es, e)) = Len(es) + 1
           /\ \A i \in 1 .. Len(es) : Append(es, e)[i] = es[i] /\ es[i] \in Entry
           /\ Append(es, e)[Len(es) + 1] = e
<1>1. Len(es) \in Nat /\ \A i \in 1 .. Len(es) : es[i] \in Entry
  BY ElementOfSeq
<1>2. QED
  BY <1>1, AppendProperties

\* The entries without the last one.
LEMMA TakenOff ==
    ASSUME NEW es \in Seq(Entry), es # <<>>
    PROVE  /\ Front(es) \in Seq(Entry)
           /\ Len(es) \in Nat \ {0} /\ Len(Front(es)) = Len(es) - 1
           /\ \A i \in 1 .. Len(es) - 1 : Front(es)[i] = es[i]
           /\ Last(es) = es[Len(es)] /\ Last(es) \in Entry
           /\ \A i \in 1 .. Len(es) : es[i] \in Entry
<1>1. Len(es) \in Nat \ {0} /\ \A i \in 1 .. Len(es) : es[i] \in Entry
  BY ElementOfSeq, EmptySeq
<1>2. \A i \in 1 .. Len(es) - 1 : es[i] \in Entry
  BY <1>1
<1> DEFINE n == Len(es) - 1
           low == SubSeq(es, 1, n)
<1>3. n \in Nat
  BY <1>1
<1>4. /\ low \in Seq(Entry) /\ Len(low) = IF 1 <= n THEN n - 1 + 1 ELSE 0
      /\ \A i \in 1 .. n - 1 + 1 : low[i] = es[1 + i - 1]
  <2> HIDE DEF n
  <2>1. \A i \in 1 .. n : es[i] \in Entry
    BY <1>2 DEF n
  <2>2. QED
    BY <1>3, <2>1, SubSeqProperties
<1>5. low \in Seq(Entry) /\ Len(low) = n /\ \A i \in 1 .. n : low[i] = es[i]
  <2> HIDE DEF n, low
  <2>1. QED
    BY <1>3, <1>4
<1>6. Front(es) = low
  BY DEF Front
<1>7. QED
  BY <1>1, <1>5, <1>6 DEF Last

\* Nothing runs but system calls below the last entry: a system call is
\* entered when the handlers are there.
LEMMA GateIsReady ==
    ASSUME IInv, at = "kernel", Last(entries).vector = Gate
    PROVE  Len(handlers) = 4
<1>1. entries # <<>> /\ entries \in Seq(Entry)
  BY DEF IInv, Within
<1>2. Len(entries) \in 1 .. Len(entries) /\ entries[Len(entries)].vector = Gate
  BY <1>1, TakenOff
<1>3. entries[Len(entries)].from = "user"
  BY <1>2 DEF IInv, Called
<1>4. QED
  BY <1>2, <1>3 DEF IInv, Ready

\* The processor and a stub.
LEMMA EnterKeeps ==
    ASSUME IInv, NEW vector \in Vectors, NEW values \in [Reg -> Values],
           NEW call \in Calls \cup {NoCall},
           at \in {"boot", "user"} \/ (at = "kernel" /\ Last(entries).vector = Gate),
           vector = Gate => /\ at = "user" /\ call \in Calls
                            /\ values["rax"] = <<"number", call.number>>
                            /\ \A r \in call.args : values[r] = <<"arg", r>>,
           Enter(vector, values, call)
    PROVE  IInv'
<1> DEFINE n == Len(entries)
<1>1. n \in Nat /\ n < DEPTH /\ entries \in Seq(Entry)
  BY DEF IInv, Enter
<1>2. regs' \in [Reg -> Values]
  <2>1. n + 1 \in 0 .. DEPTH
    BY <1>1, TrapsAssumption
  <2>2. Kernel(n + 1) \in [Reg -> Values]
    BY <2>1 DEF Kernel, Values
  <2>3. QED
    BY <2>2 DEF Enter
<1>3. handlers' = handlers
  BY DEF Enter
<1>4. at \in {"user", "kernel"} => Len(handlers) = 4
  <2>1. at = "user" => Len(handlers) = 4
    BY DEF IInv, Ready
  <2>2. at = "kernel" => Len(handlers) = 4
    BY GateIsReady
  <2>3. QED
    BY <2>1, <2>2
<1>5. Registered'
  BY <1>3 DEF IInv, Registered
<1>6. CASE vector \notin Range(handlers)
  <2>1. Len(handlers) # 4
    BY <1>6, AllThere DEF IInv
  <2>2. at = "boot" /\ at' = "lost" /\ entries' = entries /\ stack' = stack
    BY <1>4, <1>6, <2>1 DEF Enter
  <2>3. entries = <<>>
    BY <2>2 DEF IInv, Within
  <2>4. Len(entries) = 0
    BY <2>3
  <2>5. Ready' /\ Within' /\ Stacked'
    BY <2>2, <2>3, <2>4 DEF IInv, Ready, Within, Stacked, TopOf
  <2>6. QED
    BY <1>2, <1>5, <2>2, <2>4, <2>5 DEF IInv
<1>7. CASE vector \in Range(handlers)
  <2> DEFINE e == [vector |-> vector, before |-> values, call |-> call, from |-> at,
                   interrupts |-> "off", under |-> stack]
  <2>1. stack' = Saved(e) /\ entries' = Append(entries, e) /\ at' = "kernel"
    BY <1>7 DEF Enter, Saved
  <2>2. stack \in Seq(Words) /\ stack = TopOf(entries)
    <3>1. stack = TopOf(entries)
      BY DEF IInv, Stacked
    <3>2. CASE entries = <<>>
      BY <3>1, <3>2 DEF TopOf
    <3>3. CASE entries # <<>>
      <4>1. entries[Len(entries)] \in Entry
        BY <1>1, <3>3, TakenOff
      <4>2. Saved(entries[Len(entries)]) \in Seq(Words)
        BY <4>1, EntrySaves, SavedWords
      <4>3. QED
        BY <3>1, <3>3, <4>2 DEF TopOf
    <3>4. QED
      BY <3>2, <3>3
  <2>3. e \in Entry
    BY <2>2 DEF Entry
  <2>4. /\ e.vector = vector /\ e.before = values /\ e.call = call /\ e.from = at
        /\ e.interrupts = "off" /\ e.under = stack
    OBVIOUS
  <2> HIDE DEF e
  <2>5. /\ entries' \in Seq(Entry) /\ entries' # <<>> /\ Len(entries') = n + 1
        /\ \A i \in 1 .. n : entries'[i] = entries[i]
        /\ entries'[n + 1] = e
    BY <1>1, <2>1, <2>3, PutOn
  <2>6. n # 0 <=> entries # <<>>
    BY <1>1
  <2>7. Ready'
    <3>1. ASSUME NEW i \in 1 .. n + 1, entries'[i].from # "boot" PROVE Len(handlers) = 4
      <4>1. CASE i = n + 1
        BY <1>4, <2>4, <2>5, <3>1, <4>1
      <4>2. CASE i \in 1 .. n
        BY <2>5, <3>1, <4>2 DEF IInv, Ready
      <4>3. QED
        BY <1>1, <4>1, <4>2
    <3>2. QED
      BY <1>3, <2>1, <2>5, <3>1 DEF Ready
  <2>8. Within'
    <3>1. ASSUME NEW i \in 1 .. n + 1 PROVE entries'[i].from = "kernel" <=> i > 1
      <4>1. CASE i = n + 1
        <5>1. at = "kernel" <=> n # 0
          BY <2>6 DEF IInv, Within
        <5>2. QED
          BY <1>1, <2>4, <2>5, <4>1, <5>1
      <4>2. CASE i \in 1 .. n
        BY <2>5, <4>2 DEF IInv, Within
      <4>3. QED
        BY <1>1, <4>1, <4>2
    <3>2. ASSUME NEW i \in 1 .. n PROVE entries'[i].vector = Gate
      <4>1. CASE i = n
        <5>1. entries # <<>> /\ at = "kernel"
          BY <1>1, <2>6, <4>1 DEF IInv, Within
        <5>2. entries[n].vector = Gate
          BY <5>1 DEF Last
        <5>3. QED
          BY <2>5, <4>1, <5>2
      <4>2. CASE i \in 1 .. n - 1
        BY <1>1, <2>5, <4>2 DEF IInv, Within
      <4>3. QED
        BY <1>1, <4>1, <4>2
    <3>3. n + 1 - 1 = n
      BY <1>1
    <3>4. QED
      BY <2>1, <2>5, <3>1, <3>2, <3>3 DEF Within
  <2>9. Stacked'
    <3>1. stack' = TopOf(entries)'
      BY <2>1, <2>5 DEF TopOf
    <3>2. ASSUME NEW i \in 1 .. n + 1
          PROVE  entries'[i].under = IF i = 1 THEN <<>> ELSE Saved(entries'[i - 1])
      <4>1. CASE i = n + 1
        <5>1. entries'[i].under = TopOf(entries)
          BY <2>2, <2>4, <2>5, <4>1
        <5>2. CASE n = 0
          BY <2>6, <4>1, <5>1, <5>2 DEF TopOf
        <5>3. CASE n # 0
          <6>1. i # 1 /\ i - 1 = n /\ n \in 1 .. n
            BY <1>1, <4>1, <5>3
          <6>2. entries'[i - 1] = entries[n]
            BY <2>5, <6>1
          <6>3. QED
            BY <2>6, <5>1, <5>3, <6>1, <6>2 DEF TopOf
        <5>4. QED
          BY <5>2, <5>3
      <4>2. CASE i \in 1 .. n
        <5>1. entries[i].under = IF i = 1 THEN <<>> ELSE Saved(entries[i - 1])
          BY <4>2 DEF IInv, Stacked
        <5>2. i # 1 => i - 1 \in 1 .. n
          BY <1>1, <4>2
        <5>3. QED
          BY <2>5, <4>2, <5>1, <5>2
      <4>3. QED
        BY <1>1, <4>1, <4>2
    <3>3. QED
      BY <2>5, <3>1, <3>2 DEF Stacked
  <2>10. ASSUME NEW i \in 1 .. n + 1 PROVE Called(entries'[i])
    <3>1. CASE i = n + 1
      BY <2>4, <2>5, <3>1 DEF Called
    <3>2. CASE i \in 1 .. n
      BY <2>5, <3>2 DEF IInv
    <3>3. QED
      BY <1>1, <3>1, <3>2
  <2>11. Len(entries') <= DEPTH
    BY <1>1, <2>5, TrapsAssumption
  <2>12. QED
    BY <1>2, <1>5, <2>1, <2>5, <2>7, <2>8, <2>9, <2>10, <2>11 DEF IInv
<1>8. QED
  BY <1>6, <1>7

\* What the last entry is, while a handler runs.
LEMMA InHandler ==
    ASSUME IInv, at = "kernel"
    PROVE  /\ entries # <<>> /\ Len(entries) \in Nat \ {0}
           /\ Last(entries) = entries[Len(entries)] /\ Last(entries) \in Entry
           /\ Called(Last(entries)) /\ stack = Saved(Last(entries))
<1>1. entries # <<>> /\ entries \in Seq(Entry)
  BY DEF IInv, Within
<1>2. /\ Len(entries) \in Nat \ {0}
      /\ Last(entries) = entries[Len(entries)] /\ Last(entries) \in Entry
  BY <1>1, TakenOff
<1>3. Len(entries) \in 1 .. Len(entries)
  BY <1>2
<1>4. Called(entries[Len(entries)])
  BY <1>3 DEF IInv
<1>5. stack = Saved(entries[Len(entries)])
  BY <1>1 DEF IInv, Stacked, TopOf
<1>6. QED
  BY <1>1, <1>2, <1>4, <1>5

\* What a system call finds in its argument.
LEMMA CallServed ==
    ASSUME IInv, at = "kernel", Last(entries).vector = Gate
    PROVE  /\ Served.number = <<"number", Last(entries).call.number>>
           /\ Last(entries).call \in Calls
           /\ \A r \in Last(entries).call.args : Served.args[r] = <<"arg", r>>
<1> DEFINE e == Last(entries)
<1>1. e \in Entry /\ Called(e) /\ stack = Saved(e)
  BY InHandler
<1>2. Saves(e)
  BY <1>1, EntrySaves
<1>3. /\ e.call \in Calls
      /\ e.before["rax"] = <<"number", e.call.number>>
      /\ \A r \in e.call.args : e.before[r] = <<"arg", r>>
  BY <1>1 DEF Called
<1>4. ASSUME NEW r \in Reg PROVE Field(stack, r) = e.before[r]
  BY <1>1, <1>2, FieldSaved
<1> HIDE DEF e
<1>5. "rax" \in Reg /\ "rbx" \in Reg /\ "rcx" \in Reg /\ "rdx" \in Reg
  BY PushedOnce
<1>6. Served.number = Field(stack, "rax")
  BY DEF Served
<1>7. \A r \in {"rbx", "rcx", "rdx"} : Served.args[r] = Field(stack, r)
  BY DEF Served
<1>8. e.call.args \subseteq {"rbx", "rcx", "rdx"}
  BY <1>3, CallTypes
<1>9. Served.number = <<"number", e.call.number>>
  BY <1>3, <1>4, <1>5, <1>6
<1>10. ASSUME NEW r \in e.call.args PROVE Served.args[r] = <<"arg", r>>
  BY <1>3, <1>4, <1>5, <1>7, <1>8, <1>10
<1>11. QED
  BY <1>3, <1>9, <1>10 DEF e

\* rax when the handler of an entry returns.
LEMMA AnswerValue ==
    ASSUME NEW entry
    PROVE  Answer(entry) \in Values
<1>1. CASE entry.vector = Gate /\ Served.number \in {"number"} \X Answering
  <2>1. Answer(entry) = <<"answer", Served.number[2]>>
    BY <1>1 DEF Answer
  <2>2. Served.number[2] \in Answering
    BY <1>1
  <2>3. QED
    BY <2>1, <2>2 DEF Values
<1>2. CASE ~ (entry.vector = Gate /\ Served.number \in {"number"} \X Answering)
  <2>1. Answer(entry) = Unknown
    BY <1>2 DEF Answer
  <2>2. QED
    BY <2>1 DEF Values
<1>3. QED
  BY <1>1, <1>2

\* The way back.
LEMMA WayBack ==
    ASSUME IInv, Leave
    PROVE  LET e == Last(entries)
           IN  /\ regs' \in [Reg -> Values]
               /\ \A r \in Reg \ Lost(e.vector) : regs'[r] = e.before[r]
               /\ e.vector = Gate => regs'["rax"] = Answer(e)
               /\ stack' = e.under /\ at' = e.from /\ entries' = Front(entries)
<1> DEFINE e == Last(entries)
           values == [regs EXCEPT !["rax"] = Answer(e)]
<1>1. at = "kernel" /\ entries' = Front(entries) /\ at' = e.from
  BY DEF Leave
<1>2. e \in Entry /\ stack = Saved(e)
  BY <1>1, InHandler
<1>3. Saves(e)
  BY <1>2, EntrySaves
<1>4. regs' = PopAll(values, Saved(e), Pops(e.vector))
  BY <1>2 DEF Leave
<1>5. stack' = SubSeq(Saved(e), 1, Len(Saved(e)) - Len(Pops(e.vector)))
  BY <1>2 DEF Leave
<1>6. values \in [Reg -> Values] /\ values["rax"] = Answer(e)
  <2>1. Answer(e) \in Values /\ regs \in [Reg -> Values] /\ "rax" \in Reg
    BY AnswerValue, PushedOnce DEF IInv
  <2>2. QED
    BY <2>1
<1> HIDE DEF e, values
<1>7. /\ Len(e.under) \in Nat
      /\ Len(Saved(e)) = Len(e.under) + Len(Pops(e.vector))
      /\ SubSeq(Saved(e), 1, Len(e.under)) = e.under
  BY <1>3, SavedWords
<1>8. Len(Pops(e.vector)) \in Nat
  BY <1>3, PopOrder DEF Saves
<1>9. Len(Saved(e)) - Len(Pops(e.vector)) = Len(e.under)
  BY <1>7, <1>8
<1>10. stack' = e.under
  BY <1>5, <1>7, <1>9
<1>11. /\ regs' \in [Reg -> Values]
       /\ \A r \in Reg \ Lost(e.vector) : regs'[r] = e.before[r]
       /\ e.vector = Gate => regs'["rax"] = values["rax"]
  BY <1>3, <1>4, <1>6, StubRestores
<1>12. QED
  BY <1>1, <1>6, <1>10, <1>11 DEF e

\* iretq goes back to what the entry was made from.
LEMMA LeaveKeeps ==
    ASSUME IInv, Leave
    PROVE  IInv'
<1> DEFINE n == Len(entries)
           e == Last(entries)
<1>1. at = "kernel" /\ handlers' = handlers
  BY DEF Leave
<1>2. entries # <<>> /\ n \in Nat \ {0} /\ e = entries[n] /\ e \in Entry /\ entries \in Seq(Entry)
  BY <1>1, InHandler DEF IInv
<1>3. regs' \in [Reg -> Values] /\ stack' = e.under /\ at' = e.from /\ entries' = Front(entries)
  BY WayBack
<1>4. /\ entries' \in Seq(Entry) /\ Len(entries') = n - 1
      /\ \A i \in 1 .. n - 1 : entries'[i] = entries[i]
  BY <1>2, <1>3, TakenOff
<1>5. at' \in {"boot", "user", "kernel"}
  BY <1>2, <1>3 DEF Entry
<1>6. n - 1 = 0 <=> entries' = <<>>
  BY <1>2, <1>4, EmptySeq
<1>6a. n > 1 <=> entries' # <<>>
  <2>1. n \in Nat \ {0}
    BY <1>2
  <2> HIDE DEF n
  <2>2. n - 1 = 0 <=> ~ n > 1
    BY <2>1
  <2>3. QED
    BY <1>6, <2>2
<1> HIDE DEF e
<1>7. Registered'
  BY <1>1 DEF IInv, Registered
<1>8. n \in 1 .. n /\ \A i \in 1 .. n - 1 : i \in 1 .. n
  BY <1>2
<1>9. Ready'
  <2>1. at' # "boot" => Len(handlers) = 4
    BY <1>2, <1>3, <1>8 DEF IInv, Ready
  <2>2. \A i \in 1 .. n - 1 : entries'[i].from # "boot" => Len(handlers) = 4
    BY <1>4, <1>8 DEF IInv, Ready
  <2>3. QED
    BY <1>1, <1>4, <2>1, <2>2 DEF Ready
<1>10. Within'
  <2>1. at' = "kernel" <=> n > 1
    BY <1>2, <1>3, <1>8 DEF IInv, Within
  <2>2. at' = "kernel" <=> entries' # <<>>
    BY <1>6a, <2>1
  <2>3. \A i \in 1 .. n - 1 : entries'[i].from = "kernel" <=> i > 1
    BY <1>4, <1>8 DEF IInv, Within
  <2>4. \A i \in 1 .. (n - 1) - 1 : entries'[i].vector = Gate
    <3>1. \A i \in 1 .. (n - 1) - 1 : i \in 1 .. n - 1
      BY <1>2
    <3>2. QED
      BY <1>4, <3>1 DEF IInv, Within
  <2>5. QED
    BY <1>4, <2>2, <2>3, <2>4 DEF Within
<1>11. Stacked'
  <2>1. e.under = IF n = 1 THEN <<>> ELSE Saved(entries[n - 1])
    BY <1>2, <1>8 DEF IInv, Stacked
  <2>2. stack' = TopOf(entries)'
    <3>1. CASE n = 1
      BY <1>3, <1>6, <2>1, <3>1 DEF TopOf
    <3>2. CASE n # 1
      <4>1. n - 1 \in 1 .. n - 1 /\ entries' # <<>>
        <5>1. n \in Nat \ {0}
          BY <1>2
        <5>2. n > 1 /\ n - 1 \in 1 .. n - 1
          BY <3>2, <5>1
        <5>3. QED
          BY <1>6a, <5>2
      <4>2. entries'[n - 1] = entries[n - 1]
        BY <1>4, <4>1
      <4>3. TopOf(entries)' = Saved(entries'[n - 1])
        BY <1>4, <4>1 DEF TopOf
      <4>4. QED
        BY <1>3, <2>1, <3>2, <4>2, <4>3
    <3>3. QED
      BY <3>1, <3>2
  <2>3. ASSUME NEW i \in 1 .. n - 1
        PROVE  entries'[i].under = IF i = 1 THEN <<>> ELSE Saved(entries'[i - 1])
    <3>1. entries[i].under = IF i = 1 THEN <<>> ELSE Saved(entries[i - 1])
      BY <1>8 DEF IInv, Stacked
    <3>2. i # 1 => i - 1 \in 1 .. n - 1
      BY <1>2
    <3>3. QED
      BY <1>4, <3>1, <3>2
  <2>4. QED
    BY <1>4, <2>2, <2>3 DEF Stacked
<1>12. \A i \in 1 .. n - 1 : Called(entries'[i])
  BY <1>4, <1>8 DEF IInv
<1>13. Len(entries') <= DEPTH
  <2>1. n <= DEPTH
    BY DEF IInv
  <2>2. QED
    BY <1>2, <1>4, <2>1, TrapsAssumption
<1>14. QED
  BY <1>3, <1>4, <1>5, <1>7, <1>9, <1>10, <1>11, <1>12, <1>13 DEF IInv

\* sti changes nothing of what is saved.
LEMMA StiKeeps ==
    ASSUME IInv, Sti
    PROVE  IInv'
<1> DEFINE n == Len(entries)
           e == Last(entries)
           f == [e EXCEPT !.interrupts = "on"]
<1>1. at = "kernel" /\ e.vector = Gate /\ UNCHANGED <<regs, stack, handlers, at>>
  BY DEF Sti
<1>2. /\ entries # <<>> /\ n \in Nat \ {0} /\ e = entries[n] /\ e \in Entry
      /\ entries \in Seq(Entry) /\ Called(e)
  BY <1>1, InHandler DEF IInv
<1>3. f \in Entry
  BY <1>2 DEF Entry
<1>4. /\ f.vector = e.vector /\ f.before = e.before /\ f.call = e.call /\ f.from = e.from
      /\ f.under = e.under
  BY <1>2 DEF Entry
<1>5. Saved(f) = Saved(e)
  BY <1>4 DEF Saved
<1>6. entries' = [entries EXCEPT ![n] = f]
  BY <1>2 DEF Sti
<1> HIDE DEF e, f
<1>7. n \in 1 .. n
  BY <1>2
<1>8. /\ entries' \in Seq(Entry) /\ Len(entries') = n
      /\ \A i \in 1 .. n : entries'[i] = IF i = n THEN f ELSE entries[i]
  BY <1>2, <1>3, <1>6, <1>7, ExceptSeq
<1>9. entries' # <<>>
  BY <1>2, <1>8
<1>10. ASSUME NEW i \in 1 .. n
       PROVE  /\ entries'[i].vector = entries[i].vector /\ entries'[i].from = entries[i].from
              /\ entries'[i].under = entries[i].under /\ Saved(entries'[i]) = Saved(entries[i])
              /\ Called(entries'[i])
  <2>1. CASE i = n
    <3>1. Called(f)
      BY <1>1, <1>2, <1>4 DEF Called
    <3>2. QED
      BY <1>2, <1>4, <1>5, <1>8, <2>1, <3>1
  <2>2. CASE i # n
    BY <1>8, <2>2 DEF IInv
  <2>3. QED
    BY <2>1, <2>2
<1>11. Registered' /\ Ready'
  BY <1>1, <1>8, <1>10 DEF IInv, Registered, Ready
<1>12. Within'
  <2>1. \A i \in 1 .. n - 1 : i \in 1 .. n
    BY <1>2
  <2>2. QED
    BY <1>1, <1>2, <1>8, <1>9, <1>10, <2>1 DEF IInv, Within
<1>13. Stacked'
  <2>1. TopOf(entries)' = TopOf(entries)
    BY <1>2, <1>7, <1>8, <1>9, <1>10 DEF TopOf
  <2>2. ASSUME NEW i \in 1 .. n
        PROVE  entries'[i].under = IF i = 1 THEN <<>> ELSE Saved(entries'[i - 1])
    <3>1. entries[i].under = IF i = 1 THEN <<>> ELSE Saved(entries[i - 1])
      BY DEF IInv, Stacked
    <3>2. i # 1 => i - 1 \in 1 .. n
      BY <1>2
    <3>3. QED
      BY <1>10, <3>1, <3>2
  <2>3. QED
    BY <1>1, <1>8, <2>1, <2>2 DEF IInv, Stacked
<1>14. QED
  BY <1>1, <1>8, <1>10, <1>11, <1>12, <1>13 DEF IInv

\* Every step keeps it.
LEMMA NextIInv == IInv /\ [Next]_vars => IInv'
<1> SUFFICES ASSUME IInv, [Next]_vars PROVE IInv'
  OBVIOUS
<1>1. CASE register_handler
  <2> DEFINE m == Len(handlers)
             h == Order[m + 1]
  <2>1. /\ at = "boot" /\ entries = <<>> /\ handlers' = Append(handlers, h)
        /\ UNCHANGED <<regs, stack, entries, at>> /\ m < Len(Order)
    BY <1>1 DEF register_handler
  <2>2. Len(Order) = 4 /\ \A i \in 1 .. 4 : Order[i] \in Vectors
    <3>1. Order[1] = Key /\ Order[2] = Timer /\ Order[3] = Gate /\ Order[4] = Page /\ Len(Order) = 4
      BY DEF Order
    <3>2. \A i \in 1 .. 4 : i = 1 \/ i = 2 \/ i = 3 \/ i = 4
      OBVIOUS
    <3>3. QED
      BY <3>1, <3>2 DEF Vectors
  <2>3. m \in Nat /\ handlers \in Seq(Vectors)
    BY DEF IInv, Registered
  <2>4. h \in Vectors
    BY <2>1, <2>2, <2>3
  <2> HIDE DEF h
  <2>5. /\ handlers' \in Seq(Vectors) /\ Len(handlers') = m + 1
        /\ \A i \in 1 .. m : handlers'[i] = handlers[i]
        /\ handlers'[m + 1] = h
    BY <2>1, <2>3, <2>4, AppendProperties
  <2>6. Registered'
    <3>1. ASSUME NEW i \in 1 .. m + 1 PROVE handlers'[i] = Order[i]
      <4>1. CASE i = m + 1
        BY <2>5, <4>1 DEF h
      <4>2. CASE i \in 1 .. m
        BY <2>5, <4>2 DEF IInv, Registered
      <4>3. QED
        BY <2>3, <4>1, <4>2
    <3>2. m + 1 <= 4
      BY <2>1, <2>2, <2>3
    <3>3. QED
      BY <2>5, <3>1, <3>2 DEF Registered
  <2>7. Len(entries) = 0
    BY <2>1
  <2>8. QED
    BY <2>1, <2>6, <2>7 DEF IInv, Ready, Within, Stacked, TopOf
<1>2. CASE switch_to_ring3
  <2>1. /\ entries = <<>> /\ Len(handlers) = 4 /\ at' = "user"
        /\ UNCHANGED <<regs, stack, entries, handlers>>
    BY <1>2 DEF switch_to_ring3, Order
  <2>2. QED
    BY <2>1 DEF IInv, Registered, Ready, Within, Stacked, TopOf
<1>3. CASE Compute
  <2>1. User \in [Reg -> Values]
    BY DEF User, Values
  <2>2. regs' = User /\ UNCHANGED <<stack, entries, handlers, at>>
    BY <1>3 DEF Compute
  <2>3. QED
    BY <2>1, <2>2 DEF IInv, Registered, Ready, Within, Stacked, TopOf
<1>4. ASSUME NEW c \in Calls, Int80(c) PROVE IInv'
  <2> DEFINE values == [r \in Reg |-> CASE r = "rax" -> <<"number", c.number>>
                                        [] r \in c.args -> <<"arg", r>>
                                        [] OTHER -> regs[r]]
  <2>1. at = "user" /\ Enter(Gate, values, c)
    BY <1>4 DEF Int80
  <2>2. c.args \subseteq {"rbx", "rcx", "rdx"} /\ "rax" \in Reg /\ {"rbx", "rcx", "rdx"} \subseteq Reg
    BY CallTypes, PushedOnce
  <2>3. values \in [Reg -> Values]
    <3>1. regs \in [Reg -> Values]
      BY DEF IInv
    <3>2. <<"number", c.number>> \in Values
      BY DEF Values
    <3>3. \A r \in Reg : <<"arg", r>> \in Values
      BY DEF Values
    <3>4. QED
      BY <3>1, <3>2, <3>3
  <2>4. values["rax"] = <<"number", c.number>> /\ \A r \in c.args : values[r] = <<"arg", r>>
    BY <2>2
  <2>5. Gate \in Vectors
    BY DEF Vectors
  <2> HIDE DEF values
  <2>6. QED
    BY <2>1, <2>3, <2>4, <2>5, EnterKeeps
<1>5. ASSUME NEW vector \in {Timer, Key}, Irq(vector) PROVE IInv'
  <2>1. Enter(vector, regs, NoCall)
    BY <1>5 DEF Irq
  <2>2. at \in {"boot", "user"} \/ (at = "kernel" /\ Last(entries).vector = Gate)
    <3>1. CASE at = "kernel" /\ Last(entries).interrupts = "on"
      BY <3>1, InHandler DEF Called
    <3>2. QED
      BY <1>5, <3>1 DEF Irq
  <2>3. vector \in Vectors /\ vector # Gate /\ regs \in [Reg -> Values]
    BY DEF Vectors, Timer, Key, Gate, IInv
  <2>4. QED
    BY <2>1, <2>2, <2>3, EnterKeeps
<1>6. CASE Fault
  <2>1. Enter(Page, regs, NoCall) /\ (at = "user" \/ (at = "kernel" /\ Last(entries).vector = Gate))
    BY <1>6 DEF Fault
  <2>2. Page \in Vectors /\ Page # Gate /\ regs \in [Reg -> Values]
    BY DEF Vectors, Page, Gate, IInv
  <2>3. QED
    BY <2>1, <2>2, EnterKeeps
<1>7. CASE Sti
  BY <1>7, StiKeeps
<1>8. CASE Leave
  BY <1>8, LeaveKeeps
<1>9. CASE UNCHANGED vars
  BY <1>9 DEF vars, IInv, Registered, Ready, Within, Stacked, TopOf
<1>10. QED
  BY <1>1, <1>2, <1>3, <1>4, <1>5, <1>6, <1>7, <1>8, <1>9 DEF Next

-----------------------------------------------------------------------------
(* The theorems.                                                           *)

\* It always holds.
LEMMA Invariance == Spec => []IInv
<1>1. QED
  BY InitIInv, NextIInv, PTL DEF Spec

\* Types: whatever is entered within what, the registers hold what somebody
\* put there, and a handler runs exactly while an entry is not left.
THEOREM Types == Spec => []TypeOK
<1>1. IInv => TypeOK
  BY DEF IInv, TypeOK, Within
<1>2. QED
  BY <1>1, Invariance, PTL

\* The stack is what the entries not left put there (irq.s:10-147).
THEOREM StackIsBalanced == Spec => []StackBalanced
<1>1. IInv => StackBalanced
  <2>1. ASSUME IInv PROVE StackBalanced
    <3>1. DOMAIN entries = 1 .. Len(entries)
      BY <2>1 DEF IInv
    <3>2. stack = IF entries = <<>> THEN <<>> ELSE Saved(Last(entries))
      BY <2>1 DEF IInv, Stacked, TopOf, Last
    <3>3. QED
      BY <2>1, <3>1, <3>2 DEF IInv, Stacked, StackBalanced
  <2>2. QED
    BY <2>1
<1>2. QED
  BY <1>1, Invariance, PTL

\* The dispatch on the number and the arguments find what the wrapper passed
\* (syscalls.c:153-156).
THEOREM ArgumentsFound == Spec => []ArgumentsArrive
<1>1. IInv => ArgumentsArrive
  BY CallServed DEF ArgumentsArrive
<1>2. QED
  BY <1>1, Invariance, PTL

\* The kernel is never entered more than twice within itself, however often
\* the model would let it: DEPTH bounds nothing.
THEOREM NestingBounded == Spec => [](Len(entries) <= 2)
<1>1. IInv => Len(entries) <= 2
  <2>1. SUFFICES ASSUME IInv, Len(entries) > 2 PROVE FALSE
    BY DEF IInv
  <2>2. Len(entries) \in Nat
    BY DEF IInv
  <2>3. 2 \in 1 .. Len(entries) - 1 /\ 2 \in 1 .. Len(entries)
    BY <2>1, <2>2
  <2>4. entries[2].vector = Gate /\ entries[2].from = "kernel"
    BY <2>1, <2>3 DEF IInv, Within
  <2>5. entries[2].from = "user"
    BY <2>1, <2>3, <2>4 DEF IInv, Called
  <2>6. QED
    BY <2>4, <2>5
<1>2. QED
  BY <1>1, Invariance, PTL

\* Only the way back takes an entry off.
LEMMA OnlyLeaveShortens ==
    ASSUME IInv, [Next]_vars, Len(entries') < Len(entries)
    PROVE  Leave
<1>1. entries \in Seq(Entry) /\ Len(entries) \in Nat
  BY DEF IInv
<1>2. entries' # entries
  BY <1>1
<1>3. ASSUME NEW vector, NEW values, NEW call PROVE ~ Enter(vector, values, call)
  <2>1. SUFFICES ASSUME Enter(vector, values, call) PROVE FALSE
    OBVIOUS
  <2> DEFINE e == [vector |-> vector, before |-> values, call |-> call, from |-> at,
                   interrupts |-> "off", under |-> stack]
  <2>2. entries' = Append(entries, e)
    BY <1>2, <2>1 DEF Enter
  <2> HIDE DEF e
  <2>3. Len(entries') = Len(entries) + 1
    BY <1>1, <2>2
  <2>4. QED
    BY <1>1, <2>3
<1>4. ASSUME Sti PROVE FALSE
  <2>1. Len(entries') = Len(entries)
    BY <1>1, <1>4 DEF Sti
  <2>2. QED
    BY <1>1, <2>1
<1>5. ~ register_handler /\ ~ switch_to_ring3 /\ ~ Compute /\ ~ UNCHANGED vars
  BY <1>2 DEF register_handler, switch_to_ring3, Compute, vars
<1>6. ~ Fault /\ \A vector : ~ Irq(vector)
  BY <1>3 DEF Fault, Irq
<1>7. \A c : ~ Int80(c)
  BY <1>3 DEF Int80
<1>8. QED
  BY <1>4, <1>5, <1>6, <1>7 DEF Next

\* The stubs give back the registers (irq.s:27-41, 62-77, 97-111, 131-146).
THEOREM StubsTransparent == Spec => Transparent
<1>1. IInv /\ [Next]_vars => [\A v \in {Timer, Key, Gate, Page} : GivesBack({v}, Lost(v))]_vars
  <2>1. SUFFICES ASSUME IInv, [Next]_vars, NEW v \in {Timer, Key, Gate, Page},
                        Len(entries') < Len(entries), Last(entries).vector \in {v},
                        NEW r \in Reg \ Lost(v)
                 PROVE  regs'[r] = Last(entries).before[r]
    BY DEF GivesBack
  <2>2. Leave
    BY <2>1, OnlyLeaveShortens
  <2>3. QED
    BY <2>1, <2>2, WayBack
<1>2. QED
  BY <1>1, Invariance, PTL DEF Spec, Transparent

\* A wrapper takes the answer of the function that served its call from rax
\* (syscalls.c:160-225, irq.s:61-78).
THEOREM AnswersArrive == Spec => AnswerArrives
<1> DEFINE A == Len(entries') < Len(entries) /\ Last(entries).vector = Gate
                    /\ Last(entries).call.out /\ Last(entries).call.number \in Answering =>
                   regs'["rax"] = <<"answer", Last(entries).call.number>>
<1>1. IInv /\ [Next]_vars => [A]_vars
  <2>1. SUFFICES ASSUME IInv, [Next]_vars, Len(entries') < Len(entries),
                        Last(entries).vector = Gate, Last(entries).call.number \in Answering
                 PROVE  regs'["rax"] = <<"answer", Last(entries).call.number>>
    OBVIOUS
  <2>2. Leave /\ at = "kernel"
    BY <2>1, OnlyLeaveShortens DEF Leave
  <2>3. regs'["rax"] = Answer(Last(entries))
    BY <2>1, <2>2, WayBack
  <2>4. Served.number = <<"number", Last(entries).call.number>>
    BY <2>1, <2>2, CallServed
  <2>5. Served.number \in {"number"} \X Answering /\ Served.number[2] = Last(entries).call.number
    BY <2>1, <2>4
  <2>6. QED
    BY <2>1, <2>3, <2>5 DEF Answer
<1>2. QED
  BY <1>1, Invariance, PTL DEF Spec, AnswerArrives
===============================================================================
