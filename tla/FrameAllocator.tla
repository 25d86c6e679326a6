--------------------------- MODULE FrameAllocator ---------------------------
(***************************************************************************)
(* What sys/physmemory.c promises the rest of the kernel: a pool of frames *)
(* is put together once at boot, and from then on every request either     *)
(* takes a frame out of the pool for good, or is refused because the pool  *)
(* is empty.  There is no way to give a frame back.  Which frame is taken, *)
(* and how the pool is represented, is left open.                          *)
(***************************************************************************)
CONSTANTS Frame,    \* the frames the allocator can ever hand out
          Refused   \* the answer to a request the pool cannot meet

VARIABLES ready,    \* boot has filled the pool
          pool,     \* frames that may still be handed out
          out,      \* frames that have been handed out
          answer    \* the answer to the last request

faVars == <<ready, pool, out, answer>>

FAInit == /\ ready = FALSE
          /\ pool = {}
          /\ out = {}
          /\ answer = Refused

\* Boot ends: the pool is whatever the memory map left.
Open == /\ ~ready
        /\ ready' = TRUE
        /\ pool' \in SUBSET Frame
        /\ UNCHANGED <<out, answer>>

\* A request is met with a frame nobody holds.
Take == /\ ready
        /\ \E f \in pool :
              /\ answer' = f
              /\ pool' = pool \ {f}
              /\ out' = out \cup {f}
        /\ UNCHANGED ready

\* A request is refused only when nothing is left.
Refuse == /\ ready
          /\ pool = {}
          /\ answer' = Refused
          /\ UNCHANGED <<ready, pool, out>>

FANext == Open \/ Take \/ Refuse

FASpec == FAInit /\ [][FANext]_faVars
=============================================================================
