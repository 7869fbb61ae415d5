---------------------------- MODULE StackContext ----------------------------
(***************************************************************************)
(* StackContext (stack_context.cc), in one process: saving and restoring   *)
(* the stack by copying it, from code that runs on that very stack.        *)
(*                                                                         *)
(* The stack is memory counted from bottom_of_stack_ towards its top, one  *)
(* word for a frame; what is beyond sp stays as calls have left it.  A     *)
(* frame of the library holds the name of its function: code that finds    *)
(* something else where its frame should be goes astray ("crashed").  The  *)
(* registers are one that calls preserve and, as part of the machine       *)
(* state, the stack pointer.                                               *)
(*                                                                         *)
(* A function of the library that only calls the next one is one step      *)
(* with it: nothing else runs in the process, and its memory is its own.   *)
(***************************************************************************)
EXTENDS Naturals

CONSTANTS
  Values,  \* what a frame of the program or a register can hold
  MaxDepth \* bound: frames of the program on the stack

LibraryFrames ==
  {"AtomicBegin", "SaveContext", "Phase2Save", "CompleteSave",
   "AtomicEnd", "AtomicAbort", "RestoreContext", "padding", "CompleteRestore"}

ASSUME StackAssumption ==
  /\ Values \cap LibraryFrames = {}
  /\ MaxDepth \in Nat \ {0}

VARIABLES
  pc,         \* what the process does
  mem,        \* the stack, from the bottom
  sp,         \* frames in use
  reg,        \* a register that calls preserve
  first_time, \* whether getcontext has returned, and not setcontext
  state,      \* state_
  saved,      \* the memory at stack_
  stack_size, \* stack_size_
  checkpoint  \* history: the program's stack and register at AtomicBegin

vars == <<pc, mem, sp, reg, first_time, state, saved, stack_size, checkpoint>>
context == <<first_time, state, saved, stack_size>>

\* Four frames of the library are on top of those of the program, at most.
Depths == 1..(MaxDepth + 4)

\* The frames of the program while it runs.
Live == [d \in 1..sp |-> mem[d]]

Init ==
  /\ pc = "outside"
  /\ mem \in {[d \in Depths |-> v] : v \in Values}
  /\ sp = 1
  /\ reg \in Values
  /\ first_time = TRUE
  /\ state = [sp |-> 1, reg |-> reg]
  /\ saved = mem
  /\ stack_size = 0
  /\ checkpoint = [stack |-> Live, reg |-> reg]

-----------------------------------------------------------------------------
(* The program, in an atomic section *)

Call(v) ==
  /\ pc = "program" /\ sp < MaxDepth
  /\ sp' = sp + 1
  /\ mem' = [mem EXCEPT ![sp + 1] = v]
  /\ UNCHANGED <<pc, reg, context, checkpoint>>

Return ==
  /\ pc = "program" /\ sp > 1
  /\ sp' = sp - 1
  /\ UNCHANGED <<pc, mem, reg, context, checkpoint>>

Store(d, v) ==
  /\ pc = "program" /\ d \in 1..sp
  /\ mem' = [mem EXCEPT ![d] = v]
  /\ UNCHANGED <<pc, sp, reg, context, checkpoint>>

Load(v) ==
  /\ pc = "program"
  /\ reg' = v
  /\ UNCHANGED <<pc, mem, sp, context, checkpoint>>

\* AtomicCommit has succeeded. The library goes on to AtomicBegin, or exits.
Commit ==
  /\ pc = "program" /\ pc' = "outside"
  /\ UNCHANGED <<mem, sp, reg, context, checkpoint>>

-----------------------------------------------------------------------------
(* SaveContext *)

\* Mutant: first_time keeps the value that the last section has left.
BeginUnmarked ==
  /\ pc = "outside"
  /\ mem' = [mem EXCEPT ![sp + 1] = "AtomicBegin", ![sp + 2] = "SaveContext"]
  /\ sp' = sp + 2
  /\ state' = [sp |-> sp + 2, reg |-> reg]
  /\ pc' = "returned"
  /\ checkpoint' = [stack |-> Live, reg |-> reg]
  /\ UNCHANGED <<reg, first_time, saved, stack_size>>

\* AtomicBegin calls SaveContext, up to the return of getcontext.
Begin ==
  /\ pc = "outside"
  /\ mem' = [mem EXCEPT ![sp + 1] = "AtomicBegin", ![sp + 2] = "SaveContext"]
  /\ sp' = sp + 2
  /\ first_time' = TRUE
  /\ state' = [sp |-> sp + 2, reg |-> reg]
  /\ pc' = "returned"
  /\ checkpoint' = [stack |-> Live, reg |-> reg]
  /\ UNCHANGED <<reg, saved, stack_size>>

\* Mutant: the frame of SaveContext itself is not saved.
Phase2SaveCaller ==
  /\ pc = "returned" /\ first_time
  /\ first_time' = FALSE
  /\ mem' = [mem EXCEPT ![sp + 1] = "Phase2Save", ![sp + 2] = "CompleteSave"]
  /\ stack_size' = sp - 1
  /\ saved' = [d \in Depths |-> IF d <= sp - 1 THEN mem'[d] ELSE saved[d]]
  /\ pc' = "saved"
  /\ UNCHANGED <<sp, reg, state, checkpoint>>

\* Phase2Save and CompleteSave: the frames up to that of Phase2Save are copied.
Phase2Save ==
  /\ pc = "returned" /\ first_time
  /\ first_time' = FALSE
  /\ mem' = [mem EXCEPT ![sp + 1] = "Phase2Save", ![sp + 2] = "CompleteSave"]
  /\ stack_size' = sp + 1
  /\ saved' = [d \in Depths |-> IF d <= sp + 1 THEN mem'[d] ELSE saved[d]]
  /\ pc' = "saved"
  /\ UNCHANGED <<sp, reg, state, checkpoint>>

\* After a rollback there is nothing to save.
RolledBack ==
  /\ pc = "returned" /\ ~first_time
  /\ pc' = "saved"
  /\ UNCHANGED <<mem, sp, reg, context, checkpoint>>

\* SaveContext and AtomicBegin return to the program, if their frames are there.
SaveContextReturns ==
  /\ pc = "saved"
  /\ pc' = IF mem[sp] = "SaveContext" /\ mem[sp - 1] = "AtomicBegin"
           THEN "program" ELSE "crashed"
  /\ sp' = sp - 2
  /\ UNCHANGED <<mem, reg, context, checkpoint>>

-----------------------------------------------------------------------------
(* RestoreContext *)

\* AtomicCommit has failed: AtomicEnd calls AtomicAbort.
Abort ==
  /\ pc = "program" /\ pc' = "aborting"
  /\ mem' = [mem EXCEPT ![sp + 1] = "AtomicEnd", ![sp + 2] = "AtomicAbort"]
  /\ sp' = sp + 2
  /\ UNCHANGED <<reg, context, checkpoint>>

Padding(frame) == IF frame < stack_size THEN stack_size - frame ELSE 0

\* RestoreContext calls CompleteRestore on top of padding that puts its frame
\* beyond what will be written.
RestoreContextWith(padding) ==
  /\ pc = "aborting" /\ pc' = "copying"
  /\ sp' = sp + 1 + padding + 1
  /\ mem' = [d \in Depths |->
               CASE d = sp + 1 -> "RestoreContext"
                 [] d = sp + 1 + padding + 1 -> "CompleteRestore"
                 [] d > sp + 1 /\ d <= sp + 1 + padding -> "padding"
                 [] OTHER -> mem[d]]
  /\ UNCHANGED <<reg, context, checkpoint>>

\* Mutant: no padding.
RestoreContextUnpadded == RestoreContextWith(0)

RestoreContext == RestoreContextWith(Padding(sp + 1))

\* CompleteRestore: the copy goes over the stack.
CompleteRestore ==
  /\ pc = "copying" /\ pc' = "copied"
  /\ mem' = [d \in Depths |-> IF d <= stack_size THEN saved[d] ELSE mem[d]]
  /\ UNCHANGED <<sp, reg, context, checkpoint>>

\* CompleteRestore calls setcontext, if it still has its frame, which returns in
\* SaveContext as getcontext did.
Setcontext ==
  /\ pc = "copied"
  /\ pc' = IF mem[sp] = "CompleteRestore" THEN "returned" ELSE "crashed"
  /\ sp' = state.sp
  /\ reg' = state.reg
  /\ UNCHANGED <<mem, context, checkpoint>>

Library ==
  \/ Phase2Save \/ RolledBack \/ SaveContextReturns
  \/ RestoreContext \/ CompleteRestore \/ Setcontext

Next ==
  \/ Begin \/ Library \/ Commit \/ Abort \/ Return
  \/ \E v \in Values : Call(v) \/ Load(v) \/ \E d \in 1..MaxDepth : Store(d, v)

Spec == Init /\ [][Next]_vars

-----------------------------------------------------------------------------
(* Properties *)

\* Every variable keeps its type; in particular the library always finds its
\* frames on the stack, also while it overwrites the stack.
TypeOK ==
  /\ pc \in {"outside", "program", "returned", "saved",
             "aborting", "copying", "copied"}
  /\ mem \in [Depths -> Values \cup LibraryFrames]
  /\ sp \in Depths
  /\ reg \in Values
  /\ first_time \in BOOLEAN
  /\ state \in [sp : Depths, reg : Values]
  /\ saved \in [Depths -> Values \cup LibraryFrames]
  /\ stack_size \in 0..(MaxDepth + 3)

\* The code that copies the saved stack over the stack does not run in the part
\* of it that it writes (RestoreContext's padding).
CopierOutOfTheWay == pc \in {"copying", "copied"} => stack_size < sp

\* To the program, SaveContext and RestoreContext do what Checkpoint says: it
\* goes on with the stack and the register of the last AtomicBegin, whatever the
\* library has left in memory beyond the stack and copied over it.
Where == IF pc \in {"outside", "program"} THEN pc ELSE "library"

ProgramStack == IF Where = "library" THEN checkpoint.stack ELSE Live

ProgramReg == IF Where = "library" THEN checkpoint.reg ELSE reg

C == INSTANCE Checkpoint WITH
  where <- Where, stack <- ProgramStack, reg <- ProgramReg

ImplementsCheckpoint == C!Spec

=============================================================================
