----------------------------- MODULE Checkpoint -----------------------------
(***************************************************************************)
(* What SaveContext and RestoreContext promise to the code that calls      *)
(* AtomicBegin and AtomicEnd: an aborted section goes on where it began,   *)
(* with the stack and the registers of that moment, and with nothing else. *)
(***************************************************************************)
EXTENDS Naturals, Sequences

CONSTANTS
  Values,  \* what a stack frame or a register can hold
  MaxDepth \* bound: frames on the stack

VARIABLES
  where,     \* "outside" a section, in the "library", in the "program"
  stack,     \* the frames of the program
  reg,       \* a register that calls preserve
  checkpoint \* stack and register at the last AtomicBegin

vars == <<where, stack, reg, checkpoint>>

Init ==
  /\ where = "outside"
  /\ stack \in [1..1 -> Values]
  /\ reg \in Values
  /\ checkpoint = [stack |-> stack, reg |-> reg]

-----------------------------------------------------------------------------
(* The program *)

Call(v) ==
  /\ where = "program" /\ Len(stack) < MaxDepth
  /\ stack' = Append(stack, v)
  /\ UNCHANGED <<where, reg, checkpoint>>

Return ==
  /\ where = "program" /\ Len(stack) > 1
  /\ stack' = SubSeq(stack, 1, Len(stack) - 1)
  /\ UNCHANGED <<where, reg, checkpoint>>

Store(d, v) ==
  /\ where = "program" /\ d \in 1..Len(stack)
  /\ stack' = [stack EXCEPT ![d] = v]
  /\ UNCHANGED <<where, reg, checkpoint>>

Load(v) ==
  /\ where = "program"
  /\ reg' = v
  /\ UNCHANGED <<where, stack, checkpoint>>

-----------------------------------------------------------------------------
(* The library *)

AtomicBegin ==
  /\ where = "outside" /\ where' = "library"
  /\ checkpoint' = [stack |-> stack, reg |-> reg]
  /\ UNCHANGED <<stack, reg>>

\* The program goes on, for the first time or once more, from the checkpoint.
Resume ==
  /\ where = "library" /\ where' = "program"
  /\ UNCHANGED <<stack, reg, checkpoint>>

\* AtomicEnd: what the section has done is kept, or undone.
Commit ==
  /\ where = "program" /\ where' = "outside"
  /\ UNCHANGED <<stack, reg, checkpoint>>

Abort ==
  /\ where = "program" /\ where' = "library"
  /\ stack' = checkpoint.stack /\ reg' = checkpoint.reg
  /\ UNCHANGED checkpoint

Next ==
  \/ AtomicBegin \/ Resume \/ Commit \/ Abort \/ Return
  \/ \E v \in Values : Call(v) \/ Load(v) \/ \E d \in 1..MaxDepth : Store(d, v)

Spec == Init /\ [][Next]_vars

=============================================================================
