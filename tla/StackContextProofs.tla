------------------------- MODULE StackContextProofs -------------------------
(***************************************************************************)
(* StackContext keeps its type, copies the stack from outside of what it   *)
(* writes, and implements Checkpoint, for every depth of the stack.        *)
(***************************************************************************)
EXTENDS StackContext, Sequences, SequenceTheorems, TLAPS

Frames == Values \cup LibraryFrames

\* What is saved is the checkpoint and, on top of it, the frames of the library
\* up to that of Phase2Save.
SavedIsCheckpoint ==
  /\ state.sp \in 3..(MaxDepth + 2)
  /\ state.reg = checkpoint.reg
  /\ checkpoint.stack = [d \in 1..(state.sp - 2) |-> saved[d]]
  /\ saved[state.sp - 1] = "AtomicBegin"
  /\ saved[state.sp] = "SaveContext"
  /\ stack_size = state.sp + 1
  /\ ~first_time

\* The stack is what it was when getcontext returned for the first time.
AtCheckpoint ==
  /\ sp = state.sp /\ sp \in 3..(MaxDepth + 2)
  /\ reg = state.reg /\ reg = checkpoint.reg
  /\ checkpoint.stack = [d \in 1..(sp - 2) |-> mem[d]]
  /\ mem[sp - 1] = "AtomicBegin"
  /\ mem[sp] = "SaveContext"

IInv ==
  /\ TypeOK
  /\ pc \in {"outside", "program"} => sp <= MaxDepth
  /\ pc = "program" => SavedIsCheckpoint
  /\ pc = "returned" => AtCheckpoint /\ (first_time \/ SavedIsCheckpoint)
  /\ pc = "saved" => AtCheckpoint /\ SavedIsCheckpoint
  /\ pc = "aborting" => SavedIsCheckpoint /\ sp \in 3..(MaxDepth + 2)
  /\ pc \in {"copying", "copied"} =>
       SavedIsCheckpoint /\ stack_size < sp /\ mem[sp] = "CompleteRestore"
  /\ pc = "copied" => \A d \in 1..stack_size : mem[d] = saved[d]

-----------------------------------------------------------------------------
(* The inductive invariant *)

LEMMA InitIInv == Init => IInv
<1> SUFFICES ASSUME Init PROVE IInv  OBVIOUS
<1>1. MaxDepth \in Nat \ {0}  BY StackAssumption
<1> QED  BY <1>1 DEF Init, IInv, TypeOK, Depths, LibraryFrames

\* The program moves between the frames it has and changes only those.
LEMMA ProgramKeepsIInv ==
  ASSUME IInv,
         \/ Commit \/ Return \/ UNCHANGED vars
         \/ \E v \in Values : Call(v) \/ Load(v) \/ \E d \in 1..MaxDepth : Store(d, v)
  PROVE  IInv'
<1>1. MaxDepth \in Nat \ {0}  BY StackAssumption
<1>2. CASE Commit
  BY <1>1, <1>2 DEF Commit, context, IInv, TypeOK, Depths, SavedIsCheckpoint
<1>3. CASE Return
  BY <1>1, <1>3 DEF Return, context, IInv, TypeOK, Depths, SavedIsCheckpoint
<1>4. ASSUME NEW v \in Values, Call(v)  PROVE IInv'
  BY <1>1, <1>4 DEF Call, context, IInv, TypeOK, Depths, SavedIsCheckpoint
<1>5. ASSUME NEW v \in Values, Load(v)  PROVE IInv'
  BY <1>1, <1>5 DEF Load, context, IInv, TypeOK, Depths, SavedIsCheckpoint
<1>6. ASSUME NEW v \in Values, NEW d \in 1..MaxDepth, Store(d, v)  PROVE IInv'
  BY <1>1, <1>6 DEF Store, context, IInv, TypeOK, Depths, SavedIsCheckpoint
<1>7. CASE UNCHANGED vars
  BY <1>7 DEF vars, context, IInv, TypeOK, AtCheckpoint, SavedIsCheckpoint
<1> QED  BY <1>2, <1>3, <1>4, <1>5, <1>6, <1>7

\* SaveContext puts its frames on the stack, and all of them into the copy.
LEMMA SaveKeepsIInv ==
  ASSUME IInv, Begin \/ Phase2Save \/ RolledBack \/ SaveContextReturns
  PROVE  IInv'
<1>1. MaxDepth \in Nat \ {0}  BY StackAssumption
<1>2. CASE Begin
  <2>1. TypeOK'
    BY <1>1, <1>2 DEF Begin, IInv, TypeOK, Depths, LibraryFrames
  <2>2. AtCheckpoint'
    BY <1>1, <1>2 DEF Begin, IInv, TypeOK, Depths, Live, AtCheckpoint
  <2> QED  BY <1>2, <2>1, <2>2 DEF Begin, IInv
<1>3. CASE Phase2Save
  <2>1. AtCheckpoint /\ TypeOK  BY <1>3 DEF Phase2Save, IInv
  <2>2. /\ sp + 1 \in Depths /\ sp + 2 \in Depths
        /\ mem' = [mem EXCEPT ![sp + 1] = "Phase2Save", ![sp + 2] = "CompleteSave"]
        /\ saved' = [d \in Depths |-> IF d <= sp + 1 THEN mem'[d] ELSE saved[d]]
        /\ stack_size' = sp + 1 /\ pc' = "saved" /\ ~first_time'
        /\ UNCHANGED <<sp, reg, state, checkpoint>>
    BY <1>1, <1>3, <2>1 DEF Phase2Save, AtCheckpoint, Depths
  <2>3. /\ mem' \in [Depths -> Frames]
        /\ \A d \in Depths : d <= sp => mem'[d] = mem[d]
    BY <1>1, <2>1, <2>2 DEF TypeOK, Frames, LibraryFrames, Depths
  <2>4. /\ saved' \in [Depths -> Frames]
        /\ \A d \in Depths : d <= sp => saved'[d] = mem[d]
    BY <1>1, <2>1, <2>2, <2>3, SMTT(20) DEF TypeOK, Frames, Depths
  <2>5. TypeOK'
    <3>1. first_time' \in BOOLEAN  BY <1>3 DEF Phase2Save
    <3>2. stack_size' \in 0..(MaxDepth + 3)  BY <1>1, <2>1, <2>2 DEF AtCheckpoint
    <3> QED  BY <2>1, <2>2, <2>3, <2>4, <3>1, <3>2 DEF TypeOK, Frames
  <2>6. sp \in Depths /\ sp - 1 \in Depths /\ 1..(sp - 2) \subseteq Depths
    BY <1>1, <2>1 DEF AtCheckpoint, Depths
  <2>7. AtCheckpoint'
    <3>1. [d \in 1..(sp - 2) |-> mem'[d]] = [d \in 1..(sp - 2) |-> mem[d]]
      BY <2>1, <2>3, <2>6 DEF AtCheckpoint
    <3>2. mem'[sp - 1] = "AtomicBegin" /\ mem'[sp] = "SaveContext"
      BY <2>1, <2>3, <2>6 DEF AtCheckpoint
    <3> QED  BY <2>1, <2>2, <3>1, <3>2 DEF AtCheckpoint
  <2>8. SavedIsCheckpoint'
    <3>1. [d \in 1..(sp - 2) |-> saved'[d]] = [d \in 1..(sp - 2) |-> mem[d]]
      BY <2>1, <2>4, <2>6 DEF AtCheckpoint
    <3>2. saved'[sp - 1] = "AtomicBegin" /\ saved'[sp] = "SaveContext"
      BY <2>1, <2>4, <2>6 DEF AtCheckpoint
    <3> QED  BY <2>1, <2>2, <3>1, <3>2 DEF AtCheckpoint, SavedIsCheckpoint
  <2> QED  BY <2>2, <2>5, <2>7, <2>8 DEF IInv
<1>4. CASE RolledBack
  BY <1>4 DEF RolledBack, context, IInv, TypeOK, AtCheckpoint, SavedIsCheckpoint
<1>5. CASE SaveContextReturns
  BY <1>1, <1>5 DEF SaveContextReturns, context, IInv, TypeOK, Depths, AtCheckpoint, SavedIsCheckpoint
<1> QED  BY <1>2, <1>3, <1>4, <1>5

\* RestoreContext runs beyond the copy and puts the copy where it came from.
LEMMA RestoreKeepsIInv ==
  ASSUME IInv, Abort \/ RestoreContext \/ CompleteRestore \/ Setcontext
  PROVE  IInv'
<1>1. MaxDepth \in Nat \ {0}  BY StackAssumption
<1>2. CASE Abort
  <2>1. TypeOK'
    BY <1>1, <1>2 DEF Abort, context, IInv, TypeOK, Depths, LibraryFrames
  <2>2. SavedIsCheckpoint'
    BY <1>2 DEF Abort, context, IInv, SavedIsCheckpoint
  <2>3. sp' \in 3..(MaxDepth + 2)
    BY <1>1, <1>2 DEF Abort, IInv, TypeOK, Depths
  <2> QED  BY <1>2, <2>1, <2>2, <2>3 DEF Abort, IInv
<1>3. CASE RestoreContext
  <2>1. PICK padding \in Nat :
          /\ padding = Padding(sp + 1)
          /\ sp + 1 + padding >= stack_size
          /\ sp + 1 + padding <= MaxDepth + 3
    BY <1>1, <1>3 DEF RestoreContext, RestoreContextWith, Padding, IInv, TypeOK, Depths
  <2>2. TypeOK'
    BY <1>1, <1>3, <2>1
    DEF RestoreContext, RestoreContextWith, context, IInv, TypeOK, Depths, LibraryFrames
  <2>3. SavedIsCheckpoint'
    BY <1>3 DEF RestoreContext, RestoreContextWith, context, IInv, SavedIsCheckpoint
  <2>4. stack_size' < sp' /\ mem'[sp'] = "CompleteRestore"
    BY <1>1, <1>3, <2>1
    DEF RestoreContext, RestoreContextWith, context, IInv, TypeOK, Depths
  <2> QED  BY <1>3, <2>2, <2>3, <2>4 DEF RestoreContext, RestoreContextWith, IInv
<1>4. CASE CompleteRestore
  <2>1. TypeOK' /\ SavedIsCheckpoint'
    BY <1>1, <1>4 DEF CompleteRestore, context, IInv, TypeOK, Depths, SavedIsCheckpoint
  <2>2. \A d \in 1..stack_size' : mem'[d] = saved'[d]
    BY <1>1, <1>4 DEF CompleteRestore, context, IInv, TypeOK, Depths
  <2>3. stack_size' < sp' /\ mem'[sp'] = "CompleteRestore"
    BY <1>1, <1>4 DEF CompleteRestore, context, IInv, TypeOK, Depths
  <2> QED  BY <1>4, <2>1, <2>2, <2>3 DEF CompleteRestore, IInv
<1>5. CASE Setcontext
  <2>1. TypeOK' /\ SavedIsCheckpoint'
    BY <1>1, <1>5 DEF Setcontext, context, IInv, TypeOK, Depths, SavedIsCheckpoint
  <2>2. AtCheckpoint'
    <3>1. /\ SavedIsCheckpoint /\ state.sp \in 3..(MaxDepth + 2)
          /\ sp' = state.sp /\ reg' = state.reg
          /\ UNCHANGED <<mem, state, checkpoint>>
      BY <1>5 DEF Setcontext, context, IInv, SavedIsCheckpoint
    <3>2. \A d \in 1..(state.sp + 1) : mem[d] = saved[d]
      BY <1>5, <3>1 DEF Setcontext, IInv, SavedIsCheckpoint
    <3>3. [d \in 1..(state.sp - 2) |-> mem[d]] = [d \in 1..(state.sp - 2) |-> saved[d]]
      BY <1>1, <3>1, <3>2
    <3>4. mem[state.sp - 1] = "AtomicBegin" /\ mem[state.sp] = "SaveContext"
      BY <1>1, <3>1, <3>2 DEF SavedIsCheckpoint
    <3> QED  BY <3>1, <3>3, <3>4 DEF AtCheckpoint, SavedIsCheckpoint
  <2>3. pc' = "returned"
    BY <1>5 DEF Setcontext, IInv
  <2> QED  BY <2>1, <2>2, <2>3 DEF IInv
<1> QED  BY <1>2, <1>3, <1>4, <1>5

LEMMA NextIInv == IInv /\ [Next]_vars => IInv'
BY ProgramKeepsIInv, SaveKeepsIInv, RestoreKeepsIInv DEF Next, Library

\* The library saves and restores the stack from frames that it keeps apart
\* from the copy: the argument of every theorem below.
THEOREM InductiveInvariant == Spec => []IInv
<1>1. Init => IInv  BY InitIInv
<1>2. IInv /\ [Next]_vars => IInv'  BY NextIInv
<1> QED  BY <1>1, <1>2, PTL DEF Spec

\* Every variable keeps its type, and the library never goes astray: SaveContext,
\* CompleteRestore and setcontext find their frames.
THEOREM TypeCorrect == Spec => []TypeOK
<1>1. IInv => TypeOK  BY DEF IInv
<1> QED  BY <1>1, InductiveInvariant, PTL

\* CompleteRestore's frame is beyond all that it writes, wherever on the stack
\* AtomicEnd was called (RestoreContext's alloca).
THEOREM CopierSafe == Spec => []CopierOutOfTheWay
<1>1. IInv => CopierOutOfTheWay  BY DEF IInv, CopierOutOfTheWay
<1> QED  BY <1>1, InductiveInvariant, PTL

-----------------------------------------------------------------------------
(* Implementation of Checkpoint *)

LEMMA PrefixIsSequence ==
  ASSUME NEW S, NEW n \in Nat, NEW m, \A d \in 1..n : m[d] \in S
  PROVE  [d \in 1..n |-> m[d]] \in Seq(S) /\ Len([d \in 1..n |-> m[d]]) = n
<1>1. [d \in 1..n |-> m[d]] \in [1..n -> S]  OBVIOUS
<1> QED  BY <1>1

LEMMA InitImplements == Init => C!Init
<1> SUFFICES ASSUME Init PROVE C!Init  OBVIOUS
<1>1. MaxDepth \in Nat \ {0}  BY StackAssumption
<1>2. Where = "outside" /\ ProgramStack = Live /\ ProgramReg = reg
  BY DEF Init, Where, ProgramStack, ProgramReg
<1>3. Live \in [1..1 -> Values]
  BY <1>1 DEF Init, Live, Depths
<1> QED  BY <1>2, <1>3 DEF Init, C!Init

\* A step of the program is the same step of Checkpoint.
LEMMA ProgramImplements ==
  ASSUME IInv, IInv',
         Return \/ \E v \in Values : Call(v) \/ Load(v) \/ \E d \in 1..MaxDepth : Store(d, v)
  PROVE  C!Next
<1>1. MaxDepth \in Nat \ {0}  BY StackAssumption
<1>2. TypeOK /\ TypeOK'  BY DEF IInv
<1>3. /\ Live \in Seq(Frames) /\ Len(Live) = sp
      /\ Live' \in Seq(Frames) /\ Len(Live') = sp'
      /\ sp \in Nat /\ sp >= 1
  <2>1. /\ sp \in Nat /\ sp >= 1 /\ sp' \in Nat
        /\ \A d \in 1..sp : mem[d] \in Frames
        /\ \A d \in 1..sp' : mem'[d] \in Frames
    BY <1>1, <1>2 DEF TypeOK, Depths, Frames
  <2>2. Live \in Seq(Frames) /\ Len(Live) = sp
    BY <2>1, PrefixIsSequence DEF Live
  <2>3. Live' \in Seq(Frames) /\ Len(Live') = sp'
    BY <2>1, PrefixIsSequence DEF Live
  <2> QED  BY <2>1, <2>2, <2>3
<1>4. ASSUME pc = "program", pc' = "program"
      PROVE  /\ Where = "program" /\ Where' = "program"
             /\ ProgramStack = Live /\ ProgramStack' = Live'
             /\ ProgramReg = reg /\ ProgramReg' = reg'
  BY <1>4 DEF Where, ProgramStack, ProgramReg
<1>5. CASE Return
  <2>1. Live' = SubSeq(Live, 1, Len(Live) - 1)
    BY <1>1, <1>2, <1>3, <1>5 DEF Return, Live, TypeOK, Depths
  <2>2. C!Return  BY <1>3, <1>4, <1>5, <2>1 DEF Return, C!Return
  <2> QED  BY <2>2 DEF C!Next
<1>6. ASSUME NEW v \in Values, Call(v)  PROVE C!Next
  <2>1. Live' = Append(Live, v)
    BY <1>1, <1>2, <1>3, <1>6 DEF Call, Live, TypeOK, Depths
  <2>2. C!Call(v)  BY <1>3, <1>4, <1>6, <2>1 DEF Call, C!Call
  <2> QED  BY <2>2 DEF C!Next
<1>7. ASSUME NEW v \in Values, Load(v)  PROVE C!Next
  <2>1. Live' = Live  BY <1>7 DEF Load, Live
  <2>2. C!Load(v)  BY <1>4, <1>7, <2>1 DEF Load, C!Load
  <2> QED  BY <2>2 DEF C!Next
<1>8. ASSUME NEW v \in Values, NEW d \in 1..MaxDepth, Store(d, v)  PROVE C!Next
  <2>1. Live' = [Live EXCEPT ![d] = v]
    <3>1. /\ sp' = sp /\ sp \in 1..(MaxDepth + 4) /\ d \in 1..sp
          /\ mem' = [mem EXCEPT ![d] = v]
          /\ mem \in [1..(MaxDepth + 4) -> Frames]
      BY <1>1, <1>2, <1>8 DEF Store, TypeOK, Depths, Frames
    <3>2. \A e \in 1..sp : mem'[e] = IF e = d THEN v ELSE mem[e]
      BY <1>1, <3>1
    <3> QED  BY <3>1, <3>2 DEF Live
  <2>2. C!Store(d, v)  BY <1>3, <1>4, <1>8, <2>1 DEF Store, C!Store
  <2> QED  BY <2>2 DEF C!Next
<1> QED  BY <1>5, <1>6, <1>7, <1>8

\* AtomicBegin and AtomicEnd are what Checkpoint says at the call, or at the
\* return; what the library does in between is invisible.
LEMMA LibraryImplements ==
  ASSUME IInv, IInv', Begin \/ Commit \/ Abort \/ Library
  PROVE  C!Next \/ UNCHANGED C!vars
<1>1. MaxDepth \in Nat \ {0}  BY StackAssumption
<1> USE DEF Where, ProgramStack, ProgramReg
<1>2. CASE Begin
  BY <1>2 DEF Begin, C!AtomicBegin, C!Next
<1>3. CASE Commit
  BY <1>3 DEF Commit, Live, C!Commit, C!Next
<1>4. CASE Abort
  BY <1>4 DEF Abort, C!Abort, C!Next
<1>5. CASE SaveContextReturns
  <2>1. AtCheckpoint /\ pc = "saved" /\ pc' = "program"
    BY <1>5 DEF SaveContextReturns, IInv, AtCheckpoint
  <2>2. Live' = checkpoint.stack /\ reg' = checkpoint.reg
    BY <1>5, <2>1 DEF SaveContextReturns, AtCheckpoint, Live
  <2> QED  BY <1>5, <2>1, <2>2 DEF SaveContextReturns, C!Resume, C!Next
<1>6. ASSUME Phase2Save \/ RolledBack \/ RestoreContext \/ CompleteRestore \/ Setcontext
      PROVE  UNCHANGED C!vars
  <2>1. checkpoint' = checkpoint
    BY <1>6 DEF Phase2Save, RolledBack, RestoreContext, RestoreContextWith,
                CompleteRestore, Setcontext
  <2>2. pc \notin {"outside", "program"} /\ pc' \notin {"outside", "program"}
    BY <1>6 DEF Phase2Save, RolledBack, RestoreContext, RestoreContextWith,
                CompleteRestore, Setcontext
  <2> QED  BY <2>1, <2>2 DEF C!vars
<1> QED  BY <1>2, <1>3, <1>4, <1>5, <1>6 DEF Library

\* SaveContext and RestoreContext implement Checkpoint: a section that is run
\* again finds the stack and the registers of its beginning, from whatever
\* depth of the stack it was aborted.
THEOREM Refinement == Spec => ImplementsCheckpoint
<1>1. Init => C!Init  BY InitImplements
<1>2. IInv /\ IInv' /\ [Next]_vars => [C!Next]_(C!vars)
  <2>1. CASE UNCHANGED vars
    BY <2>1 DEF vars, context, C!vars, Where, ProgramStack, ProgramReg, Live
  <2> QED  BY <2>1, ProgramImplements, LibraryImplements DEF Next
<1> QED  BY <1>1, <1>2, InductiveInvariant, PTL DEF Spec, ImplementsCheckpoint, C!Spec

=============================================================================
