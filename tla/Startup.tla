------------------------------ MODULE Startup ------------------------------
(***************************************************************************)
(* From the loader to the program's main: __libc_start_main, wrapped_main  *)
(* (libgthread.hh), GlobalHeapInit (bump_allocator.cc), InitGThread        *)
(* (gthread.cc), and the heap of the first process until the first section *)
(* has ended, when it becomes the heap of all.                             *)
(*                                                                         *)
(* malloc is interposed from the very beginning.  The constructors of      *)
(* shared libraries run before __libc_start_main, those of the program     *)
(* inside it, after GlobalHeapInit; only after wrapped_main has begun is   *)
(* an access to the heap part of a section.  Addresses count blocks.       *)
(***************************************************************************)
EXTENDS Naturals

CONSTANTS
  Pages,    \* pages of the heap
  Values,   \* what is written to a page
  Zero,     \* what is in a page of a new file
  NoValue,  \* nothing was written; no private copy
  Base,     \* the subheap of the process
  MaxGiven  \* bound: blocks allocated

ASSUME StartupAssumption ==
  /\ Zero \notin Values /\ NoValue \notin Values \cup {Zero}
  /\ Base \in Nat \ {0} /\ MaxGiven \in Nat

Null == 0

VARIABLES
  stage,   \* where the start of the program stands
  file,    \* the contents of shm_object
  private, \* the pages the process has copies of
  pointer, \* subheaps[index]
  given,   \* the addresses malloc has returned
  written, \* pages written in the current section
  last     \* history: what was last written to a page

startVars == <<stage, file, private, pointer, given, written, last>>

Stages == {"loading", "constructing", "wrapped_main", "root_section", "between", "program"}

Contents == Values \cup {Zero}
NoCopies == [g \in Pages |-> NoValue]

\* What the process reads from a page.
Sees(g) == IF private[g] = NoValue THEN file[g] ELSE private[g]

\* xxmalloc, whatever has or has not been initialized.
Malloc ==
  /\ stage \in {"loading", "constructing", "wrapped_main", "program"}
  /\ pointer < (IF stage = "loading" THEN 0 ELSE Base) + MaxGiven
  /\ given' = given \cup {pointer}
  /\ pointer' = pointer + 1
  /\ UNCHANGED <<stage, file, private, written, last>>

\* A constructor, or getline in GetStackBottom, writes to what it has been given.
\* The heap is not protected yet; the kernel makes a private copy. What getline
\* has written is of no interest afterwards.
WriteEarly(g, v) ==
  /\ stage \in {"constructing", "wrapped_main"}
  /\ private' = [private EXCEPT ![g] = v]
  /\ last' = IF stage = "constructing" THEN [last EXCEPT ![g] = v] ELSE last
  /\ UNCHANGED <<stage, file, pointer, given, written>>

\* GlobalHeapInit. The file keeps what the last run has left in it: it is not
\* truncated when it is opened, and ftruncate leaves its length as it is.
GlobalHeapInit ==
  /\ stage = "loading" /\ stage' = "constructing"
  /\ pointer' = Base
  /\ UNCHANGED <<file, private, given, written, last>>

\* real_libc_start_main calls wrapped_main after the constructors.
WrappedMain ==
  /\ stage = "constructing" /\ stage' = "wrapped_main"
  /\ UNCHANGED <<file, private, pointer, given, written, last>>

\* After InitGThread, AtomicBegin: the heap is protected.
AtomicBegin ==
  /\ stage \in {"wrapped_main", "between"}
  /\ stage' = IF stage = "wrapped_main" THEN "root_section" ELSE "program"
  /\ written' = {}
  /\ UNCHANGED <<file, private, pointer, given, last>>

\* Mutant: a section that has touched nothing leaves the heap alone.
AtomicEndOfRootOnly ==
  /\ stage = "root_section" /\ stage' = "between"
  /\ UNCHANGED <<file, private, pointer, given, written, last>>

\* wrapped_main's Create ends its section, which has no reads and no writes: the
\* heap is mapped anew (UpdateHeap), and then the program is forked.
AtomicEndOfRoot ==
  /\ stage = "root_section" /\ stage' = "between"
  /\ private' = NoCopies
  /\ UNCHANGED <<file, pointer, given, written, last>>

\* The program writes to a page, in a section.
Write(g, v) ==
  /\ stage = "program"
  /\ private' = [private EXCEPT ![g] = v]
  /\ written' = written \cup {g}
  /\ last' = [last EXCEPT ![g] = v]
  /\ UNCHANGED <<stage, file, pointer, given>>

\* Its section is committed. (AtomicBegin follows.)
AtomicEnd ==
  /\ stage = "program" /\ stage' = "between"
  /\ file' = [g \in Pages |-> IF g \in written THEN private[g] ELSE file[g]]
  /\ private' = NoCopies
  /\ UNCHANGED <<pointer, given, written, last>>

\* Another process commits a page. (A section that has written it rolls back:
\* module Gstm.)
OtherCommits(g, v) ==
  /\ stage = "program" /\ g \notin written
  /\ file' = [file EXCEPT ![g] = v]
  /\ last' = [last EXCEPT ![g] = v]
  /\ UNCHANGED <<stage, private, pointer, given, written>>

StartInit ==
  /\ stage = "loading"
  /\ file \in [Pages -> Contents]
  /\ private = NoCopies
  /\ pointer = Null
  /\ given = {}
  /\ written = {}
  /\ last = NoCopies

StartNext ==
  \/ Malloc \/ GlobalHeapInit \/ WrappedMain \/ AtomicBegin \/ AtomicEndOfRoot \/ AtomicEnd
  \/ \E g \in Pages, v \in Values : WriteEarly(g, v) \/ Write(g, v) \/ OtherCommits(g, v)

StartSpec == StartInit /\ [][StartNext]_startVars

-----------------------------------------------------------------------------
(* Properties *)

\* Of what was written before the first section no copy is left: in a section, a
\* page that it has not written is, for every process, what is in the file. This
\* is what the UpdateHeap at the end of a section without accesses is for.
OneHeap ==
  stage = "program" => \A g \in Pages \ written : Sees(g) = file[g]

\* A page has what was last written to it, by a constructor or in a section.
HeapKept ==
  stage = "program" => \A g \in Pages : last[g] # NoValue => Sees(g) = last[g]

\* malloc returns NULL or a block of the heap.
PointersIntoHeap == \A a \in given : a = Null \/ a >= Base

=============================================================================
