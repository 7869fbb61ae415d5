---------------------------- MODULE AtomicHeap ----------------------------
(***************************************************************************)
(* What the transactional memory of G-Thread promises: a heap on which a   *)
(* section takes effect in one step, on the condition that everything it   *)
(* read is then still there; a section that cannot is discarded and leaves *)
(* no trace, neither in the heap nor in the process that ran it.  While a  *)
(* section runs nothing is promised of what it reads: it may come across   *)
(* contents no heap ever held, as long as it then never takes effect.      *)
(***************************************************************************)

CONSTANTS Procs, Pages, Contents, Blank, Torn, Unwritten

VARIABLES
  heap,   \* content of each page
  local,  \* what a process keeps from its sections: its stack
  reads,  \* what the current section of a process has read in each page
  writes  \* what it has written in each page

vars == <<heap, local, reads, writes>>

NoReads  == [x \in Pages |-> {}]
NoWrites == [x \in Pages |-> Unwritten]

Init ==
  /\ heap = [x \in Pages |-> Blank]
  /\ local = [p \in Procs |-> Blank]
  /\ reads = [p \in Procs |-> NoReads]
  /\ writes = [p \in Procs |-> NoWrites]

\* The section of p comes across content c in page x.
Read(p, x) ==
  /\ \E c \in Contents \cup {Torn} : reads' = [reads EXCEPT ![p][x] = @ \cup {c}]
  /\ UNCHANGED <<heap, local, writes>>

\* The section of p writes page x, having come across what it held.
Write(p, x) ==
  /\ \E c \in Contents \cup {Torn} : writes' = [writes EXCEPT ![p][x] = c]
  /\ \/ UNCHANGED reads
     \/ \E c \in Contents \cup {Torn} : reads' = [reads EXCEPT ![p][x] = @ \cup {c}]
  /\ UNCHANGED <<heap, local>>

Forget(p) ==
  /\ reads' = [reads EXCEPT ![p] = NoReads]
  /\ writes' = [writes EXCEPT ![p] = NoWrites]

\* The section takes effect: whole, on exactly the heap it has read.
Commit(p) ==
  /\ \A x \in Pages : reads[p][x] \subseteq {heap[x]} /\ writes[p][x] # Torn
  /\ heap' = [x \in Pages |-> IF writes[p][x] = Unwritten THEN heap[x] ELSE writes[p][x]]
  /\ \E c \in Contents : local' = [local EXCEPT ![p] = c]
  /\ Forget(p)

\* The section is discarded.
Discard(p) == Forget(p) /\ UNCHANGED <<heap, local>>

\* A process starts with the stack of another, or ends and loses its own.
Inherit(p, q) ==
  /\ local' = [local EXCEPT ![q] = local[p]]
  /\ UNCHANGED <<heap, reads, writes>>

Leave(p) ==
  /\ local' = [local EXCEPT ![p] = Blank]
  /\ Forget(p)
  /\ UNCHANGED heap

Next ==
  \E p \in Procs :
    \/ \E x \in Pages : Read(p, x) \/ Write(p, x)
    \/ Commit(p) \/ Discard(p) \/ Leave(p)
    \/ \E q \in Procs : Inherit(p, q)

Spec == Init /\ [][Next]_vars

=============================================================================
