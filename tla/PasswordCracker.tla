-------------------------- MODULE PasswordCracker --------------------------
(***************************************************************************)
(* example/password_cracker.cc on G-Thread.  The array passwords is static *)
(* memory, hence each thread has its own, as it was when the thread was    *)
(* created; guess and number are on the stack.  Printing touches the heap  *)
(* (the buffer of stdout), so that a section that has printed may roll     *)
(* back: the stack goes back to the beginning of the thread function,      *)
(* passwords does not (StackContext).                                      *)
(*                                                                         *)
(* A guess is a row of digits.  A hash tells guesses apart; it is not      *)
(* modelled.                                                               *)
(***************************************************************************)
EXTENDS Naturals, Bags

CONSTANTS
  Threads,        \* NUM_THREAD, counted from 0
  Users,          \* names in the password file
  Letters,        \* letters of the alphabet: 26
  PasswordLength, \* PASSWORD_LENGTH
  Malformed,      \* what a line is that is not a user and a hash
  MaxRollbacks    \* bound: rollbacks

\* Letters to the power of k.
Power[k \in Nat] == IF k = 0 THEN 1 ELSE Letters * Power[k - 1]

TotalPasswords == Power[PasswordLength]
Index == 0..(PasswordLength - 1)
Guesses == [Index -> 0..(Letters - 1)]

ASSUME CrackerAssumption ==
  /\ Threads \in Nat \ {0}
  /\ Letters \in Nat \ {0, 1} /\ PasswordLength \in Nat \ {0}
  /\ TotalPasswords % Threads = 0
  /\ MaxRollbacks \in Nat

VARIABLES
  lines,     \* the password file: lines that have not been read
  entries,   \* passwords of main: user and plaintext of the hash
  created,   \* threads created
  main,      \* where main stands
  pc,        \* where a thread stands
  next,      \* i of generate_all_possibilities
  guess,     \* guess of generate_all_possibilities
  cracked,   \* cracked, in passwords of a thread
  printed,   \* what has been written, as often as it has: by whom, which user,
             \* which password
  rollbacks

vars == <<lines, entries, created, main, pc, next, guess, cracked, printed, rollbacks>>
threadVars == <<pc, next, guess, cracked, printed, rollbacks>>

T == 0..(Threads - 1)
AllA == [k \in Index |-> 0]

\* What a digit at an index counts, the last one being that of the units.
Place(k) == Power[PasswordLength - 1 - k]
Digit(n, k) == (n \div Place(k)) % Letters

\* The digits that n has: those up to the first one that is not 0.
Significant(n) == {k \in Index : Place(k) <= n}

Start(t) == (t * TotalPasswords) \div Threads

End(t) == Start(t) + TotalPasswords \div Threads

-----------------------------------------------------------------------------
(* main *)

\* read_password_file: a line that is malformed ends the program.
ReadLine(u) ==
  /\ main = "reading" /\ u \in DOMAIN lines
  /\ lines' = [v \in DOMAIN lines \ {u} |-> lines[v]]
  /\ IF lines[u] = Malformed
       THEN main' = "exited" /\ UNCHANGED entries
       ELSE entries' = entries \cup {[user |-> u, password |-> lines[u]]} /\ UNCHANGED main
  /\ UNCHANGED <<created, threadVars>>

EndOfFile ==
  /\ main = "reading" /\ DOMAIN lines = {}
  /\ main' = "creating"
  /\ UNCHANGED <<lines, entries, created, threadVars>>

\* pthread_create: the thread has the passwords of this moment.
CreateThread ==
  /\ main = "creating" /\ created < Threads
  /\ created' = created + 1
  /\ pc' = [pc EXCEPT ![created] = "running"]
  /\ UNCHANGED <<lines, entries, main, next, guess, cracked, printed, rollbacks>>

\* All threads are joined.
JoinAll ==
  /\ main = "creating" /\ created = Threads
  /\ \A t \in T : pc[t] = "exited"
  /\ main' = "exited"
  /\ UNCHANGED <<lines, entries, created, threadVars>>

-----------------------------------------------------------------------------
(* Threads *)

\* Mutant: the digits are written in the order in which they are computed.
NextGuessReversed(n, old) ==
  [k \in Index |-> IF PasswordLength - 1 - k \in Significant(n)
                   THEN Digit(n, PasswordLength - 1 - k) ELSE old[k]]

\* The body of the loop overwrites the digits that the number has, and leaves
\* the others as the last number left them.
NextGuess(n, old) ==
  [k \in Index |-> IF k \in Significant(n) THEN Digit(n, k) ELSE old[k]]

\* The users whose hash this is, not yet cracked in the thread's array.
Hits(t, g) == {u \in {e.user : e \in {f \in entries : f.password = g}} : u \notin cracked[t]}

\* Mutant: one hit is enough to stop.
AllCrackedAny(found) == found # {}

\* all_true
AllCracked(found) == \A e \in entries : e.user \in found

\* One turn of the loop, with crack_passwords: if no entry is left, the process
\* ends at once, in the middle of its section.
Guess(t) ==
  /\ pc[t] = "running" /\ next[t] < End(t)
  /\ LET g == NextGuess(next[t], guess[t])
         found == cracked[t] \cup Hits(t, g)
     IN  /\ guess' = [guess EXCEPT ![t] = g]
         /\ cracked' = [cracked EXCEPT ![t] = found]
         /\ printed' = printed (+) SetToBag({<<t, u, g>> : u \in Hits(t, g)})
         /\ pc' = [pc EXCEPT ![t] = IF AllCracked(found) THEN "exited" ELSE @]
  /\ next' = [next EXCEPT ![t] = @ + 1]
  /\ UNCHANGED <<lines, entries, created, main, rollbacks>>

\* The section is committed, and the thread exits.
Return(t) ==
  /\ pc[t] = "running" /\ next[t] = End(t)
  /\ pc' = [pc EXCEPT ![t] = "exited"]
  /\ UNCHANGED <<lines, entries, created, main, next, guess, cracked, printed, rollbacks>>

\* Mutant: the flags go back with the stack.
RollbackFlags(t) ==
  /\ pc[t] = "running" /\ next[t] = End(t)
  /\ cracked[t] # {} /\ rollbacks < MaxRollbacks
  /\ next' = [next EXCEPT ![t] = Start(t)]
  /\ guess' = [guess EXCEPT ![t] = AllA]
  /\ cracked' = [cracked EXCEPT ![t] = {}]
  /\ rollbacks' = rollbacks + 1
  /\ UNCHANGED <<lines, entries, created, main, pc, printed>>

\* The section rolls back: what has been written stays written, and the flags
\* are as they are.
Rollback(t) ==
  /\ pc[t] = "running" /\ next[t] = End(t)
  /\ cracked[t] # {} /\ rollbacks < MaxRollbacks
  /\ next' = [next EXCEPT ![t] = Start(t)]
  /\ guess' = [guess EXCEPT ![t] = AllA]
  /\ rollbacks' = rollbacks + 1
  /\ UNCHANGED <<lines, entries, created, main, pc, cracked, printed>>

Init ==
  /\ \E n \in SUBSET Users : lines \in [n -> Guesses \cup {Malformed}]
  /\ entries = {}
  /\ created = 0
  /\ main = "reading"
  /\ pc = [t \in T |-> "none"]
  /\ next = [t \in T |-> Start(t)]
  /\ guess = [t \in T |-> AllA]
  /\ cracked = [t \in T |-> {}]
  /\ printed = EmptyBag
  /\ rollbacks = 0

Terminated == main = "exited" /\ UNCHANGED vars

Next ==
  \/ \E u \in Users : ReadLine(u)
  \/ EndOfFile \/ CreateThread \/ JoinAll
  \/ \E t \in T : Guess(t) \/ Return(t) \/ Rollback(t)
  \/ Terminated

Spec == Init /\ [][Next]_vars

-----------------------------------------------------------------------------
(* Properties *)

\* What is compared in a turn is the number of the turn, written with all its
\* digits: none is left from the number before, nor from before a rollback.
GuessIsNumber ==
  \A t \in T : next[t] > Start(t) => \A k \in Index : guess[t][k] = Digit(next[t] - 1, k)

\* A password is printed for the user whose it is, and once.  A section that
\* rolls back tries its passwords again, and its output cannot be taken back:
\* what it has printed it knows by its flags.  Threads do not see each other's
\* flags: no two of them try the same password.
PrintedOnce ==
  /\ \A x \in BagToSet(printed) : /\ [user |-> x[2], password |-> x[3]] \in entries
                                 /\ printed[x] = 1
  /\ \A x, y \in BagToSet(printed) : x[2] = y[2] => x = y

\* The threads between them try every password: when main exits, every password
\* of the file has been printed, also if a thread has stopped early.
EveryPasswordFound ==
  main = "exited" /\ created = Threads =>
    \A e \in entries : \E t \in T : BagIn(<<t, e.user, e.password>>, printed)

=============================================================================
