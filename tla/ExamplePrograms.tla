-------------------------- MODULE ExamplePrograms --------------------------
(***************************************************************************)
(* The programs of example/ and pthread/ as sequences of what they do to   *)
(* the heap and which threads they create and join.  A thread is on its    *)
(* own stack: it loads into a register, and keeps what pthread_create has  *)
(* given to it in an array.  The elements of an array in the heap are      *)
(* treated alike and stand for one object; output is left out.             *)
(***************************************************************************)
EXTENDS Naturals, Sequences

CONSTANTS
  ThreadNum,         \* THREAD_NUM
  SecondaryThreadNum \* SECONDARY_THREAD_NUM

ASSUME ProgramsAssumption ==
  ThreadNum \in Nat \ {0} /\ SecondaryThreadNum \in Nat \ {0}

Objects == {"a", "b", "c", "x", "y"}

Load(o) == [op |-> "load", at |-> o]                     \* reg = *o
Increment(o) == [op |-> "increment", at |-> o]           \* *o = reg + 1
Put(o, v) == [op |-> "put", at |-> o, val |-> v]         \* *o = v
PutIf(o, v) == [op |-> "put_if", at |-> o, val |-> v]    \* if (reg == 1) *o = v
Require(o, v) == [op |-> "require", at |-> o, val |-> v] \* REQUIRE(*o == v)
Create(f) == [op |-> "create", fn |-> f]                 \* pthread_create
Join(i) == [op |-> "join", index |-> i]                  \* pthread_join(threads[i])
Lock == [op |-> "lock"]                                  \* pthread_mutex_lock
Unlock == [op |-> "unlock"]                              \* pthread_mutex_unlock

\* for (...) o = o + 1, for every object of a structure.
IncrementAll(objs) ==
  [i \in 1..(2 * Len(objs)) |-> IF i % 2 = 1 THEN Load(objs[(i + 1) \div 2])
                                ELSE Increment(objs[i \div 2])]

PutAll(objs, v) == [i \in 1..Len(objs) |-> Put(objs[i], v)]
RequireAll(objs, v) == [i \in 1..Len(objs) |-> Require(objs[i], v)]

CreateAll(n, f) == [i \in 1..n |-> Create(f)]
JoinAll(n) == [i \in 1..n |-> Join(i)]

Blob == <<"a", "b", "c">>
Pair == <<"x", "y">>

-----------------------------------------------------------------------------
(* test.cc: DOUBLE is not defined, fn1 creates no threads *)

test_fn1 == IncrementAll(Blob)

test_fn2 == IncrementAll(Blob)

test_verify == RequireAll(Blob, ThreadNum)

test_main ==
  PutAll(Blob, 0) \o CreateAll(ThreadNum, "fn1") \o JoinAll(ThreadNum) \o test_verify

(* nolock.cc: every thread has threads of its own *)

nolock_fn2 == IncrementAll(Blob)

nolock_fn1 ==
  IncrementAll(Blob) \o CreateAll(SecondaryThreadNum, "fn2") \o JoinAll(SecondaryThreadNum)

nolock_verify == RequireAll(Blob, ThreadNum * (SecondaryThreadNum + 1))

nolock_main ==
  PutAll(Blob, 0) \o CreateAll(ThreadNum, "fn1") \o JoinAll(ThreadNum) \o nolock_verify

(* lock.cc: DOUBLE is not defined *)

lock_fn2 == <<Lock>> \o IncrementAll(Blob) \o <<Unlock>>

\* Mutant: with DOUBLE, and the mutex held when the thread is created.
lock_fn1_nested ==
  <<Lock>> \o IncrementAll(Blob) \o CreateAll(1, "fn2") \o <<Unlock>> \o JoinAll(1)

lock_fn1 == <<Lock>> \o IncrementAll(Blob) \o <<Unlock>>

lock_verify == RequireAll(Blob, ThreadNum)

lock_main ==
  PutAll(Blob, 0) \o CreateAll(ThreadNum, "fn1") \o JoinAll(ThreadNum) \o
  lock_verify

(* race_condition.cc: it prints the counters if they are wrong *)

race_condition_fn1 == IncrementAll(Pair)

race_condition_main ==
  PutAll(Pair, 0) \o CreateAll(ThreadNum, "fn1") \o JoinAll(ThreadNum) \o
  RequireAll(Pair, ThreadNum)

(* order_violation.cc *)

order_violation_fn1 == <<Load("y"), PutIf("x", 0)>>

order_violation_fn2 == <<Load("x"), PutIf("y", 0)>>

order_violation_main ==
  PutAll(Pair, 1) \o <<Create("fn1"), Create("fn2")>> \o JoinAll(2)

(* serial.cc and noheap.cc *)

serial_verify == RequireAll(Blob, ThreadNum)

serial_main ==
  PutAll(Blob, 0) \o
  [i \in 1..(2 * Len(Blob) * ThreadNum) |->
     IncrementAll(Blob)[1 + ((i - 1) % (2 * Len(Blob)))]] \o
  serial_verify

\* Nothing but numbers on the stack.
noheap_fn1 == <<>>

noheap_main == CreateAll(ThreadNum, "fn1") \o JoinAll(ThreadNum)

-----------------------------------------------------------------------------

Code == [
  test            |-> [main |-> test_main, fn1 |-> test_fn1, fn2 |-> test_fn2],
  nolock          |-> [main |-> nolock_main, fn1 |-> nolock_fn1, fn2 |-> nolock_fn2],
  lock            |-> [main |-> lock_main, fn1 |-> lock_fn1, fn2 |-> lock_fn2],
  race_condition  |-> [main |-> race_condition_main, fn1 |-> race_condition_fn1],
  order_violation |-> [main |-> order_violation_main,
                       fn1 |-> order_violation_fn1, fn2 |-> order_violation_fn2],
  serial          |-> [main |-> serial_main],
  noheap          |-> [main |-> noheap_main, fn1 |-> noheap_fn1] ]

-----------------------------------------------------------------------------
(* The same programs without threads *)

\* What an operation does to heap and register if pthread_create calls the
\* function, `called` being what functions do to a heap.  pthread_join then has
\* nothing to wait for.
Effect(op, s, called) ==
  CASE op.op = "load"      -> [s EXCEPT !.reg = s.heap[op.at]]
    [] op.op = "increment" -> [s EXCEPT !.heap[op.at] = s.reg + 1]
    [] op.op = "put"       -> [s EXCEPT !.heap[op.at] = op.val]
    [] op.op = "put_if"    -> IF s.reg = 1 THEN [s EXCEPT !.heap[op.at] = op.val] ELSE s
    [] op.op = "create"    -> [s EXCEPT !.heap = called[op.fn][s.heap]]
    [] OTHER               -> s

\* What is in the heap after the operations of a function, one after the other.
After(ops, h, called) ==
  LET state[i \in 0..Len(ops)] ==
        IF i = 0 THEN [heap |-> h, reg |-> 0]
        ELSE Effect(ops[i], state[i - 1], called)
  IN  state[Len(ops)].heap

Heaps == [Objects -> Nat]

\* What the functions of a program do, if those they call do what `called` says.
Called(name, called) ==
  [f \in DOMAIN Code[name] |-> [h \in Heaps |-> After(Code[name][f], h, called)]]

\* main calls functions, which call functions, which call none.
SerialOutcome(name) ==
  LET none == [f \in DOMAIN Code[name] |-> [h \in Heaps |-> h]]
  IN  After(Code[name]["main"], [o \in Objects |-> 0], Called(name, Called(name, none)))

=============================================================================
