----------------------------- MODULE MainThread -----------------------------
(***************************************************************************)
(* The main thread of the GUI and the tasks it runs: the spawn queue with  *)
(* its wake-up pipe and the message loop around it (window/src/spawn.rs,   *)
(* window/src/os/x11/connection.rs), promises (promise/src/lib.rs) and     *)
(* functions that run in a thread (promise/src/spawn.rs).                  *)
(*                                                                         *)
(* The pipe is polled with edge triggering (mio): poll returns for it if   *)
(* it was written to since the last return and has bytes to read.          *)
(*                                                                         *)
(* A task waits for one promise, for the result of one thread, or for      *)
(* nothing.  It may be spawned anew when it is done and nothing refers to  *)
(* it: new tasks come without end.                                         *)
(***************************************************************************)
EXTENDS Naturals, Sequences, FiniteSets, Functions

CONSTANTS
  Task,
  Low,        \* tasks of low priority
  Promised,   \* tasks that wait for a promise
  Threaded,   \* tasks that wait for a thread (spawn_into_new_thread)
  Capacity,   \* bytes that the pipe holds
  Chunk,      \* bytes that are read from it at once
  Spawners    \* bound: threads that spawn at the same time

ASSUME MainThreadAssumption ==
  /\ Low \subseteq Task /\ Promised \subseteq Task /\ Threaded \subseteq Task
  /\ Promised \cap Threaded = {}
  /\ Capacity \in Nat \ {0} /\ Chunk \in Nat \ {0} /\ Spawners \in Nat

VARIABLES
  high, low,  \* the two queues
  pipe,       \* bytes in the pipe
  edge,       \* the pipe was written to since poll last returned
  at,         \* where the main thread is
  spawning,   \* threads that queued a new task and have to write a byte
  state,      \* of a task (async_task); "woken" is woken while it runs
  result,     \* of its promise or thread; "lost" if the thread panicked
  waker,      \* a waker of the task is stored with the promise or thread
  helper      \* who keeps the promise, or the thread

vars == <<high, low, pipe, edge, at, spawning, state, result, waker, helper>>

-----------------------------------------------------------------------------
(* Queueing a task.                                                        *)

(* A bug to catch: the last to come is the first to run.                   *)
QueuedOnTop(t) ==
  IF t \in Low THEN low' = <<t>> \o low /\ UNCHANGED high
  ELSE high' = <<t>> \o high /\ UNCHANGED low

(* queue_func *)
Queued(t) ==
  IF t \in Low THEN low' = Append(low, t) /\ UNCHANGED high
  ELSE high' = Append(high, t) /\ UNCHANGED low

(* A byte is written to the pipe; if it is full, that fails and is logged. *)
Written ==
  /\ pipe' = IF pipe < Capacity THEN pipe + 1 ELSE pipe
  /\ edge' = (edge \/ pipe < Capacity)

(* spawn_impl in the main thread.  Another thread queues the task and      *)
(* writes in two steps.                                                    *)
QueuedHere(t) == Queued(t) /\ Written

(* Where the main thread runs code that may spawn tasks or keep promises.  *)
Busy == at \in {"top", "poll", "dispatch"}

New(t) ==
  /\ state[t] = "free" /\ helper[t] = "none"
  /\ state' = [state EXCEPT ![t] = "queued"]
  /\ result' = [result EXCEPT ![t] = "none"]
  /\ waker' = [waker EXCEPT ![t] = FALSE]
  /\ helper' = [helper EXCEPT ![t] =
                  IF t \in Promised \cup Threaded THEN "work" ELSE "none"]
  /\ UNCHANGED at

SpawnHere(t) == Busy /\ New(t) /\ QueuedHere(t) /\ UNCHANGED spawning

Spawn(t) ==
  /\ spawning < Spawners /\ New(t) /\ Queued(t)
  /\ spawning' = spawning + 1 /\ UNCHANGED <<pipe, edge>>

SpawnerWrites ==
  /\ spawning > 0 /\ spawning' = spawning - 1 /\ Written
  /\ UNCHANGED <<high, low, at, state, result, waker, helper>>

-----------------------------------------------------------------------------
(* Those a task waits for.                                                 *)

(* A bug to catch: a task that runs is queued, too.                        *)
WakeAnyway(t) ==
  /\ waker' = [waker EXCEPT ![t] = FALSE]
  /\ state' = [state EXCEPT ![t] = IF @ = "idle" THEN "queued" ELSE "woken"]
  /\ Queued(t) /\ helper' = [helper EXCEPT ![t] = "signal"]

(* A bug to catch: the waker is woken and not taken.                       *)
WakeByReference(t) ==
  /\ UNCHANGED waker
  /\ state' = [state EXCEPT ![t] = IF @ = "idle" THEN "queued" ELSE "woken"]
  /\ IF state[t] = "idle"
     THEN Queued(t) /\ helper' = [helper EXCEPT ![t] = "signal"]
     ELSE helper' = [helper EXCEPT ![t] = "none"] /\ UNCHANGED <<high, low>>

(* The waker of t is taken and woken, in t's helper (Waker::wake of        *)
(* async_task): a task that runs is queued by the main thread when its     *)
(* poll returns.                                                           *)
Wake(t) ==
  /\ waker' = [waker EXCEPT ![t] = FALSE]
  /\ state' = [state EXCEPT ![t] = IF @ = "idle" THEN "queued" ELSE "woken"]
  /\ IF state[t] = "idle"
     THEN Queued(t) /\ helper' = [helper EXCEPT ![t] = "signal"]
     ELSE helper' = [helper EXCEPT ![t] = "none"] /\ UNCHANGED <<high, low>>

(* The helper is done, as nobody waits. *)
Retire(t) ==
  /\ helper' = [helper EXCEPT ![t] = "none"]
  /\ UNCHANGED <<high, low, state, waker>>

(* Promise::result in another thread.  (The core stays locked while the    *)
(* byte is written; a poll that waits for it misses nothing.)              *)
KeepPromise(t) ==
  /\ t \in Promised /\ helper[t] = "work"
  /\ result' = [result EXCEPT ![t] = "ready"]
  /\ IF waker[t] THEN Wake(t) ELSE Retire(t)
  /\ UNCHANGED <<pipe, edge, at, spawning>>

(* Promise::result in the main thread.                                     *)
KeepPromiseHere(t) ==
  /\ Busy /\ t \in Promised /\ helper[t] = "work"
  /\ result' = [result EXCEPT ![t] = "ready"]
  /\ helper' = [helper EXCEPT ![t] = "none"]
  /\ waker' = [waker EXCEPT ![t] = FALSE]
  /\ state' = [state EXCEPT ![t] = IF waker[t] THEN "queued" ELSE @]
  /\ IF waker[t] THEN QueuedHere(t) ELSE UNCHANGED <<high, low, pipe, edge>>
  /\ UNCHANGED <<at, spawning>>

(* A promise is dropped: nobody is told.                                   *)
DropPromise(t) ==
  /\ t \in Promised /\ helper[t] = "work"
  /\ Retire(t) /\ UNCHANGED <<pipe, edge, at, spawning, result>>

(* The thread of spawn_into_new_thread sends its result, then looks for a  *)
(* waker.                                                                  *)
SendResult(t) ==
  /\ t \in Threaded /\ helper[t] = "work"
  /\ result' = [result EXCEPT ![t] = "ready"]
  /\ helper' = [helper EXCEPT ![t] = "sent"]
  /\ UNCHANGED <<high, low, pipe, edge, at, spawning, state, waker>>

TakeWaker(t) ==
  /\ helper[t] = "sent"
  /\ IF waker[t] THEN Wake(t) ELSE Retire(t)
  /\ UNCHANGED <<pipe, edge, at, spawning, result>>

(* The function panics: the channel is closed, and nobody is woken.        *)
Panic(t) ==
  /\ t \in Threaded /\ helper[t] = "work"
  /\ result' = [result EXCEPT ![t] = "lost"]
  /\ Retire(t) /\ UNCHANGED <<pipe, edge, at, spawning>>

HelperWrites(t) ==
  /\ helper[t] = "signal" /\ helper' = [helper EXCEPT ![t] = "none"]
  /\ Written
  /\ UNCHANGED <<high, low, at, spawning, state, result, waker>>

-----------------------------------------------------------------------------
(* The message loop.                                                       *)

Goes(from, to) == at = from /\ at' = to

Runs(t) == state' = [state EXCEPT ![t] = "running"]

(* pop_func looks into one queue ... *)
Pop ==
  /\ IF high # <<>>
     THEN Goes("top", "poll") /\ Runs(Head(high)) /\ high' = Tail(high)
     ELSE Goes("top", "low") /\ UNCHANGED <<high, state>>
  /\ UNCHANGED <<low, pipe, edge, spawning, result, waker, helper>>

(* ... and then, without the first one's lock, into the other.             *)
PopLow ==
  /\ IF low # <<>>
     THEN Goes("low", "poll") /\ Runs(Head(low)) /\ low' = Tail(low)
     ELSE Goes("low", "drain") /\ UNCHANGED <<low, state>>
  /\ UNCHANGED <<high, pipe, edge, spawning, result, waker, helper>>

IsRunning(t) == state[t] \in {"running", "woken"}

(* Future::poll.  Looking for a promised result and storing the waker is   *)
(* one step; a thread's result is looked for first.                        *)
Poll(t) ==
  /\ IsRunning(t)
  /\ \/ /\ t \notin Promised \cup Threaded \/ result[t] # "none"
        /\ Goes("poll", "drain")
        /\ state' = [state EXCEPT ![t] = "free"]
        /\ result' = [result EXCEPT ![t] = "none"] /\ UNCHANGED waker
     \/ /\ t \in Promised /\ result[t] = "none"
        /\ Goes("poll", "leave")
        /\ waker' = [waker EXCEPT ![t] = TRUE] /\ UNCHANGED <<state, result>>
     \/ /\ t \in Threaded /\ result[t] = "none"
        /\ Goes("poll", "store") /\ UNCHANGED <<state, result, waker>>
  /\ UNCHANGED <<high, low, pipe, edge, spawning, helper>>

StoreWaker(t) ==
  /\ IsRunning(t) /\ Goes("store", "leave")
  /\ waker' = [waker EXCEPT ![t] = TRUE]
  /\ UNCHANGED <<high, low, pipe, edge, spawning, state, result, helper>>

(* A bug to catch: a wake during the poll is forgotten.                    *)
LeaveIdle(t) ==
  /\ IsRunning(t) /\ Goes("leave", "drain")
  /\ state' = [state EXCEPT ![t] = "idle"]
  /\ UNCHANGED <<high, low, pipe, edge, spawning, result, waker, helper>>

(* Runnable::run returns. *)
Leave(t) ==
  /\ IsRunning(t) /\ Goes("leave", "drain")
  /\ state' = [state EXCEPT ![t] = IF @ = "woken" THEN "queued" ELSE "idle"]
  /\ IF state[t] = "woken" THEN QueuedHere(t)
     ELSE UNCHANGED <<high, low, pipe, edge>>
  /\ UNCHANGED <<spawning, result, waker, helper>>

(* run_impl drains the pipe ... *)
Drain ==
  /\ Goes("drain", "check")
  /\ pipe' = IF pipe > Chunk THEN pipe - Chunk ELSE 0
  /\ UNCHANGED <<high, low, edge, spawning, state, result, waker, helper>>

(* ... and has_any_queued looks at one queue and then at the other.        *)
Check ==
  /\ Goes("check", IF high # <<>> THEN "top" ELSE "check low")
  /\ UNCHANGED <<high, low, pipe, edge, spawning, state, result, waker, helper>>

(* A bug to catch: the low queue is not looked at.                         *)
CheckHighOnly ==
  /\ Goes("check low", "dispatch")
  /\ UNCHANGED <<high, low, pipe, edge, spawning, state, result, waker, helper>>

(* A bug to catch: the pipe is drained again before poll.                  *)
CheckThenDrain ==
  /\ Goes("check low", IF low # <<>> THEN "top" ELSE "dispatch")
  /\ pipe' = IF pipe > Chunk THEN pipe - Chunk ELSE 0
  /\ UNCHANGED <<high, low, edge, spawning, state, result, waker, helper>>

CheckLow ==
  /\ Goes("check low", IF low # <<>> THEN "top" ELSE "dispatch")
  /\ UNCHANGED <<high, low, pipe, edge, spawning, state, result, waker, helper>>

(* dispatch_pending_events, and then poll without a timeout.               *)
Sleep ==
  /\ Goes("dispatch", "asleep")
  /\ UNCHANGED <<high, low, pipe, edge, spawning, state, result, waker, helper>>

Readable == edge /\ pipe > 0

(* poll returns for the pipe ...                                           *)
WakeUp ==
  /\ Readable /\ Goes("asleep", "top") /\ edge' = FALSE
  /\ UNCHANGED <<high, low, pipe, spawning, state, result, waker, helper>>

(* ... or for an event of the window system, or a signal, which makes it   *)
(* start over in the same way.                                             *)
OtherEvent ==
  /\ Goes("asleep", "top") /\ edge' = FALSE
  /\ UNCHANGED <<high, low, pipe, spawning, state, result, waker, helper>>

-----------------------------------------------------------------------------

Init ==
  /\ high = <<>> /\ low = <<>>
  /\ pipe = 0 /\ edge = FALSE /\ at = "top" /\ spawning = 0
  /\ state = [t \in Task |-> "free"] /\ result = [t \in Task |-> "none"]
  /\ waker = [t \in Task |-> FALSE] /\ helper = [t \in Task |-> "none"]

MainLoop ==
  \/ Pop \/ PopLow \/ Drain \/ Check \/ CheckLow \/ Sleep \/ WakeUp
  \/ \E t \in Task : Poll(t) \/ StoreWaker(t) \/ Leave(t)

Threads ==
  \/ SpawnerWrites
  \/ \E t \in Task :
       \/ Spawn(t) \/ KeepPromise(t) \/ DropPromise(t)
       \/ SendResult(t) \/ TakeWaker(t) \/ Panic(t) \/ HelperWrites(t)

Next ==
  \/ MainLoop \/ Threads \/ OtherEvent
  \/ \E t \in Task : SpawnHere(t) \/ KeepPromiseHere(t)

Spec == Init /\ [][Next]_vars

(* The message loop goes on until poll finds nothing (polls of tasks       *)
(* return), and a thread that has begun to hand something over goes on.    *)
(* Nothing is assumed of events, of new tasks, and of promises being kept. *)
Fairness ==
  /\ WF_vars(MainLoop) /\ WF_vars(SpawnerWrites)
  /\ \A t \in Task : WF_vars(TakeWaker(t)) /\ WF_vars(HelperWrites(t))

FairSpec == Spec /\ Fairness

-----------------------------------------------------------------------------

(* The variables have the values the code gives them, a waker is stored    *)
(* only for a task that waits or is about to, and one task runs at a time. *)
TypeOK ==
  /\ high \in Seq(Task \ Low) /\ low \in Seq(Low)
  /\ pipe \in 0 .. Capacity /\ edge \in BOOLEAN /\ spawning \in 0 .. Spawners
  /\ at \in {"top", "low", "poll", "store", "leave", "drain", "check",
             "check low", "dispatch", "asleep"}
  /\ state \in [Task -> {"free", "queued", "running", "woken", "idle"}]
  /\ result \in [Task -> {"none", "ready", "lost"}]
  /\ waker \in [Task -> BOOLEAN]
  /\ helper \in [Task -> {"none", "work", "sent", "signal"}]
  /\ \A t \in Task :
       /\ waker[t] => state[t] \in {"running", "idle"}
       /\ IsRunning(t) => at \in {"poll", "store", "leave"}
  /\ \A t, u \in Task : IsRunning(t) /\ IsRunning(u) => t = u

(* A task is in the queues once if it has been scheduled and not run       *)
(* since, and otherwise it is not: no schedule is lost or doubled, whoever *)
(* wakes a task while it is queued, polled or returning.                   *)
QueuedOnce ==
  /\ \A t \in Task : state[t] = "queued" <=> t \in Range(high) \cup Range(low)
  /\ IsInjective(high) /\ IsInjective(low)

(* "It is ok if we completely drain the pipe because the main loop uses    *)
(* the return value" (run_impl): the main thread never sleeps while a task *)
(* is queued, unless poll is about to return for the pipe or a thread that *)
(* queued a task has yet to write its byte.                                *)
NoMissedWakeup ==
  at = "asleep" /\ (high # <<>> \/ low # <<>>) =>
    Readable \/ spawning > 0 \/ \E t \in Task : helper[t] = "signal"

(* A queued task of normal priority runs, however many come after it.      *)
HighRuns == \A t \in Task \ Low : state[t] = "queued" ~> state[t] # "queued"

(* A queued task of low priority runs once no more of the others come.     *)
LowRuns ==
  \A t \in Low :
    <>[](high = <<>>) => (state[t] = "queued" ~> state[t] # "queued")

(* The result of a promise reaches the task that waits for it, whether it  *)
(* comes before the first poll, between two, or during one.                *)
PromisesKept ==
  \A t \in Promised \ Low : result[t] = "ready" ~> state[t] = "free"

(* "If someone polled the thread before we got here, they will have        *)
(* populated the waker; extract it and wake up the scheduler so that it    *)
(* will poll the result again" (spawn_into_new_thread).                    *)
ResultsArrive ==
  \A t \in Threaded \ Low : result[t] = "ready" ~> state[t] = "free"
=============================================================================
