-------------------------- MODULE MainThread_proofs --------------------------
(***************************************************************************)
(* For any tasks, any number of threads and any size of the pipe: no       *)
(* schedule of a task is lost or doubled, and the main thread never sleeps *)
(* through one.                                                            *)
(***************************************************************************)
EXTENDS MainThread, SequenceTheorems, TLAPS

-----------------------------------------------------------------------------
(* The inductive invariant.                                                *)

(* The task that is about to be polled has no waker stored, as the last    *)
(* one was taken to queue it, and so nobody can have woken it.             *)
PolledUnstored ==
  \A t \in Task : IsRunning(t) /\ at \in {"poll", "store"} =>
                   ~waker[t] /\ state[t] = "running"

Signalled ==
  Readable \/ spawning > 0 \/ \E t \in Task : helper[t] = "signal"

(* From the moment a queue is found empty until poll, a task that joins it *)
(* leaves a signal.                                                        *)
SeenEmptyIsSignalled ==
  /\ at \in {"check low", "dispatch", "asleep"} /\ high # <<>> => Signalled
  /\ at \in {"dispatch", "asleep"} /\ low # <<>> => Signalled

(* The pipe was drained since: a byte can be written, or one was.          *)
DrainedHasRoom ==
  at \in {"check", "check low", "dispatch", "asleep"} =>
    edge \/ pipe < Capacity

IInv ==
  TypeOK /\ QueuedOnce /\ PolledUnstored /\ SeenEmptyIsSignalled
    /\ DrainedHasRoom

-----------------------------------------------------------------------------
(* Sequences without repetitions.                                          *)

(* What an element more does to a queue. *)
LEMMA Appended ==
  ASSUME NEW S, NEW s \in Seq(S), NEW t \in S
  PROVE  /\ Append(s, t) \in Seq(S) /\ Append(s, t) # <<>>
         /\ Range(Append(s, t)) = Range(s) \cup {t}
         /\ IsInjective(s) /\ t \notin Range(s) => IsInjective(Append(s, t))
<1> DEFINE n == Append(s, t)
<1>1. /\ n \in Seq(S) /\ n # <<>> /\ Len(n) = Len(s) + 1
      /\ \A i \in 1 .. Len(s) : n[i] = s[i]
      /\ n[Len(s) + 1] = t
  BY AppendProperties
<1>2. /\ DOMAIN n = 1 .. Len(s) + 1 /\ DOMAIN s = 1 .. Len(s)
      /\ Len(s) \in Nat
  BY <1>1, LenProperties
<1>3. Range(n) = Range(s) \cup {t}
  BY <1>1, <1>2 DEF Range
<1>4. ASSUME IsInjective(s), t \notin Range(s)
      PROVE  IsInjective(n)
  BY <1>1, <1>2, <1>4 DEF IsInjective, Range
<1> QED BY <1>1, <1>3, <1>4

(* What is left of a queue when its first element is taken. *)
LEMMA Popped ==
  ASSUME NEW S, NEW s \in Seq(S), s # <<>>
  PROVE  /\ Head(s) \in S /\ Tail(s) \in Seq(S)
         /\ Range(s) = Range(Tail(s)) \cup {Head(s)}
         /\ IsInjective(s) =>
              IsInjective(Tail(s)) /\ Head(s) \notin Range(Tail(s))
<1> DEFINE n == Tail(s)
<1>1. /\ Head(s) \in S /\ n \in Seq(S) /\ Len(n) = Len(s) - 1
      /\ \A i \in 1 .. Len(n) : n[i] = s[i + 1]
  BY HeadTailProperties
<1>2. /\ DOMAIN n = 1 .. Len(s) - 1 /\ DOMAIN s = 1 .. Len(s)
      /\ Len(s) \in Nat \ {0} /\ Head(s) = s[1]
  BY <1>1, LenProperties, EmptySeq
<1>3. Range(s) = Range(n) \cup {Head(s)}
  <2>1. ASSUME NEW i \in 1 .. Len(s)
        PROVE  s[i] \in Range(n) \cup {s[1]}
    <3>1. CASE i = 1
      BY <3>1
    <3>2. CASE i # 1
      <4>1. i - 1 \in 1 .. Len(s) - 1 /\ (i - 1) + 1 = i
        BY <1>2, <3>2
      <4> QED BY <4>1, <1>1, <1>2 DEF Range
    <3> QED BY <3>1, <3>2
  <2>2. ASSUME NEW i \in 1 .. Len(s) - 1
        PROVE  n[i] \in Range(s)
    BY <1>1, <1>2 DEF Range
  <2>3. s[1] \in Range(s)
    BY <1>2 DEF Range
  <2> QED BY <1>2, <2>1, <2>2, <2>3 DEF Range
<1>4. ASSUME IsInjective(s)
      PROVE  IsInjective(n) /\ Head(s) \notin Range(n)
  BY <1>1, <1>2, <1>4 DEF IsInjective, Range
<1> QED BY <1>1, <1>3, <1>4

-----------------------------------------------------------------------------
(* The steps that actions share.                                           *)

(* A task that is in no queue is queued. *)
LEMMA QueuedJoins ==
  ASSUME NEW t \in Task, TypeOK, QueuedOnce, state[t] # "queued", Queued(t)
  PROVE  /\ high' \in Seq(Task \ Low) /\ low' \in Seq(Low)
         /\ Range(high') \cup Range(low') =
              Range(high) \cup Range(low) \cup {t}
         /\ IsInjective(high') /\ IsInjective(low')
<1>1. t \notin Range(high) /\ t \notin Range(low)
  BY DEF QueuedOnce
<1>2. CASE t \in Low
  <2> DEFINE n == Append(low, t)
  <2>1. low' = n /\ high' = high
    BY <1>2 DEF Queued
  <2>2. low \in Seq(Low) /\ high \in Seq(Task \ Low)
    BY DEF TypeOK
  <2>3. IsInjective(low) /\ IsInjective(high)
    BY DEF QueuedOnce
  <2>4. /\ n \in Seq(Low) /\ Range(n) = Range(low) \cup {t}
        /\ IsInjective(n)
    BY <1>1, <1>2, <2>2, <2>3, Appended
  <2> HIDE DEF n
  <2> QED BY <2>1, <2>2, <2>3, <2>4
<1>3. CASE t \notin Low
  <2> DEFINE n == Append(high, t)
  <2>1. high' = n /\ low' = low
    BY <1>3 DEF Queued
  <2>2. low \in Seq(Low) /\ high \in Seq(Task \ Low) /\ t \in Task \ Low
    BY <1>3 DEF TypeOK
  <2>3. IsInjective(low) /\ IsInjective(high)
    BY DEF QueuedOnce
  <2>4. /\ n \in Seq(Task \ Low) /\ Range(n) = Range(high) \cup {t}
        /\ IsInjective(n)
    BY <1>1, <2>2, <2>3, Appended
  <2> HIDE DEF n
  <2> QED BY <2>1, <2>2, <2>3, <2>4
<1> QED BY <1>2, <1>3

(* A byte is written: poll will return, if the pipe was drained since. *)
LEMMA WrittenSignals ==
  ASSUME TypeOK, DrainedHasRoom, Written
  PROVE  /\ pipe' \in 0 .. Capacity /\ edge' \in BOOLEAN
         /\ at \in {"check", "check low", "dispatch", "asleep"} =>
              edge' /\ pipe' > 0
<1>1. pipe \in 0 .. Capacity /\ Capacity \in Nat \ {0}
  BY MainThreadAssumption DEF TypeOK
<1>2. CASE pipe < Capacity
  <2>1. edge' = TRUE
    BY <1>2, Zenon DEF Written
  <2>2. pipe' = pipe + 1
    BY <1>2 DEF Written
  <2>3. pipe' \in 0 .. Capacity /\ pipe' > 0
    BY <1>1, <1>2, <2>2
  <2> QED BY <2>1, <2>3, Zenon
<1>3. CASE ~(pipe < Capacity)
  <2>1. edge \in BOOLEAN /\ edge' = (edge \/ FALSE)
    BY <1>3, Zenon DEF Written, TypeOK
  <2>2. edge' = edge
    BY <2>1, Zenon
  <2>3. pipe' = pipe
    BY <1>3 DEF Written
  <2>4. at \in {"check", "check low", "dispatch", "asleep"} => edge
    BY <1>3, Zenon DEF DrainedHasRoom
  <2>5. pipe' \in 0 .. Capacity /\ pipe' > 0
    BY <1>1, <1>3, <2>3
  <2> QED BY <2>1, <2>2, <2>4, <2>5, Zenon
<1> QED BY <1>2, <1>3

(* A new task is queued, whoever does it. *)
LEMMA NewJoins ==
  ASSUME NEW t \in Task, IInv, New(t), Queued(t)
  PROVE  /\ QueuedOnce' /\ PolledUnstored'
         /\ high' \in Seq(Task \ Low) /\ low' \in Seq(Low)
         /\ state' \in [Task -> {"free", "queued", "running", "woken", "idle"}]
         /\ result' \in [Task -> {"none", "ready", "lost"}]
         /\ waker' \in [Task -> BOOLEAN]
         /\ helper' \in [Task -> {"none", "work", "sent", "signal"}]
         /\ \A u \in Task :
              /\ waker'[u] => state'[u] \in {"running", "idle"}
              /\ state'[u] \in {"running", "woken"} =>
                   u # t /\ state[u] = state'[u]
              /\ helper[u] = "signal" => helper'[u] = "signal"
<1> USE DEF IInv
<1>1. /\ high' \in Seq(Task \ Low) /\ low' \in Seq(Low)
      /\ Range(high') \cup Range(low') = Range(high) \cup Range(low) \cup {t}
      /\ IsInjective(high') /\ IsInjective(low')
  BY QueuedJoins DEF New
<1>2. QueuedOnce'
  BY <1>1 DEF QueuedOnce, New, TypeOK
<1>3. PolledUnstored'
  BY DEF PolledUnstored, New, TypeOK, IsRunning
<1> QED BY <1>1, <1>2, <1>3 DEF New, TypeOK

-----------------------------------------------------------------------------
(* Every step preserves the invariant.                                     *)

(* The steps of the message loop that run no task. *)
LEMMA LoopKeeps ==
  ASSUME IInv, Drain \/ Check \/ CheckLow \/ Sleep \/ WakeUp \/ OtherEvent
  PROVE  IInv'
<1> USE MainThreadAssumption
        DEF IInv, TypeOK, QueuedOnce, PolledUnstored, SeenEmptyIsSignalled,
            Signalled, Readable, DrainedHasRoom, IsRunning, Goes
<1>1. CASE Drain
  BY <1>1 DEF Drain
<1>2. CASE Check
  BY <1>2 DEF Check
<1>3. CASE CheckLow
  BY <1>3 DEF CheckLow
<1>4. CASE Sleep
  BY <1>4 DEF Sleep
<1>5. CASE WakeUp
  BY <1>5 DEF WakeUp
<1>6. CASE OtherEvent
  BY <1>6 DEF OtherEvent
<1> QED BY <1>1, <1>2, <1>3, <1>4, <1>5, <1>6

(* A queue's first task is polled, or the queue is found empty. *)
LEMMA PopKeeps ==
  ASSUME IInv, Pop \/ PopLow
  PROVE  IInv'
<1> USE DEF IInv, Goes, Runs, IsRunning
<1>1. CASE Pop /\ high # <<>>
  <2> DEFINE t == Head(high)
  <2>1. /\ high' = Tail(high) /\ low' = low /\ at = "top" /\ at' = "poll"
        /\ state' = [state EXCEPT ![t] = "running"]
    BY <1>1 DEF Pop
  <2>2. /\ t \in Task \ Low /\ high' \in Seq(Task \ Low)
        /\ Range(high) = Range(high') \cup {t}
        /\ IsInjective(high') /\ t \notin Range(high')
    <3>1. high \in Seq(Task \ Low) /\ IsInjective(high)
      BY DEF TypeOK, QueuedOnce
    <3> QED BY <1>1, <2>1, <3>1, Popped
  <2>3. t \notin Range(low) /\ state[t] = "queued"
    <3>1. Range(low) \subseteq Low
      BY RangeOfSeq DEF TypeOK
    <3> QED BY <2>2, <3>1 DEF QueuedOnce
  <2> HIDE DEF t
  <2>4. QueuedOnce'
    BY <2>1, <2>2, <2>3 DEF TypeOK, QueuedOnce
  <2>5. TypeOK'
    BY <1>1, <2>1, <2>2, <2>3 DEF Pop, TypeOK
  <2>6. PolledUnstored'
    BY <1>1, <2>1, <2>2, <2>3 DEF Pop, TypeOK, PolledUnstored
  <2>7. SeenEmptyIsSignalled' /\ DrainedHasRoom'
    BY <2>1 DEF SeenEmptyIsSignalled, DrainedHasRoom
  <2> QED BY <2>4, <2>5, <2>6, <2>7
<1>2. CASE PopLow /\ low # <<>>
  <2> DEFINE t == Head(low)
  <2>1. /\ low' = Tail(low) /\ high' = high /\ at = "low" /\ at' = "poll"
        /\ state' = [state EXCEPT ![t] = "running"]
    BY <1>2 DEF PopLow
  <2>2. /\ t \in Low /\ t \in Task /\ low' \in Seq(Low)
        /\ Range(low) = Range(low') \cup {t}
        /\ IsInjective(low') /\ t \notin Range(low')
    <3>1. low \in Seq(Low) /\ IsInjective(low)
      BY DEF TypeOK, QueuedOnce
    <3> QED BY <1>2, <2>1, <3>1, Popped, MainThreadAssumption
  <2>3. t \notin Range(high) /\ state[t] = "queued"
    <3>1. Range(high) \subseteq Task \ Low
      BY RangeOfSeq DEF TypeOK
    <3> QED BY <2>2, <3>1 DEF QueuedOnce
  <2> HIDE DEF t
  <2>4. QueuedOnce'
    BY <2>1, <2>2, <2>3 DEF TypeOK, QueuedOnce
  <2>5. TypeOK'
    BY <1>2, <2>1, <2>2, <2>3 DEF PopLow, TypeOK
  <2>6. PolledUnstored'
    BY <1>2, <2>1, <2>2, <2>3 DEF PopLow, TypeOK, PolledUnstored
  <2>7. SeenEmptyIsSignalled' /\ DrainedHasRoom'
    BY <2>1 DEF SeenEmptyIsSignalled, DrainedHasRoom
  <2> QED BY <2>4, <2>5, <2>6, <2>7
<1>3. CASE Pop /\ high = <<>>
  BY <1>3 DEF Pop, TypeOK, QueuedOnce, PolledUnstored, SeenEmptyIsSignalled,
              DrainedHasRoom
<1>4. CASE PopLow /\ low = <<>>
  BY <1>4 DEF PopLow, TypeOK, QueuedOnce, PolledUnstored,
              SeenEmptyIsSignalled, DrainedHasRoom
<1> QED BY <1>1, <1>2, <1>3, <1>4

(* A task is polled. *)
LEMMA PollKeeps ==
  ASSUME IInv, NEW t \in Task, Poll(t) \/ StoreWaker(t)
  PROVE  IInv'
<1> USE DEF IInv
<1>1. CASE StoreWaker(t)
  <2>1. /\ IsRunning(t) /\ at = "store" /\ at' = "leave"
        /\ waker' = [waker EXCEPT ![t] = TRUE]
        /\ UNCHANGED <<high, low, pipe, edge, spawning, state, result, helper>>
    BY <1>1 DEF StoreWaker, Goes
  <2>2. state[t] = "running" /\ (\A u \in Task : IsRunning(u) => u = t)
    BY <2>1 DEF PolledUnstored, TypeOK
  <2>3. TypeOK'
    BY <2>1, <2>2 DEF TypeOK, IsRunning
  <2>4. QueuedOnce'
    BY <2>1 DEF QueuedOnce
  <2>5. PolledUnstored' /\ SeenEmptyIsSignalled' /\ DrainedHasRoom'
    BY <2>1 DEF PolledUnstored, SeenEmptyIsSignalled, DrainedHasRoom
  <2> QED BY <2>3, <2>4, <2>5
<1>2. CASE Poll(t)
  <2>1. /\ IsRunning(t) /\ at = "poll"
        /\ UNCHANGED <<high, low, pipe, edge, spawning, helper>>
    BY <1>2 DEF Poll, Goes
  <2>2. /\ state[t] = "running" /\ ~waker[t]
        /\ \A u \in Task : IsRunning(u) => u = t
    BY <2>1 DEF PolledUnstored, TypeOK
  <2>3. CASE /\ at' = "drain" /\ waker' = waker
             /\ state' = [state EXCEPT ![t] = "free"]
             /\ result' = [result EXCEPT ![t] = "none"]
    <3>1. TypeOK'
      BY <2>1, <2>2, <2>3 DEF TypeOK, IsRunning
    <3>2. QueuedOnce'
      BY <2>1, <2>2, <2>3 DEF TypeOK, QueuedOnce
    <3>3. PolledUnstored' /\ SeenEmptyIsSignalled' /\ DrainedHasRoom'
      BY <2>3 DEF PolledUnstored, SeenEmptyIsSignalled, DrainedHasRoom
    <3> QED BY <3>1, <3>2, <3>3
  <2>4. CASE /\ at' = "leave" /\ waker' = [waker EXCEPT ![t] = TRUE]
             /\ UNCHANGED <<state, result>>
    <3>1. TypeOK'
      BY <2>1, <2>2, <2>4 DEF TypeOK, IsRunning
    <3>2. QueuedOnce'
      BY <2>1, <2>4 DEF QueuedOnce
    <3>3. PolledUnstored' /\ SeenEmptyIsSignalled' /\ DrainedHasRoom'
      BY <2>4 DEF PolledUnstored, SeenEmptyIsSignalled, DrainedHasRoom
    <3> QED BY <3>1, <3>2, <3>3
  <2>5. CASE at' = "store" /\ UNCHANGED <<state, result, waker>>
    <3>1. TypeOK'
      BY <2>1, <2>2, <2>5 DEF TypeOK, IsRunning
    <3>2. QueuedOnce'
      BY <2>1, <2>5 DEF QueuedOnce
    <3>3. PolledUnstored' /\ SeenEmptyIsSignalled' /\ DrainedHasRoom'
      BY <2>1, <2>5 DEF PolledUnstored, SeenEmptyIsSignalled, DrainedHasRoom,
                        IsRunning
    <3> QED BY <3>1, <3>2, <3>3
  <2> QED BY <1>2, <2>3, <2>4, <2>5 DEF Poll, Goes
<1> QED BY <1>1, <1>2

(* A poll returns, and a task woken meanwhile is queued. *)
LEMMA LeaveKeeps ==
  ASSUME IInv, NEW t \in Task, Leave(t)
  PROVE  IInv'
<1> USE DEF IInv, Goes, IsRunning, Leave
<1>1. CASE state[t] = "woken"
  <2>1. Queued(t) /\ Written /\ state[t] # "queued" /\ at' = "drain"
    BY <1>1 DEF QueuedHere
  <2>2. /\ high' \in Seq(Task \ Low) /\ low' \in Seq(Low)
        /\ Range(high') \cup Range(low') =
             Range(high) \cup Range(low) \cup {t}
        /\ IsInjective(high') /\ IsInjective(low')
    BY <2>1, QueuedJoins
  <2>3. pipe' \in 0 .. Capacity /\ edge' \in BOOLEAN
    BY <2>1, WrittenSignals
  <2>4. QueuedOnce'
    BY <1>1, <2>1, <2>2 DEF QueuedOnce, TypeOK
  <2>5. TypeOK' /\ PolledUnstored'
    BY <1>1, <2>2, <2>3 DEF TypeOK, PolledUnstored
  <2>6. SeenEmptyIsSignalled' /\ DrainedHasRoom'
    BY <2>1 DEF SeenEmptyIsSignalled, DrainedHasRoom
  <2> QED BY <2>4, <2>5, <2>6
<1>2. CASE state[t] # "woken"
  BY <1>2 DEF TypeOK, QueuedOnce, PolledUnstored, SeenEmptyIsSignalled,
              DrainedHasRoom
<1> QED BY <1>1, <1>2

(* A new task is spawned. *)
LEMMA SpawnKeeps ==
  ASSUME IInv, NEW t \in Task, SpawnHere(t) \/ Spawn(t)
  PROVE  IInv'
<1> USE DEF IInv
<1>1. New(t) /\ Queued(t) /\ at' = at
  BY DEF SpawnHere, Spawn, QueuedHere, New
<1>2. /\ QueuedOnce' /\ PolledUnstored'
      /\ high' \in Seq(Task \ Low) /\ low' \in Seq(Low)
      /\ state' \in [Task -> {"free", "queued", "running", "woken", "idle"}]
      /\ result' \in [Task -> {"none", "ready", "lost"}]
      /\ waker' \in [Task -> BOOLEAN]
      /\ helper' \in [Task -> {"none", "work", "sent", "signal"}]
      /\ \A u \in Task :
           /\ waker'[u] => state'[u] \in {"running", "idle"}
           /\ state'[u] \in {"running", "woken"} =>
                u # t /\ state[u] = state'[u]
           /\ helper[u] = "signal" => helper'[u] = "signal"
  BY <1>1, NewJoins
<1>3. /\ \A u \in Task : IsRunning(u)' => at' \in {"poll", "store", "leave"}
      /\ \A u, v \in Task : IsRunning(u)' /\ IsRunning(v)' => u = v
  BY <1>1, <1>2 DEF TypeOK, IsRunning
<1>4. CASE SpawnHere(t)
  <2>1. Written /\ at \in {"top", "poll", "dispatch"} /\ spawning' = spawning
    BY <1>4 DEF SpawnHere, QueuedHere, Busy
  <2>2. /\ pipe' \in 0 .. Capacity /\ edge' \in BOOLEAN
        /\ at = "dispatch" => edge' /\ pipe' > 0
    BY <2>1, WrittenSignals
  <2>3. TypeOK'
    BY <1>1, <1>2, <1>3, <2>1, <2>2 DEF TypeOK
  <2>4. SeenEmptyIsSignalled' /\ DrainedHasRoom'
    BY <1>1, <2>1, <2>2
       DEF SeenEmptyIsSignalled, Signalled, Readable, DrainedHasRoom
  <2> QED BY <1>2, <2>3, <2>4
<1>5. CASE Spawn(t)
  <2>1. /\ spawning < Spawners /\ spawning' = spawning + 1
        /\ pipe' = pipe /\ edge' = edge
    BY <1>5 DEF Spawn
  <2>2. spawning' \in 0 .. Spawners /\ spawning' > 0
    <3>1. spawning \in 0 .. Spawners /\ Spawners \in Nat
      BY MainThreadAssumption DEF TypeOK
    <3> QED BY ONLY <2>1, <3>1
  <2>3. TypeOK'
    BY <1>1, <1>2, <1>3, <2>1, <2>2 DEF TypeOK
  <2>4. SeenEmptyIsSignalled' /\ DrainedHasRoom'
    BY <1>1, <2>1, <2>2 DEF SeenEmptyIsSignalled, Signalled, DrainedHasRoom
  <2> QED BY <1>2, <2>3, <2>4
<1> QED BY <1>4, <1>5

(* A byte is written for a task that was queued. *)
LEMMA WriteKeeps ==
  ASSUME IInv, SpawnerWrites \/ \E t \in Task : HelperWrites(t)
  PROVE  IInv'
<1> USE DEF IInv
<1>1. /\ Written /\ UNCHANGED <<high, low, at, state, result, waker>>
      /\ spawning' \in 0 .. Spawners
      /\ helper' \in [Task -> {"none", "work", "sent", "signal"}]
  <2>1. /\ spawning \in 0 .. Spawners /\ Spawners \in Nat
        /\ helper \in [Task -> {"none", "work", "sent", "signal"}]
    BY MainThreadAssumption DEF TypeOK
  <2>2. CASE SpawnerWrites
    BY ONLY <2>1, <2>2 DEF SpawnerWrites
  <2>3. ASSUME NEW t \in Task, HelperWrites(t)
        PROVE  <1>1
    BY ONLY <2>1, <2>3 DEF HelperWrites
  <2> QED BY <2>2, <2>3
<1>2. /\ pipe' \in 0 .. Capacity /\ edge' \in BOOLEAN
      /\ at \in {"check", "check low", "dispatch", "asleep"} =>
           edge' /\ pipe' > 0
  BY <1>1, WrittenSignals
<1>3. TypeOK' /\ QueuedOnce' /\ PolledUnstored'
  BY <1>1, <1>2 DEF TypeOK, QueuedOnce, PolledUnstored, IsRunning
<1>4. SeenEmptyIsSignalled' /\ DrainedHasRoom'
  BY <1>1, <1>2
     DEF SeenEmptyIsSignalled, Signalled, Readable, DrainedHasRoom
<1> QED BY <1>3, <1>4

(* A waker is taken and woken. *)
LEMMA WakeKeeps ==
  ASSUME IInv, NEW t \in Task, waker[t], Wake(t),
         UNCHANGED <<pipe, edge, at, spawning>>,
         result' \in [Task -> {"none", "ready", "lost"}],
         helper[t] # "signal"
  PROVE  IInv'
<1> USE DEF IInv
<1>1. CASE state[t] = "idle"
  <2>1. /\ Queued(t) /\ state[t] # "queued"
        /\ state' = [state EXCEPT ![t] = "queued"]
        /\ waker' = [waker EXCEPT ![t] = FALSE]
        /\ helper' = [helper EXCEPT ![t] = "signal"]
    BY <1>1 DEF Wake, TypeOK
  <2>2. /\ high' \in Seq(Task \ Low) /\ low' \in Seq(Low)
        /\ Range(high') \cup Range(low') =
             Range(high) \cup Range(low) \cup {t}
        /\ IsInjective(high') /\ IsInjective(low')
    BY <2>1, QueuedJoins
  <2>3. QueuedOnce'
    BY <2>1, <2>2 DEF QueuedOnce, TypeOK
  <2>4. TypeOK'
    <3>1. /\ state' \in [Task -> {"free", "queued", "running", "woken", "idle"}]
          /\ waker' \in [Task -> BOOLEAN]
          /\ helper' \in [Task -> {"none", "work", "sent", "signal"}]
      BY <2>1 DEF TypeOK
    <3>2. /\ ~waker'[t] /\ ~IsRunning(t)'
          /\ \A u \in Task \ {t} : state'[u] = state[u] /\ waker'[u] = waker[u]
      BY <2>1 DEF TypeOK, IsRunning
    <3> QED BY <2>2, <3>1, <3>2 DEF TypeOK, IsRunning
  <2>5. PolledUnstored'
    BY <2>1 DEF TypeOK, PolledUnstored, IsRunning
  <2>6. helper'[t] = "signal"
    BY <2>1 DEF TypeOK
  <2>7. SeenEmptyIsSignalled' /\ DrainedHasRoom'
    BY <2>6 DEF SeenEmptyIsSignalled, Signalled, DrainedHasRoom
  <2> QED BY <2>3, <2>4, <2>5, <2>7
<1>2. CASE state[t] # "idle"
  <2>1. /\ state[t] = "running" /\ UNCHANGED <<high, low>>
        /\ state' = [state EXCEPT ![t] = "woken"]
        /\ waker' = [waker EXCEPT ![t] = FALSE]
        /\ helper' = [helper EXCEPT ![t] = "none"]
    BY <1>2 DEF Wake, TypeOK
  <2>2. at \notin {"poll", "store"}
    BY <2>1 DEF PolledUnstored, IsRunning
  <2>3. TypeOK' /\ QueuedOnce' /\ PolledUnstored'
    BY <2>1, <2>2 DEF TypeOK, QueuedOnce, PolledUnstored, IsRunning
  <2>4. SeenEmptyIsSignalled' /\ DrainedHasRoom'
    BY <2>1 DEF SeenEmptyIsSignalled, Signalled, Readable, DrainedHasRoom,
                TypeOK
  <2> QED BY <2>3, <2>4
<1> QED BY <1>1, <1>2

(* A promise or a thread ends, or sends its result, and wakes nobody. *)
LEMMA EndKeeps ==
  ASSUME IInv, NEW t \in Task, helper[t] # "signal",
         NEW h \in {"none", "sent"}, helper' = [helper EXCEPT ![t] = h],
         UNCHANGED <<high, low, pipe, edge, at, spawning, state, waker>>,
         result' \in [Task -> {"none", "ready", "lost"}]
  PROVE  IInv'
<1> USE DEF IInv
<1>1. TypeOK' /\ QueuedOnce' /\ PolledUnstored' /\ DrainedHasRoom'
  BY DEF TypeOK, QueuedOnce, PolledUnstored, IsRunning, DrainedHasRoom
<1>2. SeenEmptyIsSignalled'
  BY DEF SeenEmptyIsSignalled, Signalled, Readable, TypeOK
<1> QED BY <1>1, <1>2

(* A promise is kept or dropped, or a thread goes on. *)
LEMMA HelperKeeps ==
  ASSUME IInv, NEW t \in Task,
         \/ KeepPromise(t) \/ DropPromise(t) \/ SendResult(t)
         \/ TakeWaker(t) \/ Panic(t)
  PROVE  IInv'
<1> USE DEF IInv
<1>1. /\ helper[t] # "signal" /\ UNCHANGED <<pipe, edge, at, spawning>>
      /\ result' \in [Task -> {"none", "ready", "lost"}]
  BY DEF KeepPromise, DropPromise, SendResult, TakeWaker, Panic, TypeOK
<1>2. CASE waker[t] /\ Wake(t)
  BY <1>1, <1>2, WakeKeeps
<1>3. CASE Retire(t)
  BY <1>1, <1>3, EndKeeps DEF Retire
<1>4. CASE SendResult(t)
  BY <1>1, <1>4, EndKeeps DEF SendResult
<1> QED BY <1>2, <1>3, <1>4 DEF KeepPromise, DropPromise, TakeWaker, Panic

(* A promise is kept in the main thread. *)
LEMMA KeepHereKeeps ==
  ASSUME IInv, NEW t \in Task, KeepPromiseHere(t)
  PROVE  IInv'
<1> USE DEF IInv
<1>1. /\ at \in {"top", "poll", "dispatch"} /\ helper[t] = "work"
      /\ UNCHANGED <<at, spawning>>
      /\ helper' = [helper EXCEPT ![t] = "none"]
      /\ result' \in [Task -> {"none", "ready", "lost"}]
  BY DEF KeepPromiseHere, Busy, TypeOK
<1>2. CASE waker[t]
  <2>1. /\ Queued(t) /\ Written
        /\ state' = [state EXCEPT ![t] = "queued"]
        /\ waker' = [waker EXCEPT ![t] = FALSE]
    BY <1>2 DEF KeepPromiseHere, QueuedHere
  <2>2. state[t] = "idle"
    BY <1>1, <1>2 DEF TypeOK, PolledUnstored, IsRunning
  <2>3. /\ high' \in Seq(Task \ Low) /\ low' \in Seq(Low)
        /\ Range(high') \cup Range(low') =
             Range(high) \cup Range(low) \cup {t}
        /\ IsInjective(high') /\ IsInjective(low')
    BY <2>1, <2>2, QueuedJoins
  <2>4. /\ pipe' \in 0 .. Capacity /\ edge' \in BOOLEAN
        /\ at = "dispatch" => edge' /\ pipe' > 0
    BY <2>1, WrittenSignals
  <2>5. QueuedOnce'
    BY <2>1, <2>3 DEF QueuedOnce, TypeOK
  <2>6. TypeOK'
    <3>1. /\ state' \in [Task -> {"free", "queued", "running", "woken", "idle"}]
          /\ waker' \in [Task -> BOOLEAN]
          /\ helper' \in [Task -> {"none", "work", "sent", "signal"}]
      BY <1>1, <2>1 DEF TypeOK
    <3>2. /\ ~waker'[t] /\ ~IsRunning(t)'
          /\ \A u \in Task \ {t} : state'[u] = state[u] /\ waker'[u] = waker[u]
      BY <2>1 DEF TypeOK, IsRunning
    <3> QED BY <1>1, <2>3, <2>4, <3>1, <3>2 DEF TypeOK, IsRunning
  <2>7. PolledUnstored'
    BY <1>1, <2>1 DEF TypeOK, PolledUnstored, IsRunning
  <2>8. SeenEmptyIsSignalled' /\ DrainedHasRoom'
    BY <1>1, <2>4 DEF SeenEmptyIsSignalled, Signalled, Readable, DrainedHasRoom
  <2> QED BY <2>5, <2>6, <2>7, <2>8
<1>3. CASE ~waker[t]
  <2>1. /\ UNCHANGED <<high, low, pipe, edge>>
        /\ state' = [state EXCEPT ![t] = @]
        /\ waker' = [waker EXCEPT ![t] = FALSE]
    BY <1>3 DEF KeepPromiseHere
  <2>2. state' = state /\ waker' = waker
    BY <1>3, <2>1 DEF TypeOK
  <2> QED BY <1>1, <2>1, <2>2, EndKeeps
<1> QED BY <1>2, <1>3

-----------------------------------------------------------------------------
(* The theorems.                                                           *)

(* Nothing is queued at first. *)
LEMMA Starts == Init => IInv
<1> SUFFICES ASSUME Init PROVE IInv
  OBVIOUS
<1>1. Range(<<>>) = {} /\ IsInjective(<<>>)
  BY DEF Range, IsInjective
<1>2. <<>> \in Seq(Task \ Low) /\ <<>> \in Seq(Low)
  BY EmptySeq
<1>3. TypeOK
  <2>1. 0 \in 0 .. Capacity /\ 0 \in 0 .. Spawners
    BY MainThreadAssumption
  <2>2. edge \in BOOLEAN /\ waker \in [Task -> BOOLEAN]
    BY DEF Init
  <2>3. \A t \in Task : state[t] = "free" /\ waker[t] = FALSE
    BY DEF Init
  <2> QED BY <1>2, <2>1, <2>2, <2>3 DEF Init, TypeOK, IsRunning
<1>4. QueuedOnce
  BY <1>1 DEF Init, QueuedOnce
<1> QED
  BY <1>3, <1>4 DEF Init, IInv, PolledUnstored, IsRunning,
                    SeenEmptyIsSignalled, DrainedHasRoom

(* The invariant is inductive. *)
LEMMA Preserved == IInv /\ [Next]_vars => IInv'
<1> SUFFICES ASSUME IInv, [Next]_vars PROVE IInv'
  OBVIOUS
<1>1. CASE Drain \/ Check \/ CheckLow \/ Sleep \/ WakeUp \/ OtherEvent
  BY <1>1, LoopKeeps
<1>2. CASE Pop \/ PopLow
  BY <1>2, PopKeeps
<1>3. CASE SpawnerWrites \/ \E t \in Task : HelperWrites(t)
  BY <1>3, WriteKeeps
<1>4. ASSUME NEW t \in Task, Poll(t) \/ StoreWaker(t) PROVE IInv'
  BY <1>4, PollKeeps
<1>5. ASSUME NEW t \in Task, Leave(t) PROVE IInv'
  BY <1>5, LeaveKeeps
<1>6. ASSUME NEW t \in Task, SpawnHere(t) \/ Spawn(t) PROVE IInv'
  BY <1>6, SpawnKeeps
<1>7. ASSUME NEW t \in Task,
             \/ KeepPromise(t) \/ DropPromise(t) \/ SendResult(t)
             \/ TakeWaker(t) \/ Panic(t)
      PROVE  IInv'
  BY <1>7, HelperKeeps
<1>8. ASSUME NEW t \in Task, KeepPromiseHere(t) PROVE IInv'
  BY <1>8, KeepHereKeeps
<1>9. CASE UNCHANGED vars
  BY <1>9 DEF vars, IInv, TypeOK, QueuedOnce, PolledUnstored, Signalled,
              SeenEmptyIsSignalled, DrainedHasRoom, Readable, IsRunning
<1> QED
  BY <1>1, <1>2, <1>3, <1>4, <1>5, <1>6, <1>7, <1>8, <1>9
     DEF Next, MainLoop, Threads

LEMMA Invariant == Spec => []IInv
BY Starts, Preserved, PTL DEF Spec

(* Of the queues, the tasks and the pipe: they hold what the code puts     *)
(* there, and one task runs at a time (run_impl).                          *)
THEOREM TypeCorrect == Spec => []TypeOK
<1>1. IInv => TypeOK
  BY DEF IInv
<1> QED BY <1>1, Invariant, PTL

(* Of Waker::wake, queue_func and pop_func: no schedule of a task is lost  *)
(* or doubled, whoever wakes it at what moment.                            *)
THEOREM SchedulesOnce == Spec => []QueuedOnce
<1>1. IInv => QueuedOnce
  BY DEF IInv
<1> QED BY <1>1, Invariant, PTL

(* Of run_impl and run_message_loop: the main thread never sleeps through  *)
(* a queued task, whatever the pipe holds and however much is read of it.  *)
THEOREM NeverSleepsThroughWork == Spec => []NoMissedWakeup
<1>1. IInv => NoMissedWakeup
  BY DEF IInv, SeenEmptyIsSignalled, Signalled, NoMissedWakeup
<1> QED BY <1>1, Invariant, PTL
=============================================================================
