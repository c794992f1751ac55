-------------------------- MODULE RateLimiterProofs --------------------------
(***************************************************************************)
(* The safety properties of RateLimiter, for any number of requests,       *)
(* limiter objects and configurations and any window.                      *)
(***************************************************************************)
EXTENDS RateLimiter, FiniteSetTheorems, TLAPS

USE WindowAssumption, ConfigsAssumption, NoneAssumption

\* A deque never holds more than rpm entries, and it holds every recent one.
DequeInv ==
    \A i \in used :
        /\ rpm[i] > 0
        /\ IsFiniteSet(stamps[i])
        /\ Cardinality(stamps[i]) <= rpm[i]
        /\ RecentGrants(i) \subseteq stamps[i]

\* Only requests that were let through have left a timestamp.
StampsGranted == \A i \in used : \A s \in stamps[i] : st[s] = "granted"

\* While a request sleeps the window stays full, and no entry outlives the sleep.
SleepInv ==
    \A i \in used : \A r \in Waiters(i) :
        timer[r] > 0 =>
            /\ Cardinality(Pruned(i)) >= rpm[i]
            /\ \A s \in Pruned(i) : age[s] + timer[r] <= Window

\* A request that waits does so on a limiter.
WaitersHaveLimiter == \A r \in Reqs : st[r] = "waiting" => lim[r] # None

IInv ==
    /\ TypeOK
    /\ WaitersHaveLimiter
    /\ PendingCountsWaiters
    /\ QueueBound
    /\ DequeInv
    /\ StampsGranted
    /\ SleepInv

-----------------------------------------------------------------------------
\* What IInv says of the limiter a request is about to try.
LEMMA PrunedFacts ==
    ASSUME IInv, NEW i \in used
    PROVE  /\ IsFiniteSet(Pruned(i))
           /\ Cardinality(Pruned(i)) \in Nat
           /\ Cardinality(Pruned(i)) <= rpm[i]
           /\ Pruned(i) \subseteq Reqs
           /\ RecentGrants(i) \subseteq Pruned(i)
<1>1. i \in Insts /\ stamps[i] \subseteq Reqs /\ rpm[i] \in Nat
  BY DEF IInv, TypeOK
<1>2. IsFiniteSet(stamps[i]) /\ Cardinality(stamps[i]) <= rpm[i]
      /\ RecentGrants(i) \subseteq stamps[i]
  BY DEF IInv, DequeInv
<1>3. Pruned(i) \subseteq stamps[i]
  BY DEF Pruned
<1>4. IsFiniteSet(Pruned(i)) /\ Cardinality(Pruned(i)) <= Cardinality(stamps[i])
  BY <1>2, <1>3, FS_Subset
<1>5. Cardinality(Pruned(i)) \in Nat /\ Cardinality(stamps[i]) \in Nat
  BY <1>2, <1>4, FS_CardinalityType
<1>6. RecentGrants(i) \subseteq Pruned(i)
  BY <1>2 DEF RecentGrants, Pruned
<1> QED
  BY <1>1, <1>2, <1>3, <1>4, <1>5, <1>6

\* One pass of acquire()'s loop by a request that counts once in `pending' and
\* has no timestamp yet preserves the invariant, whether it takes a slot or
\* goes (back) to sleep.
LEMMA AcquirePassStep ==
    ASSUME IInv,
           NEW r \in Reqs, NEW i \in used, NEW p,
           \A j \in used : r \notin stamps[j],
           \A j \in used : j # i => r \notin Waiters(j),
           p = Cardinality(Waiters(i) \ {r}) + 1,
           p <= maxQueue[i] + 1,
           lim' = [lim EXCEPT ![r] = i],
           AcquirePass(r, i, p),
           UNCHANGED config
    PROVE  IInv'
<1> USE DEF config
<1>1. TypeOK /\ i \in Insts
  BY DEF IInv, TypeOK
<1>2. IsFiniteSet(Waiters(i) \ {r}) /\ Cardinality(Waiters(i) \ {r}) \in Nat
  BY FS_RemoveElement, FS_CardinalityType DEF IInv, PendingCountsWaiters
<1>3. /\ IsFiniteSet(Pruned(i)) /\ Cardinality(Pruned(i)) \in Nat
      /\ Pruned(i) \subseteq Reqs /\ RecentGrants(i) \subseteq Pruned(i)
      /\ Cardinality(Pruned(i)) <= rpm[i]
  BY PrunedFacts
<1>4. rpm[i] \in Nat /\ rpm[i] > 0
  BY <1>1 DEF IInv, DequeInv, TypeOK
<1>5. CASE TakeSlot(r, i, p)
  <2> USE <1>5 DEF TakeSlot
  <2>1. TypeOK'
    BY <1>1, <1>2, <1>3 DEF TypeOK, States
  <2>2. \A j \in used : Waiters(j)' = IF j = i THEN Waiters(i) \ {r} ELSE Waiters(j)
    BY <1>1 DEF TypeOK, Waiters
  <2>3. PendingCountsWaiters'
    <3> SUFFICES ASSUME NEW j \in used
                 PROVE  IsFiniteSet(Waiters(j)') /\ pending'[j] = Cardinality(Waiters(j)')
      BY DEF PendingCountsWaiters
    <3>1. CASE j = i
      <4>1. Waiters(j)' = Waiters(i) \ {r}
        BY <3>1, <2>2
      <4>2. pending'[j] = p - 1
        BY <3>1, <1>1 DEF TypeOK
      <4>3. p - 1 = Cardinality(Waiters(i) \ {r})
        BY <1>2
      <4> QED
        BY <4>1, <4>2, <4>3, <1>2
    <3>2. CASE j # i
      BY <3>2, <2>2, <1>1 DEF TypeOK, IInv, PendingCountsWaiters
    <3> QED
      BY <3>1, <3>2
  <2>4. QueueBound'
    BY <1>1, <1>2 DEF TypeOK, IInv, QueueBound
  <2>5. DequeInv'
    <3>1. IsFiniteSet(Pruned(i) \cup {r}) /\ Cardinality(Pruned(i) \cup {r}) <= rpm[i]
      <4> HIDE <1>5
      <4>1. Cardinality(Pruned(i)) < rpm[i]
        BY <1>5
      <4>2. /\ IsFiniteSet(Pruned(i) \cup {r})
            /\ Cardinality(Pruned(i) \cup {r}) =
                 IF r \in Pruned(i) THEN Cardinality(Pruned(i)) ELSE Cardinality(Pruned(i)) + 1
        BY <1>3, FS_AddElement
      <4> QED
        BY <4>1, <4>2, <1>3, <1>4
    <3>2. RecentGrants(i)' \subseteq Pruned(i) \cup {r}
      BY <1>1, <1>3 DEF RecentGrants, TypeOK
    <3>3. ASSUME NEW j \in used, j # i
          PROVE  RecentGrants(j)' \subseteq RecentGrants(j)
      BY <1>1, <3>3 DEF RecentGrants, TypeOK
    <3>4. ASSUME NEW j \in used, j # i
          PROVE  stamps'[j] = stamps[j]
      BY <1>1, <3>4 DEF TypeOK
    <3>5. stamps'[i] = Pruned(i) \cup {r}
      BY <1>1 DEF TypeOK
    <3> QED
      BY <3>1, <3>2, <3>3, <3>4, <3>5, <1>4 DEF IInv, DequeInv
  <2>6. StampsGranted'
    BY <1>1 DEF TypeOK, IInv, StampsGranted, Pruned
  <2>7. SleepInv'
    <3> SUFFICES ASSUME NEW j \in used, NEW q \in Waiters(j)', timer'[q] > 0
                 PROVE  /\ Cardinality(Pruned(j)') >= rpm[j]
                        /\ \A s \in Pruned(j)' : age'[s] + timer'[q] <= Window
      BY DEF SleepInv
    <3>1. q # r /\ q \in Waiters(j) /\ timer[q] > 0 /\ timer'[q] = timer[q]
      BY <1>1, <2>2 DEF TypeOK, Waiters
    <3>2. /\ Cardinality(Pruned(j)) >= rpm[j]
          /\ \A s \in Pruned(j) : age[s] + timer[q] <= Window
      BY <3>1 DEF IInv, SleepInv
    <3>3. j # i
      BY <3>2, <1>3, <1>4
    <3>4. Pruned(j)' = Pruned(j) /\ \A s \in Pruned(j) : age'[s] = age[s]
      BY <1>1, <3>3 DEF TypeOK, Pruned
    <3> QED
      BY <3>1, <3>2, <3>4
  <2>8. WaitersHaveLimiter'
    BY <1>1 DEF IInv, WaitersHaveLimiter, TypeOK
  <2> QED
    BY <2>1, <2>3, <2>4, <2>5, <2>6, <2>7, <2>8 DEF IInv
<1>6. CASE GoToSleep(r, i, p)
  <2> USE <1>6 DEF GoToSleep
  <2>1. PICK o \in Oldest(i) : timer' = [timer EXCEPT ![r] = Remaining(o)]
    OBVIOUS
  <2>2. /\ o \in Reqs /\ age[o] < Window
        /\ \A s \in Pruned(i) : age[s] <= age[o]
    BY <1>3 DEF Oldest, Pruned
  <2>3. Remaining(o) \in 1 .. Window
    BY <2>2, <1>1 DEF Remaining, TypeOK
  <2>4. TypeOK'
    BY <1>1, <1>2, <1>3, <2>1, <2>3 DEF TypeOK, States
  <2>5. \A j \in used : Waiters(j)' = IF j = i THEN (Waiters(i) \ {r}) \cup {r} ELSE Waiters(j)
    BY <1>1 DEF TypeOK, Waiters
  <2>6. /\ IsFiniteSet((Waiters(i) \ {r}) \cup {r})
        /\ Cardinality((Waiters(i) \ {r}) \cup {r}) = p
    BY <1>2, FS_AddElement
  <2>7. PendingCountsWaiters'
    <3> SUFFICES ASSUME NEW j \in used
                 PROVE  IsFiniteSet(Waiters(j)') /\ pending'[j] = Cardinality(Waiters(j)')
      BY DEF PendingCountsWaiters
    <3>1. CASE j = i
      BY <3>1, <2>5, <2>6, <1>1 DEF TypeOK
    <3>2. CASE j # i
      BY <3>2, <2>5, <1>1 DEF TypeOK, IInv, PendingCountsWaiters
    <3> QED
      BY <3>1, <3>2
  <2>8. QueueBound'
    BY <1>1, <1>2 DEF TypeOK, IInv, QueueBound
  <2>9. DequeInv'
    <3>1. \A j \in used : RecentGrants(j)' \subseteq RecentGrants(j)
      BY <1>1 DEF RecentGrants, TypeOK
    <3>2. \A j \in used : stamps'[j] = IF j = i THEN Pruned(i) ELSE stamps[j]
      BY <1>1 DEF TypeOK
    <3> QED
      BY <3>1, <3>2, <1>3, <1>4 DEF IInv, DequeInv
  <2>10. StampsGranted'
    BY <1>1 DEF TypeOK, IInv, StampsGranted, Pruned
  <2>11. \A j \in used : Pruned(j)' = Pruned(j)
    BY <1>1 DEF TypeOK, Pruned
  <2>12. SleepInv'
    <3> SUFFICES ASSUME NEW j \in used, NEW q \in Waiters(j)', timer'[q] > 0
                 PROVE  /\ Cardinality(Pruned(j)) >= rpm[j]
                        /\ \A s \in Pruned(j) : age[s] + timer'[q] <= Window
      BY <2>11 DEF SleepInv
    <3>1. CASE q = r
      <4>1. j = i
        BY <3>1, <1>1 DEF TypeOK, Waiters
      <4>2. timer'[q] = Window - age[o]
        BY <3>1, <2>1, <1>1 DEF TypeOK, Remaining
      <4>3. \A s \in Pruned(i) : age[s] \in Int /\ age[o] \in Int
        BY <1>1, <1>3, <2>2 DEF TypeOK
      <4> QED
        BY <4>1, <4>2, <4>3, <2>2, <1>3, <1>4
    <3>2. CASE q # r
      <4>1. q \in Waiters(j) /\ timer'[q] = timer[q]
        BY <3>2, <2>1, <2>5, <1>1 DEF TypeOK, Waiters
      <4> QED
        BY <4>1 DEF IInv, SleepInv
    <3> QED
      BY <3>1, <3>2
  <2>13. WaitersHaveLimiter'
    BY <1>1 DEF IInv, WaitersHaveLimiter, TypeOK
  <2> QED
    BY <2>4, <2>7, <2>8, <2>9, <2>10, <2>12, <2>13 DEF IInv
<1> QED
  BY <1>5, <1>6 DEF AcquirePass

\* A request that has not been issued is in no deque and on no limiter.
LEMMA IdleFacts ==
    ASSUME IInv, NEW r \in Reqs, st[r] = "idle"
    PROVE  /\ st[r] # "waiting"
           /\ \A j \in used : r \notin stamps[j] /\ r \notin Waiters(j)
  BY DEF IInv, TypeOK, StampsGranted, Waiters

LEMMA InitIInv == Init => IInv
<1> SUFFICES ASSUME Init PROVE IInv
  OBVIOUS
<1>1. TypeOK
  BY DEF Init, TypeOK, States
<1> QED
  BY <1>1 DEF Init, IInv, PendingCountsWaiters, QueueBound, DequeInv, StampsGranted, SleepInv,
              WaitersHaveLimiter

LEMMA StepIInv == IInv /\ [Next]_vars => IInv'
<1> SUFFICES ASSUME IInv, [Next]_vars PROVE IInv'
  OBVIOUS
<1> USE DEF config, limiter, request
<1>0. TypeOK
  BY DEF IInv
<1>1. ASSUME NEW r \in Reqs, PassUnlimited(r)
      PROVE  IInv'
  <2> USE <1>1 DEF PassUnlimited
  <2>1. \A j \in used : r \notin stamps[j] /\ r \notin Waiters(j)
    BY IdleFacts
  <2>2. TypeOK'
    BY <1>0 DEF TypeOK, States
  <2>3. \A j \in used : Waiters(j)' = Waiters(j) /\ RecentGrants(j)' \subseteq RecentGrants(j)
    BY <1>0, <2>1 DEF TypeOK, Waiters, RecentGrants
  <2>4. PendingCountsWaiters' /\ QueueBound' /\ DequeInv'
    BY <2>3 DEF IInv, PendingCountsWaiters, QueueBound, DequeInv
  <2>5. StampsGranted'
    BY <1>0, <2>1 DEF IInv, TypeOK, StampsGranted
  <2>6. SleepInv'
    BY <2>3 DEF IInv, SleepInv, Pruned
  <2>7. WaitersHaveLimiter'
    BY <1>0 DEF IInv, WaitersHaveLimiter, TypeOK
  <2> QED
    BY <2>2, <2>4, <2>5, <2>6, <2>7 DEF IInv
<1>2. ASSUME NEW r \in Reqs, RejectFull(r)
      PROVE  IInv'
  <2> USE <1>2 DEF RejectFull
  <2>1. \A j \in used : r \notin stamps[j] /\ r \notin Waiters(j)
    BY IdleFacts
  <2>2. TypeOK'
    BY <1>0 DEF TypeOK, States
  <2>3. \A j \in used : Waiters(j)' = Waiters(j) /\ RecentGrants(j)' \subseteq RecentGrants(j)
    BY <1>0, <2>1 DEF TypeOK, Waiters, RecentGrants
  <2>4. PendingCountsWaiters' /\ QueueBound' /\ DequeInv'
    BY <2>3 DEF IInv, PendingCountsWaiters, QueueBound, DequeInv
  <2>5. StampsGranted'
    BY <1>0, <2>1 DEF IInv, TypeOK, StampsGranted
  <2>6. SleepInv'
    BY <2>3 DEF IInv, SleepInv, Pruned
  <2>7. WaitersHaveLimiter'
    BY <1>0 DEF IInv, WaitersHaveLimiter, TypeOK
  <2> QED
    BY <2>2, <2>4, <2>5, <2>6, <2>7 DEF IInv
<1>3. ASSUME NEW r \in Reqs, Acquire(r)
      PROVE  IInv'
  <2> USE <1>3 DEF Acquire
  <2>1. cur \in used
    BY <1>0 DEF TypeOK
  <2>2. \A j \in used : r \notin stamps[j] /\ r \notin Waiters(j)
    BY IdleFacts
  <2>3. Waiters(cur) \ {r} = Waiters(cur)
    BY <2>1, <2>2
  <2>4. pending[cur] + 1 = Cardinality(Waiters(cur) \ {r}) + 1
    BY <2>1, <2>3 DEF IInv, PendingCountsWaiters
  <2>5. pending[cur] + 1 <= maxQueue[cur] + 1
    BY <2>1, <1>0 DEF IsQueueFull, TypeOK
  <2> HIDE DEF Acquire
  <2>6. lim' = [lim EXCEPT ![r] = cur] /\ AcquirePass(r, cur, pending[cur] + 1) /\ UNCHANGED config
    BY <1>3 DEF Acquire
  <2> QED
    BY <2>1, <2>2, <2>4, <2>5, <2>6, AcquirePassStep
<1>4. ASSUME NEW r \in Reqs, Wake(r)
      PROVE  IInv'
  <2>1. /\ st[r] = "waiting" /\ AcquirePass(r, lim[r], pending[lim[r]])
        /\ UNCHANGED config /\ lim' = lim
    BY <1>4 DEF Wake
  <2>2. lim[r] \in used
    BY <1>4, <1>0, <2>1 DEF TypeOK, Wake, IInv, WaitersHaveLimiter
  <2>3. r \in Waiters(lim[r])
    BY <2>1 DEF Waiters
  <2>4. \A j \in used : r \notin stamps[j] /\ (j # lim[r] => r \notin Waiters(j))
    BY <2>1 DEF IInv, StampsGranted, Waiters
  <2>5. /\ IsFiniteSet(Waiters(lim[r])) /\ Cardinality(Waiters(lim[r])) \in Nat
        /\ pending[lim[r]] = Cardinality(Waiters(lim[r]))
    BY <2>2, FS_CardinalityType DEF IInv, PendingCountsWaiters
  <2>6. Cardinality(Waiters(lim[r]) \ {r}) = Cardinality(Waiters(lim[r])) - 1
    BY <2>3, <2>5, FS_RemoveElement
  <2>7. pending[lim[r]] = Cardinality(Waiters(lim[r]) \ {r}) + 1
    BY <2>5, <2>6
  <2>8. pending[lim[r]] <= maxQueue[lim[r]] + 1
    <3>1. Cardinality(Waiters(lim[r]) \ {r}) \in Nat
      BY <2>3, <2>5, FS_RemoveElement, FS_CardinalityType
    <3> QED
      BY <2>2, <2>7, <3>1 DEF IInv, QueueBound
  <2>9. lim' = [lim EXCEPT ![r] = lim[r]]
    BY <2>1, <1>0 DEF TypeOK
  <2> QED
    BY <2>1, <2>2, <2>4, <2>7, <2>8, <2>9, AcquirePassStep
<1>5. ASSUME NEW r \in Reqs, Cancel(r)
      PROVE  IInv'
  <2> USE <1>5 DEF Cancel
  <2>1. lim[r] \in used /\ lim[r] \in Insts /\ r \in Waiters(lim[r])
    BY <1>0 DEF TypeOK, IInv, WaitersHaveLimiter, Waiters
  <2>2. TypeOK'
    BY <1>0, <2>1 DEF TypeOK, States
  <2>3. \A j \in used : /\ Waiters(j)' = IF j = lim[r] THEN Waiters(j) \ {r} ELSE Waiters(j)
                        /\ RecentGrants(j)' \subseteq RecentGrants(j)
    BY <1>0 DEF TypeOK, Waiters, RecentGrants
  <2>4. /\ IsFiniteSet(Waiters(lim[r])) /\ Cardinality(Waiters(lim[r])) \in Nat
        /\ pending[lim[r]] = Cardinality(Waiters(lim[r]))
    BY <2>1, FS_CardinalityType DEF IInv, PendingCountsWaiters
  <2>5. /\ IsFiniteSet(Waiters(lim[r]) \ {r})
        /\ Cardinality(Waiters(lim[r]) \ {r}) = Cardinality(Waiters(lim[r])) - 1
    BY <2>1, <2>4, FS_RemoveElement
  <2>6. pending'[lim[r]] = pending[lim[r]] - 1
    BY <1>0, <2>1 DEF TypeOK
  <2>7. \A j \in used : j # lim[r] => pending'[j] = pending[j]
    BY <1>0, <2>1 DEF TypeOK
  <2>8. PendingCountsWaiters'
    BY <2>3, <2>4, <2>5, <2>6, <2>7 DEF IInv, PendingCountsWaiters
  <2>9. QueueBound'
    <3>1. Cardinality(Waiters(lim[r]) \ {r}) \in Nat
      BY <2>5, FS_CardinalityType
    <3>2. pending[lim[r]] # 0 /\ pending[lim[r]] <= maxQueue[lim[r]] + 1
      BY <2>1, <2>4, <2>5, <3>1 DEF IInv, QueueBound
    <3> QED
      BY <1>0, <2>1, <2>6, <2>7, <3>2 DEF IInv, QueueBound, TypeOK
  <2>10. DequeInv'
    BY <2>3 DEF IInv, DequeInv
  <2>11. StampsGranted'
    BY <1>0 DEF IInv, TypeOK, StampsGranted
  <2>12. SleepInv'
    <3>1. \A j \in used : \A q \in Waiters(j)' : q \in Waiters(j) /\ timer'[q] = timer[q]
      BY <1>0, <2>3 DEF TypeOK, Waiters
    <3> QED
      BY <3>1 DEF IInv, SleepInv, Pruned
  <2>13. WaitersHaveLimiter'
    BY <1>0 DEF IInv, WaitersHaveLimiter, TypeOK
  <2> QED
    BY <2>2, <2>8, <2>9, <2>10, <2>11, <2>12, <2>13 DEF IInv
<1>6. ASSUME NEW c \in Configs, ReloadUnlimited(c) \/ ReloadKeep(c)
      PROVE  IInv'
  <2> USE <1>6 DEF ReloadUnlimited, ReloadKeep
  <2>1. TypeOK'
    BY <1>0 DEF TypeOK
  <2>2. UNCHANGED <<used, rpm, maxQueue, stamps, pending, st, lim, age, timer>>
    OBVIOUS
  <2>3. (PendingCountsWaiters /\ QueueBound /\ DequeInv /\ StampsGranted)'
    BY <2>2 DEF IInv, PendingCountsWaiters, QueueBound, DequeInv, StampsGranted,
                Waiters, RecentGrants
  <2>4. (SleepInv /\ WaitersHaveLimiter)'
    BY <2>2 DEF IInv, SleepInv, WaitersHaveLimiter, Waiters, Pruned
  <2> QED
    BY <2>1, <2>3, <2>4 DEF IInv
<1>7. ASSUME NEW c \in Configs, NEW i \in Insts, ReloadReplace(c, i)
      PROVE  IInv'
  <2> USE <1>7 DEF ReloadReplace
  <2>1. c.rpm \in Nat /\ c.maxQueue \in Int
    OBVIOUS
  <2>2. TypeOK'
    BY <1>0, <2>1 DEF TypeOK
  <2>3. \A j \in used : j # i /\ j \in Insts /\ rpm'[j] = rpm[j] /\ maxQueue'[j] = maxQueue[j]
                        /\ stamps'[j] = stamps[j] /\ pending'[j] = pending[j]
    BY <1>0 DEF TypeOK
  <2>4. \A j : Waiters(j)' = Waiters(j) /\ RecentGrants(j)' = RecentGrants(j)
    BY DEF Waiters, RecentGrants
  <2>5. \A j \in used : Pruned(j)' = Pruned(j)
    BY <2>3 DEF Pruned
  <2>6. Waiters(i) = {} /\ RecentGrants(i) = {}
    BY <1>0 DEF TypeOK, Waiters, RecentGrants
  <2>7. rpm'[i] = c.rpm /\ maxQueue'[i] = c.maxQueue /\ stamps'[i] = {} /\ pending'[i] = 0
    BY <1>0 DEF TypeOK
  <2>8. PendingCountsWaiters'
    BY <2>3, <2>4, <2>6, <2>7, FS_EmptySet DEF IInv, PendingCountsWaiters
  <2>9. QueueBound'
    BY <2>1, <2>3, <2>7 DEF IInv, QueueBound
  <2>10. DequeInv'
    <3> SUFFICES ASSUME NEW j \in used'
                 PROVE  /\ rpm'[j] > 0
                        /\ IsFiniteSet(stamps'[j])
                        /\ Cardinality(stamps'[j]) <= rpm'[j]
                        /\ RecentGrants(j)' \subseteq stamps'[j]
      BY DEF DequeInv
    <3>1. CASE j \in used
      BY <3>1, <2>3, <2>4 DEF IInv, DequeInv
    <3>2. CASE j = i
      BY <3>2, <2>1, <2>4, <2>6, <2>7, FS_EmptySet
    <3> QED
      BY <3>1, <3>2
  <2>11. StampsGranted'
    BY <2>3, <2>7 DEF IInv, StampsGranted
  <2>12. SleepInv'
    BY <2>3, <2>4, <2>5, <2>6 DEF IInv, SleepInv
  <2>13. WaitersHaveLimiter'
    BY DEF IInv, WaitersHaveLimiter
  <2> QED
    BY <2>2, <2>8, <2>9, <2>10, <2>11, <2>12, <2>13 DEF IInv
<1>8. ASSUME Tick
      PROVE  IInv'
  <2> USE <1>8 DEF Tick
  <2>1. TypeOK'
    BY <1>0 DEF TypeOK
  <2>2. \A j : Waiters(j)' = Waiters(j)
    BY DEF Waiters
  <2>3. \A j \in used : RecentGrants(j)' \subseteq RecentGrants(j)
    BY <1>0 DEF RecentGrants, TypeOK
  <2>4. SleepInv'
    <3> SUFFICES ASSUME NEW j \in used, NEW q \in Waiters(j), timer'[q] > 0
                 PROVE  /\ Cardinality(Pruned(j)') >= rpm[j]
                        /\ \A s \in Pruned(j)' : age'[s] + timer'[q] <= Window
      BY <2>2 DEF SleepInv
    <3>1. q \in Reqs /\ stamps[j] \subseteq Reqs
      BY <1>0 DEF TypeOK, Waiters
    <3>2. timer[q] > 0 /\ timer'[q] = timer[q] - 1 /\ timer[q] \in 0 .. Window
      BY <1>0, <3>1 DEF TypeOK
    <3>3. /\ Cardinality(Pruned(j)) >= rpm[j]
          /\ \A s \in Pruned(j) : age[s] + timer[q] <= Window
      BY <3>2 DEF IInv, SleepInv
    <3>4. \A s \in Pruned(j) : age'[s] = age[s] + 1 /\ age[s] \in 0 .. Window
      BY <1>0, <3>1 DEF TypeOK, Pruned
    <3>5. \A s \in Pruned(j) : age'[s] + timer'[q] <= Window /\ age'[s] < Window
      BY <3>2, <3>3, <3>4
    <3>6. Pruned(j)' = Pruned(j)
      <4>1. \A s \in stamps[j] : age'[s] < Window => age[s] < Window
        BY <1>0, <3>1 DEF TypeOK
      <4>2. \A s \in stamps[j] : age[s] < Window => age'[s] < Window
        BY <3>5 DEF Pruned
      <4> QED
        BY <4>1, <4>2 DEF Pruned
    <3> QED
      BY <3>3, <3>5, <3>6
  <2> QED
    BY <2>1, <2>2, <2>3, <2>4
    DEF IInv, PendingCountsWaiters, QueueBound, DequeInv, StampsGranted, WaitersHaveLimiter
<1>9. CASE UNCHANGED vars
  <2>1. UNCHANGED <<cfg, cur, used, rpm, maxQueue, stamps, pending, st, lim, age, timer>>
    BY <1>9 DEF vars
  <2>2. TypeOK'
    BY <1>0, <2>1 DEF TypeOK
  <2>3. (PendingCountsWaiters /\ QueueBound /\ DequeInv /\ StampsGranted)'
    BY <2>1 DEF IInv, PendingCountsWaiters, QueueBound, DequeInv, StampsGranted,
                Waiters, RecentGrants
  <2>4. (SleepInv /\ WaitersHaveLimiter)'
    BY <2>1 DEF IInv, SleepInv, WaitersHaveLimiter, Waiters, Pruned
  <2> QED
    BY <2>2, <2>3, <2>4 DEF IInv
<1> QED
  BY <1>1, <1>2, <1>3, <1>4, <1>5, <1>6, <1>7, <1>8, <1>9 DEF Next, Reload

\* NoOversleep and WindowRespected are consequences of the inductive invariant.
LEMMA IInvImplies == IInv => WindowRespected /\ NoOversleep
<1> SUFFICES ASSUME IInv PROVE WindowRespected /\ NoOversleep
  OBVIOUS
<1>1. TypeOK
  BY DEF IInv
<1>2. WindowRespected
  <2> SUFFICES ASSUME NEW i \in used
               PROVE  IsFiniteSet(RecentGrants(i)) /\ Cardinality(RecentGrants(i)) <= rpm[i]
    BY DEF WindowRespected
  <2>1. /\ IsFiniteSet(stamps[i]) /\ Cardinality(stamps[i]) <= rpm[i]
        /\ RecentGrants(i) \subseteq stamps[i] /\ rpm[i] \in Nat
    BY <1>1 DEF IInv, DequeInv, TypeOK
  <2>2. IsFiniteSet(RecentGrants(i)) /\ Cardinality(RecentGrants(i)) <= Cardinality(stamps[i])
    BY <2>1, FS_Subset
  <2>3. Cardinality(RecentGrants(i)) \in Nat /\ Cardinality(stamps[i]) \in Nat
    BY <2>1, <2>2, FS_CardinalityType
  <2> QED
    BY <2>1, <2>2, <2>3
<1>3. NoOversleep
  <2> SUFFICES ASSUME NEW i \in used, Cardinality(Pruned(i)) < rpm[i], NEW r \in Waiters(i)
               PROVE  timer[r] = 0
    BY DEF NoOversleep
  <2>1. Cardinality(Pruned(i)) \in Nat /\ rpm[i] \in Nat /\ timer[r] \in 0 .. Window
    BY <1>1, PrunedFacts DEF TypeOK, Waiters
  <2> QED
    BY <2>1 DEF IInv, SleepInv
<1> QED
  BY <1>2, <1>3

-----------------------------------------------------------------------------
\* Every variable of the limiter stays in its type.
THEOREM TypeCorrect == Spec => []TypeOK
<1>1. IInv => TypeOK
  BY DEF IInv
<1> QED
  BY <1>1, InitIInv, StepIInv, PTL DEF Spec

\* `pending' is exact for every interleaving of arrivals, wake-ups, cancellations
\* and reloads.
THEOREM PendingCorrect == Spec => []PendingCountsWaiters
<1>1. IInv => PendingCountsWaiters
  BY DEF IInv
<1> QED
  BY <1>1, InitIInv, StepIInv, PTL DEF Spec

\* The requests that sleep on one limiter object are never more than max_queue + 1
\* (none, if that is negative), whatever is reloaded or cancelled between
\* `if limiter.is_queue_full' and the sleep.
THEOREM QueueCorrect == Spec => []QueueBound
<1>1. IInv => QueueBound
  BY DEF IInv
<1> QED
  BY <1>1, InitIInv, StepIInv, PTL DEF Spec

\* No limiter object lets more than rpm requests through in any window.
THEOREM WindowCorrect == Spec => []WindowRespected
  BY InitIInv, StepIInv, IInvImplies, PTL DEF Spec

\* No request sleeps while its limiter has a free slot.
THEOREM SleepCorrect == Spec => []NoOversleep
  BY InitIInv, StepIInv, IInvImplies, PTL DEF Spec
=============================================================================
