---------------------------- MODULE RateLimiter ----------------------------
(***************************************************************************)
(* The sliding-window limiter of ONE provider: ProviderRateLimiter and the *)
(* table of limiters in core/rate_limiter.py, entered by apply_rate_limit  *)
(* (api/proxy/request_flow.py).  Limiters of different providers share no  *)
(* state, so one provider shows everything.                                *)
(*                                                                         *)
(* Threads of control are asyncio tasks of one event loop: what runs       *)
(* between two awaits that really suspend is one atomic step.  The bodies  *)
(* of `async with self._lock' contain no await, hence the lock is never    *)
(* contended and never suspends; the only suspension is asyncio.sleep.     *)
(*                                                                         *)
(* Time is discrete and relative.  The deque entry a request leaves behind *)
(* is represented by the request; `age' is the time since that entry was   *)
(* written, capped at Window (older entries are indistinguishable).        *)
(***************************************************************************)
EXTENDS Integers, FiniteSets

CONSTANTS
    Reqs,       \* requests routed to the provider
    Insts,      \* identities of ProviderRateLimiter objects (bounds reloads)
    Configs,    \* rate_limit sections a reload may read: [rpm, maxQueue], with rpm 0
                \* for one that is absent or not positive
    Window,     \* the 60 seconds, in ticks
    None        \* the provider has no limiter

ASSUME WindowAssumption == Window \in Nat \ {0}
ASSUME ConfigsAssumption == Configs \subseteq [rpm : Nat, maxQueue : Int]
ASSUME NoneAssumption == None \notin Insts

VARIABLES
    cfg,        \* the provider's rate_limit section in force
    cur,        \* _limiters.get(provider_name)
    used,       \* instances constructed so far
    rpm,        \* self.rpm of each instance
    maxQueue,   \* self.max_queue of each instance
    stamps,     \* self._timestamps, as the set of requests that wrote them
    pending,    \* self._pending
    st,         \* where each request is
    lim,        \* the limiter object its acquire() runs on
    age,        \* time since its timestamp was written
    timer       \* what is left of its asyncio.sleep

config == <<cfg, cur, used, rpm, maxQueue>>
limiter == <<stamps, pending>>
request == <<st, lim, age, timer>>
vars == <<cfg, cur, used, rpm, maxQueue, stamps, pending, st, lim, age, timer>>

States == {"idle", "waiting", "granted", "rejected", "cancelled"}

TypeOK ==
    /\ cfg \in Configs
    /\ used \subseteq Insts
    /\ cur \in used \cup {None}
    /\ rpm \in [Insts -> Nat]
    /\ maxQueue \in [Insts -> Int]
    /\ stamps \in [Insts -> SUBSET Reqs]
    /\ pending \in [Insts -> Int]
    /\ st \in [Reqs -> States]
    /\ lim \in [Reqs -> used \cup {None}]
    /\ age \in [Reqs -> 0 .. Window]
    /\ timer \in [Reqs -> 0 .. Window]

----------------------------------------------------------------------------
(* Operators over the deque. *)

\* Mutant: an entry is dropped one tick before it leaves the window.
PrunedEarly(i) == {s \in stamps[i] : age[s] < Window - 1}

\* The timestamps `while self._timestamps[0] <= window_start: popleft()'
\* keeps.  The deque is in the order of time, so the loop removes exactly
\* the expired ones.
Pruned(i) == {s \in stamps[i] : age[s] < Window}

\* Mutant: `self._timestamps[-1]', the youngest entry.
Youngest(i) == {s \in Pruned(i) : \A t \in Pruned(i) : age[t] >= age[s]}

\* `self._timestamps[0]' after the loop.
Oldest(i) == {s \in Pruned(i) : \A t \in Pruned(i) : age[t] <= age[s]}

\* `wait_seconds': what entry s still has to live.  (Its floor of 0.05 s is below
\* one tick.)
Remaining(s) == Window - age[s]

Waiters(i) == {r \in Reqs : st[r] = "waiting" /\ lim[r] = i}

\* Mutant: the queue takes one more request.
IsQueueFullLate(i) == pending[i] > maxQueue[i] + 1

IsQueueFull(i) == pending[i] > maxQueue[i]

----------------------------------------------------------------------------
(* One pass of acquire()'s loop by request r on limiter i, which found its  *)
(* `pending' counter at p.                                                   *)

TakeSlot(r, i, p) ==
    /\ Cardinality(Pruned(i)) < rpm[i]
    /\ stamps' = [stamps EXCEPT ![i] = Pruned(i) \cup {r}]
    /\ pending' = [pending EXCEPT ![i] = p - 1]
    /\ st' = [st EXCEPT ![r] = "granted"]
    /\ age' = [age EXCEPT ![r] = 0]
    /\ timer' = [timer EXCEPT ![r] = 0]

GoToSleep(r, i, p) ==
    /\ Cardinality(Pruned(i)) >= rpm[i]
    /\ stamps' = [stamps EXCEPT ![i] = Pruned(i)]
    /\ pending' = [pending EXCEPT ![i] = p]
    /\ st' = [st EXCEPT ![r] = "waiting"]
    /\ \E s \in Oldest(i) : timer' = [timer EXCEPT ![r] = Remaining(s)]
    /\ UNCHANGED age

AcquirePass(r, i, p) == TakeSlot(r, i, p) \/ GoToSleep(r, i, p)

(* apply_rate_limit, and acquire() up to its first sleep: one atomic step.  *)

\* No limiter is configured: the request goes through.
PassUnlimited(r) ==
    /\ st[r] = "idle"
    /\ cur = None
    /\ st' = [st EXCEPT ![r] = "granted"]
    /\ lim' = [lim EXCEPT ![r] = None]
    /\ UNCHANGED <<config, limiter, age, timer>>

\* `if limiter.is_queue_full': answered with 429.
RejectFull(r) ==
    /\ st[r] = "idle"
    /\ cur # None
    /\ IsQueueFull(cur)
    /\ st' = [st EXCEPT ![r] = "rejected"]
    /\ lim' = [lim EXCEPT ![r] = cur]
    /\ UNCHANGED <<config, limiter, age, timer>>

\* acquire() counts itself in `pending' and makes its first pass.
Acquire(r) ==
    /\ st[r] = "idle"
    /\ cur # None
    /\ ~IsQueueFull(cur)
    /\ lim' = [lim EXCEPT ![r] = cur]
    /\ AcquirePass(r, cur, pending[cur] + 1)
    /\ UNCHANGED config

\* Mutant: only the limiter in the table serves its waiters.
WakeIfCurrent(r) ==
    /\ st[r] = "waiting"
    /\ lim[r] = cur
    /\ timer[r] = 0
    /\ AcquirePass(r, lim[r], pending[lim[r]])
    /\ UNCHANGED <<config, lim>>

\* The sleep is over (the loop may resume the task any time later).
Wake(r) ==
    /\ st[r] = "waiting"
    /\ timer[r] = 0
    /\ AcquirePass(r, lim[r], pending[lim[r]])
    /\ UNCHANGED <<config, lim>>

\* Mutant: no `except BaseException' around the loop.
CancelUncounted(r) ==
    /\ st[r] = "waiting"
    /\ st' = [st EXCEPT ![r] = "cancelled"]
    /\ timer' = [timer EXCEPT ![r] = 0]
    /\ UNCHANGED <<config, stamps, pending, lim, age>>

\* The request's task is cancelled in its sleep: `except BaseException'.
Cancel(r) ==
    /\ st[r] = "waiting"
    /\ st' = [st EXCEPT ![r] = "cancelled"]
    /\ timer' = [timer EXCEPT ![r] = 0]
    /\ pending' = [pending EXCEPT ![lim[r]] = @ - 1]
    /\ UNCHANGED <<config, stamps, lim, age>>

(* build_rate_limiters, called at startup and after each reload.            *)

KeepsLimiter(c) == cur # None /\ rpm[cur] = c.rpm

\* An rpm of 0 (or none): the provider is left out of the new table.
ReloadUnlimited(c) ==
    /\ c.rpm = 0
    /\ cfg' = c
    /\ cur' = None
    /\ UNCHANGED <<used, rpm, maxQueue, limiter, request>>

\* Same rpm: the old object stays, whatever max_queue now says.
ReloadKeep(c) ==
    /\ c.rpm > 0
    /\ KeepsLimiter(c)
    /\ cfg' = c
    /\ UNCHANGED <<cur, used, rpm, maxQueue, limiter, request>>

\* Otherwise a new object with an empty window and no waiters.
ReloadReplace(c, i) ==
    /\ c.rpm > 0
    /\ ~KeepsLimiter(c)
    /\ i \notin used
    /\ cfg' = c
    /\ cur' = i
    /\ used' = used \cup {i}
    /\ rpm' = [rpm EXCEPT ![i] = c.rpm]
    /\ maxQueue' = [maxQueue EXCEPT ![i] = c.maxQueue]
    /\ stamps' = [stamps EXCEPT ![i] = {}]
    /\ pending' = [pending EXCEPT ![i] = 0]
    /\ UNCHANGED request

Reload ==
    \E c \in Configs :
        ReloadUnlimited(c) \/ ReloadKeep(c) \/ \E i \in Insts : ReloadReplace(c, i)

\* One tick of time.monotonic().
Tick ==
    /\ age' = [r \in Reqs |-> IF age[r] < Window THEN age[r] + 1 ELSE Window]
    /\ timer' = [r \in Reqs |-> IF timer[r] > 0 THEN timer[r] - 1 ELSE 0]
    /\ UNCHANGED <<config, limiter, st, lim>>

----------------------------------------------------------------------------

\* The process starts without limiters; the first Reload is the one of startup.
Init ==
    /\ cfg \in {c \in Configs : c.rpm = 0}
    /\ cur = None
    /\ used = {}
    /\ rpm = [i \in Insts |-> 0]
    /\ maxQueue = [i \in Insts |-> 0]
    /\ stamps = [i \in Insts |-> {}]
    /\ pending = [i \in Insts |-> 0]
    /\ st = [r \in Reqs |-> "idle"]
    /\ lim = [r \in Reqs |-> None]
    /\ age = [r \in Reqs |-> Window]
    /\ timer = [r \in Reqs |-> 0]

Next ==
    \/ \E r \in Reqs : PassUnlimited(r)
    \/ \E r \in Reqs : RejectFull(r)
    \/ \E r \in Reqs : Acquire(r)
    \/ \E r \in Reqs : Wake(r)
    \/ \E r \in Reqs : Cancel(r)
    \/ Reload
    \/ Tick

Spec == Init /\ [][Next]_vars

\* Time passes, and the event loop resumes a task whose sleep is over.
Fairness == WF_vars(Tick) /\ \A r \in Reqs : WF_vars(Wake(r))

FairSpec == Spec /\ Fairness

----------------------------------------------------------------------------
(* Properties. *)

\* `pending' is the number of requests asleep in acquire(), at every moment
\* another task can look at it: no way out of acquire() (slot, cancellation)
\* misses its decrement or does it twice.
PendingCountsWaiters ==
    \A i \in used : IsFiniteSet(Waiters(i)) /\ pending[i] = Cardinality(Waiters(i))

\* The queue is bounded: is_queue_full uses `>', so one more than max_queue may
\* wait (and nobody, if max_queue is negative).
QueueBound == \A i \in used : pending[i] = 0 \/ pending[i] <= maxQueue[i] + 1

\* The requests limiter i let through within the last Window.
RecentGrants(i) ==
    {r \in Reqs : st[r] = "granted" /\ lim[r] = i /\ age[r] < Window}

\* The promise of a sliding window: no limiter object lets more than rpm
\* requests through in any Window, however waits, wake-ups and cancellations
\* interleave.
WindowRespected ==
    \A i \in used : IsFiniteSet(RecentGrants(i)) /\ Cardinality(RecentGrants(i)) <= rpm[i]

\* Nobody oversleeps: while a limiter has a free slot, every request waiting
\* on it has finished its sleep and will make a pass as soon as it is resumed.
NoOversleep ==
    \A i \in used :
        Cardinality(Pruned(i)) < rpm[i] => \A r \in Waiters(i) : timer[r] = 0

\* A request waits for a limiter of the configuration it arrived under, even
\* if a reload replaced it: it gets its slot or is cancelled, provided that
\* requests do not keep coming (Reqs is finite).
WaitersAreServed ==
    \A r \in Reqs : st[r] = "waiting" ~> st[r] \in {"granted", "cancelled"}
============================================================================
