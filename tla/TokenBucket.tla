----------------------------- MODULE TokenBucket -----------------------------
(***************************************************************************)
(* tools/rate_limit.py: a bucket that threads share.  acquire() refills,   *)
(* tests and takes under the lock, one step here; when tokens are missing  *)
(* it computes the wait, releases the lock, sleeps and tries again, while  *)
(* others may have taken what it waited for.                               *)
(*                                                                         *)
(* Time is discrete.  The unit of tokens is what one tick adds (the rate), *)
(* so that a wait is a deficit; the clock is kept as the age of the last   *)
(* refill, which says no more once it has reached the capacity.  The two   *)
(* metrics are left out.                                                   *)
(***************************************************************************)
EXTENDS Integers, FiniteSets

CONSTANTS
    Thread,
    Capacity,
    Demands,    \* the numbers of tokens asked for
    Calls,      \* bound on the acquire() calls of each thread
    MaxWindow   \* bound on the length of an observed window

ASSUME CapacityAssumption == Capacity \in Nat \ {0}
ASSUME DemandsAssumption == Demands \subseteq Int
ASSUME CallsAssumption == Calls \in Nat /\ MaxWindow \in Nat

VARIABLES
    tokens,     \* _tokens
    age,        \* the time since _last_refill
    stage, need,   \* the place and the argument of each thread's call
    sleepLeft,  \* what is left of each thread's sleep
    calls,      \* the calls each thread has made
    window,     \* history: the length of an observed window of time
    spent,      \* history: the tokens granted in it
    robbed      \* history: the sleepers that were overtaken

observed == <<window, spent, robbed>>
bucketVars == <<tokens, age, stage, need, sleepLeft, calls, observed>>

(* The bucket stays within its capacity and no sleep is longer than the    *)
(* time that fills it.                                                     *)
BucketTypeOK ==
    /\ tokens \in 0..Capacity /\ age \in 0..Capacity
    /\ stage \in [Thread -> {"idle", "acquire", "sleep"}]
    /\ need \in [Thread -> 0..Capacity]
    /\ sleepLeft \in [Thread -> 0..Capacity]
    /\ calls \in [Thread -> 0..Calls]
    /\ window \in 0..MaxWindow /\ spent \in Nat
    /\ robbed \subseteq Thread

BucketInit ==
    /\ tokens = Capacity /\ age = 0
    /\ stage = [t \in Thread |-> "idle"]
    /\ need = [t \in Thread |-> 0] /\ sleepLeft = [t \in Thread |-> 0]
    /\ calls = [t \in Thread |-> 0]
    /\ window = 0 /\ spent = 0 /\ robbed = {}

-----------------------------------------------------------------------------
(* _refill_locked *)

AtMost(x, bound) == IF x <= bound THEN x ELSE bound

(* Mutant: the bucket overflows. *)
RefilledPastCapacity == tokens + age
Refilled == AtMost(tokens + age, Capacity)

-----------------------------------------------------------------------------
(* acquire *)

(* Zero, negative and impossible demands are a ValueError: nothing happens. *)
Call(t, n) ==
    /\ stage[t] = "idle" /\ calls[t] < Calls
    /\ n > 0 /\ n <= Capacity
    /\ stage' = [stage EXCEPT ![t] = "acquire"]
    /\ need' = [need EXCEPT ![t] = n]
    /\ calls' = [calls EXCEPT ![t] = calls[t] + 1]
    /\ UNCHANGED <<tokens, age, sleepLeft, observed>>

(* Mutants: the time of the refill is not noted; a full bucket does not    *)
(* serve a demand for all of it.                                           *)
GrantUnnoted(t) ==
    /\ stage[t] = "acquire"
    /\ Refilled >= need[t]
    /\ tokens' = Refilled - need[t]
    /\ stage' = [stage EXCEPT ![t] = "idle"]
    /\ spent' = spent + need[t]
    /\ robbed' = robbed \cup {u \in Thread : stage[u] = "sleep"}
    /\ UNCHANGED <<age, need, sleepLeft, calls, window>>
GrantStrictly(t) ==
    /\ stage[t] = "acquire"
    /\ Refilled > need[t]
    /\ tokens' = Refilled - need[t] /\ age' = 0
    /\ stage' = [stage EXCEPT ![t] = "idle"]
    /\ spent' = spent + need[t]
    /\ robbed' = robbed \cup {u \in Thread : stage[u] = "sleep"}
    /\ UNCHANGED <<need, sleepLeft, calls, window>>

Grant(t) ==
    /\ stage[t] = "acquire"
    /\ Refilled >= need[t]
    /\ tokens' = Refilled - need[t] /\ age' = 0
    /\ stage' = [stage EXCEPT ![t] = "idle"]
    /\ spent' = spent + need[t]
    /\ robbed' = robbed \cup {u \in Thread : stage[u] = "sleep"}
    /\ UNCHANGED <<need, sleepLeft, calls, window>>

(* Mutant: the wait is rounded down. *)
SleepTooShort(t) ==
    /\ stage[t] = "acquire"
    /\ Refilled < need[t]
    /\ tokens' = Refilled /\ age' = 0
    /\ sleepLeft' = [sleepLeft EXCEPT ![t] = need[t] - Refilled - 1]
    /\ stage' = [stage EXCEPT ![t] = "sleep"]
    /\ robbed' = robbed \ {t}
    /\ UNCHANGED <<need, calls, window, spent>>

Sleep(t) ==
    /\ stage[t] = "acquire"
    /\ Refilled < need[t]
    /\ tokens' = Refilled /\ age' = 0
    /\ sleepLeft' = [sleepLeft EXCEPT ![t] = need[t] - Refilled]
    /\ stage' = [stage EXCEPT ![t] = "sleep"]
    /\ robbed' = robbed \ {t}
    /\ UNCHANGED <<need, calls, window, spent>>

(* time.sleep returns no earlier than asked, and perhaps later. *)
Wake(t) ==
    /\ stage[t] = "sleep" /\ sleepLeft[t] = 0
    /\ stage' = [stage EXCEPT ![t] = "acquire"]
    /\ UNCHANGED <<tokens, age, need, sleepLeft, calls, observed>>

-----------------------------------------------------------------------------
(* Time *)

Tick ==
    /\ age' = AtMost(age + 1, Capacity)
    /\ sleepLeft' = [t \in Thread |-> IF sleepLeft[t] > 0 THEN sleepLeft[t] - 1 ELSE 0]
    /\ window' = IF window < MaxWindow THEN window + 1 ELSE 0
    /\ spent' = IF window < MaxWindow THEN spent ELSE 0
    /\ UNCHANGED <<tokens, stage, need, calls, robbed>>

(* The observer starts a new window. *)
Observe ==
    /\ window' = 0 /\ spent' = 0
    /\ UNCHANGED <<tokens, age, stage, need, sleepLeft, calls, robbed>>

Step(t) == Grant(t) \/ Sleep(t) \/ Wake(t)

BucketNext ==
    \/ \E t \in Thread : Step(t) \/ \E n \in Demands : Call(t, n)
    \/ Tick
    \/ Observe

BucketSpec == BucketInit /\ [][BucketNext]_bucketVars

(* Time passes and the scheduler forgets no thread; nothing makes a thread *)
(* call, and nothing orders the threads that want the lock.                *)
FairBucketSpec == BucketSpec /\ WF_bucketVars(Tick) /\ \A t \in Thread : WF_bucketVars(Step(t))

-----------------------------------------------------------------------------
(* The inductive invariant *)

(* Window by window, what was granted and what could be granted now came   *)
(* out of one full bucket and the time that has passed.                    *)
Conservation == spent + Refilled <= Capacity + window

(* A sleeper that nobody overtook finds its tokens when it wakes: no wait  *)
(* is too short, whatever refills happened during the sleep.               *)
SleepsLongEnough ==
    \A t \in Thread :
        stage[t] = "sleep" /\ t \notin robbed => Refilled + sleepLeft[t] >= need[t]

BucketInv == BucketTypeOK /\ Conservation /\ SleepsLongEnough

-----------------------------------------------------------------------------
(* Properties *)

(* The rate limit: in no window of time do the threads together get more   *)
(* than a full bucket and what time has added.                             *)
RateLimited == spent <= Capacity + window

(* Every call returns, though a sleeper can be overtaken again and again.  *)
EveryCallReturns == \A t \in Thread : stage[t] # "idle" ~> stage[t] = "idle"
=============================================================================
