------------------------------- MODULE Limiter -------------------------------
(***************************************************************************)
(* The rate limiter all workers share (internal/crawler/ratelimit.go), as  *)
(* fetcher.Fetch uses it: Wait is called before the first request of a     *)
(* fetch and before each redirect hop, under the time-out of the fetch.    *)
(*                                                                         *)
(* Time advances in ticks.  A timer fires at its time or at most Late      *)
(* ticks after it.                                                         *)
(***************************************************************************)
EXTENDS Integers, FiniteSets

CONSTANTS
    Callers,    \* goroutines that fetch
    Interval,   \* ticks between two slots
    Timeout,    \* ticks a fetch may take, its waits included
    MaxHops,    \* redirect hops of a fetch
    Late,       \* how late a timer may fire
    Horizon,    \* bound: the clock stops here
    LastSlot    \* bound: no slot after this one is asked for

ASSUME CallersAssumption == IsFiniteSet(Callers)
ASSUME TimesAssumption ==
    /\ Interval \in Nat \ {0} /\ Timeout \in Nat \ {0}
    /\ MaxHops \in Nat /\ Late \in Nat /\ Horizon \in Nat /\ LastSlot \in Nat

VARIABLES
    now,
    next,       \* Limiter.next: the first slot that is free
    canceled,   \* the context of the run is canceled
    caller,     \* per goroutine: where it is, its slot, its deadline and hops
    starts,     \* history: the slot and the time of every request that was started
    quiet,      \* history: ticks since a request started or nobody was waiting
    patient     \* history: no wait was given up

history == <<starts, quiet, patient>>
vars == <<now, next, canceled, caller, history>>

Idle == [at |-> "idle", due |-> 0, deadline |-> 0, hops |-> 0]
Call == [at : {"idle", "waiting", "requesting"}, due : Nat, deadline : Nat, hops : Nat]

Waiting == {c \in Callers : caller[c].at = "waiting"}
Requesting == {c \in Callers : caller[c].at = "requesting"}

\* ctx.Done() of a fetch with deadline d.
Done(d) == canceled \/ d <= now

-----------------------------------------------------------------------------
Init ==
    /\ now = 0 /\ next = 0 /\ canceled = FALSE
    /\ caller = [c \in Callers |-> Idle]
    /\ starts = {} /\ quiet = 0 /\ patient = TRUE

\* Faults: the next slot is counted from the clock; a slot is skipped.
AfterClock(slot) == now + Interval
AfterTwo(slot) == slot + 2 * Interval

\* l.next, or the clock when it has passed.
FreeSlot == IF next < now THEN now ELSE next
After(slot) == slot + Interval

\* The call of Wait: the part under the lock, and the return without a wait
\* when the slot is now.
Wait(c, d, h) ==
    /\ FreeSlot <= LastSlot
    /\ next' = After(FreeSlot)
    /\ \/ /\ FreeSlot > now
          /\ caller' = [caller EXCEPT ![c] =
                [at |-> "waiting", due |-> FreeSlot, deadline |-> d, hops |-> h]]
          /\ UNCHANGED history
       \/ /\ FreeSlot <= now /\ ~canceled
          /\ caller' = [caller EXCEPT ![c] =
                [at |-> "requesting", due |-> FreeSlot, deadline |-> d, hops |-> h]]
          /\ starts' = starts \cup {[slot |-> FreeSlot, time |-> now]}
          /\ quiet' = 0 /\ UNCHANGED patient
       \/ /\ FreeSlot <= now /\ Done(d)
          /\ caller' = [caller EXCEPT ![c] = Idle]
          /\ UNCHANGED history
    /\ UNCHANGED <<now, canceled>>

\* Fetch begins.
Begin(c) == caller[c].at = "idle" /\ Wait(c, now + Timeout, 0)

\* The response is a redirect: the same fetch asks for another slot.
Hop(c) ==
    /\ caller[c].at = "requesting" /\ caller[c].hops < MaxHops
    /\ Wait(c, caller[c].deadline, caller[c].hops + 1)

\* The timer fires.
Grant(c) ==
    /\ caller[c].at = "waiting" /\ caller[c].due <= now
    /\ caller' = [caller EXCEPT ![c].at = "requesting"]
    /\ starts' = starts \cup {[slot |-> caller[c].due, time |-> now]}
    /\ quiet' = 0
    /\ UNCHANGED <<now, next, canceled, patient>>

\* The context of the fetch is done; its slot stays reserved.
GiveUp(c) ==
    /\ caller[c].at = "waiting" /\ Done(caller[c].deadline)
    /\ caller' = [caller EXCEPT ![c] = Idle] /\ patient' = FALSE
    /\ UNCHANGED <<now, next, canceled, starts, quiet>>

\* The fetch returns.
Finish(c) ==
    /\ caller[c].at = "requesting"
    /\ caller' = [caller EXCEPT ![c] = Idle]
    /\ UNCHANGED <<now, next, canceled, history>>

Cancel ==
    /\ ~canceled /\ canceled' = TRUE
    /\ UNCHANGED <<now, next, caller, history>>

\* Time passes unless a goroutine's timer would be late by more than Late.
Tick ==
    /\ now < Horizon
    /\ \A c \in Waiting : now < caller[c].due + Late /\ now < caller[c].deadline + Late
    /\ \A c \in Requesting : now < caller[c].deadline + Late
    /\ now' = now + 1
    /\ quiet' = IF Waiting = {} \/ canceled THEN 0 ELSE quiet + 1
    /\ UNCHANGED <<next, canceled, caller, starts, patient>>

Act(c) == Begin(c) \/ Hop(c) \/ Grant(c) \/ GiveUp(c) \/ Finish(c)

Next == Cancel \/ Tick \/ \E c \in Callers : Act(c)

Spec == Init /\ [][Next]_vars

-----------------------------------------------------------------------------
(* Every variable has its type. *)
LimiterTypeOK ==
    /\ now \in Nat /\ next \in Nat /\ canceled \in BOOLEAN
    /\ caller \in [Callers -> Call]
    /\ starts \subseteq [slot : Nat, time : Nat]
    /\ quiet \in Nat /\ patient \in BOOLEAN

Slots == {caller[c].due : c \in Waiting} \cup {s.slot : s \in starts}

(* docs/development.md, "The rate limiter spaces request starts evenly":   *)
(* whatever callers interleave, no two of them hold the same slot, slots   *)
(* in use are at least an interval apart and before the next free one, and *)
(* no request starts before its slot.                                      *)
Spaced ==
    /\ \A c, d \in Waiting : caller[c].due = caller[d].due => c = d
    /\ \A c \in Waiting, s \in starts : caller[c].due # s.slot
    /\ \A s, t \in starts : s.slot = t.slot => s = t
    /\ \A s, t \in Slots : s < t => s + Interval <= t
    /\ \A s \in Slots : s + Interval <= next
    /\ \A s \in starts : s.slot <= s.time /\ s.time <= now

(* docs/crawling.md, "Requests per second (global)": in any stretch of     *)
(* time up to now the requests started are no more than the rate allows,   *)
(* give or take the lateness of a timer.                                   *)
RateBound ==
    \A w \in 0 .. now :
        Cardinality({s \in starts : w <= s.time}) * Interval <= (now - w) + Late + Interval

(* docs/development.md, "spaces request starts evenly (1/rps)", and the    *)
(* comment of Limiter: while goroutines wait, requests start no further    *)
(* apart than the rate says, as long as no wait was given up: the slot of  *)
(* such a wait is not given back.                                          *)
Evenly == patient => quiet <= Interval + Late

(* docs/crawling.md, "Requests per second (global)": slots are spaced, and *)
(* so the rate holds in every stretch of time.                             *)
Paced == LimiterTypeOK /\ Spaced /\ RateBound
=============================================================================
