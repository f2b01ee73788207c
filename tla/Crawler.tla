------------------------------ MODULE Crawler -------------------------------
(***************************************************************************)
(* The crawl as the code runs it: runLevel hands the URLs of a level over  *)
(* an unbuffered channel to a pool of workers, each of which runs          *)
(* fetchPage and writes the page into its slot; the coordinator waits for  *)
(* all of them and goes on (internal/crawler/crawler.go).  The context can *)
(* end between any two of these steps.                                     *)
(***************************************************************************)
EXTENDS LevelCrawl

CONSTANT Workers    \* the pool: --concurrency goroutines

ASSUME WorkerAssumption == Workers # {} /\ IsFiniteSet(Workers)

VARIABLES
    todo,     \* URLs of the level not yet sent on the jobs channel
    worker,   \* per goroutine: idle, or the URL it holds and how far it is
    slots     \* the pages written by the workers of this level

pool == <<todo, worker, slots>>
vars == <<frontier, pool>>

\* A goroutine has received a job; it has found the context live and fetches.
Job == [at : {"received", "fetching"}, url : URLs]
Idle == [at |-> "idle", url |-> None]

CrawlerInit ==
    /\ Init
    /\ todo = {} /\ slots = {}
    /\ worker = [w \in Workers |-> Idle]

\* The loop head enters runLevel: all of the level is still to be sent.
Coordinator ==
    /\ Coordinate
    /\ todo' = IF phase' = "fetch" THEN level' ELSE todo
    /\ UNCHANGED <<worker, slots>>

\* Fault: the job stays on the list.
SendTwice(w) ==
    /\ phase = "fetch" /\ worker[w] = Idle
    /\ \E u \in todo :
          /\ worker' = [worker EXCEPT ![w] = [at |-> "received", url |-> u]]
          /\ todo' = IF \E v \in Workers : worker[v] # Idle THEN todo \ {u} ELSE todo
    /\ UNCHANGED <<frontier, slots>>

\* jobs <- i: the lowest URL left goes to whichever goroutine receives it.
Send(w) ==
    /\ phase = "fetch" /\ worker[w] = Idle
    /\ \E u \in todo :
          /\ \A v \in todo : u <= v
          /\ todo' = todo \ {u}
          /\ worker' = [worker EXCEPT ![w] = [at |-> "received", url |-> u]]
    /\ UNCHANGED <<frontier, slots>>

\* pages[i] = p, and back to the channel.
Deliver(w, p) ==
    /\ slots' = slots \cup {p}
    /\ worker' = [worker EXCEPT ![w] = Idle]
    /\ UNCHANGED <<frontier, todo>>

\* Fault: the goroutine returns without a page.
RefuseAndReturn(w) ==
    /\ worker[w].at = "received" /\ ctx # "live"
    /\ worker' = [worker EXCEPT ![w].at = "gone"]
    /\ UNCHANGED <<frontier, todo, slots>>

\* fetchPage finds the context done.
Refuse(w) ==
    /\ worker[w].at = "received" /\ ctx # "live"
    /\ Deliver(w, NotFetched(worker[w].url))

\* Fault: the context is not asked before the request.
RequestAnyway(w) ==
    /\ worker[w].at = "received"
    /\ worker' = [worker EXCEPT ![w].at = "fetching"]
    /\ UNCHANGED <<frontier, todo, slots>>

\* fetchPage finds it live and calls Fetch.
Request(w) ==
    /\ worker[w].at = "received" /\ ctx = "live"
    /\ worker' = [worker EXCEPT ![w].at = "fetching"]
    /\ UNCHANGED <<frontier, todo, slots>>

\* Fetch returns what the site answers; the context may just have ended.
Answer(w) ==
    /\ worker[w].at = "fetching"
    /\ Deliver(w, Fetched(worker[w].url))

\* Fetch returns because the context has ended.
Interrupt(w) ==
    /\ worker[w].at = "fetching" /\ ctx # "live"
    /\ \E p \in CutOffs(worker[w].url) : Deliver(w, p)

Work(w) == Send(w) \/ Refuse(w) \/ Request(w) \/ Answer(w) \/ Interrupt(w)

\* Fault: the jobs are all sent, but nobody waits for the workers.
JoinEarly ==
    /\ todo = {}
    /\ EndLevel(slots)
    /\ slots' = {}
    /\ UNCHANGED <<todo, worker>>

\* close(jobs) and wg.Wait: every job was received and every worker is done.
Join ==
    /\ todo = {} /\ \A w \in Workers : worker[w] = Idle
    /\ EndLevel(slots)
    /\ slots' = {}
    /\ UNCHANGED <<todo, worker>>

Halt == EndContext /\ UNCHANGED pool

CrawlerNext == Coordinator \/ Join \/ Halt \/ \E w \in Workers : Work(w)

CrawlerSpec == CrawlerInit /\ [][CrawlerNext]_vars

(***************************************************************************)
(* Fairness.  The scheduler runs every goroutine that can run, and every   *)
(* request ends because Fetch bounds it by a timeout.  Nothing forces the  *)
(* context to end.                                                         *)
(***************************************************************************)
Fairness ==
    /\ WF_vars(Coordinator) /\ WF_vars(Join)
    /\ \A w \in Workers : WF_vars(Work(w))

FairSpec == CrawlerSpec /\ Fairness

-----------------------------------------------------------------------------
(***************************************************************************)
(* Properties.                                                             *)
(***************************************************************************)

PoolTypeOK ==
    /\ todo \subseteq URLs
    /\ worker \in [Workers -> Job \cup {Idle}]
    /\ slots \subseteq Pages

Held == {w \in Workers : worker[w] # Idle}

(* Each URL of the level is in exactly one place: still to be sent, held   *)
(* by one worker, or written to its slot by one worker (the goroutines     *)
(* share the pages slice and rely on it); outside runLevel the pool is     *)
(* empty.                                                                  *)
WorkPartition ==
    /\ phase # "fetch" => todo = {} /\ Held = {} /\ slots = {}
    /\ phase = "fetch" =>
          level = todo \cup {worker[w].url : w \in Held} \cup {p.url : p \in slots}
    /\ \A w \in Held : worker[w].url \notin todo \cup {p.url : p \in slots}
    /\ \A v, w \in Held : worker[v].url = worker[w].url => v = w
    /\ todo \cap {p.url : p \in slots} = {}
    /\ \A p, q \in slots : p.url = q.url => p = q

(* ADR 0002: while the context is live a slot holds what the site answers  *)
(* for its URL, whichever worker fetched it and in whatever order; after   *)
(* that it may hold a fetch that was prevented or cut off.                 *)
SlotsAreOutcomes == \A p \in slots : p \in Outcome(p.url)

(* The pool is invisible: the crawl with workers is a LevelCrawl (the      *)
(* mapping hides the variables of the pool and is the identity on the      *)
(* rest), so every property of LevelCrawl is one of the code, for any      *)
(* concurrency.                                                            *)
RefinesLevelCrawl == Spec

(* docs/crawling.md, Limits and Cancellation: every crawl ends, whatever   *)
(* the site links to and whenever the context ends.                        *)
Terminates == <>(phase = "done")

(* docs/crawling.md, Cancellation: once the context has ended no worker    *)
(* starts a request, and the crawl does not go on to another level, though *)
(* it still records the URLs that a level formed before was to fetch.      *)
NothingNewAfterEnd ==
    [][ctx # "live" =>
        /\ {w \in Workers : worker'[w].at = "fetching"}
              \subseteq {w \in Workers : worker[w].at = "fetching"}
        /\ depth' = depth]_vars

(* Whoever takes which job and whenever the context ends, the jobs of a    *)
(* level are divided among the workers, and each slot of the result is     *)
(* written once, with what became of its URL.                              *)
PoolSound == PoolTypeOK /\ WorkPartition /\ SlotsAreOutcomes
=============================================================================
