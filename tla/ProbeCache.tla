----------------------------- MODULE ProbeCache ------------------------------
(***************************************************************************)
(* The cache in front of the read-only children of the console: one key of *)
(* TtlCache (src/web/cache.rs) with the probe that fills it (run_probe and *)
(* await_with_limit of src/web/routes/dashboard.rs).                       *)
(*                                                                         *)
(* Requests run in parallel and share the slot and its gate; a child looks *)
(* at a destination that the jobs of the console change, and a job that    *)
(* has ended invalidates the slot.  A browser may give up a request at any *)
(* await, which drops the request and keeps its child.  Keys do not share  *)
(* anything but the lock of the map, so one is enough.                     *)
(***************************************************************************)
EXTENDS Integers, FiniteSets

CONSTANTS
    Requests,   \* requests, each with the number of the child it may start
    Ttl,        \* PROBE_TTL
    Limit,      \* the time limit of a probe
    MaxProbeTime,    \* bound: the clock
    MaxJobs     \* bound: jobs that change the destination

ASSUME CacheAssumption ==
    /\ 0 \notin Requests   \* 0 is nobody's number
    /\ Ttl \in Nat \ {0} /\ Limit \in Nat
    /\ MaxProbeTime \in Nat /\ MaxJobs \in Nat

VARIABLES
    probeNow,      \* the clock
    version,  \* the number of jobs that have ended
    pending,  \* a job has ended and its invalidation is still to come
    slot,     \* Slot.stored
    gate,     \* the requests that hold the gate of the slot
    pc,       \* per request, its step in fetch
    start,    \* per request, when it started its child
    child,    \* per request, the child it started
    sight,    \* per request, what that child saw and when
    answer,   \* per request, what it was answered
    floor,    \* history: the version at the last invalidation
    owed,     \* history: per request, floor when it began
    late      \* history: the children that ran during an invalidation

probeVars == <<probeNow, version, pending, slot, gate, pc, start, child, sight, answer, floor, owed, late>>
world == <<version, pending, floor, late>>

ProbeTimes == 0..MaxProbeTime
Versions == 0..MaxJobs

\* A value: the child it is from, the version the child saw, and when.
Unseen == [from |-> 0, version |-> 0, seen |-> 0, at |-> 0]

Values == [from : Requests \cup {0}, version : Versions, seen : ProbeTimes, at : ProbeTimes]

ProbeTypeOK ==
    /\ probeNow \in ProbeTimes
    /\ version \in Versions /\ floor \in Versions
    /\ pending \in BOOLEAN
    /\ slot \in Values
    /\ gate \subseteq Requests
    /\ pc \in [Requests -> {"new", "wait", "produce", "done", "gone"}]
    /\ start \in [Requests -> ProbeTimes]
    /\ child \in [Requests -> {"none", "running", "exited"}]
    /\ sight \in [Requests -> Values]
    /\ answer \in [Requests -> Values]
    /\ owed \in [Requests -> Versions]
    /\ late \subseteq Requests

ProbeInit ==
    /\ probeNow = 0 /\ version = 0 /\ pending = FALSE
    /\ slot = Unseen
    /\ gate = {}
    /\ pc = [r \in Requests |-> "new"]
    /\ start = [r \in Requests |-> 0]
    /\ child = [r \in Requests |-> "none"]
    /\ sight = [r \in Requests |-> Unseen]
    /\ answer = [r \in Requests |-> Unseen]
    /\ floor = 0
    /\ owed = [r \in Requests |-> 0]
    /\ late = {}

--------------------------------------------------------------------------------
(* fetch.                                                                  *)

\* peek: a value from a probe, younger than Ttl.
Fresh(value) == value.from # 0 /\ probeNow - value.at < Ttl

Answer(r, value) ==
    /\ answer' = [answer EXCEPT ![r] = [value EXCEPT !.at = probeNow]]
    /\ pc' = [pc EXCEPT ![r] = "done"]

\* The fast path, or the queue at the gate.
Begin(r) ==
    /\ pc[r] = "new"
    /\ owed' = [owed EXCEPT ![r] = floor]
    /\ \/ Fresh(slot) /\ Answer(r, slot)
       \/ ~ Fresh(slot) /\ pc' = [pc EXCEPT ![r] = "wait"] /\ UNCHANGED answer
    /\ UNCHANGED <<probeNow, world, slot, gate, start, child, sight>>

\* The gate is free, and the slot was filled meanwhile.
HitAtGate(r) ==
    /\ pc[r] = "wait" /\ gate = {}
    /\ Fresh(slot)
    /\ Answer(r, slot)
    /\ UNCHANGED <<probeNow, world, slot, gate, start, child, sight, owed>>

\* The gate is free, and the request produces the value: run_probe starts a child.
Produce(r) ==
    /\ pc[r] = "wait" /\ gate = {}
    /\ ~ Fresh(slot)
    /\ gate' = {r}
    /\ pc' = [pc EXCEPT ![r] = "produce"]
    /\ start' = [start EXCEPT ![r] = probeNow]
    /\ child' = [child EXCEPT ![r] = "running"]
    /\ UNCHANGED <<probeNow, world, slot, sight, answer, owed>>

\* store and answer; the gate is released when fetch returns.
Store(r, value) ==
    /\ slot' = [value EXCEPT !.at = probeNow]
    /\ gate' = gate \ {r}
    /\ Answer(r, value)

\* The child cannot be started: the failure is stored like a value.
SpawnFails(r) ==
    /\ pc[r] = "wait" /\ gate = {}
    /\ ~ Fresh(slot)
    /\ Store(r, [from |-> r, version |-> version, seen |-> probeNow, at |-> probeNow])
    /\ UNCHANGED <<probeNow, world, start, child, sight, owed>>

\* wait_with_output returns.
FinishProbe(r) ==
    /\ pc[r] = "produce"
    /\ child[r] = "exited"
    /\ Store(r, sight[r])
    /\ UNCHANGED <<probeNow, world, start, child, sight, owed>>

\* The limit is over: the child is killed, and the timeout is stored.
TimeOut(r) ==
    /\ pc[r] = "produce"
    /\ probeNow >= start[r] + Limit
    /\ child' = [child EXCEPT ![r] = "exited"]
    /\ Store(r, [from |-> r, version |-> version, seen |-> probeNow, at |-> probeNow])
    /\ UNCHANGED <<probeNow, world, start, sight, owed>>

\* The browser is gone: the future of the request is dropped where it awaits, the
\* gate with it.
Drop(r) ==
    /\ pc[r] \in {"wait", "produce"}
    /\ pc' = [pc EXCEPT ![r] = "gone"]
    /\ gate' = gate \ {r}
    /\ UNCHANGED <<probeNow, world, slot, start, child, sight, answer, owed>>

--------------------------------------------------------------------------------
(* The child, the jobs and the clock.                                      *)

Look(r) ==
    /\ child[r] = "running"
    /\ sight[r].from = 0
    /\ sight' = [sight EXCEPT ![r] = [from |-> r, version |-> version, seen |-> probeNow, at |-> probeNow]]
    /\ UNCHANGED <<probeNow, world, slot, gate, pc, start, child, answer, owed>>

ChildExits(r) ==
    /\ child[r] = "running"
    /\ sight[r].from = r
    /\ child' = [child EXCEPT ![r] = "exited"]
    /\ UNCHANGED <<probeNow, world, slot, gate, pc, start, sight, answer, owed>>

JobEnds ==
    /\ ~ pending
    /\ version < MaxJobs
    /\ version' = version + 1
    /\ pending' = TRUE
    /\ UNCHANGED <<probeNow, slot, gate, pc, start, child, sight, answer, floor, owed, late>>

Invalidated ==
    /\ pending
    /\ pending' = FALSE
    /\ floor' = version
    /\ late' = late \cup {r \in Requests : pc[r] = "produce"}
    /\ UNCHANGED <<probeNow, version, pc, start, child, sight, answer, owed>>

\* Bug: the whole slot is removed, its gate included.
InvalidateSlot == Invalidated /\ slot' = Unseen /\ gate' = {}

\* Bug: another key is invalidated.
InvalidateOther == Invalidated /\ UNCHANGED <<slot, gate>>

\* invalidate_profile, after the job has ended: the value goes, the gate stays, and
\* a producer under way is not stopped.
Invalidate == Invalidated /\ slot' = Unseen /\ UNCHANGED gate

\* A timeout that is due is not put off.
Tick ==
    /\ probeNow < MaxProbeTime
    /\ \A r \in Requests : pc[r] = "produce" => probeNow < start[r] + Limit
    /\ probeNow' = probeNow + 1
    /\ UNCHANGED <<world, slot, gate, pc, start, child, sight, answer, owed>>

ProbeNext ==
    \/ \E r \in Requests :
         \/ Begin(r) \/ HitAtGate(r) \/ Produce(r) \/ SpawnFails(r)
         \/ FinishProbe(r) \/ TimeOut(r) \/ Drop(r)
         \/ Look(r) \/ ChildExits(r)
    \/ JobEnds \/ Invalidate
    \/ Tick

ProbeSpec == ProbeInit /\ [][ProbeNext]_probeVars

--------------------------------------------------------------------------------

\* Only one child per key runs at a time, however many requests find the slot
\* empty, invalidate it or run into the limit (cache.rs:78-80), those aside
\* whose request was dropped.
OneChildPerKey ==
    \A r, s \in Requests :
        child[r] = "running" /\ child[s] = "running" /\ r # s => "gone" \in {pc[r], pc[s]}

\* A request that begins after a job's invalidation is not answered with what was
\* seen before that job ended, unless the child was already running then
\* (cache.rs:90-92).
FreshAfterInvalidation ==
    \A r \in Requests :
        pc[r] = "done" /\ answer[r].from \notin late => answer[r].version >= owed[r]

=============================================================================
