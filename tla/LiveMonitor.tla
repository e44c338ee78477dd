----------------------------- MODULE LiveMonitor -----------------------------
(***************************************************************************)
(* The live monitor of the web console: one "status --watch" child shared  *)
(* by all the browsers that look at it (src/web/routes/monitor.rs and      *)
(* src/web/state/monitor.rs).                                              *)
(*                                                                         *)
(* A viewer registers, subscribes to the frames and makes sure that there  *)
(* is a child.  Each child comes with a reader task, that publishes what   *)
(* it prints, and a watcher task, that ends it when nobody looks any more. *)
(* Handlers and tasks run in parallel.  A frame is the number of the child *)
(* that printed it; a period of the watcher is one step.                   *)
(***************************************************************************)
EXTENDS Integers, FiniteSets

CONSTANTS
    Viewers,      \* browsers
    Grace,        \* VIEWER_GRACE in periods of the watcher
    Faults,       \* subset of {"spawn", "exit", "long", "broken"}: the child does not start,
                  \* ends by itself, prints a line over MAX_FRAME_BYTES, or one that
                  \* cannot be read
    MaxArrivals   \* bound: how often a viewer opens the page

ASSUME MonitorAssumption ==
    /\ IsFiniteSet(Viewers)
    /\ Grace \in Nat \ {0}
    /\ Faults \subseteq {"spawn", "exit", "long", "broken"}
    /\ MaxArrivals \in Nat

VARIABLES
    pc,        \* per viewer, the step of its request
    snap,      \* per viewer, the frame it was given when it subscribed, and whether
               \* the child of that frame had not been released then
    got,       \* per viewer, whether a frame was sent to it since
    viewers,   \* the counter of LiveMonitor
    running,   \* LiveMonitor.running: a child is claimed
    lastFrame, \* LiveMonitor.last_frame, 0 if there is none
    child,     \* per child, whether the process is alive
    reader,    \* per child, its reader task
    watcher,   \* per child, its watcher task
    empty,     \* per child, for how many periods there was no viewer
    arrivals   \* counter for MaxArrivals

vars == <<pc, snap, got, viewers, running, lastFrame, child, reader, watcher, empty, arrivals>>
request == <<pc, snap, got, viewers, arrivals>>
tasks == <<child, reader, watcher, empty>>

Children == 1..MaxArrivals

NoSnap == [frame |-> 0, current |-> TRUE]

TypeOK ==
    /\ pc \in [Viewers -> {"away", "arrived", "subscribed", "spawn", "clear", "watching"}]
    /\ snap \in [Viewers -> [frame : Children \cup {0}, current : BOOLEAN]]
    /\ got \in [Viewers -> BOOLEAN]
    /\ viewers \in Nat
    /\ running \in BOOLEAN
    /\ lastFrame \in Children \cup {0}
    /\ child \in [Children -> {"none", "alive", "dead"}]
    /\ reader \in [Children -> {"none", "reading", "holding", "aborted", "late", "ended"}]
    /\ watcher \in [Children -> {"none", "watch", "kill", "abort", "release", "clear", "done"}]
    /\ empty \in [Children -> 0..Grace]
    /\ arrivals \in 0..MaxArrivals

Init ==
    /\ pc = [v \in Viewers |-> "away"]
    /\ snap = [v \in Viewers |-> NoSnap]
    /\ got = [v \in Viewers |-> FALSE]
    /\ viewers = 0
    /\ running = FALSE
    /\ lastFrame = 0
    /\ child = [g \in Children |-> "none"]
    /\ reader = [g \in Children |-> "none"]
    /\ watcher = [g \in Children |-> "none"]
    /\ empty = [g \in Children |-> 0]
    /\ arrivals = 0

--------------------------------------------------------------------------------
(* A request for the events.                                               *)

\* subscribe: the viewer is counted first,
Arrive(v) ==
    /\ pc[v] = "away"
    /\ arrivals < MaxArrivals
    /\ arrivals' = arrivals + 1
    /\ viewers' = viewers + 1
    /\ pc' = [pc EXCEPT ![v] = "arrived"]
    /\ UNCHANGED <<snap, got, running, lastFrame, tasks>>

\* then it joins the channel and takes the last frame.
Subscribe(v) ==
    /\ pc[v] = "arrived"
    /\ pc' = [pc EXCEPT ![v] = "subscribed"]
    /\ snap' = [snap EXCEPT ![v] =
         [frame |-> lastFrame, current |-> lastFrame \in Children => watcher[lastFrame] # "done"]]
    /\ UNCHANGED <<got, viewers, arrivals, running, lastFrame, tasks>>

\* claim_child: compare and swap.
Claim(v) ==
    /\ pc[v] = "subscribed"
    /\ running' = TRUE
    /\ pc' = [pc EXCEPT ![v] = IF running THEN "watching" ELSE "spawn"]
    /\ UNCHANGED <<snap, got, viewers, arrivals, lastFrame, tasks>>

\* ensure_child starts the child and its two tasks.
Spawn(v, g) ==
    /\ pc[v] = "spawn"
    /\ child[g] = "none" /\ \A h \in Children : h < g => child[h] # "none"
    /\ child' = [child EXCEPT ![g] = "alive"]
    /\ reader' = [reader EXCEPT ![g] = "reading"]
    /\ watcher' = [watcher EXCEPT ![g] = "watch"]
    /\ pc' = [pc EXCEPT ![v] = "watching"]
    /\ UNCHANGED <<snap, got, viewers, arrivals, running, lastFrame, empty>>

\* It cannot be started: release_child, in two steps, and the viewer stays.
SpawnFails(v) ==
    /\ pc[v] = "spawn"
    /\ "spawn" \in Faults
    /\ running' = FALSE
    /\ pc' = [pc EXCEPT ![v] = "clear"]
    /\ UNCHANGED <<snap, got, viewers, arrivals, lastFrame, tasks>>

ClearFrame(v) ==
    /\ pc[v] = "clear"
    /\ lastFrame' = 0
    /\ pc' = [pc EXCEPT ![v] = "watching"]
    /\ UNCHANGED <<snap, got, viewers, arrivals, running, tasks>>

\* Bug: the viewer is not counted off.
LeaveUncounted(v) ==
    /\ pc[v] = "watching"
    /\ pc' = [pc EXCEPT ![v] = "away"]
    /\ snap' = [snap EXCEPT ![v] = NoSnap]
    /\ got' = [got EXCEPT ![v] = FALSE]
    /\ UNCHANGED <<viewers, arrivals, running, lastFrame, tasks>>

\* The stream is dropped, and with it the Subscription.
Leave(v) ==
    /\ pc[v] = "watching"
    /\ viewers' = viewers - 1
    /\ pc' = [pc EXCEPT ![v] = "away"]
    /\ snap' = [snap EXCEPT ![v] = NoSnap]
    /\ got' = [got EXCEPT ![v] = FALSE]
    /\ UNCHANGED <<arrivals, running, lastFrame, tasks>>

--------------------------------------------------------------------------------
(* The child and its tasks.                                                *)

\* The child ends by itself.
Exit(g) ==
    /\ "exit" \in Faults
    /\ child[g] = "alive"
    /\ child' = [child EXCEPT ![g] = "dead"]
    /\ UNCHANGED <<request, running, lastFrame, reader, watcher, empty>>

\* The child has printed a line, and the reader has it.
TakeLine(g) ==
    /\ reader[g] = "reading"
    /\ child[g] = "alive"
    /\ reader' = [reader EXCEPT ![g] = "holding"]
    /\ UNCHANGED <<request, running, lastFrame, child, watcher, empty>>

\* It publishes the line; a reader aborted meanwhile still does so.
Publish(g) ==
    /\ reader[g] \in {"holding", "aborted"}
    /\ lastFrame' = g
    /\ got' = [v \in Viewers |-> got[v] \/ pc[v] \notin {"away", "arrived"}]
    /\ reader' = [reader EXCEPT ![g] = IF @ = "aborted" THEN "late" ELSE "reading"]
    /\ UNCHANGED <<pc, snap, viewers, arrivals, running, child, watcher, empty>>

\* A line over MAX_FRAME_BYTES is dropped.
Discard(g) ==
    /\ "long" \in Faults
    /\ reader[g] \in {"holding", "aborted"}
    /\ reader' = [reader EXCEPT ![g] = IF @ = "aborted" THEN "ended" ELSE "reading"]
    /\ UNCHANGED <<request, running, lastFrame, child, watcher, empty>>

\* A line that cannot be read ends the reader, while the child lives.
ReadError(g) ==
    /\ "broken" \in Faults
    /\ reader[g] = "reading"
    /\ child[g] = "alive"
    /\ reader' = [reader EXCEPT ![g] = "ended"]
    /\ UNCHANGED <<request, running, lastFrame, child, watcher, empty>>

EndOfOutput(g) ==
    /\ reader[g] = "reading"
    /\ child[g] = "dead"
    /\ reader' = [reader EXCEPT ![g] = "ended"]
    /\ UNCHANGED <<request, running, lastFrame, child, watcher, empty>>

\* Bug: a viewer who comes back within the grace does not stop the count.
CheckOnlyUp(g) ==
    /\ watcher[g] = "watch"
    /\ empty' = [empty EXCEPT ![g] = IF viewers > 0 /\ @ = 0 THEN 0 ELSE @ + 1]
    /\ watcher' = [watcher EXCEPT ![g] = IF empty'[g] >= Grace THEN "kill" ELSE @]
    /\ UNCHANGED <<request, running, lastFrame, child, reader>>

\* wait_until_unwatched, one period: only an unbroken absence counts.
Check(g) ==
    /\ watcher[g] = "watch"
    /\ empty' = [empty EXCEPT ![g] = IF viewers > 0 THEN 0 ELSE @ + 1]
    /\ watcher' = [watcher EXCEPT ![g] = IF empty'[g] >= Grace THEN "kill" ELSE @]
    /\ UNCHANGED <<request, running, lastFrame, child, reader>>

\* Bug: the mark is taken back while the child still runs.
KillAfterRelease(g) ==
    /\ watcher[g] = "kill"
    /\ running' = FALSE
    /\ watcher' = [watcher EXCEPT ![g] = "abort"]
    /\ UNCHANGED <<request, lastFrame, child, reader, empty>>

\* terminate_just_spawned: it returns when the child has been collected.
Kill(g) ==
    /\ watcher[g] = "kill"
    /\ child' = [child EXCEPT ![g] = "dead"]
    /\ watcher' = [watcher EXCEPT ![g] = "abort"]
    /\ UNCHANGED <<request, running, lastFrame, reader, empty>>

\* Bug: the reader of an ended child is left to read on.
AbortForgotten(g) ==
    /\ watcher[g] = "abort"
    /\ watcher' = [watcher EXCEPT ![g] = "release"]
    /\ UNCHANGED <<request, running, lastFrame, child, reader, empty>>

\* reader.abort(): a reader that waits is gone, one that runs goes on to its next await.
Abort(g) ==
    /\ watcher[g] = "abort"
    /\ reader' = [reader EXCEPT ![g] = IF @ = "holding" THEN "aborted" ELSE "ended"]
    /\ watcher' = [watcher EXCEPT ![g] = "release"]
    /\ UNCHANGED <<request, running, lastFrame, child, empty>>

\* release_child: the mark first, then the frame.
Release(g) ==
    /\ watcher[g] = "release"
    /\ running' = FALSE
    /\ watcher' = [watcher EXCEPT ![g] = "clear"]
    /\ UNCHANGED <<request, lastFrame, child, reader, empty>>

Clear(g) ==
    /\ watcher[g] = "clear"
    /\ lastFrame' = 0
    /\ watcher' = [watcher EXCEPT ![g] = "done"]
    /\ UNCHANGED <<request, running, child, reader, empty>>

Handler(v) ==
    \/ Subscribe(v) \/ Claim(v) \/ SpawnFails(v) \/ ClearFrame(v)
    \/ \E g \in Children : Spawn(v, g)

Reader(g) == TakeLine(g) \/ Publish(g) \/ Discard(g) \/ EndOfOutput(g) \/ ReadError(g)

Watcher(g) == Check(g) \/ Kill(g) \/ Abort(g) \/ Release(g) \/ Clear(g)

Next ==
    \/ \E v \in Viewers : Arrive(v) \/ Handler(v) \/ Leave(v)
    \/ \E g \in Children : Exit(g) \/ Reader(g) \/ Watcher(g)

Spec == Init /\ [][Next]_vars

\* A request handler and a spawned task run on as long as the console does.  Two
\* things are assumed of a child, which no task sees to: while it lives it prints
\* another line (or none could be read), and not for ever only lines that are too
\* long.
Fairness ==
    /\ \A v \in Viewers : WF_vars(Handler(v))
    /\ \A g \in Children : WF_vars(Reader(g)) /\ SF_vars(Publish(g)) /\ WF_vars(Watcher(g))

FairSpec == Spec /\ Fairness

--------------------------------------------------------------------------------

\* However the viewers come and go, no two children run at the same time: every
\* tick of a second one would load the production databases again.
OneChild == \A g, h \in Children : child[g] = "alive" /\ child[h] = "alive" => g = h

\* A child that nobody looks at any more is ended ("the only failure mode of this
\* screen", state/monitor.rs:19-20).
UnwatchedEnds ==
    <>[](\A v \in Viewers : pc[v] = "away") => <>[](\A g \in Children : child[g] # "alive")

\* A viewer that has a child whose watcher is on duty is sent frames until it
\* leaves, however many lines are too long, unless the child ends by itself or a
\* line of it cannot be read, either of which ends the reader: the absence of the
\* others, however long, never ends a child under somebody who looks
\* (routes/monitor.rs:8).
WatchedIsServed ==
    \A v \in Viewers :
        (pc[v] = "watching" /\ \E g \in Children : child[g] = "alive" /\ watcher[g] = "watch") ~>
            \/ got[v] \/ pc[v] # "watching"
            \/ \E g \in Children : reader[g] = "ended" /\ watcher[g] = "watch"

\* The last frame of a child that was ended and released is given to the next
\* viewer as the present state (state/monitor.rs:117) only if the reader was in
\* the middle of publishing when it was aborted.
ReleasedFrameOnlyLate ==
    \A v \in Viewers : snap[v].current \/ reader[snap[v].frame] = "late"

=============================================================================
