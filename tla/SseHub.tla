------------------------------- MODULE SseHub --------------------------------
(***************************************************************************)
(* What the page of a running backup shows: the output of the child is     *)
(* read by two relays (src/web/job/stream.rs), published in the hub of the *)
(* job (src/web/sse.rs, src/web/state/live.rs), and received by the pages  *)
(* (the script of src/web/view/backup.rs); the task that waits for the     *)
(* child and a cancellation (src/web/routes/backup.rs) publish too.        *)
(*                                                                         *)
(* Publishing is two steps, the snapshot under its lock and then the       *)
(* channel; so is subscribing.  The channel keeps the newest Capacity      *)
(* events for a page that is slow.  A log event is the number of its line; *)
(* it is in no snapshot, and so is published in one step.  A line is       *)
(* printed when its relay reads it: what waits in a pipe is not seen by    *)
(* anybody, and may outlive the child that wrote it.                       *)
(*                                                                         *)
(* No progress event is published: relay_stdout makes one of a progress    *)
(* line on stdout, but a child prints progress on stderr only (start_json  *)
(* of src/cli/progress.rs), where it is a line like any other.  The        *)
(* summary on stdout becomes part of the done event.                       *)
(***************************************************************************)
EXTENDS Integers, Sequences, FiniteSets

CONSTANTS
    Pages,        \* browser pages
    Capacity,     \* CHANNEL_CAPACITY
    MaxLines,     \* bound: lines the child prints
    MaxDrops      \* bound: connections lost, per page

\* The events that can follow the last done event fit into the channel.
ASSUME HubAssumption ==
    /\ Capacity \in Nat /\ Capacity > 3
    /\ MaxLines \in Nat /\ MaxDrops \in Nat

VARIABLES
    end,         \* how the child ended
    relay,       \* relay_stdout and relay_stderr
    printed,     \* how many lines they have published
    completion,  \* the task that waits for the child
    canceller,   \* the handler and the task of a cancellation
    recorded,    \* the outcome in the index of jobs
    snapshot,    \* JobHub.snapshot
    channel,     \* everything sent so far; a page keeps its place in it
    registered,  \* LiveJobs has the hub
    page         \* the pages

hubVars == <<end, relay, printed, completion, canceller, recorded, snapshot, channel,
             registered, page>>
hub == <<snapshot, channel>>

Streams == {"stdout", "stderr"}
Outcomes == {"exit", "signal", "settled"}
Event(k, v) == [kind |-> k, value |-> v]
NoEvent == Event("none", 0)
IsEvent(e) == e.kind \in {"state", "log", "done"}

NoPage == [conn |-> "none", badge |-> "none", lines |-> 0, replay |-> <<>>, place |-> 0,
           gap |-> FALSE, lagged |-> FALSE, late |-> FALSE, drops |-> 0]

HubTypeOK ==
    /\ end \in {"none", "exit", "signal"}
    /\ relay \in [Streams -> {"reading", "ended"}]
    /\ printed \in 0 .. MaxLines
    /\ completion \in {"wait", "send", "record", "retain", "over"}
    /\ canceller \in {"idle", "announce", "cancel", "restore", "settle", "publish", "send", "over"}
    /\ recorded \in {"running"} \cup Outcomes
    /\ \A i \in DOMAIN channel : IsEvent(channel[i])
    /\ registered \in BOOLEAN
    /\ \A p \in Pages :
          /\ page[p].conn \in {"none", "loading", "snapped", "open", "lost", "ended", "done", "closed"}
          /\ page[p].place \in 0 .. Len(channel) /\ page[p].lines \in 0 .. MaxLines

HubInit ==
    /\ end = "none"
    /\ relay = [s \in Streams |-> "reading"]
    /\ printed = 0 /\ completion = "wait" /\ canceller = "idle" /\ recorded = "running"
    /\ snapshot = [state |-> Event("state", "running"), done |-> NoEvent]
    /\ channel = <<>> /\ registered = TRUE
    /\ page = [p \in Pages |-> NoPage]

\* publish: first the snapshot, under its lock ...
Keep(e) == snapshot' = [snapshot EXCEPT ![e.kind] = e]
\* ... and then the channel.
Send(e) == channel' = Append(channel, e)

-----------------------------------------------------------------------------
(* The child *)

ProcessExits ==
    /\ end = "none"
    /\ end' = "exit"
    /\ UNCHANGED <<relay, printed, completion, canceller, recorded, hub, registered, page>>

-----------------------------------------------------------------------------
(* relay_stdout and relay_stderr *)

\* A line is published as it is; a read error is the last one.
RelayLog(s) ==
    /\ relay[s] = "reading" /\ printed < MaxLines
    /\ \E next \in {"reading", "ended"} : relay' = [relay EXCEPT ![s] = next]
    /\ printed' = printed + 1
    /\ Send(Event("log", printed'))
    /\ UNCHANGED <<end, completion, canceller, recorded, snapshot, registered, page>>

\* The end of the output.
RelayEnds(s) ==
    /\ relay[s] = "reading" /\ end # "none"
    /\ relay' = [relay EXCEPT ![s] = "ended"]
    /\ UNCHANGED <<end, printed, completion, canceller, recorded, hub, registered, page>>

-----------------------------------------------------------------------------
(* The task that waits for the child *)

\* Bug: the outcome is published as soon as the child has ended.
OnlyTheChild == end # "none"

RelaysEnded == \A s \in Streams : relay[s] = "ended"

\* Bug: the done event is only sent.
ForgetDone == UNCHANGED snapshot

\* publish of the done event, its first half.
KeepOutcome == Keep(Event("done", end))

\* wait, and then both relays, before anything is published.
Completed ==
    /\ completion = "wait" /\ end # "none" /\ RelaysEnded
    /\ KeepOutcome
    /\ completion' = "send"
    /\ UNCHANGED <<end, relay, printed, canceller, recorded, channel, registered, page>>

SendOutcome ==
    /\ completion = "send"
    /\ Send(Event("done", end))
    /\ completion' = "record"
    /\ UNCHANGED <<end, relay, printed, canceller, recorded, snapshot, registered, page>>

RecordOutcome ==
    /\ completion = "record"
    /\ recorded' = end
    /\ completion' = "retain"
    /\ UNCHANGED <<end, relay, printed, canceller, hub, registered, page>>

\* HUB_RETAIN_AFTER_DONE has passed.
UnregisterHub ==
    /\ completion = "retain"
    /\ registered' = FALSE
    /\ completion' = "over"
    /\ UNCHANGED <<end, relay, printed, canceller, recorded, hub, page>>

-----------------------------------------------------------------------------
(* A cancellation *)

CancelRequested ==
    /\ canceller = "idle" /\ recorded = "running" /\ registered
    /\ Keep(Event("state", "cancelling"))
    /\ canceller' = "announce"
    /\ UNCHANGED <<end, relay, printed, completion, recorded, channel, registered, page>>

CancelAnnounced ==
    /\ canceller = "announce"
    /\ Send(Event("state", "cancelling"))
    /\ canceller' = "cancel"
    /\ UNCHANGED <<end, relay, printed, completion, recorded, snapshot, registered, page>>

\* Refused, or the signal could not be sent: restore_running_badge.
CancelRefused ==
    /\ canceller = "cancel"
    /\ Keep(Event("state", "running"))
    /\ canceller' = "restore"
    /\ UNCHANGED <<end, relay, printed, completion, recorded, channel, registered, page>>

BadgeRestored ==
    /\ canceller = "restore"
    /\ Send(Event("state", "running"))
    /\ canceller' = "over"
    /\ UNCHANGED <<end, relay, printed, completion, recorded, snapshot, registered, page>>

CancelKills ==
    /\ canceller = "cancel"
    /\ end' = IF end = "none" THEN "signal" ELSE end
    /\ canceller' = "settle"
    /\ UNCHANGED <<relay, printed, completion, recorded, hub, registered, page>>

\* settle_cancelled_job: somebody else has recorded the end ...
CancelSettled ==
    /\ canceller = "settle" /\ recorded # "running"
    /\ canceller' = "over"
    /\ UNCHANGED <<end, relay, printed, completion, recorded, hub, registered, page>>

\* ... or nobody has, for CANCEL_SETTLE_POLLS polls.
CancelRecords ==
    /\ canceller = "settle" /\ recorded = "running"
    /\ recorded' = "settled"
    /\ canceller' = "publish"
    /\ UNCHANGED <<end, relay, printed, completion, hub, registered, page>>

CancelPublishes ==
    /\ canceller = "publish"
    /\ Keep(Event("done", "settled"))
    /\ canceller' = "send"
    /\ UNCHANGED <<end, relay, printed, completion, recorded, channel, registered, page>>

CancelSends ==
    /\ canceller = "send"
    /\ Send(Event("done", "settled"))
    /\ canceller' = "over"
    /\ UNCHANGED <<end, relay, printed, completion, recorded, snapshot, registered, page>>

-----------------------------------------------------------------------------
(* A page *)

\* running_body and state_badge: the page as the index has it.
OpenPage(p) ==
    /\ page[p].conn = "none"
    /\ page' = [page EXCEPT ![p].conn = "loading", ![p].badge = recorded]
    /\ UNCHANGED <<end, relay, printed, completion, canceller, recorded, hub, registered>>

\* The last event of each kind there was, the outcome at the end.
Replay ==
    IF IsEvent(snapshot.done) THEN <<snapshot.state, snapshot.done>> ELSE <<snapshot.state>>

\* EventSource asks for the events; subscribe reads the snapshot.
ConnectPage(p) ==
    /\ page[p].conn \in {"loading", "lost"} /\ registered
    /\ page' = [page EXCEPT ![p].conn = "snapped", ![p].replay = Replay, ![p].place = Len(channel),
                            ![p].gap = FALSE, ![p].lagged = FALSE]
    /\ UNCHANGED <<end, relay, printed, completion, canceller, recorded, hub, registered>>

\* subscribe joins the channel: what was sent since the snapshot is not seen, and
\* no line from before is.
JoinChannel(p) ==
    /\ page[p].conn = "snapped"
    /\ page' = [page EXCEPT ![p].conn = "open", ![p].place = Len(channel), ![p].lines = printed,
          ![p].gap = \E i \in page[p].place + 1 .. Len(channel) :
                        /\ channel[i].kind # "log"
                        /\ \A j \in DOMAIN page[p].replay : page[p].replay[j] # channel[i]]
    /\ UNCHANGED <<end, relay, printed, completion, canceller, recorded, hub, registered>>

\* The page is not subscribed any more.
Detached(pg) == [pg EXCEPT !.replay = <<>>, !.place = 0, !.drops = 0]

\* The hub is gone: 404, after which EventSource does not try again.
NotFound(p) ==
    /\ page[p].conn \in {"loading", "lost", "ended"} /\ ~registered
    /\ page' = [page EXCEPT ![p] = Detached([page[p] EXCEPT !.badge = "disconnected",
                                 !.conn = "closed", !.late = page[p].conn # "ended"])]
    /\ UNCHANGED <<end, relay, printed, completion, canceller, recorded, hub, registered>>

\* The listeners of RUNNING_SCRIPT.
Shown(pg, e) ==
    CASE e.kind = "state" -> [pg EXCEPT !.badge = e.value]
      [] e.kind = "log"   -> [pg EXCEPT !.lines = @ + 1]
      [] e.kind = "done"  -> Detached([pg EXCEPT !.badge = e.value, !.conn = "done"])

ShowReplay(p) ==
    /\ page[p].conn = "open" /\ page[p].replay # <<>>
    /\ page' = [page EXCEPT ![p] = Shown([page[p] EXCEPT !.replay = Tail(@)], Head(page[p].replay))]
    /\ UNCHANGED <<end, relay, printed, completion, canceller, recorded, hub, registered>>

\* broadcast_stream: the next event, or after a lag the oldest one kept.
ShowNext(p) ==
    LET lagging == Len(channel) - page[p].place > Capacity
        next == IF lagging THEN Len(channel) - Capacity + 1 ELSE page[p].place + 1
    IN /\ page[p].conn = "open" /\ page[p].replay = <<>> /\ page[p].place < Len(channel)
       /\ page' = [page EXCEPT ![p] =
             Shown([page[p] EXCEPT !.place = next, !.lagged = @ \/ lagging], channel[next])]
       /\ UNCHANGED <<end, relay, printed, completion, canceller, recorded, hub, registered>>

\* Nobody holds the hub any more: the channel is closed and the stream ends.
HubDropped == ~registered /\ completion = "over" /\ canceller \in {"idle", "over"}

StreamEnds(p) ==
    /\ page[p].conn = "open" /\ page[p].replay = <<>> /\ page[p].place = Len(channel)
    /\ HubDropped
    /\ page' = [page EXCEPT ![p].conn = "ended", ![p].badge = "disconnected"]
    /\ UNCHANGED <<end, relay, printed, completion, canceller, recorded, hub, registered>>

\* The connection breaks; EventSource opens another one.
ConnectionLost(p) ==
    /\ page[p].conn = "open" /\ page[p].drops < MaxDrops
    /\ page' = [page EXCEPT ![p].conn = "lost", ![p].badge = "disconnected",
                            ![p].replay = <<>>, ![p].place = 0, ![p].drops = @ + 1]
    /\ UNCHANGED <<end, relay, printed, completion, canceller, recorded, hub, registered>>

-----------------------------------------------------------------------------

Relays == \E s \in Streams : RelayLog(s) \/ RelayEnds(s)
Completion == Completed \/ SendOutcome \/ RecordOutcome \/ UnregisterHub
Cancellation == \/ CancelAnnounced \/ CancelRefused \/ BadgeRestored \/ CancelKills
                \/ CancelSettled \/ CancelRecords \/ CancelPublishes \/ CancelSends
Browser(p) == \/ ConnectPage(p) \/ JoinChannel(p) \/ NotFound(p) \/ ShowReplay(p)
              \/ ShowNext(p) \/ StreamEnds(p)

HubNext ==
    \/ ProcessExits \/ Relays \/ Completion \/ CancelRequested \/ Cancellation
    \/ \E p \in Pages : OpenPage(p) \/ Browser(p) \/ ConnectionLost(p)

HubSpec == HubInit /\ [][HubNext]_hubVars

-----------------------------------------------------------------------------
(* Properties *)

\* A page gives up without having shown the outcome, however slow it was and
\* whatever it lost on the way, only if it asked for the events after the hub
\* was taken down, or if something was sent between its snapshot and its
\* subscription.
EndIsShown ==
    \A p \in Pages : page[p].conn = "closed" => page[p].late \/ page[p].gap

\* A page that shows the outcome of the child has shown every line of its output
\* since it joined, unless it lagged: a line that came after the outcome would be
\* lost, for the page closes its stream then and no snapshot has lines
\* (routes/backup.rs:317-333).  A settlement does not wait for the output.
OutputIsShown ==
    \A p \in Pages :
       page[p].conn = "done" /\ page[p].badge # "settled" /\ ~page[p].lagged =>
          page[p].lines = printed
=============================================================================
