-------------------------- MODULE LiveMonitorProofs --------------------------
(***************************************************************************)
(* The live monitor first, then the hub of a backup and its pages.         *)
(*                                                                         *)
(* There is never a second child, for any number of viewers, any grace and *)
(* any length of the run.  The argument: a claim (LiveMonitor.running) has *)
(* one holder, a request about to start a child or the watcher of a child  *)
(* up to its release, and a child is alive only while its watcher has not  *)
(* killed it.  And a frame outlives its child only in one way: a reader    *)
(* that had read a line when it was aborted publishes it after the release *)
(* has cleared the frame.                                                  *)
(***************************************************************************)
EXTENDS LiveMonitor, SseHub, FiniteSetTheorems, SequenceTheorems, TLAPS

Present == {v \in Viewers : pc[v] # "away"}

\* The counter is the number of the requests that are open.
Counted == viewers = Cardinality(Present)

Starts(v) == pc[v] = "spawn"

Guards(g) == watcher[g] \in {"watch", "kill", "abort", "release"}

\* The claim has at most one holder.
Claimed ==
    /\ \A v \in Viewers : Starts(v) => running
    /\ \A g \in Children : Guards(g) => running
    /\ \A v, w \in Viewers : Starts(v) /\ Starts(w) => v = w
    /\ \A g, h \in Children : Guards(g) /\ Guards(h) => g = h
    /\ \A v \in Viewers, g \in Children : ~ (Starts(v) /\ Guards(g))

\* A child that runs has a watcher that has not ended it.
Watched ==
    /\ \A g \in Children : child[g] = "alive" => watcher[g] \in {"watch", "kill"}
    /\ \A g \in Children : child[g] = "none" => empty[g] = 0 /\ watcher[g] = "none"
    /\ \A g \in Children : watcher[g] = "watch" => empty[g] < Grace

Released(g) == watcher[g] \in {"release", "clear", "done"}

\* A reader was aborted if and only if its child is being released; the frame of a
\* child that was released is that of a late reader.
LateFrames ==
    /\ \A g \in Children : child[g] = "none" => reader[g] = "none"
    /\ \A g \in Children : reader[g] \in {"aborted", "late"} => Released(g)
    /\ \A g \in Children : Released(g) => reader[g] \in {"aborted", "late", "ended"}
    /\ lastFrame \in Children /\ watcher[lastFrame] = "done" => reader[lastFrame] = "late"
    /\ \A v \in Viewers : ~ snap[v].current =>
           snap[v].frame \in Children /\ reader[snap[v].frame] = "late"

IInv == TypeOK /\ Counted /\ Claimed /\ Watched

--------------------------------------------------------------------------------

USE MonitorAssumption DEF Children

\* The counter follows the requests: a new one adds one, a closed one takes it off.
LEMMA Counting ==
    ASSUME NEW S, IsFiniteSet(S), NEW T \in SUBSET S, NEW x \in S
    PROVE  /\ Cardinality(T) \in Nat
           /\ x \notin T => Cardinality(T \cup {x}) = Cardinality(T) + 1
           /\ x \in T => Cardinality(T \ {x}) = Cardinality(T) - 1 /\ Cardinality(T) > 0
<1>1. IsFiniteSet(T)
  BY FS_Subset
<1>2. Cardinality(T) \in Nat
  BY <1>1, FS_CardinalityType
<1>3. x \notin T => Cardinality(T \cup {x}) = Cardinality(T) + 1
  BY <1>1, FS_AddElement
<1>4. x \in T => Cardinality(T \ {x}) = Cardinality(T) - 1
  BY <1>1, FS_RemoveElement
<1>5. x \in T => Cardinality(T) # 0
  BY <1>1, FS_EmptySet
<1>. QED
  BY <1>2, <1>3, <1>4, <1>5

LEMMA InitIInv == Init => IInv
<1>. SUFFICES ASSUME Init PROVE IInv
  OBVIOUS
<1>1. TypeOK
  <2>1. NoSnap \in [frame : Children \cup {0}, current : BOOLEAN]
    BY DEF NoSnap
  <2>2. snap \in [Viewers -> [frame : Children \cup {0}, current : BOOLEAN]]
    BY <2>1 DEF Init
  <2>3. got \in [Viewers -> BOOLEAN] /\ running \in BOOLEAN
    BY DEF Init
  <2>. QED
    BY <2>2, <2>3 DEF Init, TypeOK
<1>2. Counted
  <2>1. Present = {}
    BY DEF Init, Present
  <2>. QED
    BY <2>1, FS_EmptySet DEF Init, Counted
<1>3. Claimed /\ Watched
  BY DEF Init, Claimed, Watched, Starts, Guards
<1>. QED
  BY <1>1, <1>2, <1>3 DEF IInv

\* Every step keeps the counter right, and with it the counter's type.
LEMMA CountedStep ==
    ASSUME TypeOK, Counted, [Next]_vars
    PROVE  Counted' /\ viewers' \in Nat
<1>1. ASSUME NEW v \in Viewers, Arrive(v)
      PROVE  Counted' /\ viewers' \in Nat
  <2>1. Present' = Present \cup {v} /\ v \notin Present
    BY <1>1 DEF Arrive, Present, TypeOK
  <2>2. Present \in SUBSET Viewers
    BY DEF Present
  <2>. QED
    BY <1>1, <2>1, <2>2, Counting DEF Arrive, Counted
<1>2. ASSUME NEW v \in Viewers, Leave(v)
      PROVE  Counted' /\ viewers' \in Nat
  <2>1. Present' = Present \ {v} /\ v \in Present
    BY <1>2 DEF Leave, Present, TypeOK
  <2>2. Present \in SUBSET Viewers
    BY DEF Present
  <2>. QED
    <3>1. viewers' = viewers - 1 /\ viewers = Cardinality(Present)
      BY <1>2 DEF Leave, Counted
    <3>2. /\ Cardinality(Present) \in Nat /\ Cardinality(Present) > 0
          /\ Cardinality(Present \ {v}) = Cardinality(Present) - 1
      BY <2>1, <2>2, Counting
    <3>. QED
      BY <2>1, <3>1, <3>2 DEF Counted
<1>3. ASSUME viewers' = viewers, \A v \in Viewers : pc'[v] = "away" <=> pc[v] = "away"
      PROVE  Counted' /\ viewers' \in Nat
  BY <1>3 DEF Counted, Present, TypeOK
<1>4. ASSUME NEW v \in Viewers, Handler(v)
      PROVE  viewers' = viewers /\ \A w \in Viewers : pc'[w] = "away" <=> pc[w] = "away"
  BY <1>4 DEF Handler, Subscribe, Claim, Spawn, SpawnFails, ClearFrame, TypeOK
<1>5. ASSUME NEW g \in Children, Exit(g) \/ Reader(g) \/ Watcher(g)
      PROVE  viewers' = viewers /\ pc' = pc
  BY <1>5 DEF Exit, Reader, TakeLine, Publish, Discard, EndOfOutput, ReadError, Watcher, Check, Kill, Abort,
              Release, Clear, request
<1>6. CASE UNCHANGED vars
  BY <1>3, <1>6 DEF vars
<1>. QED
  BY <1>1, <1>2, <1>3, <1>4, <1>5, <1>6 DEF Next

LEMMA ClaimedStep ==
    ASSUME TypeOK, Claimed, Watched, [Next]_vars
    PROVE  Claimed' /\ Watched'
<1>. USE DEF TypeOK, Claimed, Watched, Starts, Guards, tasks, request
<1>1. ASSUME NEW v \in Viewers, Arrive(v) \/ Subscribe(v) \/ ClearFrame(v) \/ Leave(v)
      PROVE  Claimed' /\ Watched'
  <2>1. /\ UNCHANGED <<running, tasks>>
        /\ \A w \in Viewers : Starts(w)' <=> Starts(w)
    BY <1>1 DEF Arrive, Subscribe, ClearFrame, Leave
  <2>. QED
    BY <2>1
<1>2. ASSUME NEW v \in Viewers, Claim(v)
      PROVE  Claimed' /\ Watched'
  BY <1>2 DEF Claim
<1>3. ASSUME NEW v \in Viewers, NEW g \in Children, Spawn(v, g)
      PROVE  Claimed' /\ Watched'
  BY <1>3 DEF Spawn
<1>4. ASSUME NEW v \in Viewers, SpawnFails(v)
      PROVE  Claimed' /\ Watched'
  BY <1>4 DEF SpawnFails
<1>5. ASSUME NEW g \in Children, Exit(g) \/ Reader(g)
      PROVE  Claimed' /\ Watched'
  BY <1>5 DEF Exit, Reader, TakeLine, Publish, Discard, EndOfOutput, ReadError
<1>6. ASSUME NEW g \in Children, Check(g)
      PROVE  Claimed' /\ Watched'
  BY <1>6 DEF Check
<1>7. ASSUME NEW g \in Children, Kill(g) \/ Abort(g) \/ Release(g) \/ Clear(g)
      PROVE  Claimed' /\ Watched'
  <2>1. CASE Kill(g)
    BY <2>1 DEF Kill
  <2>2. CASE Abort(g)
    BY <2>2 DEF Abort
  <2>3. CASE Release(g)
    BY <2>3 DEF Release
  <2>4. CASE Clear(g)
    BY <2>4 DEF Clear
  <2>. QED
    BY <1>7, <2>1, <2>2, <2>3, <2>4
<1>8. CASE UNCHANGED vars
  BY <1>8 DEF vars
<1>. QED
  BY <1>1, <1>2, <1>3, <1>4, <1>5, <1>6, <1>7, <1>8 DEF Next, Handler, Watcher

LEMMA TypeStep ==
    ASSUME TypeOK, Watched, viewers' \in Nat, [Next]_vars
    PROVE  TypeOK'
<1>. USE DEF TypeOK, Watched, tasks, request
<1>1. ASSUME NEW v \in Viewers, Arrive(v) \/ Subscribe(v) \/ Leave(v)
      PROVE  TypeOK'
  <2>. DEFINE Snaps == [frame : Children \cup {0}, current : BOOLEAN]
  <2>1. CASE Arrive(v)
    BY <2>1 DEF Arrive
  <2>2. CASE Subscribe(v)
    <3>. DEFINE fresh == lastFrame \in Children => watcher[lastFrame] # "done"
    <3>1. [frame |-> lastFrame, current |-> fresh] \in Snaps
      <4>1. fresh \in BOOLEAN
        OBVIOUS
      <4>. HIDE DEF fresh
      <4>. QED
        BY <4>1
    <3>2. snap' = [snap EXCEPT ![v] = [frame |-> lastFrame, current |-> fresh]]
      BY <2>2 DEF Subscribe
    <3>. HIDE DEF fresh
    <3>3. snap' \in [Viewers -> Snaps]
      BY <3>1, <3>2
    <3>. QED
      BY <2>2, <3>3 DEF Subscribe
  <2>3. CASE Leave(v)
    <3>1. NoSnap \in Snaps
      BY DEF NoSnap
    <3>. QED
      BY <2>3, <3>1 DEF Leave
  <2>. QED
    BY <1>1, <2>1, <2>2, <2>3
<1>2. ASSUME NEW v \in Viewers, Claim(v) \/ SpawnFails(v) \/ ClearFrame(v)
      PROVE  TypeOK'
  <2>1. CASE Claim(v)
    BY <2>1 DEF Claim
  <2>2. CASE SpawnFails(v)
    BY <2>2 DEF SpawnFails
  <2>3. CASE ClearFrame(v)
    BY <2>3 DEF ClearFrame
  <2>. QED
    BY <1>2, <2>1, <2>2, <2>3
<1>3. ASSUME NEW v \in Viewers, NEW g \in Children, Spawn(v, g)
      PROVE  TypeOK'
  BY <1>3 DEF Spawn
<1>4. ASSUME NEW g \in Children, Exit(g) \/ TakeLine(g) \/ Discard(g) \/ EndOfOutput(g) \/ ReadError(g)
      PROVE  TypeOK'
  <2>1. CASE Exit(g)
    BY <2>1 DEF Exit
  <2>2. CASE TakeLine(g)
    BY <2>2 DEF TakeLine
  <2>3. CASE EndOfOutput(g)
    BY <2>3 DEF EndOfOutput
  <2>4. CASE Discard(g)
    BY <2>4 DEF Discard
  <2>5. CASE ReadError(g)
    BY <2>5 DEF ReadError
  <2>. QED
    BY <1>4, <2>1, <2>2, <2>3, <2>4, <2>5
<1>5. ASSUME NEW g \in Children, Publish(g)
      PROVE  TypeOK'
  BY <1>5 DEF Publish
<1>6. ASSUME NEW g \in Children, Check(g)
      PROVE  TypeOK'
  BY <1>6 DEF Check
<1>7. ASSUME NEW g \in Children, Kill(g) \/ Abort(g) \/ Release(g) \/ Clear(g)
      PROVE  TypeOK'
  <2>1. CASE Kill(g)
    BY <2>1 DEF Kill
  <2>2. CASE Abort(g)
    BY <2>2 DEF Abort
  <2>3. CASE Release(g)
    BY <2>3 DEF Release
  <2>4. CASE Clear(g)
    BY <2>4 DEF Clear
  <2>. QED
    BY <1>7, <2>1, <2>2, <2>3, <2>4
<1>8. CASE UNCHANGED vars
  BY <1>8 DEF vars
<1>. QED
  BY <1>1, <1>2, <1>3, <1>4, <1>5, <1>6, <1>7, <1>8 DEF Next, Handler, Reader, Watcher

\* The types, the exact count of the viewers and the single holder of the claim are
\* kept by every handler and task.
THEOREM Invariance == Spec => []IInv
<1>1. IInv /\ [Next]_vars => IInv'
  BY CountedStep, ClaimedStep, TypeStep DEF IInv
<1>. QED
  BY <1>1, InitIInv, PTL DEF Spec

\* No two children run at the same time (routes/monitor.rs:152-153).
THEOREM SingleChild == Spec => []OneChild
<1>1. IInv => OneChild
  BY DEF IInv, Claimed, Watched, Guards, OneChild
<1>. QED
  BY <1>1, Invariance, PTL

\* A frame of a released child is published only by its late reader.
LEMMA LateFramesStep ==
    ASSUME TypeOK, Watched, LateFrames, [Next]_vars
    PROVE  LateFrames'
<1>t. /\ reader \in [Children -> {"none", "reading", "holding", "aborted", "late", "ended"}]
      /\ watcher \in [Children -> {"none", "watch", "kill", "abort", "release", "clear", "done"}]
      /\ child \in [Children -> {"none", "alive", "dead"}]
      /\ snap \in [Viewers -> [frame : Children \cup {0}, current : BOOLEAN]]
      /\ lastFrame \in Children \cup {0} /\ 0 \notin Children
  BY DEF TypeOK
<1>. USE DEF LateFrames, Released
<1>s. ASSUME UNCHANGED <<snap, child, reader, watcher>>, lastFrame' \in {lastFrame, 0}
      PROVE  LateFrames'
  BY <1>s, <1>t
<1>1. ASSUME NEW v \in Viewers, Leave(v)
      PROVE  LateFrames'
  <2>1. /\ UNCHANGED <<child, reader, watcher, lastFrame>>
        /\ snap'[v].current /\ \A w \in Viewers \ {v} : snap'[w] = snap[w]
    BY <1>1, <1>t DEF Leave, NoSnap, tasks
  <2>. QED
    BY <2>1
<1>2. ASSUME NEW v \in Viewers, Subscribe(v)
      PROVE  LateFrames'
  <2>. DEFINE fresh == lastFrame \in Children => watcher[lastFrame] # "done"
  <2>1. /\ UNCHANGED <<child, reader, watcher, lastFrame>>
        /\ snap' = [snap EXCEPT ![v] = [frame |-> lastFrame, current |-> fresh]]
    BY <1>2 DEF Subscribe, tasks
  <2>2. snap'[v].frame = lastFrame /\ (snap'[v].current <=> fresh)
    <3>. HIDE DEF fresh
    <3>. QED
      BY <1>t, <2>1
  <2>3. \A w \in Viewers \ {v} : snap'[w] = snap[w]
    BY <1>t, <2>1
  <2>. QED
    BY <1>t, <2>1, <2>2, <2>3
<1>3. ASSUME NEW v \in Viewers, Arrive(v) \/ Claim(v) \/ SpawnFails(v) \/ ClearFrame(v)
      PROVE  LateFrames'
  BY <1>3, <1>s DEF Arrive, Claim, SpawnFails, ClearFrame, tasks
<1>4. ASSUME NEW v \in Viewers, NEW g \in Children, Spawn(v, g)
      PROVE  LateFrames'
  <2>1. /\ child[g] = "none" /\ child' = [child EXCEPT ![g] = "alive"]
        /\ reader' = [reader EXCEPT ![g] = "reading"]
        /\ watcher' = [watcher EXCEPT ![g] = "watch"]
        /\ UNCHANGED <<snap, lastFrame>>
    BY <1>4 DEF Spawn
  <2>2. reader[g] = "none"
    BY <2>1
  <2>. QED
    BY <1>t, <2>1, <2>2
<1>5. ASSUME NEW g \in Children, Exit(g) \/ TakeLine(g) \/ EndOfOutput(g) \/ ReadError(g)
      PROVE  LateFrames'
  <2>1. /\ UNCHANGED <<snap, lastFrame, watcher>>
        /\ child[g] # "none" \/ child' = child
        /\ \/ reader' = reader
           \/ reader[g] = "reading" /\ reader' = [reader EXCEPT ![g] = "holding"]
           \/ reader[g] = "reading" /\ reader' = [reader EXCEPT ![g] = "ended"]
        /\ child' = child \/ child' = [child EXCEPT ![g] = "dead"]
    <3>1. CASE Exit(g)
      BY <3>1 DEF Exit, request
    <3>2. CASE TakeLine(g)
      BY <3>2 DEF TakeLine, request
    <3>3. CASE EndOfOutput(g)
      BY <3>3 DEF EndOfOutput, request
    <3>4. CASE ReadError(g)
      BY <3>4 DEF ReadError, request
    <3>. QED
      BY <1>5, <3>1, <3>2, <3>3, <3>4
  <2>. QED
    BY <1>t, <2>1
<1>6. ASSUME NEW g \in Children, Publish(g)
      PROVE  LateFrames'
  <2>1. /\ reader[g] \in {"holding", "aborted"} /\ lastFrame' = g
        /\ reader' = [reader EXCEPT ![g] = IF reader[g] = "aborted" THEN "late" ELSE "reading"]
        /\ UNCHANGED <<snap, child, watcher>>
    BY <1>6, <1>t DEF Publish
  <2>2. CASE reader[g] = "aborted"
    BY <1>t, <2>1, <2>2
  <2>3. CASE reader[g] = "holding"
    BY <1>t, <2>1, <2>3
  <2>. QED
    BY <2>1, <2>2, <2>3
<1>11. ASSUME NEW g \in Children, Discard(g)
      PROVE  LateFrames'
  <2>1. /\ reader[g] \in {"holding", "aborted"} /\ UNCHANGED <<snap, lastFrame, child, watcher>>
        /\ reader' = [reader EXCEPT ![g] = IF reader[g] = "aborted" THEN "ended" ELSE "reading"]
    BY <1>11, <1>t DEF Discard, request
  <2>2. CASE reader[g] = "aborted"
    BY <1>t, <2>1, <2>2
  <2>3. CASE reader[g] = "holding"
    BY <1>t, <2>1, <2>3
  <2>. QED
    BY <2>1, <2>2, <2>3
<1>7. ASSUME NEW g \in Children, Check(g) \/ Kill(g) \/ Release(g)
      PROVE  LateFrames'
  <2>1. /\ UNCHANGED <<snap, lastFrame, reader>>
        /\ child' = child \/ (child' = [child EXCEPT ![g] = "dead"] /\ watcher[g] = "kill")
        /\ \/ watcher' = watcher
           \/ watcher[g] = "watch" /\ watcher' = [watcher EXCEPT ![g] = "kill"]
           \/ watcher[g] = "kill" /\ watcher' = [watcher EXCEPT ![g] = "abort"]
           \/ watcher[g] = "release" /\ watcher' = [watcher EXCEPT ![g] = "clear"]
    <3>1. CASE Check(g)
      BY <1>t, <3>1 DEF Check, request
    <3>2. CASE Kill(g)
      BY <3>2 DEF Kill, request
    <3>3. CASE Release(g)
      BY <3>3 DEF Release, request
    <3>. QED
      BY <1>7, <3>1, <3>2, <3>3
  <2>2. ASSUME NEW h \in Children PROVE Released(h)' <=> Released(h)
    <3>1. CASE h = g
      BY <1>t, <2>1, <3>1
    <3>2. CASE h # g
      BY <1>t, <2>1, <3>2
    <3>. QED
      BY <3>1, <3>2
  <2>3. ASSUME NEW h \in Children PROVE watcher'[h] = "done" <=> watcher[h] = "done"
    <3>1. CASE h = g
      BY <1>t, <2>1, <3>1
    <3>2. CASE h # g
      BY <1>t, <2>1, <3>2
    <3>. QED
      BY <3>1, <3>2
  <2>4. ASSUME NEW h \in Children, child'[h] = "none" PROVE child[h] = "none"
    BY <1>t, <2>1, <2>4
  <2>. HIDE DEF Released
  <2>. QED
    BY <1>t, <2>1, <2>2, <2>3, <2>4
<1>8. ASSUME NEW g \in Children, Abort(g)
      PROVE  LateFrames'
  <2>1. /\ UNCHANGED <<snap, lastFrame, child>> /\ watcher[g] = "abort"
        /\ reader' = [reader EXCEPT ![g] = IF reader[g] = "holding" THEN "aborted" ELSE "ended"]
        /\ watcher' = [watcher EXCEPT ![g] = "release"]
    BY <1>8, <1>t DEF Abort, request
  <2>2. reader[g] # "late" /\ child[g] # "none"
    BY <2>1 DEF Watched
  <2>. QED
    BY <1>t, <2>1, <2>2
<1>9. ASSUME NEW g \in Children, Clear(g)
      PROVE  LateFrames'
  BY <1>9, <1>t DEF Clear, request
<1>10. CASE UNCHANGED vars
  BY <1>10, <1>s DEF vars
<1>. QED
  BY <1>1, <1>2, <1>3, <1>4, <1>5, <1>6, <1>7, <1>8, <1>9, <1>10, <1>11
     DEF Next, Handler, Reader, Watcher

\* A viewer that was given the frame of a child that had been released was given
\* that of a reader aborted in the middle of publishing (state/monitor.rs:117).
THEOREM StaleFrameIsLate == Spec => []ReleasedFrameOnlyLate
<1>1. Init => LateFrames
  BY DEF Init, LateFrames, Released, NoSnap
<1>2. IInv /\ LateFrames /\ [Next]_vars => LateFrames'
  BY LateFramesStep DEF IInv
<1>3. LateFrames => ReleasedFrameOnlyLate
  BY DEF LateFrames, ReleasedFrameOnlyLate
<1>. QED
  BY <1>1, <1>2, <1>3, Invariance, PTL DEF Spec


-----------------------------------------------------------------------------
(* The hub of a backup and its pages, for any number of pages, lines and   *)
(* lost connections and any capacity.  What a page shows in the end        *)
(* depends on events it gets on two ways, in the replay of a snapshot and  *)
(* in the channel.  The lines are in the channel in the order in which     *)
(* they were read, and the outcome after all of them; what was published   *)
(* about the end is in the snapshot before it is in the channel (HubOnly). *)
(* A page has shown, or joined after, exactly the lines before its place   *)
(* in the channel, unless it lagged, and expects the done event either in  *)
(* its replay or ahead in the channel, so near to the end that no lag      *)
(* skips it (PageIsSound).                                                 *)

Words == {"none", "running", "cancelling", "disconnected"} \cup Outcomes
Conns == {"none", "loading", "snapped", "open", "lost", "ended", "done", "closed"}

\* Events that carry a number, and events that carry a word.
Marks == [kind : {"log"}, value : Nat]
Notes == [kind : {"state", "done"}, value : Words]
HubEvents == Marks \cup Notes

Snapshots == [state : [kind : {"state"}, value : Words],
              done : {NoEvent} \cup [kind : {"done"}, value : Words]]

HubPages == [conn : Conns, badge : Words, lines : Nat, replay : Seq(HubEvents), place : Nat,
             gap : BOOLEAN, lagged : BOOLEAN, late : BOOLEAN, drops : Nat]

HubShape ==
    /\ end \in {"none", "exit", "signal"}
    /\ completion \in {"wait", "send", "record", "retain", "over"}
    /\ canceller \in {"idle", "announce", "cancel", "restore", "settle", "publish", "send", "over"}
    /\ recorded \in Words
    /\ relay \in [Streams -> {"reading", "ended"}] /\ printed \in Nat
    /\ snapshot \in Snapshots /\ channel \in Seq(HubEvents)
    /\ page \in [Pages -> HubPages]

\* The channel has every line, and in the order of reading.
LinesInOrder ==
    /\ \A i \in 1 .. Len(channel) : channel[i].kind = "log" => channel[i].value \in 1 .. printed
    /\ \A n \in 1 .. printed : \E i \in 1 .. Len(channel) : channel[i] = Event("log", n)
    /\ \A i, j \in 1 .. Len(channel) :
          i < j /\ channel[i].kind = "log" /\ channel[j].kind = "log" => channel[i].value < channel[j].value

Sent == {"record", "retain", "over"}

\* How many events a cancellation still publishes.
Left == IF canceller \in {"idle", "announce"} THEN 2 ELSE IF canceller = "over" THEN 0 ELSE 1

IsOutcome(e) == e.kind = "done" /\ e.value # "settled"

\* After place n there is a done event that the channel does not lose.
DoneAhead(n) ==
    \E i \in 1 .. Len(channel) :
        i > n /\ channel[i].kind = "done" /\ Len(channel) - i + Left <= 2

\* The outcome comes after every line; what was published about the end is in the
\* snapshot first.
EndComesLast ==
    /\ completion # "wait" => RelaysEnded /\ end \in {"exit", "signal"}
    /\ completion # "wait" \/ canceller = "send" => snapshot.done.kind = "done"
    /\ (\E i \in 1 .. Len(channel) : channel[i].kind = "done") => snapshot.done.kind = "done"
    /\ IsOutcome(snapshot.done) => completion # "wait"
    /\ \A i \in 1 .. Len(channel) : IsOutcome(channel[i]) =>
          /\ completion \in Sent
          /\ \A j \in 1 .. Len(channel) : channel[j].kind = "log" => j < i
    /\ completion \in Sent => DoneAhead(0)

HasDone(s) == \E j \in 1 .. Len(s) : s[j].kind = "done"

\* What a page has of a snapshot; it joined after the last line if that had an outcome.
ReplayIsSound(pg) ==
    \A j \in 1 .. Len(pg.replay) :
       /\ pg.replay[j].kind \in {"state", "done"}
       /\ pg.replay[j].kind = "done" => j = Len(pg.replay)
       /\ IsOutcome(pg.replay[j]) =>
             completion # "wait" /\ (pg.conn = "open" /\ ~ pg.lagged => pg.lines = printed)

\* The lines before place n are those up to line m.
LinesUpTo(n, m) ==
    /\ m <= printed
    /\ \A i \in 1 .. Len(channel) : channel[i].kind = "log" => (i <= n <=> channel[i].value <= m)

\* What a page shows of the output.
LinesAreSound(pg) ==
    /\ pg.conn = "snapped" => ~ pg.lagged
    /\ pg.conn = "open" /\ ~ pg.lagged => LinesUpTo(pg.place, pg.lines)
    /\ pg.conn = "done" /\ pg.badge # "settled" =>
          completion # "wait" /\ (~ pg.lagged => pg.lines = printed)

\* What a page has to expect of the end.
EndIsSound(pg) ==
    /\ pg.conn = "snapped" /\ ~ HasDone(pg.replay) => \A i \in 1 .. pg.place : channel[i].kind # "done"
    /\ pg.conn = "open" /\ ~ pg.gap /\ ~ HasDone(pg.replay) /\ completion \in Sent => DoneAhead(pg.place)
    /\ pg.conn = "ended" => pg.gap
    /\ pg.conn = "closed" => pg.late \/ pg.gap

PageIsSound(pg) ==
    /\ pg.place <= Len(channel)
    /\ ReplayIsSound(pg) /\ LinesAreSound(pg) /\ EndIsSound(pg)

HubOnly == LinesInOrder /\ EndComesLast

PagesAreSound == \A pg \in {page[p] : p \in Pages} : PageIsSound(pg)

HubInv == HubShape /\ HubOnly /\ PagesAreSound

-----------------------------------------------------------------------------
(* The hub *)

\* What was sent stays where it is.
Grows ==
    /\ channel' \in Seq(HubEvents) /\ Len(channel) <= Len(channel')
    /\ \A i \in 1 .. Len(channel) : channel'[i] = channel[i]

LEMMA AppendGrows ==
    ASSUME channel \in Seq(HubEvents), NEW e \in HubEvents, Send(e)
    PROVE  /\ Grows /\ Len(channel') = Len(channel) + 1
           /\ channel'[Len(channel) + 1] = e
BY DEF Send, Grows

LEMMA SameChannelGrows ==
    ASSUME channel \in Seq(HubEvents), channel' = channel
    PROVE  Grows
BY DEF Grows

LEMMA KeepState ==
    ASSUME snapshot \in Snapshots, NEW v \in Words, Keep(Event("state", v))
    PROVE  snapshot' \in Snapshots /\ snapshot'.done = snapshot.done
<1>1. snapshot' = [snapshot EXCEPT !.state = Event("state", v)]
  BY DEF Keep, Event
<1>2. Event("state", v) \in [kind : {"state"}, value : Words]
  BY DEF Event
<1>. QED
  BY <1>1, <1>2 DEF Snapshots

LEMMA KeepDone ==
    ASSUME snapshot \in Snapshots, NEW v \in Words, Keep(Event("done", v))
    PROVE  snapshot' \in Snapshots /\ snapshot'.done = Event("done", v)
<1>1. snapshot' = [snapshot EXCEPT !.done = Event("done", v)]
  BY DEF Keep, Event
<1>2. Event("done", v) \in [kind : {"done"}, value : Words]
  BY DEF Event
<1>. QED
  BY <1>1, <1>2 DEF Snapshots

LEMMA EventsAreEvents ==
    /\ \A n \in Nat : Event("log", n) \in HubEvents
    /\ \A v \in Words : Event("state", v) \in HubEvents /\ Event("done", v) \in HubEvents
BY DEF Event, HubEvents, Marks, Notes

\* The words that are used.
LEMMA WordsAreWords ==
    /\ {"none", "running", "cancelling", "disconnected", "exit", "signal", "settled"} \subseteq Words
    /\ Outcomes \subseteq Words
BY DEF Words, Outcomes

LEMMA LeftIsSmall == Left \in 0 .. 2 /\ Left' \in 0 .. 2
BY DEF Left

\* A done event that is ahead stays ahead, as long as an event that is published
\* was one of those left.
LEMMA DoneStaysAhead ==
    ASSUME channel \in Seq(HubEvents), Grows,
           Len(channel') + Left' <= Len(channel) + Left,
           NEW n \in Nat, DoneAhead(n)
    PROVE  DoneAhead(n)'
<1>1. PICK i \in 1 .. Len(channel) :
        i > n /\ channel[i].kind = "done" /\ Len(channel) - i + Left <= 2
  BY DEF DoneAhead
<1>2. /\ Len(channel) \in Nat /\ Len(channel') \in Nat /\ Left \in 0 .. 2 /\ Left' \in 0 .. 2
      /\ channel'[i] = channel[i]
  BY LeftIsSmall DEF Grows
<1>3. i \in 1 .. Len(channel') /\ Len(channel') - i + Left' <= 2
  BY <1>1, <1>2 DEF Grows
<1>. QED
  BY <1>1, <1>2, <1>3 DEF DoneAhead

\* What a step of the hub does to the end that the pages expect, and to the lines.
EndStaysAhead ==
    \A n \in 0 .. Len(channel) :
        completion' \in Sent /\ (completion \in Sent => DoneAhead(n)) => DoneAhead(n)'

LinesGoOn ==
    /\ printed' \in Nat /\ printed <= printed'
    /\ \A i \in 1 .. Len(channel') :
          i > Len(channel) /\ channel'[i].kind = "log" => channel'[i].value \in Nat /\ channel'[i].value > printed
    /\ completion # "wait" => completion' # "wait" /\ printed' = printed

\* A step of the hub leaves the pages as they are, and true.
LEMMA PagesStay ==
    ASSUME HubInv, page' = page, Grows, LinesGoOn, EndStaysAhead
    PROVE  PagesAreSound'
<1>. SUFFICES ASSUME NEW p \in Pages, NEW pg, pg = page[p] PROVE PageIsSound(pg)'
  BY DEF PagesAreSound
<1>1. pg \in HubPages /\ PageIsSound(pg) /\ printed \in Nat /\ Len(channel) \in Nat
  BY DEF HubInv, HubShape, PagesAreSound
<1>2. pg.place \in 0 .. Len(channel) /\ pg.lines \in Nat /\ pg.replay \in Seq(HubEvents)
  BY <1>1 DEF PageIsSound, HubPages
<1>3. \A i \in 1 .. pg.place : i \in 1 .. Len(channel) /\ channel'[i] = channel[i]
  BY <1>1, <1>2 DEF Grows
<1>4. pg.place <= Len(channel)'
  BY <1>1, <1>2 DEF Grows
<1>6. ReplayIsSound(pg)'
  BY <1>1 DEF PageIsSound, ReplayIsSound, LinesGoOn
<1>7. LinesAreSound(pg)'
  <2>1. LinesAreSound(pg)
    BY <1>1 DEF PageIsSound
  <2>2. ASSUME LinesUpTo(pg.place, pg.lines) PROVE LinesUpTo(pg.place, pg.lines)'
    <3>1. pg.lines <= printed /\ pg.lines <= printed'
      BY <1>1, <1>2, <2>2 DEF LinesUpTo, LinesGoOn
    <3>2. ASSUME NEW i \in 1 .. Len(channel'), channel'[i].kind = "log"
          PROVE  i <= pg.place <=> channel'[i].value <= pg.lines
      <4>1. CASE i <= Len(channel)
        BY <1>1, <2>2, <3>2, <4>1 DEF LinesUpTo, Grows
      <4>2. CASE i > Len(channel)
        BY <1>1, <1>2, <3>1, <3>2, <4>2 DEF LinesGoOn
      <4>. QED
        BY <1>1, <4>1, <4>2
    <3>. QED
      BY <3>1, <3>2 DEF LinesUpTo
  <2>. QED
    BY <2>1, <2>2 DEF LinesAreSound, LinesGoOn
<1>8. EndIsSound(pg)'
  <2>1. EndIsSound(pg)
    BY <1>1 DEF PageIsSound
  <2>. QED
    BY <1>1, <1>2, <1>3, <2>1 DEF EndIsSound, EndStaysAhead
<1>. QED
  BY <1>4, <1>6, <1>7, <1>8 DEF PageIsSound

\* What a step of the hub, its relays and the tasks that publish does.
HubMoves == HubShape' /\ HubOnly' /\ Grows /\ EndStaysAhead /\ LinesGoOn

\* No outcome is sent, and an event only if a cancellation had it to send.
LEMMA EndKept ==
    ASSUME HubShape, Grows, completion' \in Sent => completion \in Sent,
           completion \in Sent => Len(channel') + Left' <= Len(channel) + Left
    PROVE  EndStaysAhead
<1>. SUFFICES ASSUME NEW n \in 0 .. Len(channel), completion \in Sent, DoneAhead(n) PROVE DoneAhead(n)'
  BY DEF EndStaysAhead
<1>1. n \in Nat /\ channel \in Seq(HubEvents)
  BY DEF HubShape
<1>. QED
  BY <1>1, DoneStaysAhead

LEMMA DoneFirst ==
    ASSUME HubShape, HubOnly, EndStaysAhead, completion' \in Sent, completion \in Sent
    PROVE  DoneAhead(0)'
<1>1. DoneAhead(0) /\ 0 \in 0 .. Len(channel)
  BY DEF HubOnly, EndComesLast, HubShape
<1>. QED
  BY <1>1 DEF EndStaysAhead

\* A step that publishes and sends nothing: the end of the child or of its output,
\* what the tasks write down, and what is kept in the snapshot, to be sent by the
\* next step of its task.
LEMMA KeepStep ==
    ASSUME HubShape, HubOnly, HubShape', UNCHANGED <<printed, channel>>,
           end # "none" => end' = end,
           RelaysEnded => relay' = relay,
           snapshot.done.kind = "done" => snapshot'.done.kind = "done",
           completion' # "wait" \/ canceller' = "send" => snapshot'.done.kind = "done",
           IsOutcome(snapshot'.done) => completion' # "wait",
           completion' # "wait" => RelaysEnded /\ end # "none",
           completion # "wait" => completion' # "wait",
           completion \in Sent <=> completion' \in Sent,
           Left' <= Left
    PROVE  HubMoves
<1>1. Grows
  BY SameChannelGrows DEF HubShape
<1>2. EndStaysAhead
  BY <1>1, EndKept, LeftIsSmall DEF HubShape
<1>3. LinesGoOn
  BY DEF HubShape, LinesGoOn
<1>4. LinesInOrder'
  BY DEF HubOnly, LinesInOrder
<1>5. EndComesLast'
  <2>1. completion' # "wait" => RelaysEnded' /\ end' \in {"exit", "signal"}
    BY DEF HubShape, RelaysEnded
  <2>. QED
    BY <1>2, <2>1, DoneFirst DEF HubOnly, EndComesLast, HubShape, Sent
<1>. QED
  BY <1>1, <1>2, <1>3, <1>4, <1>5 DEF HubMoves, HubOnly

\* A line is published.
LEMMA LineStep ==
    ASSUME HubShape, HubOnly, HubShape', NEW n \in Nat, n = printed + 1,
           Send(Event("log", n)), printed' = n, completion = "wait",
           UNCHANGED <<end, completion, canceller, snapshot>>
    PROVE  HubMoves
<1>. DEFINE e == Event("log", n)
<1>1. e \in HubEvents /\ e.kind = "log" /\ e.value = n /\ printed \in Nat
  BY EventsAreEvents DEF Event, HubShape
<1>2. /\ Grows /\ Len(channel') = Len(channel) + 1 /\ channel'[Len(channel) + 1] = e
      /\ Len(channel) \in Nat
  BY <1>1, AppendGrows DEF HubShape
<1>. HIDE DEF e
<1>3. \A i \in 1 .. Len(channel') :
        \/ i \in 1 .. Len(channel) /\ channel'[i] = channel[i]
        \/ i = Len(channel) + 1 /\ channel'[i] = e
  BY <1>2 DEF Grows
<1>4. EndStaysAhead
  BY <1>2, EndKept DEF HubShape, Sent
<1>5. LinesGoOn
  BY <1>1, <1>2, <1>3 DEF LinesGoOn
<1>6. LinesInOrder
  BY DEF HubOnly
<1>7. LinesInOrder'
  <2>1. ASSUME NEW i \in 1 .. Len(channel'), channel'[i].kind = "log"
        PROVE  channel'[i].value \in 1 .. n
    BY <1>1, <1>3, <1>6, <2>1 DEF LinesInOrder
  <2>2. ASSUME NEW m \in 1 .. n
        PROVE  \E i \in 1 .. Len(channel') : channel'[i] = Event("log", m)
    <3>1. CASE m = n
      BY <1>2, <3>1 DEF e
    <3>2. CASE m # n
      <4>1. m \in 1 .. printed
        BY <1>1, <3>2
      <4>2. PICK i \in 1 .. Len(channel) : channel[i] = Event("log", m)
        BY <1>6, <4>1 DEF LinesInOrder
      <4>. QED
        BY <1>2, <4>2 DEF Grows
    <3>. QED
      BY <3>1, <3>2
  <2>3. ASSUME NEW i \in 1 .. Len(channel'), NEW j \in 1 .. Len(channel'), i < j,
               channel'[i].kind = "log", channel'[j].kind = "log"
        PROVE  channel'[i].value < channel'[j].value
    <3>1. i \in 1 .. Len(channel) /\ channel'[i] = channel[i]
      BY <1>2, <1>3, <2>3
    <3>2. channel[i].value \in 1 .. printed
      BY <1>6, <2>3, <3>1 DEF LinesInOrder
    <3>3. CASE j \in 1 .. Len(channel) /\ channel'[j] = channel[j]
      BY <1>6, <2>3, <3>1, <3>3 DEF LinesInOrder
    <3>4. CASE channel'[j] = e
      BY <1>1, <3>1, <3>2, <3>4
    <3>. QED
      BY <1>3, <3>3, <3>4
  <2>. QED
    BY <2>1, <2>2, <2>3 DEF LinesInOrder
<1>8. EndComesLast'
  <2>1. ASSUME NEW i \in 1 .. Len(channel'), IsOutcome(channel'[i]) PROVE FALSE
    BY <1>1, <1>3, <2>1 DEF HubOnly, EndComesLast, IsOutcome, Sent
  <2>2. (\E i \in 1 .. Len(channel') : channel'[i].kind = "done") => snapshot.done.kind = "done"
    BY <1>1, <1>3 DEF HubOnly, EndComesLast
  <2>. QED
    BY <2>1, <2>2 DEF HubOnly, EndComesLast, Sent
<1>. QED
  BY <1>2, <1>4, <1>5, <1>7, <1>8 DEF HubMoves, HubOnly

\* A state or a done event is sent, the second half of its publication.
LEMMA SendStep ==
    ASSUME HubShape, HubOnly, HubShape', NEW e \in HubEvents, Send(e), e.kind \in {"state", "done"},
           UNCHANGED <<end, relay, printed, snapshot>>,
           e.kind = "done" => snapshot.done.kind = "done",
           IsOutcome(e) => completion' \in Sent,
           completion' = completion \/ (completion = "send" /\ completion' = "record" /\ e.kind = "done"),
           canceller' = "send" => canceller = "send",
           completion \in Sent => Left' + 1 <= Left
    PROVE  HubMoves
<1>2. /\ Grows /\ Len(channel') = Len(channel) + 1 /\ channel'[Len(channel) + 1] = e
      /\ Len(channel) \in Nat
  BY AppendGrows DEF HubShape
<1>3. EndStaysAhead
  <2>1. CASE completion' \in Sent => completion \in Sent
    <3>1. ASSUME completion \in Sent PROVE Len(channel') + Left' <= Len(channel) + Left
      <4>1. Len(channel') = Len(channel) + 1 /\ Len(channel') \in Int /\ Len(channel) \in Int
        BY <1>2
      <4>2. PICK a \in 0 .. 2 : a = Left
        BY LeftIsSmall
      <4>3. PICK b \in 0 .. 2 : b = Left'
        BY LeftIsSmall
      <4>4. b + 1 <= a
        BY <3>1, <4>2, <4>3
      <4>5. Len(channel') + b <= Len(channel) + a
        BY <4>1, <4>4
      <4>. QED
        BY <4>2, <4>3, <4>5
    <3>. QED
      BY <1>2, <2>1, <3>1, EndKept
  <2>2. CASE completion \notin Sent /\ e.kind = "done"
    <3>. SUFFICES ASSUME NEW n \in 0 .. Len(channel) PROVE DoneAhead(n)'
      BY DEF EndStaysAhead
    <3>. QED
      BY <1>2, <2>2, LeftIsSmall DEF DoneAhead
  <2>. QED
    BY <2>1, <2>2 DEF Sent
<1>4. \A i \in 1 .. Len(channel') :
        \/ i \in 1 .. Len(channel) /\ channel'[i] = channel[i]
        \/ i = Len(channel) + 1 /\ channel'[i] = e /\ channel'[i].kind # "log"
  BY <1>2 DEF Grows
<1>5. LinesGoOn
  <2>1. completion # "wait" => completion' # "wait"
    OBVIOUS
  <2>. QED
    BY <1>2, <1>4, <2>1 DEF LinesGoOn, HubShape
<1>6. LinesInOrder'
  <2>1. \A n \in 1 .. printed : \E i \in 1 .. Len(channel') : channel'[i] = Event("log", n)
    <3>. SUFFICES ASSUME NEW n \in 1 .. printed
                  PROVE  \E i \in 1 .. Len(channel') : channel'[i] = Event("log", n)
      OBVIOUS
    <3>1. PICK i \in 1 .. Len(channel) : channel[i] = Event("log", n)
      BY DEF HubOnly, LinesInOrder
    <3>. QED
      BY <1>2, <3>1 DEF Grows
  <2>2. \A i \in 1 .. Len(channel') : channel'[i].kind = "log" => i \in 1 .. Len(channel) /\ channel'[i] = channel[i]
    BY <1>4
  <2>. QED
    BY <2>1, <2>2 DEF HubOnly, LinesInOrder
<1>7. EndComesLast'
  <2>1. completion' # "wait" => RelaysEnded' /\ end' \in {"exit", "signal"}
    BY DEF HubOnly, EndComesLast, RelaysEnded
  <2>2. (\E i \in 1 .. Len(channel') : channel'[i].kind = "done") => snapshot.done.kind = "done"
    BY <1>4 DEF HubOnly, EndComesLast
  <2>3. completion' \in Sent => DoneAhead(0)'
    <3>1. CASE completion \in Sent
      BY <1>3, <3>1, DoneFirst
    <3>2. CASE completion \notin Sent
      BY <1>2, <1>3, <3>2 DEF EndStaysAhead
    <3>. QED
      BY <3>1, <3>2
  <2>4. ASSUME NEW i \in 1 .. Len(channel'), IsOutcome(channel'[i])
        PROVE  /\ completion' \in Sent
               /\ \A j \in 1 .. Len(channel') : channel'[j].kind = "log" => j < i
    <3>1. CASE i \in 1 .. Len(channel) /\ channel'[i] = channel[i]
      <4>1. completion \in Sent /\ \A j \in 1 .. Len(channel) : channel[j].kind = "log" => j < i
        BY <2>4, <3>1 DEF HubOnly, EndComesLast
      <4>. QED
        BY <1>4, <4>1 DEF Sent
    <3>2. CASE i = Len(channel) + 1 /\ channel'[i] = e
      BY <1>2, <1>4, <2>4, <3>2
    <3>. QED
      BY <1>4, <3>1, <3>2
  <2>5. completion' # "wait" \/ canceller' = "send" => snapshot'.done.kind = "done"
    BY DEF HubOnly, EndComesLast
  <2>6. IsOutcome(snapshot'.done) => completion' # "wait"
    BY DEF HubOnly, EndComesLast
  <2>. QED
    BY <2>1, <2>2, <2>3, <2>4, <2>5, <2>6 DEF EndComesLast
<1>. QED
  BY <1>2, <1>3, <1>5, <1>6, <1>7 DEF HubMoves, HubOnly

\* The ends of the child and of its output, and what the tasks write down.
LEMMA QuietSteps ==
    ASSUME HubShape, HubOnly,
           \/ ProcessExits \/ CancelKills \/ \E s \in Streams : RelayEnds(s)
           \/ RecordOutcome \/ UnregisterHub \/ CancelSettled \/ CancelRecords
    PROVE  HubMoves
<1>1. UNCHANGED <<printed, snapshot, channel, page>>
  BY DEF hub, ProcessExits, CancelKills, RelayEnds, RecordOutcome, UnregisterHub, CancelSettled, CancelRecords
<1>2. end' \in {"none", "exit", "signal"} /\ (end # "none" => end' = end)
  BY DEF HubShape, ProcessExits, CancelKills, RelayEnds, RecordOutcome, UnregisterHub, CancelSettled, CancelRecords
<1>3. relay' \in [Streams -> {"reading", "ended"}] /\ (RelaysEnded => relay' = relay)
  <2>1. ASSUME NEW s \in Streams, RelayEnds(s)
        PROVE  relay' \in [Streams -> {"reading", "ended"}] /\ ~ RelaysEnded
    BY <2>1 DEF HubShape, RelayEnds, RelaysEnded
  <2>2. relay' = relay \/ \E s \in Streams : RelayEnds(s)
    BY DEF ProcessExits, CancelKills, RecordOutcome, UnregisterHub, CancelSettled, CancelRecords
  <2>. QED
    BY <2>1, <2>2 DEF HubShape
<1>4. recorded' \in Words
  BY WordsAreWords DEF HubShape, ProcessExits, CancelKills, RelayEnds, RecordOutcome, UnregisterHub,
                       CancelSettled, CancelRecords
<1>5. /\ completion' \in {"wait", "send", "record", "retain", "over"}
      /\ (completion = "wait" <=> completion' = "wait") /\ (completion \in Sent <=> completion' \in Sent)
  BY DEF HubShape, Sent, ProcessExits, CancelKills, RelayEnds, RecordOutcome, UnregisterHub,
         CancelSettled, CancelRecords
<1>6. /\ canceller' \in {"idle", "announce", "cancel", "restore", "settle", "publish", "send", "over"}
      /\ Left' <= Left /\ (canceller' = "send" => canceller = "send")
  BY DEF HubShape, Left, ProcessExits, CancelKills, RelayEnds, RecordOutcome, UnregisterHub,
         CancelSettled, CancelRecords
<1>7. HubShape'
  BY <1>1, <1>2, <1>3, <1>4, <1>5, <1>6 DEF HubShape
<1>8. completion # "wait" => RelaysEnded /\ end # "none" /\ snapshot.done.kind = "done"
  BY DEF HubOnly, EndComesLast
<1>. QED
  BY <1>1, <1>2, <1>3, <1>5, <1>6, <1>7, <1>8, KeepStep DEF HubOnly, EndComesLast

LEMMA OutcomeKept ==
    ASSUME HubShape, HubOnly, Completed
    PROVE  HubMoves
<1>1. /\ end \in Words /\ Keep(Event("done", end)) /\ snapshot \in Snapshots
      /\ completion = "wait" /\ completion' = "send"
      /\ UNCHANGED <<end, relay, printed, canceller, recorded, channel, page>>
  BY WordsAreWords DEF HubShape, Completed, KeepOutcome
<1>2. snapshot' \in Snapshots /\ snapshot'.done.kind = "done"
  BY <1>1, KeepDone DEF Event
<1>3. HubShape'
  BY <1>1, <1>2 DEF HubShape
<1>4. Left' <= Left
  BY <1>1 DEF Left
<1>. QED
  BY <1>1, <1>2, <1>3, <1>4, KeepStep DEF Completed, Sent

LEMMA StateKept ==
    ASSUME HubShape, HubOnly, CancelRequested \/ CancelRefused
    PROVE  HubMoves
<1>1. PICK v \in Words : Keep(Event("state", v))
  BY WordsAreWords DEF CancelRequested, CancelRefused
<1>2. snapshot' \in Snapshots /\ snapshot'.done = snapshot.done
  BY <1>1, KeepState DEF HubShape
<1>3. /\ UNCHANGED <<end, relay, printed, completion, recorded, channel, page>>
      /\ canceller' \in {"announce", "restore"} /\ Left' <= Left
  BY DEF CancelRequested, CancelRefused, Left
<1>4. HubShape'
  BY <1>2, <1>3 DEF HubShape
<1>5. EndComesLast
  BY DEF HubOnly
<1>. QED
  BY <1>2, <1>3, <1>4, <1>5, KeepStep DEF EndComesLast

LEMMA SettlementKept ==
    ASSUME HubShape, HubOnly, CancelPublishes
    PROVE  HubMoves
<1>1. /\ Keep(Event("done", "settled")) /\ snapshot \in Snapshots
      /\ canceller = "publish" /\ canceller' = "send"
      /\ UNCHANGED <<end, relay, printed, completion, recorded, channel, page>>
  BY DEF HubShape, CancelPublishes
<1>2. snapshot' \in Snapshots /\ snapshot'.done.kind = "done" /\ ~ IsOutcome(snapshot'.done)
  BY <1>1, KeepDone, WordsAreWords DEF Event, IsOutcome
<1>3. HubShape'
  BY <1>1, <1>2 DEF HubShape
<1>4. Left' <= Left
  BY <1>1 DEF Left
<1>5. EndComesLast
  BY DEF HubOnly
<1>. QED
  BY <1>1, <1>2, <1>3, <1>4, <1>5, KeepStep DEF EndComesLast

LEMMA LogSent ==
    ASSUME HubShape, HubOnly, NEW s \in Streams, RelayLog(s)
    PROVE  HubMoves
<1>1. PICK n \in Nat : n = printed + 1 /\ printed' = n
  BY DEF RelayLog, HubShape
<1>2. Send(Event("log", n)) /\ UNCHANGED <<end, completion, canceller, recorded, snapshot, page>>
  BY <1>1 DEF RelayLog
<1>3. completion = "wait"
  BY DEF HubOnly, EndComesLast, RelaysEnded, RelayLog
<1>4. relay' \in [Streams -> {"reading", "ended"}]
  BY DEF RelayLog, HubShape
<1>5. channel' \in Seq(HubEvents)
  BY <1>2, EventsAreEvents, AppendGrows DEF HubShape, Grows
<1>6. HubShape'
  BY <1>1, <1>2, <1>4, <1>5 DEF HubShape
<1>. QED
  BY <1>1, <1>2, <1>3, <1>6, LineStep

\* What is sent is one more event.
LEMMA SentIsShaped ==
    ASSUME HubShape, NEW e \in HubEvents, Send(e),
           completion' \in {"wait", "send", "record", "retain", "over"},
           canceller' \in {"idle", "announce", "cancel", "restore", "settle", "publish", "send", "over"},
           UNCHANGED <<end, relay, printed, recorded, snapshot, page>>
    PROVE  HubShape'
BY AppendGrows DEF HubShape, Grows

LEMMA OutcomeSent ==
    ASSUME HubShape, HubOnly, SendOutcome
    PROVE  HubMoves
<1>1. PICK e \in HubEvents : e = Event("done", end) /\ Send(e)
  BY EventsAreEvents, WordsAreWords DEF SendOutcome, HubShape
<1>2. e.kind = "done"
  BY <1>1 DEF Event
<1>3. /\ completion = "send" /\ completion' = "record"
      /\ UNCHANGED <<end, relay, printed, canceller, recorded, snapshot, page>>
  BY DEF SendOutcome
<1>4. snapshot.done.kind = "done"
  BY <1>3 DEF HubOnly, EndComesLast
<1>5. HubShape'
  BY <1>1, <1>3, SentIsShaped DEF HubShape
<1>. QED
  BY <1>1, <1>2, <1>3, <1>4, <1>5, SendStep DEF Sent

LEMMA StateSent ==
    ASSUME HubShape, HubOnly, CancelAnnounced \/ BadgeRestored
    PROVE  HubMoves
<1>1. PICK v \in Words : Send(Event("state", v))
  BY WordsAreWords DEF CancelAnnounced, BadgeRestored
<1>2. PICK e \in HubEvents : e = Event("state", v) /\ Send(e)
  BY <1>1, EventsAreEvents
<1>3. e.kind = "state" /\ ~ IsOutcome(e)
  BY <1>2 DEF Event, IsOutcome
<1>4. /\ canceller' \in {"cancel", "over"} /\ Left' + 1 <= Left
      /\ UNCHANGED <<end, relay, printed, completion, recorded, snapshot, page>>
  BY DEF CancelAnnounced, BadgeRestored, Left
<1>5. HubShape'
  BY <1>2, <1>4, SentIsShaped DEF HubShape
<1>. QED
  BY <1>2, <1>3, <1>4, <1>5, SendStep

LEMMA SettlementSent ==
    ASSUME HubShape, HubOnly, CancelSends
    PROVE  HubMoves
<1>1. PICK e \in HubEvents : e = Event("done", "settled") /\ Send(e)
  BY EventsAreEvents, WordsAreWords DEF CancelSends
<1>2. e.kind = "done" /\ ~ IsOutcome(e)
  BY <1>1 DEF Event, IsOutcome
<1>3. /\ canceller = "send" /\ canceller' = "over" /\ Left' + 1 <= Left
      /\ UNCHANGED <<end, relay, printed, completion, recorded, snapshot, page>>
  BY DEF CancelSends, Left
<1>4. snapshot.done.kind = "done"
  BY <1>3 DEF HubOnly, EndComesLast
<1>5. HubShape'
  BY <1>1, <1>3, SentIsShaped DEF HubShape
<1>. QED
  BY <1>1, <1>2, <1>3, <1>4, <1>5, SendStep

-----------------------------------------------------------------------------
(* The pages *)

\* A page that moves does not change what the others rest on.
LEMMA OnePageMoves ==
    ASSUME HubInv, NEW p \in Pages, NEW pg \in HubPages, PageIsSound(pg),
           page' = [page EXCEPT ![p] = pg],
           UNCHANGED <<end, relay, printed, completion, canceller, recorded, hub, registered>>
    PROVE  HubInv'
<1>1. UNCHANGED <<end, relay, printed, completion, canceller, recorded, snapshot, channel>>
  BY DEF hub
<1>2. HubShape'
  BY <1>1 DEF HubInv, HubShape
<1>3. HubOnly'
  BY <1>1 DEF HubInv, HubOnly, LinesInOrder, EndComesLast, RelaysEnded, DoneAhead, Left
<1>4. ASSUME NEW q, PageIsSound(q) PROVE PageIsSound(q)'
  BY <1>1, <1>4 DEF PageIsSound, ReplayIsSound, LinesAreSound, LinesUpTo, EndIsSound, DoneAhead, Left
<1>5. ASSUME NEW q, q \in {page'[r] : r \in Pages} PROVE q = pg \/ q \in {page[r] : r \in Pages}
  <2>1. PICK r \in Pages : q = page'[r]
    BY <1>5
  <2>. QED
    BY <2>1 DEF HubInv, HubShape
<1>6. PagesAreSound'
  BY <1>4, <1>5 DEF HubInv, PagesAreSound
<1>. QED
  BY <1>2, <1>3, <1>6 DEF HubInv

\* What the proofs about a page start from.
LEMMA PageFacts ==
    ASSUME HubInv, NEW p \in Pages
    PROVE  /\ page[p] \in HubPages /\ PageIsSound(page[p])
           /\ page[p].place \in 0 .. Len(channel) /\ page[p].lines \in Nat
           /\ page[p].replay \in Seq(HubEvents)
           /\ printed \in Nat /\ Len(channel) \in Nat /\ channel \in Seq(HubEvents)
<1>1. page[p] \in HubPages /\ PageIsSound(page[p])
  BY DEF HubInv, HubShape, PagesAreSound
<1>2. printed \in Nat /\ channel \in Seq(HubEvents)
  BY DEF HubInv, HubShape
<1>. QED
  BY <1>1, <1>2 DEF PageIsSound, HubPages

\* A page that has no replay left.
LEMMA NothingToReplay ==
    ASSUME NEW pg, pg.replay = <<>>
    PROVE  ReplayIsSound(pg) /\ ~ HasDone(pg.replay)
BY DEF ReplayIsSound, HasDone

\* A page that waits, or has ended.
LEMMA OffPage ==
    ASSUME NEW pg, NEW old \in HubPages, PageIsSound(old), Len(channel) \in Nat,
           pg.conn \in {"loading", "lost", "ended", "closed"},
           pg.conn = "ended" => pg.gap, pg.conn = "closed" => pg.late \/ pg.gap,
           \/ pg.replay = old.replay /\ pg.place = old.place
           \/ pg.replay = <<>> /\ pg.place = 0
    PROVE  PageIsSound(pg)
<1>1. ReplayIsSound(pg)
  <2>1. CASE pg.replay = old.replay
    BY <2>1 DEF PageIsSound, ReplayIsSound
  <2>. QED
    BY <2>1, NothingToReplay
<1>2. LinesAreSound(pg)
  BY DEF LinesAreSound
<1>3. EndIsSound(pg)
  BY DEF EndIsSound
<1>. QED
  BY <1>1, <1>2, <1>3 DEF PageIsSound

LEMMA PageOpens ==
    ASSUME HubInv, NEW p \in Pages, OpenPage(p)
    PROVE  HubInv'
<1>. DEFINE pg == [page[p] EXCEPT !.conn = "loading", !.badge = recorded]
<1>1. pg \in HubPages /\ pg.conn = "loading"
      /\ pg.replay = page[p].replay /\ pg.place = page[p].place
  BY PageFacts DEF HubPages, HubInv, HubShape, Conns
<1>2. page' = [page EXCEPT ![p] = pg]
  BY DEF OpenPage
<1>. HIDE DEF pg
<1>3. PageIsSound(pg)
  BY <1>1, PageFacts, OffPage
<1>. QED
  BY <1>1, <1>2, <1>3, OnePageMoves DEF OpenPage

LEMMA OneAlone ==
    ASSUME NEW S, NEW x \in S
    PROVE  <<x>> \in Seq(S) /\ Len(<<x>>) = 1 /\ <<x>>[1] = x
OBVIOUS

LEMMA TwoInARow ==
    ASSUME NEW S, NEW x \in S, NEW y \in S
    PROVE  <<x, y>> \in Seq(S) /\ Len(<<x, y>>) = 2 /\ <<x, y>>[1] = x /\ <<x, y>>[2] = y
OBVIOUS

\* What a page gets when it asks for the events.
LEMMA ReplayFacts ==
    ASSUME HubInv
    PROVE  /\ Replay \in Seq(HubEvents)
           /\ \A j \in 1 .. Len(Replay) :
                 /\ Replay[j].kind \in {"state", "done"}
                 /\ Replay[j].kind = "done" => j = Len(Replay) /\ Replay[j] = snapshot.done
           /\ snapshot.done.kind = "done" => HasDone(Replay)
<1>. DEFINE s == snapshot.state
            d == snapshot.done
<1>1. /\ s \in HubEvents
      /\ d.kind = "done" => d \in HubEvents
      /\ s.kind = "state" /\ d.kind \in {"none", "done"}
  <2>1. snapshot \in Snapshots
    BY DEF HubInv, HubShape
  <2>2. NoEvent.kind = "none"
    BY DEF NoEvent, Event
  <2>. QED
    BY <2>1, <2>2 DEF Snapshots, HubEvents, Marks, Notes
<1>. HIDE DEF s, d
<1>2. /\ d.kind # "done" => Replay = <<s>>
      /\ d.kind = "done" => Replay = <<s, d>>
  BY <1>1 DEF Replay, IsEvent, s, d
<1>3. CASE d.kind # "done"
  <2>1. Replay \in Seq(HubEvents) /\ Len(Replay) = 1 /\ Replay[1] = s
    <3>1. Replay = <<s>> /\ s \in HubEvents
      BY <1>1, <1>2, <1>3
    <3>. QED
      BY <3>1, OneAlone
  <2>. QED
    BY <1>1, <1>3, <2>1 DEF s, d
<1>4. CASE d.kind = "done"
  <2>1. Replay \in Seq(HubEvents) /\ Len(Replay) = 2 /\ Replay[1] = s /\ Replay[2] = d
    <3>1. Replay = <<s, d>> /\ s \in HubEvents /\ d \in HubEvents
      BY <1>1, <1>2, <1>4
    <3>. QED
      BY <3>1, TwoInARow
  <2>. QED
    BY <1>1, <1>4, <2>1 DEF s, d, HasDone
<1>. QED
  BY <1>3, <1>4

LEMMA PageConnects ==
    ASSUME HubInv, NEW p \in Pages, ConnectPage(p)
    PROVE  HubInv'
<1>. DEFINE pg == [page[p] EXCEPT !.conn = "snapped", !.replay = Replay, !.place = Len(channel),
                                  !.gap = FALSE, !.lagged = FALSE]
<1>1. page' = [page EXCEPT ![p] = pg]
  BY DEF ConnectPage
<1>2. /\ pg \in HubPages /\ pg.conn = "snapped" /\ pg.replay = Replay /\ pg.place = Len(channel)
      /\ ~ pg.gap /\ ~ pg.lagged
  BY PageFacts, ReplayFacts DEF HubPages, Conns
<1>. HIDE DEF pg
<1>3. EndComesLast /\ Len(channel) \in Nat
  BY PageFacts DEF HubInv, HubOnly
<1>5. ReplayIsSound(pg)
  <2>1. ASSUME NEW j \in 1 .. Len(Replay), IsOutcome(Replay[j]) PROVE completion # "wait"
    BY <1>3, <2>1, ReplayFacts DEF EndComesLast, IsOutcome
  <2>. QED
    BY <1>2, <2>1, ReplayFacts DEF ReplayIsSound
<1>6. LinesAreSound(pg)
  BY <1>2 DEF LinesAreSound
<1>7. EndIsSound(pg)
  <2>1. ~ HasDone(Replay) => snapshot.done.kind # "done"
    BY ReplayFacts
  <2>. QED
    BY <1>2, <1>3, <2>1 DEF EndIsSound, EndComesLast
<1>8. PageIsSound(pg)
  BY <1>2, <1>3, <1>5, <1>6, <1>7 DEF PageIsSound
<1>. QED
  BY <1>1, <1>2, <1>8, OnePageMoves DEF ConnectPage

LEMMA PageJoins ==
    ASSUME HubInv, NEW p \in Pages, JoinChannel(p)
    PROVE  HubInv'
<1>. DEFINE old == page[p]
            missed == \E i \in old.place + 1 .. Len(channel) :
                        /\ channel[i].kind # "log"
                        /\ \A j \in DOMAIN old.replay : old.replay[j] # channel[i]
            pg == [old EXCEPT !.conn = "open", !.place = Len(channel), !.lines = printed, !.gap = missed]
<1>1. page' = [page EXCEPT ![p] = pg]
  BY DEF JoinChannel
<1>2. /\ old \in HubPages /\ PageIsSound(old) /\ old.place \in 0 .. Len(channel)
      /\ old.replay \in Seq(HubEvents) /\ old.conn = "snapped"
      /\ printed \in Nat /\ Len(channel) \in Nat /\ channel \in Seq(HubEvents)
  BY PageFacts DEF JoinChannel
<1>3. missed \in BOOLEAN
  OBVIOUS
<1>4. \A i \in 1 .. Len(channel) : i \in 1 .. old.place \/ i \in old.place + 1 .. Len(channel)
  BY <1>2
<1>5. ASSUME ~ missed, NEW i \in old.place + 1 .. Len(channel), channel[i].kind # "log"
      PROVE  \E j \in 1 .. Len(old.replay) : old.replay[j] = channel[i]
  <2>1. DOMAIN old.replay = 1 .. Len(old.replay)
    BY <1>2
  <2>. QED
    BY <1>5, <2>1
<1>. HIDE DEF missed
<1>6. /\ pg \in HubPages /\ pg.conn = "open" /\ pg.replay = old.replay /\ pg.place = Len(channel)
      /\ pg.gap = missed /\ pg.lagged = old.lagged /\ pg.lines = printed
  BY <1>2, <1>3 DEF HubPages, Conns
<1>. HIDE DEF old, pg
<1>7. ReplayIsSound(pg)
  BY <1>2, <1>6 DEF PageIsSound, ReplayIsSound
<1>8. LinesAreSound(pg)
  <2>1. LinesUpTo(Len(channel), printed)
    BY <1>2 DEF HubInv, HubOnly, LinesInOrder, LinesUpTo
  <2>. QED
    BY <1>6, <2>1 DEF LinesAreSound
<1>9. EndIsSound(pg)
  <2>1. EndIsSound(old)
    BY <1>2 DEF PageIsSound
  <2>2. ASSUME ~ missed, ~ HasDone(old.replay), completion \in Sent PROVE FALSE
    <3>1. PICK i \in 1 .. Len(channel) : channel[i].kind = "done"
      BY <2>2 DEF HubInv, HubOnly, EndComesLast, DoneAhead
    <3>2. CASE i \in 1 .. old.place
      BY <1>2, <2>1, <2>2, <3>1, <3>2 DEF EndIsSound
    <3>3. CASE i \in old.place + 1 .. Len(channel)
      BY <1>5, <2>2, <3>1, <3>3 DEF HasDone
    <3>. QED
      BY <1>4, <3>2, <3>3
  <2>. QED
    BY <1>6, <2>2 DEF EndIsSound
<1>10. PageIsSound(pg)
  BY <1>2, <1>6, <1>7, <1>8, <1>9 DEF PageIsSound
<1>. QED
  BY <1>1, <1>6, <1>10, OnePageMoves DEF JoinChannel

LEMMA DetachedFacts ==
    ASSUME NEW q \in HubPages
    PROVE  /\ Detached(q) \in HubPages
           /\ Detached(q).replay = <<>> /\ Detached(q).place = 0
           /\ Detached(q).conn = q.conn /\ Detached(q).badge = q.badge
           /\ Detached(q).gap = q.gap /\ Detached(q).lagged = q.lagged
           /\ Detached(q).late = q.late /\ Detached(q).lines = q.lines
<1>1. <<>> \in Seq(HubEvents)
  OBVIOUS
<1>. QED
  BY <1>1 DEF HubPages, Detached

LEMMA PageNotFound ==
    ASSUME HubInv, NEW p \in Pages, NotFound(p)
    PROVE  HubInv'
<1>. DEFINE old == page[p]
            pg == Detached([old EXCEPT !.badge = "disconnected", !.conn = "closed",
                                       !.late = old.conn # "ended"])
<1>1. page' = [page EXCEPT ![p] = pg]
  BY DEF NotFound
<1>2. old \in HubPages /\ PageIsSound(old)
  BY PageFacts
<1>3. /\ pg \in HubPages /\ pg.conn = "closed" /\ pg.replay = <<>> /\ pg.place = 0
      /\ pg.gap = old.gap /\ pg.late = (old.conn # "ended")
  <2>. DEFINE q == [old EXCEPT !.badge = "disconnected", !.conn = "closed", !.late = old.conn # "ended"]
  <2>1. /\ q \in HubPages /\ q.conn = "closed"
        /\ q.gap = old.gap /\ q.late = (old.conn # "ended")
    BY <1>2, WordsAreWords DEF HubPages, Conns
  <2>2. pg = Detached(q)
    OBVIOUS
  <2>. HIDE DEF q
  <2>. QED
    BY <2>1, <2>2, DetachedFacts
<1>4. old.conn = "ended" => old.gap
  BY <1>2 DEF PageIsSound, EndIsSound
<1>. HIDE DEF pg, old
<1>5. PageIsSound(pg)
  BY <1>2, <1>3, <1>4, PageFacts, OffPage
<1>. QED
  BY <1>1, <1>3, <1>5, OnePageMoves DEF NotFound

LEMMA PageLosesConnection ==
    ASSUME HubInv, NEW p \in Pages, ConnectionLost(p)
    PROVE  HubInv'
<1>. DEFINE old == page[p]
            pg == [old EXCEPT !.conn = "lost", !.badge = "disconnected",
                              !.replay = <<>>, !.place = 0, !.drops = @ + 1]
<1>1. page' = [page EXCEPT ![p] = pg]
  BY DEF ConnectionLost
<1>2. old \in HubPages /\ PageIsSound(old)
  BY PageFacts
<1>3. pg \in HubPages /\ pg.conn = "lost" /\ pg.replay = <<>> /\ pg.place = 0
  <2>1. PICK n \in Nat : n = old.drops + 1
    BY <1>2 DEF HubPages
  <2>2. pg = [old EXCEPT !.conn = "lost", !.badge = "disconnected", !.replay = <<>>, !.place = 0, !.drops = n]
    BY <2>1
  <2>3. <<>> \in Seq(HubEvents) /\ "disconnected" \in Words
    BY WordsAreWords
  <2>. HIDE DEF pg
  <2>. QED
    BY <1>2, <2>2, <2>3 DEF HubPages, Conns
<1>. HIDE DEF pg, old
<1>5. PageIsSound(pg)
  BY <1>2, <1>3, PageFacts, OffPage
<1>. QED
  BY <1>1, <1>3, <1>5, OnePageMoves DEF ConnectionLost

\* The stream of a page ends only if the channel had no done event for it.
LEMMA PageStreamEnds ==
    ASSUME HubInv, NEW p \in Pages, StreamEnds(p)
    PROVE  HubInv'
<1>. DEFINE old == page[p]
            pg == [old EXCEPT !.conn = "ended", !.badge = "disconnected"]
<1>1. page' = [page EXCEPT ![p] = pg]
  BY DEF StreamEnds
<1>2. /\ old \in HubPages /\ PageIsSound(old) /\ old.conn = "open" /\ old.replay = <<>>
      /\ old.place = Len(channel) /\ completion \in Sent
  BY PageFacts DEF StreamEnds, HubDropped, Sent
<1>3. /\ pg \in HubPages /\ pg.conn = "ended" /\ pg.replay = old.replay /\ pg.place = old.place
      /\ pg.gap = old.gap
  BY <1>2, WordsAreWords DEF HubPages, Conns
<1>. HIDE DEF pg, old
<1>4. old.gap
  <2>1. ~ DoneAhead(Len(channel))
    BY DEF DoneAhead
  <2>. QED
    BY <1>2, <2>1, NothingToReplay DEF PageIsSound, EndIsSound
<1>5. PageIsSound(pg)
  BY <1>2, <1>3, <1>4, PageFacts, OffPage
<1>. QED
  BY <1>1, <1>3, <1>5, OnePageMoves DEF StreamEnds

\* A page that is detached because it has shown the outcome or a settlement.
LEMMA PageShowsEnd ==
    ASSUME HubInv, NEW pg \in HubPages, NEW e \in HubEvents, e.kind = "done",
           IsOutcome(e) => completion # "wait" /\ (~ pg.lagged => pg.lines = printed)
    PROVE  Shown(pg, e) \in HubPages /\ PageIsSound(Shown(pg, e))
<1>. DEFINE q == [pg EXCEPT !.badge = e.value, !.conn = "done"]
            new == Shown(pg, e)
<1>1. new = Detached(q)
  BY DEF Shown
<1>2. e.value \in Words
  BY DEF HubEvents, Marks, Notes
<1>3. /\ q \in HubPages /\ q.conn = "done" /\ q.badge = e.value
      /\ q.lagged = pg.lagged /\ q.lines = pg.lines
  BY <1>2 DEF HubPages, Conns
<1>. HIDE DEF q, new
<1>4. /\ new \in HubPages /\ new.replay = <<>> /\ new.place = 0 /\ new.conn = "done"
      /\ new.badge = e.value /\ new.lagged = pg.lagged
      /\ new.lines = pg.lines
  BY <1>1, <1>3, DetachedFacts
<1>5. ReplayIsSound(new) /\ EndIsSound(new)
  BY <1>4, NothingToReplay DEF EndIsSound
<1>6. LinesAreSound(new)
  BY <1>4 DEF LinesAreSound, IsOutcome
<1>7. Len(channel) \in Nat
  BY DEF HubInv, HubShape
<1>8. PageIsSound(new)
  BY <1>4, <1>5, <1>6, <1>7 DEF PageIsSound
<1>. QED
  BY <1>4, <1>8 DEF new

\* What showing any other event changes.
LEMMA ShownFacts ==
    ASSUME NEW pg \in HubPages, NEW e \in HubEvents, e.kind \in {"state", "log"}
    PROVE  /\ Shown(pg, e) \in HubPages
           /\ Shown(pg, e).conn = pg.conn /\ Shown(pg, e).replay = pg.replay
           /\ Shown(pg, e).place = pg.place /\ Shown(pg, e).gap = pg.gap
           /\ Shown(pg, e).lagged = pg.lagged
           /\ Shown(pg, e).lines = IF e.kind = "log" THEN pg.lines + 1 ELSE pg.lines
<1>1. CASE e.kind = "state"
  <2>1. e.value \in Words /\ Shown(pg, e) = [pg EXCEPT !.badge = e.value]
    BY <1>1 DEF HubEvents, Marks, Notes, Shown
  <2>. QED
    BY <1>1, <2>1 DEF HubPages
<1>2. CASE e.kind = "log"
  <2>1. PICK n \in Nat : n = pg.lines + 1
    BY DEF HubPages
  <2>2. Shown(pg, e) = [pg EXCEPT !.lines = n]
    BY <1>2, <2>1 DEF Shown
  <2>. QED
    BY <1>2, <2>1, <2>2 DEF HubPages
<1>. QED
  BY <1>1, <1>2

LEMMA PageShowsReplay ==
    ASSUME HubInv, NEW p \in Pages, ShowReplay(p)
    PROVE  HubInv'
<1>. DEFINE old == page[p]
            e == Head(old.replay)
            rest == Tail(old.replay)
            mid == [old EXCEPT !.replay = Tail(@)]
            pg == Shown(mid, e)
<1>1. page' = [page EXCEPT ![p] = pg]
  BY DEF ShowReplay
<1>2. /\ old \in HubPages /\ PageIsSound(old) /\ old.conn = "open" /\ old.replay # <<>>
      /\ old.place \in 0 .. Len(channel) /\ old.replay \in Seq(HubEvents)
      /\ Len(channel) \in Nat
  BY PageFacts DEF ShowReplay
<1>3. /\ rest \in Seq(HubEvents) /\ Len(old.replay) \in Nat /\ Len(old.replay) # 0
      /\ Len(rest) = Len(old.replay) - 1
      /\ e = old.replay[1] /\ e \in HubEvents
      /\ \A j \in 1 .. Len(rest) : rest[j] = old.replay[j + 1]
  BY <1>2
<1>4. /\ mid \in HubPages /\ mid.replay = rest /\ mid.conn = "open" /\ mid.place = old.place
      /\ mid.gap = old.gap /\ mid.lagged = old.lagged /\ mid.lines = old.lines
  BY <1>2, <1>3 DEF HubPages
<1>. HIDE DEF old, e, rest, mid
<1>5. ReplayIsSound(old) /\ LinesAreSound(old) /\ EndIsSound(old)
  BY <1>2 DEF PageIsSound
<1>6. 1 \in 1 .. Len(old.replay) /\ e.kind \in {"state", "done"}
  BY <1>3, <1>5 DEF ReplayIsSound
<1>7. \A j \in 1 .. Len(rest) : j + 1 \in 1 .. Len(old.replay)
  BY <1>3
<1>8. \A k \in 1 .. Len(old.replay) : k = 1 \/ (k - 1 \in 1 .. Len(rest) /\ rest[k - 1] = old.replay[k])
  BY <1>3
<1>9. CASE e.kind = "done"
  <2>1. IsOutcome(e) => completion # "wait" /\ (~ mid.lagged => mid.lines = printed)
    BY <1>2, <1>3, <1>4, <1>5, <1>6 DEF ReplayIsSound
  <2>2. pg \in HubPages /\ PageIsSound(pg)
    BY <1>3, <1>4, <1>9, <2>1, PageShowsEnd
  <2>. QED
    BY <1>1, <2>2, OnePageMoves DEF ShowReplay
<1>10. CASE e.kind = "state"
  <2>1. /\ pg \in HubPages /\ pg.conn = "open" /\ pg.replay = rest /\ pg.place = old.place
        /\ pg.gap = old.gap /\ pg.lagged = old.lagged /\ pg.lines = old.lines
    BY <1>3, <1>4, <1>10, ShownFacts
  <2>. HIDE DEF pg
  <2>2. HasDone(old.replay) => HasDone(rest)
    BY <1>3, <1>8, <1>10 DEF HasDone
  <2>3. ReplayIsSound(pg)
    <3>. SUFFICES ASSUME NEW j \in 1 .. Len(rest)
                  PROVE  /\ rest[j].kind \in {"state", "done"}
                         /\ rest[j].kind = "done" => j = Len(rest)
                         /\ IsOutcome(rest[j]) =>
                               completion # "wait" /\ (~ pg.lagged => pg.lines = printed)
      BY <2>1 DEF ReplayIsSound
    <3>1. j + 1 \in 1 .. Len(old.replay) /\ rest[j] = old.replay[j + 1]
      BY <1>3, <1>7
    <3>. QED
      BY <1>2, <1>3, <1>5, <2>1, <3>1 DEF ReplayIsSound
  <2>4. LinesAreSound(pg)
    BY <1>2, <1>5, <2>1 DEF LinesAreSound
  <2>5. EndIsSound(pg)
    BY <1>2, <1>5, <2>1, <2>2 DEF EndIsSound
  <2>6. PageIsSound(pg)
    BY <1>2, <2>1, <2>3, <2>4, <2>5 DEF PageIsSound
  <2>. QED
    BY <1>1, <2>1, <2>6, OnePageMoves DEF ShowReplay
<1>. QED
  BY <1>6, <1>9, <1>10

\* The next event is a line: it is the one after those that were shown.
LEMMA NextLine ==
    ASSUME LinesInOrder, printed \in Nat, Len(channel) \in Nat, NEW n \in Nat, NEW m \in Nat,
           LinesUpTo(n, m), n + 1 \in 1 .. Len(channel), channel[n + 1].kind = "log"
    PROVE  LinesUpTo(n + 1, m + 1)
<1>. DEFINE v == channel[n + 1].value
<1>1. v \in 1 .. printed /\ v > m
  BY DEF LinesInOrder, LinesUpTo
<1>2. v = m + 1
  <2>. SUFFICES ASSUME m + 1 < v PROVE FALSE
    BY <1>1
  <2>1. PICK i \in 1 .. Len(channel) : channel[i] = Event("log", m + 1)
    BY <1>1 DEF LinesInOrder
  <2>2. channel[i].kind = "log" /\ channel[i].value = m + 1
    BY <2>1 DEF Event
  <2>3. i > n
    BY <2>2 DEF LinesUpTo
  <2>4. i # n + 1 /\ i > n + 1
    BY <2>2, <2>3
  <2>5. v < channel[i].value
    BY <2>2, <2>4 DEF LinesInOrder
  <2>. QED
    BY <1>1, <2>2, <2>5
<1>3. ASSUME NEW i \in 1 .. Len(channel), channel[i].kind = "log"
      PROVE  i <= n + 1 <=> channel[i].value <= m + 1
  <2>1. channel[i].value \in 1 .. printed /\ (i <= n <=> channel[i].value <= m)
    BY <1>3 DEF LinesInOrder, LinesUpTo
  <2>2. CASE i <= n
    BY <2>1, <2>2
  <2>3. CASE i = n + 1
    BY <1>2, <2>3
  <2>4. CASE i > n + 1
    <3>1. v < channel[i].value
      BY <1>3, <2>4 DEF LinesInOrder
    <3>. QED
      BY <1>1, <1>2, <2>1, <2>4, <3>1
  <2>. QED
    BY <2>2, <2>3, <2>4
<1>. QED
  <2>1. m + 1 <= printed
    BY <1>1, <1>2
  <2>. QED
    BY <1>3, <2>1 DEF LinesUpTo

LEMMA PageShowsNext ==
    ASSUME HubInv, NEW p \in Pages, ShowNext(p)
    PROVE  HubInv'
<1>. DEFINE old == page[p]
            lagging == Len(channel) - page[p].place > Capacity
            next == IF lagging THEN Len(channel) - Capacity + 1 ELSE page[p].place + 1
            mid == [old EXCEPT !.place = next, !.lagged = @ \/ lagging]
            e == channel[next]
            pg == Shown(mid, e)
<1>1. page' = [page EXCEPT ![p] = pg]
  BY DEF ShowNext
<1>2. /\ old \in HubPages /\ PageIsSound(old) /\ old.conn = "open" /\ old.replay = <<>>
      /\ old.place \in 0 .. Len(channel) /\ old.place < Len(channel) /\ old.lines \in Nat
      /\ printed \in Nat /\ Len(channel) \in Nat /\ channel \in Seq(HubEvents)
  BY PageFacts DEF ShowNext
<1>3. /\ next \in 1 .. Len(channel) /\ old.place < next
      /\ ~ lagging => next = old.place + 1
      /\ lagging => next = Len(channel) - Capacity + 1
  BY <1>2, HubAssumption
<1>4. lagging \in BOOLEAN
  OBVIOUS
<1>. HIDE DEF lagging, next
<1>5. /\ mid \in HubPages /\ mid.replay = <<>> /\ mid.conn = "open" /\ mid.place = next
      /\ mid.gap = old.gap /\ mid.lines = old.lines /\ mid.lagged = (old.lagged \/ lagging)
  <2>1. PICK b \in BOOLEAN : b = (old.lagged \/ lagging)
    OBVIOUS
  <2>2. mid = [old EXCEPT !.place = next, !.lagged = b] /\ next \in Nat
    BY <1>2, <1>3, <2>1
  <2>. HIDE DEF mid
  <2>3. /\ mid \in HubPages /\ mid.replay = old.replay /\ mid.conn = old.conn /\ mid.place = next
        /\ mid.gap = old.gap /\ mid.lines = old.lines /\ mid.lagged = b
    BY <1>2, <2>2 DEF HubPages
  <2>. QED
    BY <1>2, <2>1, <2>3
<1>6. e \in HubEvents
  BY <1>2, <1>3
<1>. HIDE DEF old, e, mid
<1>7. LinesAreSound(old) /\ EndIsSound(old) /\ ~ HasDone(old.replay)
  BY <1>2, NothingToReplay DEF PageIsSound
<1>8. ASSUME ~ mid.lagged PROVE next = old.place + 1 /\ LinesUpTo(old.place, old.lines)
  <2>1. ~ old.lagged /\ ~ lagging
    BY <1>5, <1>8
  <2>. QED
    BY <1>2, <1>3, <1>7, <2>1 DEF LinesAreSound
<1>9. LinesInOrder /\ EndComesLast
  BY DEF HubInv, HubOnly
<1>10. CASE e.kind = "done"
  <2>1. ASSUME IsOutcome(e) PROVE completion # "wait" /\ (~ mid.lagged => mid.lines = printed)
    <3>1. completion \in Sent /\ \A j \in 1 .. Len(channel) : channel[j].kind = "log" => j < next
      BY <1>3, <1>9, <2>1 DEF EndComesLast, e
    <3>2. completion # "wait"
      BY <3>1 DEF Sent
    <3>3. ASSUME ~ mid.lagged PROVE old.lines = printed
      <4>1. old.lines <= printed
        BY <1>8, <3>3 DEF LinesUpTo
      <4>2. CASE printed = 0
        BY <1>2, <4>1, <4>2
      <4>3. CASE printed # 0
        <5>1. PICK i \in 1 .. Len(channel) : channel[i] = Event("log", printed)
          BY <1>2, <1>9, <4>3 DEF LinesInOrder
        <5>2. channel[i].kind = "log" /\ channel[i].value = printed
          BY <5>1 DEF Event
        <5>3. i <= old.place
          BY <1>2, <1>8, <3>1, <3>3, <5>2
        <5>4. printed <= old.lines
          BY <1>8, <3>3, <5>2, <5>3 DEF LinesUpTo
        <5>. QED
          BY <1>2, <4>1, <5>4
      <4>. QED
        BY <4>2, <4>3
    <3>. QED
      BY <1>5, <3>2, <3>3
  <2>2. pg \in HubPages /\ PageIsSound(pg)
    BY <1>5, <1>6, <1>10, <2>1, PageShowsEnd
  <2>. QED
    BY <1>1, <2>2, OnePageMoves DEF ShowNext
<1>11. CASE e.kind \in {"state", "log"}
  <2>1. /\ pg \in HubPages /\ pg.conn = "open" /\ pg.replay = <<>> /\ pg.place = next
        /\ pg.gap = old.gap /\ pg.lagged = mid.lagged
        /\ pg.lines = IF e.kind = "log" THEN old.lines + 1 ELSE old.lines
    BY <1>5, <1>6, <1>11, ShownFacts
  <2>. HIDE DEF pg
  <2>2. ReplayIsSound(pg) /\ ~ HasDone(pg.replay)
    BY <2>1, NothingToReplay
  <2>3. ASSUME ~ mid.lagged PROVE LinesUpTo(next, pg.lines)
    <3>1. CASE e.kind = "log"
      BY <1>2, <1>3, <1>8, <1>9, <2>1, <2>3, <3>1, NextLine DEF e
    <3>2. CASE e.kind = "state"
      <4>1. \A i \in 1 .. Len(channel) : channel[i].kind = "log" => i # next
        BY <3>2 DEF e
      <4>. QED
        BY <1>2, <1>8, <2>1, <2>3, <3>2, <4>1 DEF LinesUpTo
    <3>. QED
      BY <1>11, <3>1, <3>2
  <2>5. LinesAreSound(pg)
    BY <2>1, <2>3 DEF LinesAreSound
  <2>6. ASSUME ~ old.gap, completion \in Sent PROVE DoneAhead(next)
    <3>1. PICK i \in 1 .. Len(channel) :
            i > old.place /\ channel[i].kind = "done" /\ Len(channel) - i + Left <= 2
      BY <1>2, <1>7, <2>6 DEF EndIsSound, DoneAhead
    <3>2. i # next
      BY <1>11, <3>1 DEF e
    <3>3. i > next
      <4>1. CASE lagging
        BY <1>2, <1>3, <3>1, <4>1, LeftIsSmall, HubAssumption
      <4>2. CASE ~ lagging
        BY <1>2, <1>3, <3>1, <3>2, <4>2
      <4>. QED
        BY <4>1, <4>2
    <3>. QED
      BY <3>1, <3>3 DEF DoneAhead
  <2>7. EndIsSound(pg)
    BY <2>1, <2>6 DEF EndIsSound
  <2>8. PageIsSound(pg)
    BY <1>2, <1>3, <2>1, <2>2, <2>5, <2>7 DEF PageIsSound
  <2>. QED
    BY <1>1, <2>1, <2>8, OnePageMoves DEF ShowNext
<1>. QED
  BY <1>6, <1>10, <1>11 DEF HubEvents, Marks, Notes

-----------------------------------------------------------------------------

\* What the hub's steps leave alone.
LEMMA HubMoveKeeps ==
    ASSUME HubInv, HubMoves, page' = page
    PROVE  HubInv'
<1>1. PagesAreSound'
  BY PagesStay DEF HubMoves
<1>. QED
  BY <1>1 DEF HubInv, HubMoves

LEMMA InitHubInv == HubInit => HubInv
<1>. SUFFICES ASSUME HubInit PROVE HubInv
  OBVIOUS
<1>1. Len(channel) = 0 /\ channel = <<>> /\ NoEvent.kind = "none"
  BY DEF HubInit, NoEvent, Event
<1>2. /\ snapshot.done = NoEvent /\ snapshot.state = Event("state", "running")
      /\ completion = "wait" /\ canceller = "idle" /\ end = "none" /\ printed = 0
  BY DEF HubInit
<1>3. NoPage \in HubPages
  <2>1. <<>> \in Seq(HubEvents)
    OBVIOUS
  <2>. QED
    BY <2>1, WordsAreWords DEF NoPage, HubPages, Conns
<1>4. HubShape
  <2>1. Event("state", "running") \in [kind : {"state"}, value : Words]
    BY WordsAreWords DEF Event
  <2>2. relay \in [Streams -> {"reading", "ended"}] /\ snapshot \in Snapshots
    BY <2>1 DEF HubInit, Snapshots
  <2>3. channel \in Seq(HubEvents) /\ recorded \in Words /\ page \in [Pages -> HubPages]
    BY <1>1, <1>3, WordsAreWords DEF HubInit
  <2>. QED
    BY <1>2, <2>2, <2>3 DEF HubShape
<1>5. HubOnly
  BY <1>1, <1>2 DEF HubOnly, LinesInOrder, EndComesLast, Sent, IsOutcome
<1>6. ASSUME NEW p \in Pages PROVE PageIsSound(page[p])
  <2>1. /\ page[p].replay = <<>> /\ page[p].place = 0 /\ page[p].conn = "none"
    BY DEF HubInit, NoPage
  <2>2. ReplayIsSound(page[p]) /\ EndIsSound(page[p]) /\ LinesAreSound(page[p])
    BY <2>1, NothingToReplay DEF EndIsSound, LinesAreSound
  <2>. QED
    BY <1>1, <2>1, <2>2 DEF PageIsSound
<1>. QED
  BY <1>4, <1>5, <1>6 DEF HubInv, PagesAreSound

LEMMA NextHubInv == HubInv /\ [HubNext]_hubVars => HubInv'
<1>. SUFFICES ASSUME HubInv, [HubNext]_hubVars PROVE HubInv'
  OBVIOUS
<1>0. HubShape /\ HubOnly
  BY DEF HubInv
<1>1. CASE Relays
  <2>1. page' = page
    BY <1>1 DEF Relays, RelayLog, RelayEnds
  <2>2. HubMoves
    BY <1>0, <1>1, LogSent, QuietSteps DEF Relays
  <2>. QED
    BY <2>1, <2>2, HubMoveKeeps
<1>2. CASE ProcessExits
  BY <1>0, <1>2, QuietSteps, HubMoveKeeps DEF ProcessExits
<1>4. CASE Completion
  <2>1. page' = page
    BY <1>4 DEF Completion, Completed, SendOutcome, RecordOutcome, UnregisterHub
  <2>2. HubMoves
    BY <1>0, <1>4, OutcomeKept, OutcomeSent, QuietSteps DEF Completion
  <2>. QED
    BY <2>1, <2>2, HubMoveKeeps
<1>5. CASE CancelRequested
  BY <1>0, <1>5, StateKept, HubMoveKeeps DEF CancelRequested
<1>6. CASE Cancellation
  <2>1. page' = page
    BY <1>6 DEF Cancellation, CancelAnnounced, CancelRefused, BadgeRestored, CancelKills, CancelSettled,
                CancelRecords, CancelPublishes, CancelSends
  <2>2. HubMoves
    BY <1>0, <1>6, StateSent, StateKept, QuietSteps, SettlementKept, SettlementSent DEF Cancellation
  <2>. QED
    BY <2>1, <2>2, HubMoveKeeps
<1>7. ASSUME NEW p \in Pages, OpenPage(p) \/ Browser(p) \/ ConnectionLost(p) PROVE HubInv'
  BY <1>7, PageOpens, PageConnects, PageJoins, PageNotFound, PageShowsReplay, PageShowsNext,
     PageStreamEnds, PageLosesConnection DEF Browser
<1>8. CASE UNCHANGED hubVars
  <2>1. UNCHANGED <<end, relay, printed, completion, canceller, recorded, snapshot, channel, page>>
    BY <1>8 DEF hubVars
  <2>2. HubShape'
    BY <1>0, <2>1 DEF HubShape
  <2>3. HubOnly'
    BY <1>0, <2>1 DEF HubOnly, LinesInOrder, EndComesLast, RelaysEnded, DoneAhead, Left
  <2>4. PagesAreSound'
    BY <2>1 DEF HubInv, PagesAreSound, PageIsSound, ReplayIsSound, LinesAreSound, LinesUpTo, EndIsSound,
                DoneAhead, Left
  <2>. QED
    BY <2>2, <2>3, <2>4 DEF HubInv
<1>. QED
  BY <1>1, <1>2, <1>4, <1>5, <1>6, <1>7, <1>8 DEF HubNext

\* The inductive invariant of the hub, its relays and its pages.
THEOREM HubInvariance == HubSpec => []HubInv
BY InitHubInv, NextHubInv, PTL DEF HubSpec

\* A page gives up without the outcome only if it came after the hub was taken down
\* or if something was sent while it was subscribing (sse.rs:291-300).
THEOREM OutcomeIsShown == HubSpec => []EndIsShown
<1>1. HubInv => EndIsShown
  BY PageFacts DEF EndIsShown, PageIsSound, EndIsSound
<1>. QED
  BY <1>1, HubInvariance, PTL

\* A page that shows the outcome of the child has shown every line of output since
\* it joined (routes/backup.rs:317-333), unless it lagged.
THEOREM OutputComesFirst == HubSpec => []OutputIsShown
<1>1. HubInv => OutputIsShown
  BY PageFacts DEF OutputIsShown, PageIsSound, LinesAreSound
<1>. QED
  BY <1>1, HubInvariance, PTL
=============================================================================
