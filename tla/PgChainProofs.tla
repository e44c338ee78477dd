---------------------------- MODULE PgChainProofs ----------------------------
(***************************************************************************)
(* Theorems about the PostgreSQL chain, for any number of transactions and *)
(* backups and any batch: a restore to the end of a chain or to a moment   *)
(* within it brings back exactly what was committed by then, unless an     *)
(* increment was read from a slot whose full backup had failed.            *)
(*                                                                         *)
(* And about the restore of an archive, for any database and any target: a *)
(* restore that reports success has brought everything back, and one that  *)
(* fails without a fault does so for a reason that can be named.           *)
(***************************************************************************)
EXTENDS PgChain, PgRestore, SequenceTheorems, TLAPS

\* A base with its increments, and the positions they claim to reach.
Members(b) == SlicesOf(b) \cup {b}
Endpoints(b) == {store[i].upto : i \in Members(b)}

\* Some member of b reaches position n.
Reaches(b, n) == \E i \in Members(b) : n <= store[i].upto

\* There is a last base, and a farthest member of every chain.
Bounded ==
    /\ Bases # {} => \E i \in Bases : \A j \in Bases : j <= i
    /\ \A b \in Bases : \E n \in Endpoints(b) : \A m \in Endpoints(b) : m <= n

\* What the manifests hold.
Stored ==
    \A i \in 1 .. Len(store) :
        /\ store[i].upto <= Now
        /\ store[i].kind = "full" => store[i].data = Rows(1 .. store[i].upto)
        /\ store[i].kind = "incr" =>
              /\ store[i].base \in Bases /\ store[i].base < i
              /\ store[i].data \subseteq Rows(1 .. store[i].upto)

\* No row change within the reach of an untainted chain is missing from it.
Covered ==
    \A b \in Bases \ tainted : \A n \in 1 .. Now :
        wal[n] /\ Reaches(b, n) => \E i \in Members(b) : n \in store[i].data

\* The slot of a full backup that is under way, which is ahead of every base.
NewSlot == pgStep \in {"dump", "publish"} /\ cur.owner

\* The slot is not ahead of the newest base and its increments, but for a new
\* slot and one whose full backup has failed.
SlotBehind ==
    /\ slot.pos <= Now
    /\ (slot.health = "active" \/ pgStep = "save") /\ ~ orphan /\ ~ NewSlot /\ Bases # {} =>
          Reaches(NewestBase, slot.pos)

\* What the running command has read.
Reading ==
    /\ pgStep \in {"drop", "create"} => cur.owner
    /\ cur.owner => ~ cur.selective
    /\ pgStep = "publish" =>
          cur.upto <= Now /\ slot.pos <= cur.upto /\ cur.data = Rows(1 .. cur.upto)
    /\ pgStep \in {"peek", "save", "advance"} => Bases # {} /\ cur.base = NewestBase
    /\ pgStep = "save" =>
          slot.pos <= cur.upto /\ cur.upto <= Now /\ cur.data = Rows(slot.pos + 1 .. cur.upto)
    /\ pgStep = "advance" => cur.upto <= Now /\ Reaches(NewestBase, cur.upto)

PgInv == PgTypeOK /\ Bounded /\ Stored /\ Covered /\ SlotBehind /\ Reading

-----------------------------------------------------------------------------
(* Newest base, reach and appended manifests *)

\* The CHOOSE of the newest base has the value it is meant to have.
LEMMA NewestIs ==
  ASSUME Bounded, Bases # {}
  PROVE  NewestBase \in Bases /\ \A j \in Bases : j <= NewestBase
BY DEF Bounded, NewestBase

\* So has the one of the reach.
LEMMA ReachIs ==
  ASSUME Bounded, NEW b \in Bases
  PROVE  /\ \E i \in Members(b) : store[i].upto = Reach(b)
         /\ \A i \in Members(b) : store[i].upto <= Reach(b)
<1>1. \E n \in Endpoints(b) : \A m \in Endpoints(b) : m <= n
  BY DEF Bounded
<1>2. Reach(b) = CHOOSE n \in Endpoints(b) : \A m \in Endpoints(b) : m <= n
  BY DEF Reach, Endpoints, Members
<1>3. Reach(b) \in Endpoints(b) /\ \A m \in Endpoints(b) : m <= Reach(b)
  BY <1>1, <1>2
<1>. QED
  BY <1>3 DEF Endpoints

\* A run that has read nothing is a run.
LEMMA NoRunIsRun == NoRun \in Runs /\ ~ NoRun.owner
<1>1. FALSE \in BOOLEAN /\ 0 \in Nat /\ {} \in SUBSET Nat
  OBVIOUS
<1>2. NoRun \in Runs
  BY <1>1, Zenon DEF NoRun, Runs
<1>. QED
  BY <1>2 DEF NoRun

\* Nothing but the new manifest changes, and Bases and slices grow by it alone.
LEMMA Appended ==
  ASSUME PgTypeOK, NEW m \in Manifests, store' = Append(store, m)
  PROVE  /\ store' \in Seq(Manifests) /\ Len(store') = Len(store) + 1 /\ Len(store) \in Nat
         /\ \A i \in 1 .. Len(store) : store'[i] = store[i]
         /\ store'[Len(store) + 1] = m
         /\ Bases' = Bases \cup IF m.kind = "full" /\ ~ m.selective THEN {Len(store) + 1} ELSE {}
         /\ \A b : SlicesOf(b)' = SlicesOf(b) \cup IF m.kind = "incr" /\ m.base = b
                                                   THEN {Len(store) + 1} ELSE {}
<1>1. store \in Seq(Manifests)
  BY DEF PgTypeOK
<1>2. /\ store' \in Seq(Manifests) /\ Len(store') = Len(store) + 1 /\ Len(store) \in Nat
      /\ \A i \in 1 .. Len(store) : store'[i] = store[i]
      /\ store'[Len(store) + 1] = m
  BY <1>1
<1>3. 1 .. Len(store') = 1 .. Len(store) \cup {Len(store) + 1}
  BY <1>2
<1>4. Bases' = Bases \cup IF m.kind = "full" /\ ~ m.selective THEN {Len(store) + 1} ELSE {}
  BY <1>2, <1>3 DEF Bases
<1>5. ASSUME NEW b
      PROVE  SlicesOf(b)' = SlicesOf(b) \cup IF m.kind = "incr" /\ m.base = b
                                             THEN {Len(store) + 1} ELSE {}
  BY <1>2, <1>3 DEF SlicesOf
<1>. QED
  BY <1>2, <1>4, <1>5

\* What depends on the manifests alone stays when they do.
LEMMA SameStore ==
  ASSUME UNCHANGED store
  PROVE  /\ Bases' = Bases /\ NewestBase' = NewestBase /\ (Bounded => Bounded')
         /\ \A b : Members(b)' = Members(b)
         /\ \A b, n : Reaches(b, n)' = Reaches(b, n)
<1>1. Bases' = Bases
  BY DEF Bases
<1>2. NewestBase' = NewestBase
  BY <1>1 DEF NewestBase
<1>3. \A b : Members(b)' = Members(b)
  BY DEF Members, SlicesOf
<1>4. \A b : Endpoints(b)' = Endpoints(b)
  BY <1>3 DEF Endpoints
<1>5. \A b, n : Reaches(b, n)' = Reaches(b, n)
  BY <1>3 DEF Reaches
<1>. QED
  BY <1>1, <1>2, <1>3, <1>4, <1>5 DEF Bounded

\* The stored chains stay as they are.
LEMMA SameChains ==
  ASSUME UNCHANGED <<wal, store, tainted>>, Bounded, Stored, Covered
  PROVE  Bounded' /\ Stored' /\ Covered'
<1>1. Bounded'
  BY SameStore
<1>2. Stored'
  BY SameStore DEF Stored, Rows, Now
<1>3. Covered'
  BY SameStore DEF Covered, Now
<1>. QED
  BY <1>1, <1>2, <1>3

-----------------------------------------------------------------------------
(* The steps *)

LEMMA InitPgInv == PgInit => PgInv
<1>. SUFFICES ASSUME PgInit PROVE PgInv
  OBVIOUS
<1>1. PgTypeOK
  <2>1. NoRun \in Runs
    BY NoRunIsRun
  <2>2. slot \in Slots
    BY DEF PgInit, Slots
  <2>3. wal = <<>> /\ store = <<>> /\ cur = NoRun /\ pgStep = "idle" /\ orphan = FALSE /\ tainted = {}
    BY DEF PgInit
  <2>4. wal \in Seq(BOOLEAN) /\ store \in Seq(Manifests)
    BY <2>3
  <2>5. pgStep \in {"idle", "drop", "create", "dump", "publish", "base", "peek", "save", "advance"}
    BY <2>3
  <2>6. orphan \in BOOLEAN /\ tainted \in SUBSET Nat
    BY <2>3
  <2>. QED
    BY <2>1, <2>2, <2>3, <2>4, <2>5, <2>6, Zenon DEF PgTypeOK
<1>2. Bases = {} /\ Len(store) = 0 /\ Now = 0
  BY DEF PgInit, Bases, Now
<1>3. Bounded /\ Stored /\ Covered
  <2>1. 1 .. Len(store) = {}
    BY <1>2
  <2>2. Bases \ tainted = {}
    BY <1>2
  <2>3. Bounded
    BY <1>2 DEF Bounded
  <2>4. Stored
    BY <2>1, Zenon DEF Stored
  <2>. QED
    BY <2>2, <2>3, <2>4 DEF Covered
<1>4. SlotBehind /\ Reading
  BY <1>2 DEF PgInit, SlotBehind, Reading, NoRun
<1>. QED
  BY <1>1, <1>3, <1>4 DEF PgInv

\* A commit is past everything that was read or stored.
LEMMA CommitStep ==
  ASSUME PgInv, NEW row \in BOOLEAN, Commit(row)
  PROVE  PgInv'
<1>1. /\ wal \in Seq(BOOLEAN) /\ wal' = Append(wal, row)
      /\ UNCHANGED <<slot, store, pgStep, cur, orphan, tainted>>
  BY DEF PgInv, PgTypeOK, Commit
<1>2. /\ wal' \in Seq(BOOLEAN) /\ Now \in Nat /\ Now' = Now + 1
      /\ \A n \in 1 .. Now : wal'[n] = wal[n]
  BY <1>1 DEF Now
<1>3. PgTypeOK'
  BY <1>1, <1>2 DEF PgInv, PgTypeOK
<1>4. ASSUME NEW positions \in SUBSET (1 .. Now)
      PROVE  Rows(positions)' = Rows(positions)
  <2>1. \A n \in positions : wal'[n] = wal[n]
    BY <1>2
  <2>. QED
    BY <2>1, Zenon DEF Rows
<1>5. \A i \in 1 .. Len(store) : store[i].upto \in Nat /\ store[i].upto <= Now
  <2>1. store \in Seq(Manifests)
    BY DEF PgInv, PgTypeOK
  <2>2. \A i \in 1 .. Len(store) : store[i] \in Manifests
    BY <2>1
  <2>. QED
    BY <2>2 DEF PgInv, Stored, Manifests
<1>6. Bounded'
  BY <1>1, SameStore DEF PgInv
<1>7. Stored'
  <2>1. \A i \in 1 .. Len(store) : Rows(1 .. store[i].upto)' = Rows(1 .. store[i].upto)
    <3>1. \A i \in 1 .. Len(store) : 1 .. store[i].upto \subseteq 1 .. Now
      BY <1>2, <1>5
    <3>. QED
      BY <1>1, <1>4, <3>1
  <2>. QED
    BY <1>1, <1>2, <1>5, <2>1, SameStore DEF PgInv, Stored
<1>8. Covered'
  <2>1. ASSUME NEW b \in Bases, NEW n \in Nat, Reaches(b, n)
        PROVE  n <= Now
    BY <1>2, <1>5, <2>1 DEF Reaches, Members, SlicesOf, Bases
  <2>2. ASSUME NEW b \in Bases \ tainted, NEW n \in 1 .. Now + 1, wal'[n], Reaches(b, n)
        PROVE  \E i \in Members(b) : n \in store[i].data
    <3>1. n \in 1 .. Now
      BY <1>2, <2>1, <2>2
    <3>. QED
      BY <1>2, <2>2, <3>1 DEF PgInv, Covered
  <2>3. /\ Bases' = Bases /\ tainted' = tainted /\ Now' = Now + 1 /\ store' = store
        /\ \A b : Members(b)' = Members(b)
        /\ \A b, n : Reaches(b, n)' = Reaches(b, n)
    BY <1>1, <1>2, SameStore
  <2>4. \A b \in Bases \ tainted : \A n \in 1 .. Now + 1 :
          wal'[n] /\ Reaches(b, n) => \E i \in Members(b) : n \in store[i].data
    BY <2>2, Zenon
  <2>5. SUFFICES ASSUME NEW b \in Bases' \ tainted', NEW n \in 1 .. Now', wal'[n], Reaches(b, n)'
                 PROVE  \E i \in Members(b)' : n \in store'[i].data
    BY Zenon DEF Covered
  <2>6. b \in Bases \ tainted /\ n \in 1 .. Now + 1 /\ Reaches(b, n)
    BY <2>3, <2>5, Zenon
  <2>7. \E i \in Members(b) : n \in store[i].data
    BY <2>4, <2>5, <2>6, Zenon
  <2>. QED
    BY <2>3, <2>7, Zenon
<1>9. SlotBehind'
  <2>1. slot.pos \in Nat
    BY DEF PgInv, PgTypeOK, Slots
  <2>. QED
    BY <1>1, <1>2, <2>1, SameStore DEF PgInv, SlotBehind, NewSlot
<1>10. Reading'
  <2>1. cur.upto \in Nat /\ slot.pos \in Nat
    BY DEF PgInv, PgTypeOK, Slots, Runs
  <2>2. cur.upto <= Now => /\ Rows(1 .. cur.upto)' = Rows(1 .. cur.upto)
                           /\ Rows(slot.pos + 1 .. cur.upto)' = Rows(slot.pos + 1 .. cur.upto)
    BY <1>1, <1>2, <1>4, <2>1
  <2>. QED
    BY <1>1, <1>2, <2>1, <2>2, SameStore DEF PgInv, Reading
<1>. QED
  BY <1>3, <1>6, <1>7, <1>8, <1>9, <1>10 DEF PgInv

\* A run that has only begun.
LEMMA Begun ==
  ASSUME NEW selective \in BOOLEAN, NEW enable \in BOOLEAN, BeginFull(selective, enable)
  PROVE  /\ cur' \in Runs /\ pgStep' \in {"drop", "dump"}
         /\ pgStep' = "drop" <=> cur'.owner
         /\ cur'.owner => ~ cur'.selective
<1>1. NoRun \in Runs
  BY NoRunIsRun
<1>2. cur' \in Runs
  BY <1>1 DEF BeginFull, Runs
<1>3. pgStep' \in {"drop", "dump"}
  BY DEF BeginFull
<1>4. cur'.owner = (enable /\ ~ selective) /\ cur'.selective = selective
  BY DEF BeginFull, NoRun
<1>. QED
  BY <1>2, <1>3, <1>4 DEF BeginFull

\* Everything but the chains, over a step that leaves the chains alone.
LEMMA Kept ==
  ASSUME PgInv, UNCHANGED <<wal, store, tainted>>, PgTypeOK', SlotBehind', Reading'
  PROVE  PgInv'
BY SameChains DEF PgInv

\* The types of the parts of a state.
LEMMA Parts ==
  ASSUME PgTypeOK
  PROVE  /\ Now \in Nat /\ slot \in Slots /\ slot.pos \in Nat
         /\ cur \in Runs /\ cur.upto \in Nat /\ cur.base \in Nat /\ cur.data \in SUBSET Nat
         /\ cur.owner \in BOOLEAN /\ cur.selective \in BOOLEAN
BY DEF PgTypeOK, Slots, Runs, Now

\* A broken slot is where it was.
LEMMA SlotBreaksStep ==
  ASSUME PgInv, NEW health \in {"missing", "lost"}, SlotBreaks(health)
  PROVE  PgInv'
<1>1. /\ slot' = [slot EXCEPT !.health = health]
      /\ UNCHANGED <<wal, store, pgStep, cur, orphan, tainted>>
  BY DEF SlotBreaks
<1>2. slot' \in Slots /\ slot'.pos = slot.pos /\ slot'.health # "active"
  BY <1>1, Parts DEF PgInv, Slots
<1>3. PgTypeOK'
  BY <1>1, <1>2 DEF PgInv, PgTypeOK
<1>4. SlotBehind'
  BY <1>1, <1>2, SameStore DEF PgInv, SlotBehind, NewSlot, Now
<1>5. Reading'
  BY <1>1, <1>2, SameStore DEF PgInv, Reading, Now, Rows
<1>. QED
  BY <1>1, <1>3, <1>4, <1>5, Kept

\* The start of a full backup leaves the slot behind the newest base.
LEMMA StartFullStep ==
  ASSUME PgInv, StartFull
  PROVE  PgInv'
<1>1. PICK selective \in BOOLEAN, enable \in BOOLEAN : BeginFull(selective, enable)
  BY DEF StartFull
<1>2. pgStep = "idle" /\ UNCHANGED <<wal, slot, store, orphan, tainted>>
  BY DEF StartFull
<1>3. /\ cur' \in Runs /\ pgStep' \in {"drop", "dump"}
      /\ pgStep' = "drop" <=> cur'.owner
      /\ cur'.owner => ~ cur'.selective
  BY <1>1, Begun
<1>4. PgTypeOK'
  BY <1>2, <1>3 DEF PgInv, PgTypeOK
<1>5. SlotBehind'
  BY <1>2, <1>3, SameStore DEF PgInv, SlotBehind, NewSlot, Now
<1>6. Reading'
  BY <1>3 DEF Reading
<1>. QED
  BY <1>2, <1>4, <1>5, <1>6, Kept

\* So does the start of an incremental one, promoted or not.
LEMMA StartIncrStep ==
  ASSUME PgInv, StartIncr
  PROVE  PgInv'
<1>1. pgStep = "idle" /\ UNCHANGED <<wal, slot, store, orphan, tainted>>
  BY DEF StartIncr
<1>2. /\ cur' \in Runs /\ pgStep' \in {"drop", "dump", "base"}
      /\ pgStep' = "drop" <=> cur'.owner
      /\ cur'.owner => ~ cur'.selective
  <2>1. CASE slot.health = "active"
    <3>1. pgStep' = "base" /\ cur' = NoRun
      BY <2>1 DEF StartIncr
    <3>2. NoRun \in Runs
      BY NoRunIsRun
    <3>. QED
      BY <3>1, <3>2 DEF NoRun
  <2>2. CASE slot.health # "active"
    <3>1. BeginFull(FALSE, TRUE)
      BY <2>2 DEF StartIncr, promote_pg_incremental_to_full
    <3>. QED
      BY <3>1, Begun
  <2>. QED
    BY <2>1, <2>2
<1>3. PgTypeOK'
  BY <1>1, <1>2 DEF PgInv, PgTypeOK
<1>4. SlotBehind'
  BY <1>1, <1>2, SameStore DEF PgInv, SlotBehind, NewSlot, Now
<1>5. Reading'
  BY <1>2 DEF Reading
<1>. QED
  BY <1>1, <1>3, <1>4, <1>5, Kept

\* The slot is dropped and made anew for the full backup that follows.
LEMMA NewSlotStep ==
  ASSUME PgInv, DropSlot \/ CreateSlot
  PROVE  PgInv'
<1>1. UNCHANGED <<wal, store, cur, tainted>> /\ cur.owner /\ ~ cur.selective
  BY DEF PgInv, Reading, DropSlot, CreateSlot
<1>2. CASE DropSlot
  <2>1. slot' \in Slots /\ slot'.pos = slot.pos /\ slot'.health = "missing"
    BY <1>2, Parts DEF PgInv, DropSlot, Slots
  <2>2. pgStep' = "create" /\ orphan' = orphan
    BY <1>2 DEF DropSlot
  <2>3. PgTypeOK'
    BY <1>1, <2>1, <2>2 DEF PgInv, PgTypeOK
  <2>4. SlotBehind'
    BY <1>1, <2>1, <2>2 DEF PgInv, SlotBehind, Now
  <2>5. Reading'
    BY <1>1, <2>2 DEF Reading
  <2>. QED
    BY <1>1, <2>3, <2>4, <2>5, Kept
<1>3. CASE CreateSlot
  <2>1. slot' \in Slots /\ slot'.pos = Now
    BY <1>3, Parts DEF PgInv, CreateSlot, Slots
  <2>2. pgStep' = "dump" /\ orphan' = FALSE
    BY <1>3 DEF CreateSlot
  <2>3. PgTypeOK'
    BY <1>1, <2>1, <2>2 DEF PgInv, PgTypeOK
  <2>4. SlotBehind'
    BY <1>1, <2>1, <2>2, Parts DEF PgInv, SlotBehind, NewSlot, Now
  <2>5. Reading'
    BY <1>1, <2>2 DEF Reading
  <2>. QED
    BY <1>1, <2>3, <2>4, <2>5, Kept
<1>. QED
  BY <1>2, <1>3

\* The dump is at least as new as the slot.
LEMMA DumpStep ==
  ASSUME PgInv, Dump
  PROVE  PgInv'
<1>1. /\ pgStep = "dump" /\ pgStep' = "publish"
      /\ cur' = [cur EXCEPT !.upto = Now, !.data = Rows(1..Now)]
      /\ UNCHANGED <<wal, slot, store, orphan, tainted>>
  BY DEF Dump
<1>2. Rows(1..Now) \in SUBSET Nat
  BY DEF Rows
<1>3. /\ cur' \in Runs /\ cur'.upto = Now /\ cur'.data = Rows(1..Now)
      /\ cur'.owner = cur.owner /\ cur'.selective = cur.selective
  BY <1>1, <1>2, Parts DEF PgInv, Runs
<1>4. PgTypeOK'
  BY <1>1, <1>3 DEF PgInv, PgTypeOK
<1>5. SlotBehind'
  BY <1>1, <1>3, SameStore DEF PgInv, SlotBehind, NewSlot, Now
<1>6. Reading'
  <2>1. slot.pos <= Now
    BY DEF PgInv, SlotBehind
  <2>2. Rows(1..Now)' = Rows(1..Now) /\ Now' = Now
    BY <1>1 DEF Rows, Now
  <2>. QED
    BY <1>1, <1>3, <2>1, <2>2, Parts DEF PgInv, Reading
<1>. QED
  BY <1>1, <1>4, <1>5, <1>6, Kept

\* The increment is of the newest base.
LEMMA SelectBaseStep ==
  ASSUME PgInv, SelectBase
  PROVE  PgInv'
<1>1. /\ pgStep = "base" /\ pgStep' = "peek" /\ Bases # {}
      /\ cur' = [cur EXCEPT !.base = NewestBase]
      /\ UNCHANGED <<wal, slot, store, orphan, tainted>>
  BY DEF SelectBase
<1>2. NewestBase \in Nat
  BY <1>1, NewestIs DEF PgInv, Bases
<1>3. /\ cur' \in Runs /\ cur'.base = NewestBase
      /\ cur'.owner = cur.owner /\ cur'.selective = cur.selective
  BY <1>1, <1>2, Parts DEF PgInv, Runs
<1>4. PgTypeOK'
  BY <1>1, <1>3 DEF PgInv, PgTypeOK
<1>5. SlotBehind'
  BY <1>1, <1>3, SameStore DEF PgInv, SlotBehind, NewSlot, Now
<1>6. Reading'
  BY <1>1, <1>3, SameStore DEF PgInv, Reading
<1>. QED
  BY <1>1, <1>4, <1>5, <1>6, Kept

\* What is peeked begins right after the slot.
LEMMA PeekStep ==
  ASSUME PgInv, Peek
  PROVE  PgInv'
<1>. DEFINE last == IF slot.pos + Batch < Now THEN slot.pos + Batch ELSE Now
<1>1. /\ pgStep = "peek" /\ pgStep' = "save" /\ slot.health = "active"
      /\ cur' = [cur EXCEPT !.upto = last, !.data = Rows(slot.pos + 1 .. last)]
      /\ UNCHANGED <<wal, slot, store, orphan, tainted>>
  BY DEF Peek
<1>2. last \in Nat /\ slot.pos <= last /\ last <= Now
  BY Parts, BoundsAssumption DEF PgInv, SlotBehind
<1>3. Rows(slot.pos + 1 .. last) \in SUBSET Nat
  BY <1>2, Parts DEF PgInv, Rows
<1>. HIDE DEF last
<1>4. /\ cur' \in Runs /\ cur'.upto = last /\ cur'.data = Rows(slot.pos + 1 .. last)
      /\ cur'.owner = cur.owner /\ cur'.selective = cur.selective /\ cur'.base = cur.base
  BY <1>1, <1>2, <1>3, Parts DEF PgInv, Runs
<1>5. PgTypeOK'
  BY <1>1, <1>4 DEF PgInv, PgTypeOK
<1>6. SlotBehind'
  BY <1>1, <1>4, SameStore DEF PgInv, SlotBehind, NewSlot, Now
<1>7. Reading'
  <2>1. Rows(slot.pos + 1 .. cur.upto)' = Rows(slot.pos + 1 .. last) /\ Now' = Now
    BY <1>1, <1>4 DEF Rows, Now
  <2>2. slot'.pos = slot.pos /\ slot.pos \in Nat
    BY <1>1, Parts DEF PgInv
  <2>. QED
    BY <1>1, <1>2, <1>4, <2>1, <2>2, SameStore DEF PgInv, Reading
<1>. QED
  BY <1>1, <1>5, <1>6, <1>7, Kept

\* The slot is moved to what the newest base's increments reach.
LEMMA AdvanceSlotStep ==
  ASSUME PgInv, AdvanceSlot
  PROVE  PgInv'
<1>1. /\ pgStep = "advance" /\ pgStep' = "idle" /\ cur' = NoRun
      /\ UNCHANGED <<wal, store, orphan, tainted>>
  BY DEF AdvanceSlot
<1>2. cur.upto <= Now /\ Reaches(NewestBase, cur.upto)
  BY <1>1 DEF PgInv, Reading
<1>3. slot' \in Slots /\ ((slot' = slot /\ slot.health # "active") \/ slot'.pos = cur.upto)
  BY Parts DEF PgInv, AdvanceSlot, advance_slot, Slots
<1>4. NoRun \in Runs /\ ~ NoRun.owner
  BY NoRunIsRun
<1>5. PgTypeOK'
  BY <1>1, <1>3, <1>4 DEF PgInv, PgTypeOK
<1>6. SlotBehind'
  BY <1>1, <1>2, <1>3, SameStore DEF PgInv, SlotBehind, NewSlot, Now
<1>7. Reading'
  BY <1>1, <1>4 DEF Reading
<1>. QED
  BY <1>1, <1>5, <1>6, <1>7, Kept

\* A run that dies leaves an orphan slot or one behind the newest base.
LEMMA AbortStep ==
  ASSUME PgInv, Abort
  PROVE  PgInv'
<1>1. /\ pgStep' = "idle" /\ cur' = NoRun
      /\ orphan' = IF cur.owner /\ pgStep \in {"dump", "publish"} THEN TRUE ELSE orphan
      /\ UNCHANGED <<wal, slot, store, tainted>>
  BY DEF Abort
<1>2. NoRun \in Runs /\ ~ NoRun.owner
  BY NoRunIsRun
<1>3. PgTypeOK'
  BY <1>1, <1>2 DEF PgInv, PgTypeOK
<1>4. SlotBehind'
  BY <1>1, SameStore DEF PgInv, SlotBehind, NewSlot, Now
<1>5. Reading'
  BY <1>1, <1>2 DEF Reading
<1>. QED
  BY <1>1, <1>3, <1>4, <1>5, Kept

-----------------------------------------------------------------------------
(* The steps that publish *)

\* What a stored manifest says of itself.
LEMMA ManifestParts ==
  ASSUME PgTypeOK, NEW i \in 1 .. Len(store)
  PROVE  store[i] \in Manifests /\ store[i].upto \in Nat /\ store[i].data \in SUBSET Nat
<1>1. store \in Seq(Manifests)
  BY DEF PgTypeOK
<1>2. store[i] \in Manifests
  BY <1>1
<1>. QED
  BY <1>2 DEF Manifests

\* A chain that does not get the new manifest is as it was.
LEMMA Untouched ==
  ASSUME PgTypeOK, NEW m \in Manifests, store' = Append(store, m), NEW b \in Bases,
         ~ (m.kind = "incr" /\ m.base = b)
  PROVE  /\ Members(b)' = Members(b) /\ Endpoints(b)' = Endpoints(b)
         /\ \A i \in Members(b) : store'[i] = store[i]
         /\ \A n : Reaches(b, n)' <=> Reaches(b, n)
<1>1. SlicesOf(b)' = SlicesOf(b)
  <2>1. SlicesOf(b)' = SlicesOf(b) \cup IF m.kind = "incr" /\ m.base = b
                                        THEN {Len(store) + 1} ELSE {}
    BY Appended
  <2>. QED
    BY <2>1
<1>2. Members(b)' = Members(b)
  BY <1>1 DEF Members
<1>3. Members(b) \subseteq 1 .. Len(store)
  BY DEF Members, SlicesOf, Bases
<1>4. \A i \in Members(b) : store'[i] = store[i]
  BY <1>3, Appended
<1>5. Endpoints(b)' = Endpoints(b)
  BY <1>2, <1>4 DEF Endpoints
<1>6. \A n : Reaches(b, n)' <=> Reaches(b, n)
  BY <1>2, <1>4 DEF Reaches
<1>. QED
  BY <1>2, <1>4, <1>5, <1>6

\* The chain of a new increment grows by it.
LEMMA Extended ==
  ASSUME PgTypeOK, NEW m \in Manifests, store' = Append(store, m), NEW b \in Bases,
         m.kind = "incr", m.base = b
  PROVE  /\ Members(b)' = Members(b) \cup {Len(store) + 1} /\ store'[Len(store) + 1] = m
         /\ \A i \in Members(b) : store'[i] = store[i]
         /\ Endpoints(b)' = Endpoints(b) \cup {m.upto}
         /\ \A n : Reaches(b, n)' <=> Reaches(b, n) \/ n <= m.upto
<1>1. SlicesOf(b)' = SlicesOf(b) \cup {Len(store) + 1} /\ store'[Len(store) + 1] = m
  BY Appended
<1>2. Members(b)' = Members(b) \cup {Len(store) + 1}
  BY <1>1 DEF Members
<1>3. Members(b) \subseteq 1 .. Len(store)
  BY DEF Members, SlicesOf, Bases
<1>4. \A i \in Members(b) : store'[i] = store[i]
  BY <1>3, Appended
<1>5. Endpoints(b)' = Endpoints(b) \cup {m.upto}
  <2>1. \A e : e \in Endpoints(b)' <=> \E i \in Members(b) \cup {Len(store) + 1} : e = store'[i].upto
    BY <1>2 DEF Endpoints
  <2>2. \A e : e \in Endpoints(b) <=> \E i \in Members(b) : e = store[i].upto
    BY DEF Endpoints
  <2>3. ASSUME NEW e
        PROVE  e \in Endpoints(b)' <=> e \in Endpoints(b) \/ e = m.upto
    <3>1. (\E i \in Members(b) : e = store'[i].upto) <=> e \in Endpoints(b)
      BY <1>4, <2>2
    <3>2. e \in Endpoints(b)' <=> (\E i \in Members(b) : e = store'[i].upto) \/ e = m.upto
      BY <1>1, <2>1
    <3>. QED
      BY <3>1, <3>2
  <2>. QED
    BY <2>3
<1>6. ASSUME NEW n
      PROVE  Reaches(b, n)' <=> Reaches(b, n) \/ n <= m.upto
  <2>1. Reaches(b, n)' <=> \E i \in Members(b) \cup {Len(store) + 1} : n <= store'[i].upto
    BY <1>2 DEF Reaches
  <2>. QED
    BY <1>1, <1>4, <2>1 DEF Reaches
<1>. QED
  BY <1>1, <1>2, <1>4, <1>5, <1>6

\* A manifest that is as it should be leaves the others so.
LEMMA StoredStep ==
  ASSUME PgInv, NEW m \in Manifests, store' = Append(store, m), UNCHANGED wal,
         m.upto <= Now,
         m.kind = "full" => m.data = Rows(1 .. m.upto),
         m.kind = "incr" => m.base \in Bases /\ m.data \subseteq Rows(1 .. m.upto)
  PROVE  Stored'
<1>1. /\ 1 .. Len(store') = 1 .. Len(store) \cup {Len(store) + 1} /\ Len(store) \in Nat
      /\ \A i \in 1 .. Len(store) : store'[i] = store[i]
      /\ store'[Len(store) + 1] = m
      /\ Bases \subseteq Bases' /\ Bases \subseteq 1 .. Len(store)
  BY Appended DEF PgInv, Bases
<1>2. Now' = Now /\ \A S : Rows(S)' = Rows(S)
  BY DEF Now, Rows
<1>3. SUFFICES ASSUME NEW i \in 1 .. Len(store')
               PROVE  /\ store'[i].upto <= Now
                      /\ store'[i].kind = "full" =>
                           store'[i].data = Rows(1 .. store'[i].upto)
                      /\ store'[i].kind = "incr" =>
                           /\ store'[i].base \in Bases' /\ store'[i].base < i
                           /\ store'[i].data \subseteq Rows(1 .. store'[i].upto)
  BY <1>2 DEF Stored, Rows
<1>4. CASE i \in 1 .. Len(store)
  BY <1>1, <1>4 DEF PgInv, Stored
<1>5. CASE i = Len(store) + 1
  <2>1. ASSUME m.kind = "incr"
        PROVE  m.base < i
    <3>1. m.base \in 1 .. Len(store)
      BY <1>1, <2>1
    <3>. QED
      BY <1>1, <1>5, <3>1
  <2>. QED
    BY <1>1, <1>5, <2>1
<1>. QED
  BY <1>1, <1>4, <1>5

\* A selective full backup is nobody's base.
LEMMA SelectiveStep ==
  ASSUME PgInv, PublishFull, cur.selective
  PROVE  PgInv'
<1>. DEFINE m == [kind |-> "full", selective |-> cur.selective, base |-> 0,
                  upto |-> cur.upto, data |-> cur.data]
<1>1. /\ pgStep = "publish" /\ pgStep' = "idle" /\ cur' = NoRun /\ store' = Append(store, m)
      /\ UNCHANGED <<wal, slot, orphan, tainted>>
  BY DEF PublishFull
<1>2. m \in Manifests /\ m.kind = "full" /\ m.selective /\ m.upto = cur.upto /\ m.data = cur.data
  BY Parts DEF PgInv, Manifests
<1>. HIDE DEF m
<1>3. Bases' = Bases /\ NewestBase' = NewestBase
  <2>1. Bases' = Bases
    BY <1>1, <1>2, Appended DEF PgInv
  <2>. QED
    BY <2>1 DEF NewestBase
<1>4. ASSUME NEW b \in Bases
      PROVE  /\ Members(b)' = Members(b) /\ Endpoints(b)' = Endpoints(b)
             /\ \A i \in Members(b) : store'[i] = store[i]
             /\ \A n : Reaches(b, n)' <=> Reaches(b, n)
  BY <1>1, <1>2, Untouched DEF PgInv
<1>5. PgTypeOK'
  BY <1>1, <1>2, Appended, NoRunIsRun DEF PgInv, PgTypeOK
<1>6. Bounded'
  BY <1>3, <1>4 DEF PgInv, Bounded
<1>7. Stored'
  <2>1. m.upto <= Now /\ m.data = Rows(1 .. m.upto)
    BY <1>1, <1>2 DEF PgInv, Reading
  <2>. QED
    BY <1>1, <1>2, <2>1, StoredStep
<1>8. Covered'
  <2>1. SUFFICES ASSUME NEW b \in Bases' \ tainted', NEW n \in 1 .. Now', wal'[n], Reaches(b, n)'
                 PROVE  \E i \in Members(b)' : n \in store'[i].data
    BY Zenon DEF Covered
  <2>2. b \in Bases \ tainted /\ n \in 1 .. Now /\ wal[n] /\ Reaches(b, n)
    BY <1>1, <1>3, <1>4, <2>1 DEF Now
  <2>3. \E i \in Members(b) : n \in store[i].data
    BY <2>2 DEF PgInv, Covered
  <2>. QED
    BY <1>4, <2>2, <2>3
<1>9. SlotBehind'
  <2>1. ~ NewSlot
    BY DEF PgInv, Reading, NewSlot
  <2>2. Bases # {} => (Reaches(NewestBase, slot.pos)' <=> Reaches(NewestBase, slot.pos))
    BY <1>1, <1>3, <1>4, NewestIs DEF PgInv
  <2>. QED
    BY <1>1, <1>3, <2>1, <2>2 DEF PgInv, SlotBehind, Now
<1>10. Reading'
  BY <1>1, NoRunIsRun DEF Reading
<1>. QED
  BY <1>5, <1>6, <1>7, <1>8, <1>9, <1>10 DEF PgInv

\* A full backup of everything is the new base, at or past the slot.
LEMMA NewBaseStep ==
  ASSUME PgInv, PublishFull, ~ cur.selective
  PROVE  PgInv'
<1>. DEFINE m == [kind |-> "full", selective |-> cur.selective, base |-> 0,
                  upto |-> cur.upto, data |-> cur.data]
<1>1. /\ pgStep = "publish" /\ pgStep' = "idle" /\ cur' = NoRun /\ store' = Append(store, m)
      /\ UNCHANGED <<wal, slot, orphan, tainted>>
  BY DEF PublishFull
<1>2. m \in Manifests /\ m.kind = "full" /\ ~ m.selective /\ m.upto = cur.upto /\ m.data = cur.data
  BY Parts DEF PgInv, Manifests
<1>3. /\ m.upto \in Nat /\ m.upto <= Now /\ slot.pos <= m.upto /\ slot.pos \in Nat
      /\ m.data = Rows(1 .. m.upto)
  BY <1>1, <1>2, Parts DEF PgInv, Reading
<1>. HIDE DEF m
<1>4. PICK last \in Nat : last = Len(store) + 1
  BY DEF PgInv, PgTypeOK
<1>5. Bases' = Bases \cup {last} /\ Bases \subseteq 1 .. Len(store) /\ store'[last] = m
  BY <1>1, <1>2, <1>4, Appended DEF PgInv, Bases
<1>6. ASSUME NEW b \in Bases
      PROVE  /\ Members(b)' = Members(b) /\ Endpoints(b)' = Endpoints(b)
             /\ \A i \in Members(b) : store'[i] = store[i]
             /\ \A n : Reaches(b, n)' <=> Reaches(b, n)
  BY <1>1, <1>2, Untouched DEF PgInv
<1>7. Members(last)' = {last} /\ Endpoints(last)' = {m.upto} /\ \A n : Reaches(last, n)' <=> n <= m.upto
  <2>1. SlicesOf(last)' = SlicesOf(last)
    <3>1. SlicesOf(last)' = SlicesOf(last) \cup IF m.kind = "incr" /\ m.base = last
                                                THEN {Len(store) + 1} ELSE {}
      BY <1>1, <1>2, Appended DEF PgInv
    <3>. QED
      BY <1>2, <3>1
  <2>2. SlicesOf(last) = {}
    <3>1. \A i \in 1 .. Len(store) : store[i].kind = "incr" => store[i].base # last
      BY <1>4, <1>5 DEF PgInv, Stored
    <3>. QED
      BY <3>1 DEF SlicesOf
  <2>3. Members(last)' = {last}
    BY <2>1, <2>2 DEF Members
  <2>. QED
    BY <1>5, <2>3 DEF Endpoints, Reaches
<1>8. PgTypeOK'
  BY <1>1, <1>2, Appended, NoRunIsRun DEF PgInv, PgTypeOK
<1>9. Bounded'
  <2>1. \A j \in Bases' : j <= last
    BY <1>4, <1>5
  <2>2. \A b \in Bases' : \E n \in Endpoints(b)' : \A k \in Endpoints(b)' : k <= n
    <3>1. ASSUME NEW b \in Bases'
          PROVE  \E n \in Endpoints(b)' : \A k \in Endpoints(b)' : k <= n
      <4>1. CASE b \in Bases
        BY <1>6, <4>1 DEF PgInv, Bounded
      <4>2. CASE b = last
        <5>1. Endpoints(b)' = {m.upto}
          BY <1>7, <4>2
        <5>. QED
          BY <1>3, <5>1
      <4>. QED
        BY <1>5, <4>1, <4>2
    <3>. QED
      BY <3>1
  <2>. QED
    BY <1>5, <2>1, <2>2 DEF Bounded
<1>10. Stored'
  BY <1>1, <1>2, <1>3, StoredStep
<1>11. Covered'
  <2>1. SUFFICES ASSUME NEW b \in Bases' \ tainted', NEW n \in 1 .. Now', wal'[n], Reaches(b, n)'
                 PROVE  \E i \in Members(b)' : n \in store'[i].data
    BY Zenon DEF Covered
  <2>2. n \in 1 .. Now /\ wal[n]
    BY <1>1, <2>1 DEF Now
  <2>3. CASE b \in Bases
    <3>1. b \in Bases \ tainted /\ Reaches(b, n)
      BY <1>1, <1>6, <2>1, <2>3
    <3>2. \E i \in Members(b) : n \in store[i].data
      BY <2>2, <3>1 DEF PgInv, Covered
    <3>. QED
      BY <1>6, <2>3, <3>2
  <2>4. CASE b = last
    <3>1. n \in 1 .. m.upto
      BY <1>3, <1>7, <2>1, <2>2, <2>4
    <3>2. n \in m.data
      BY <1>3, <2>2, <3>1 DEF Rows
    <3>. QED
      BY <1>5, <1>7, <2>4, <3>2
  <2>. QED
    BY <1>5, <2>1, <2>3, <2>4
<1>12. SlotBehind'
  <2>1. NewestBase' = last
    <3>1. last \in Bases' /\ \A j \in Bases' : j <= last
      BY <1>4, <1>5
    <3>2. NewestBase' = CHOOSE i \in Bases' : \A j \in Bases' : j <= i
      BY DEF NewestBase
    <3>3. NewestBase' \in Bases' /\ \A j \in Bases' : j <= NewestBase'
      BY <3>1, <3>2
    <3>4. \A j \in Bases' : j \in Nat
      BY <1>4, <1>5
    <3>5. NewestBase' \in Nat /\ NewestBase' <= last /\ last <= NewestBase'
      BY <3>1, <3>3, <3>4
    <3>. QED
      BY <1>4, <3>5
  <2>2. slot'.pos <= Now' /\ slot'.pos <= m.upto
    BY <1>1, <1>3 DEF PgInv, SlotBehind, Now
  <2>3. last \in Members(last)' /\ store'[last].upto = m.upto
    BY <1>5, <1>7
  <2>4. \E i \in Members(NewestBase)' : slot'.pos <= store'[i].upto
    BY <2>1, <2>2, <2>3 DEF Members, SlicesOf
  <2>. QED
    BY <2>2, <2>4 DEF SlotBehind, Reaches
<1>13. Reading'
  BY <1>1, NoRunIsRun DEF Reading
<1>. QED
  BY <1>8, <1>9, <1>10, <1>11, <1>12, <1>13 DEF PgInv

\* A new increment closes the gap between the slot and what was peeked.
LEMMA SaveSliceStep ==
  ASSUME PgInv, SaveSlice
  PROVE  PgInv'
<1>. DEFINE m == [kind |-> "incr", selective |-> FALSE, base |-> cur.base,
                  upto |-> cur.upto, data |-> cur.data]
<1>1. /\ pgStep = "save" /\ pgStep' = "advance" /\ store' = Append(store, m)
      /\ tainted' = IF orphan THEN tainted \cup {cur.base} ELSE tainted
      /\ UNCHANGED <<wal, slot, cur, orphan>>
  BY DEF SaveSlice
<1>2. /\ m \in Manifests /\ m.kind = "incr" /\ m.base = cur.base
      /\ m.upto = cur.upto /\ m.data = cur.data
  BY Parts DEF PgInv, Manifests
<1>3. /\ m.upto \in Nat /\ m.upto <= Now /\ slot.pos <= m.upto /\ slot.pos \in Nat
      /\ m.data = Rows(slot.pos + 1 .. m.upto) /\ m.data \subseteq Rows(1 .. m.upto)
  <2>1. /\ m.upto \in Nat /\ m.upto <= Now /\ slot.pos <= m.upto /\ slot.pos \in Nat
        /\ m.data = Rows(slot.pos + 1 .. m.upto)
    BY <1>1, <1>2, Parts DEF PgInv, Reading
  <2>. QED
    BY <2>1 DEF Rows
<1>. HIDE DEF m
<1>4. PICK newest \in Nat : newest = NewestBase /\ newest \in Bases /\ m.base = newest
  <2>1. Bases # {} /\ cur.base = NewestBase
    BY <1>1 DEF PgInv, Reading
  <2>. QED
    BY <1>2, <2>1, NewestIs DEF PgInv, Bases
<1>5. Bases' = Bases /\ NewestBase' = newest
  <2>1. Bases' = Bases
    BY <1>1, <1>2, Appended DEF PgInv
  <2>. QED
    BY <1>4, <2>1 DEF NewestBase
<1>6. ASSUME NEW b \in Bases, b # newest
      PROVE  /\ Members(b)' = Members(b) /\ Endpoints(b)' = Endpoints(b)
             /\ \A i \in Members(b) : store'[i] = store[i]
             /\ \A n : Reaches(b, n)' <=> Reaches(b, n)
  BY <1>1, <1>2, <1>4, <1>6, Untouched DEF PgInv
<1>7. /\ Members(newest)' = Members(newest) \cup {Len(store) + 1} /\ store'[Len(store) + 1] = m
      /\ \A i \in Members(newest) : store'[i] = store[i]
      /\ Endpoints(newest)' = Endpoints(newest) \cup {m.upto}
      /\ \A n : Reaches(newest, n)' <=> Reaches(newest, n) \/ n <= m.upto
  BY <1>1, <1>2, <1>4, Extended DEF PgInv
<1>8. PgTypeOK'
  <2>1. store' \in Seq(Manifests)
    BY <1>1, <1>2, Appended DEF PgInv
  <2>2. tainted' \in SUBSET Nat
    BY <1>1, <1>4, Parts DEF PgInv, PgTypeOK
  <2>. QED
    BY <1>1, <2>1, <2>2 DEF PgInv, PgTypeOK
<1>9. Bounded'
  <2>1. \E i \in Bases' : \A j \in Bases' : j <= i
    BY <1>4, <1>5 DEF PgInv, Bounded
  <2>2. ASSUME NEW b \in Bases'
        PROVE  \E n \in Endpoints(b)' : \A k \in Endpoints(b)' : k <= n
    <3>1. PICK n \in Endpoints(b) : \A k \in Endpoints(b) : k <= n
      BY <1>5, <2>2 DEF PgInv, Bounded
    <3>2. CASE b # newest
      BY <1>5, <1>6, <2>2, <3>1, <3>2
    <3>3. CASE b = newest
      <4>1. Endpoints(b) \subseteq Nat
        BY <1>5, <2>2, ManifestParts DEF PgInv, Endpoints, Members, SlicesOf, Bases
      <4>2. CASE n <= m.upto
        BY <1>3, <1>7, <3>1, <3>3, <4>1, <4>2
      <4>3. CASE m.upto <= n
        BY <1>3, <1>7, <3>1, <3>3, <4>1, <4>3
      <4>. QED
        BY <1>3, <3>1, <4>1, <4>2, <4>3
    <3>. QED
      BY <3>2, <3>3
  <2>. QED
    BY <2>1, <2>2 DEF Bounded
<1>10. Stored'
  BY <1>1, <1>2, <1>3, <1>4, StoredStep
<1>11. ~ orphan /\ Bases # {} => Reaches(newest, slot.pos)
  BY <1>1, <1>4 DEF PgInv, SlotBehind, NewSlot
<1>12. Covered'
  <2>1. SUFFICES ASSUME NEW b \in Bases' \ tainted', NEW n \in 1 .. Now', wal'[n], Reaches(b, n)'
                 PROVE  \E i \in Members(b)' : n \in store'[i].data
    BY Zenon DEF Covered
  <2>2. n \in 1 .. Now /\ wal[n] /\ b \in Bases \ tainted
    BY <1>1, <1>5, <2>1 DEF Now
  <2>3. Reaches(b, n) => \E i \in Members(b) : n \in store[i].data
    BY <2>2 DEF PgInv, Covered
  <2>4. CASE b # newest
    BY <1>6, <2>1, <2>2, <2>3, <2>4
  <2>5. CASE b = newest /\ Reaches(b, n)
    BY <1>7, <2>3, <2>5
  <2>6. CASE b = newest /\ ~ Reaches(b, n)
    <3>1. n <= m.upto
      BY <1>7, <2>1, <2>6
    <3>2. ~ orphan
      BY <1>1, <1>2, <1>4, <2>1, <2>6
    <3>3. PICK i \in Members(b) : slot.pos <= store[i].upto
      BY <1>11, <2>2, <2>6, <3>2 DEF Reaches
    <3>4. store[i].upto \in Nat /\ ~ (n <= store[i].upto)
      BY <2>2, <2>6, ManifestParts DEF PgInv, Reaches, Members, SlicesOf, Bases
    <3>5. n \in slot.pos + 1 .. m.upto
      BY <1>3, <2>2, <3>1, <3>3, <3>4
    <3>6. n \in m.data
      BY <1>3, <2>2, <3>5 DEF Rows
    <3>. QED
      BY <1>7, <2>6, <3>6
  <2>. QED
    BY <2>4, <2>5, <2>6
<1>13. SlotBehind'
  <2>1. slot'.pos <= Now'
    BY <1>1 DEF PgInv, SlotBehind, Now
  <2>2. ~ orphan => Reaches(NewestBase, slot.pos)'
    BY <1>1, <1>4, <1>5, <1>7, <1>11 DEF Reaches, Members, SlicesOf
  <2>. QED
    BY <1>1, <2>1, <2>2 DEF SlotBehind
<1>14. Reading'
  <2>1. cur'.upto <= Now' /\ Reaches(NewestBase, cur.upto)'
    BY <1>1, <1>2, <1>3, <1>5, <1>7 DEF Now, Reaches, Members, SlicesOf
  <2>2. Bases' # {} /\ cur'.base = newest
    BY <1>1, <1>2, <1>4, <1>5
  <2>3. cur'.owner => ~ cur'.selective
    BY <1>1 DEF PgInv, Reading
  <2>. QED
    BY <1>1, <1>5, <2>1, <2>2, <2>3 DEF Reading
<1>. QED
  BY <1>8, <1>9, <1>10, <1>12, <1>13, <1>14 DEF PgInv

-----------------------------------------------------------------------------
(* Theorems *)

\* What the slot, the stored manifests and the running command have to say of each
\* other is kept by every step of the backup commands and of the server.
THEOREM PgInvariance == PgSpec => []PgInv
<1>1. PgInv /\ [PgNext]_pgVars => PgInv'
  <2>. SUFFICES ASSUME PgInv, [PgNext]_pgVars
                PROVE  PgInv'
    OBVIOUS
  <2>1. ASSUME NEW row \in BOOLEAN, Commit(row)
        PROVE  PgInv'
    BY <2>1, CommitStep
  <2>2. ASSUME NEW health \in {"missing", "lost"}, SlotBreaks(health)
        PROVE  PgInv'
    BY <2>2, SlotBreaksStep
  <2>3. CASE PublishFull
    BY <2>3, SelectiveStep, NewBaseStep
  <2>4. CASE UNCHANGED pgVars
    <3>1. UNCHANGED <<wal, slot, store, pgStep, cur, orphan, tainted>>
      BY <2>4 DEF pgVars
    <3>2. PgTypeOK'
      BY <3>1 DEF PgInv, PgTypeOK
    <3>3. SlotBehind' /\ Reading'
      BY <3>1, SameStore DEF PgInv, SlotBehind, Reading, NewSlot, Now, Rows
    <3>. QED
      BY <3>1, <3>2, <3>3, Kept
  <2>. QED
    BY <2>1, <2>2, <2>3, <2>4, StartFullStep, NewSlotStep, DumpStep, StartIncrStep,
       SelectBaseStep, PeekStep, SaveSliceStep, AdvanceSlotStep, AbortStep DEF PgNext
<1>. QED
  BY <1>1, InitPgInv, PTL DEF PgSpec

\* Restoring a base with all its increments brings back every row change committed up
\* to the chain's end, unless an increment was read from a slot whose full backup had
\* failed (engine/postgres/incremental.rs, pipeline/pg_pitr.rs).
THEOREM NoGap == PgSpec => []NoGapUnlessTainted
<1>1. PgInv => NoGapUnlessTainted
  <2>. SUFFICES ASSUME PgInv, NEW b \in Bases \ tainted
                PROVE  RestoreLatest(b) = Rows(1..Reach(b))
    BY DEF NoGapUnlessTainted
  <2>1. /\ \E i \in Members(b) : store[i].upto = Reach(b)
        /\ \A i \in Members(b) : store[i].upto <= Reach(b)
    BY ReachIs DEF PgInv
  <2>2. /\ b \in 1 .. Len(store) /\ store[b].kind = "full" /\ b \in Members(b)
        /\ Members(b) \subseteq 1 .. Len(store)
    BY DEF Bases, Members, SlicesOf
  <2>3. RestoreLatest(b) = UNION {store[i].data : i \in Members(b)}
    BY DEF RestoreLatest, Members
  <2>4. \A i \in Members(b) : store[i].data \subseteq Rows(1 .. Reach(b))
    <3>1. ASSUME NEW i \in Members(b)
          PROVE  store[i].data \subseteq Rows(1 .. Reach(b))
      <4>1. store[i].data \subseteq Rows(1 .. store[i].upto)
        BY <2>2, ManifestParts DEF PgInv, Stored, Manifests
      <4>2. store[i].upto \in Nat /\ Reach(b) \in Nat /\ store[i].upto <= Reach(b)
        BY <2>1, <2>2, ManifestParts DEF PgInv
      <4>. QED
        BY <4>1, <4>2 DEF Rows
    <3>. QED
      BY <3>1
  <2>5. ASSUME NEW n \in Rows(1 .. Reach(b))
        PROVE  \E i \in Members(b) : n \in store[i].data
    <3>1. Reach(b) \in Nat /\ Reach(b) <= Now /\ Now \in Nat
      BY <2>1, <2>2, ManifestParts, Parts DEF PgInv, Stored
    <3>2. n \in 1 .. Now /\ wal[n] /\ n <= Reach(b)
      BY <3>1 DEF Rows
    <3>3. Reaches(b, n)
      BY <2>1, <3>2 DEF Reaches
    <3>. QED
      BY <3>2, <3>3 DEF PgInv, Covered
  <2>. QED
    BY <2>3, <2>4, <2>5
<1>. QED
  BY <1>1, PgInvariance, PTL

\* A restore to a moment that the newest base precedes brings back exactly the row
\* changes committed by then (pipeline/pg_pitr.rs, --at).
THEOREM ExactRestore == PgSpec => []RestoreAtExact
<1>1. PgInv => RestoreAtExact
  <2>. SUFFICES ASSUME PgInv, Bases # {}, NewestBase \notin tainted,
                       NEW t \in store[NewestBase].upto .. Reach(NewestBase)
                PROVE  RestoreAt(t) = Rows(1..t)
    BY DEF RestoreAtExact
  <2>. DEFINE b == NewestBase
  <2>1. b \in Bases \ tainted
    BY NewestIs DEF PgInv
  <2>. HIDE DEF b
  <2>2. /\ b \in 1 .. Len(store) /\ store[b].kind = "full" /\ b \in Members(b)
        /\ Members(b) = SlicesOf(b) \cup {b} /\ Members(b) \subseteq 1 .. Len(store)
    BY <2>1 DEF Bases, Members, SlicesOf
  <2>3. /\ \E i \in Members(b) : store[i].upto = Reach(b)
        /\ \A i \in Members(b) : store[i].upto <= Reach(b)
    BY <2>1, ReachIs DEF PgInv
  <2>4. Reach(b) \in Nat /\ Reach(b) <= Now /\ Now \in Nat /\ store[b].upto \in Nat
    BY <2>2, <2>3, ManifestParts, Parts DEF PgInv, Stored
  <2>5. t \in Nat /\ store[b].upto <= t /\ t <= Reach(b)
    BY <2>4 DEF b
  <2>6. store[b].data = Rows(1 .. store[b].upto)
    BY <2>2 DEF PgInv, Stored
  <2>7. RestoreAt(t) = store[b].data
                         \cup {n \in UNION {store[i].data : i \in SlicesOf(b)} : n <= t}
    BY DEF RestoreAt, b
  <2>8. ASSUME NEW n \in RestoreAt(t)
        PROVE  n \in Rows(1..t)
    <3>1. CASE n \in store[b].data
      BY <2>4, <2>5, <2>6, <3>1 DEF Rows
    <3>2. ASSUME NEW i \in SlicesOf(b), n \in store[i].data, n <= t
          PROVE  n \in Rows(1..t)
      <4>1. n \in Rows(1 .. store[i].upto) /\ store[i].upto \in Nat
        BY <3>2, ManifestParts DEF PgInv, Stored, SlicesOf
      <4>. QED
        BY <2>5, <3>2, <4>1 DEF Rows
    <3>. QED
      BY <2>7, <3>1, <3>2
  <2>9. ASSUME NEW n \in Rows(1..t)
        PROVE  n \in RestoreAt(t)
    <3>1. n \in 1 .. Now /\ wal[n] /\ n <= Reach(b) /\ n <= t
      BY <2>4, <2>5 DEF Rows
    <3>2. Reaches(b, n)
      BY <2>3, <3>1 DEF Reaches
    <3>3. \E i \in Members(b) : n \in store[i].data
      BY <2>1, <3>1, <3>2 DEF PgInv, Covered
    <3>. QED
      BY <2>2, <2>7, <3>1, <3>3
  <2>. QED
    BY <2>8, <2>9
<1>. QED
  BY <1>1, PgInvariance, PTL

--------------------------------------------------------------------------------
(* The restore: what is restored, and the inductive invariant. *)

PgFunctions == Each("function", schema.functions)
PgSequences == Each("sequence", schema.sequences)
PgViews == Each("view", schema.views) \cup Each("matview", schema.views)
PgConstraints == UNION {ConstraintsOf(t) : t \in schema.tables}

Ddls == [pre : SUBSET PgFunctions, applied : BOOLEAN, constraints : SUBSET PgConstraints,
         post : SUBSET (PgFunctions \cup PgViews)]

RestoreTypes ==
    /\ schema \in PgSchemas
    /\ objects \in SUBSET ArchivedObjects
    /\ copies \in [PgTables -> Nat]
    /\ serial \in SUBSET PgTables /\ valued \in SUBSET PgTables
    /\ phase \in PgPhases
    /\ dropping \in BOOLEAN /\ afresh \in BOOLEAN /\ failed \in BOOLEAN
    /\ frames \in SUBSET write_archive
    /\ ddl \in Ddls
    /\ restores \in 0 .. MaxRestores
    /\ swept \in SUBSET ArchivedObjects

\* PostgreSQL keeps what an object needs, and rows are in tables.
Consistent ==
    /\ \A o \in objects : Needs(o) \subseteq objects
    /\ \A t \in PgTables : Obj("table", t) \notin objects => copies[t] = 0

Read(o) == o \notin frames

PhasesInOrder ==
    /\ phase = "frames" => \A o \in write_archive : Read(o) => \A p \in frames : DumpedBefore(o, p)
    /\ phase # "frames" => frames = {}
    /\ phase \in {"post", "done"} => ddl.constraints = {} /\ ddl.pre = {}
    /\ phase = "done" => ddl.post = {}

FunctionsKept == \A o \in PgFunctions : Read(o) => o \in ddl.pre \cup ddl.post \cup objects \cup swept
SequencesKept == \A o \in PgSequences : Read(o) => o \in objects \cup swept

\* A table that was read is there with its rows, and its constraints wait.
TablesKept ==
    \A t \in schema.tables : Read(Obj("table", t)) =>
        /\ Obj("table", t) \in objects /\ copies[t] = 1
        /\ ConstraintsOf(t) \subseteq ddl.constraints \cup (IF phase = "frames" THEN {} ELSE objects)

KeysWait == \A t \in schema.keyed : Obj("key", t) \in ddl.constraints => Obj("key", t) \notin objects

ViewsKept ==
    \A o \in PgViews : Read(o) => o \in ddl.post \/ (phase \in {"post", "done"} /\ o \in objects)

NoOldTable ==
    ~ dropping => \A t \in schema.tables : Obj("table", t) \in frames => Obj("table", t) \notin objects

SequencesSet ==
    phase \in {"post", "done"} => \A t \in schema.sequences : Obj("sequence", t) \in swept \/ t \in valued

Sound == phase \in {"frames", "constraints", "post", "done"} /\ afresh /\ ~ failed

KeepsAll ==
    Sound => /\ FunctionsKept /\ SequencesKept /\ TablesKept /\ KeysWait
             /\ ViewsKept /\ NoOldTable /\ SequencesSet

RestoreInv == RestoreTypes /\ Consistent /\ PhasesInOrder /\ KeepsAll /\ FailsForAReason

--------------------------------------------------------------------------------
(* Objects. *)

PgKinds == {"function", "sequence", "table", "view", "matview", "key"}

LEMMA ObjFacts ==
    /\ \A k \in PgKinds : \A t : Obj(k, t)[1] = k /\ Obj(k, t)[2] = t
    /\ \A c, p : Ref(c, p)[1] = "reference" /\ Ref(c, p)[2] = c /\ Ref(c, p)[3] = p
  BY DEF Obj, Ref

LEMMA SchemaFacts ==
    ASSUME RestoreTypes
    PROVE  /\ schema.tables \subseteq PgTables /\ schema.sequences \subseteq PgTables
           /\ schema.keyed \subseteq schema.tables /\ schema.views \subseteq schema.tables
           /\ schema.functions \subseteq schema.tables /\ schema.drawing \subseteq schema.tables
           /\ schema.drawing \subseteq schema.sequences
           /\ \A r \in schema.refs : r[1] \in schema.tables /\ r[2] \in schema.keyed
           /\ schema.keyed \subseteq PgTables
           /\ PgTables \subseteq Nat
<1>1. schema \in PgSchemas /\ schema \in PgSchema
  BY PgRestoreAssumption DEF RestoreTypes
<1>2. /\ schema.keyed \cup schema.views \cup schema.functions \cup schema.drawing \subseteq schema.tables
      /\ schema.drawing \subseteq schema.sequences
      /\ schema.refs \subseteq schema.tables \X schema.keyed
  BY <1>1, PgRestoreAssumption
<1>3. schema.tables \in SUBSET PgTables /\ schema.sequences \in SUBSET PgTables
  BY <1>1 DEF PgSchema
<1>. QED
  BY <1>2, <1>3, PgRestoreAssumption

\* The objects of an archive, one kind after the other.
LEMMA ArchivedKinds ==
    ASSUME RestoreTypes
    PROVE  /\ \A o \in PgFunctions : \E t \in schema.functions : o = Obj("function", t)
           /\ \A o \in PgSequences : \E t \in schema.sequences : o = Obj("sequence", t)
           /\ \A o \in PgViews : \E t \in schema.views : o = Obj("view", t) \/ o = Obj("matview", t)
           /\ \A o \in PgConstraints :
                 \/ \E t \in schema.keyed : o = Obj("key", t)
                 \/ \E r \in schema.refs : o = Ref(r[1], r[2])
           /\ \A o \in write_archive :
                 \/ o \in PgFunctions \/ o \in PgSequences \/ o \in PgViews
                 \/ \E t \in schema.tables : o = Obj("table", t)
           /\ ArchivedObjects = write_archive \cup PgConstraints
  BY DEF PgFunctions, PgSequences, PgViews, PgConstraints, ConstraintsOf, write_archive, Each,
     ArchivedObjects

LEMMA KindsArchived ==
    ASSUME RestoreTypes
    PROVE  /\ PgFunctions \cup PgSequences \cup PgViews \subseteq write_archive
           /\ write_archive \subseteq ArchivedObjects /\ PgConstraints \subseteq ArchivedObjects
           /\ \A t \in schema.tables : Obj("table", t) \in write_archive
           /\ \A t \in schema.functions : Obj("function", t) \in PgFunctions
           /\ \A t \in schema.sequences : Obj("sequence", t) \in PgSequences
           /\ \A t \in schema.views : Obj("view", t) \in PgViews /\ Obj("matview", t) \in PgViews
           /\ \A t \in schema.tables : ConstraintsOf(t) \subseteq PgConstraints
           /\ \A t \in schema.keyed : Obj("key", t) \in ConstraintsOf(t) /\ Obj("key", t) \in ArchivedObjects
<1>1. schema.keyed \subseteq schema.tables
  BY SchemaFacts
<1>2. /\ PgFunctions \cup PgSequences \cup PgViews \subseteq write_archive
      /\ write_archive \subseteq ArchivedObjects /\ PgConstraints \subseteq ArchivedObjects
      /\ \A t \in schema.tables : Obj("table", t) \in write_archive
      /\ \A t \in schema.functions : Obj("function", t) \in PgFunctions
      /\ \A t \in schema.sequences : Obj("sequence", t) \in PgSequences
      /\ \A t \in schema.views : Obj("view", t) \in PgViews /\ Obj("matview", t) \in PgViews
      /\ \A t \in schema.tables : ConstraintsOf(t) \subseteq PgConstraints
  BY DEF PgFunctions, PgSequences, PgViews, PgConstraints, write_archive, Each, ArchivedObjects
<1>3. \A t \in schema.keyed : Obj("key", t) \in ConstraintsOf(t)
  BY DEF ConstraintsOf
<1>. QED
  BY <1>1, <1>2, <1>3

\* What they are by name.
LEMMA KindWords ==
    ASSUME RestoreTypes
    PROVE  /\ \A o \in PgFunctions : o[1] = "function"
           /\ \A o \in PgSequences : o[1] = "sequence"
           /\ \A o \in PgViews : o[1] \in {"view", "matview"}
           /\ \A o \in PgConstraints : o[1] \in {"key", "reference"}
           /\ \A t : /\ Obj("function", t)[1] = "function" /\ Obj("sequence", t)[1] = "sequence"
                    /\ Obj("table", t)[1] = "table" /\ Obj("key", t)[1] = "key"
                    /\ Obj("view", t)[1] = "view" /\ Obj("matview", t)[1] = "matview"
<1>1. \A t : /\ Obj("function", t)[1] = "function" /\ Obj("sequence", t)[1] = "sequence"
            /\ Obj("table", t)[1] = "table" /\ Obj("key", t)[1] = "key"
            /\ Obj("view", t)[1] = "view" /\ Obj("matview", t)[1] = "matview"
  BY ObjFacts DEF PgKinds
<1>2. \A c, p : Ref(c, p)[1] = "reference"
  BY ObjFacts
<1>. QED
  BY <1>1, <1>2, ArchivedKinds

\* What each kind of object is made of, and needs.
LEMMA NeedsFacts ==
    /\ \A t : Needs(Obj("table", t)) = IF t \in schema.drawing THEN {Obj("sequence", t)} ELSE {}
    /\ \A t : Needs(Obj("key", t)) = {Obj("table", t)}
    /\ \A t : Needs(Obj("function", t)) = {Obj("table", t)}
    /\ \A t : Needs(Obj("matview", t)) = {Obj("table", t)}
    /\ \A t : Needs(Obj("view", t)) = {Obj("matview", t)}
    /\ \A t : Needs(Obj("sequence", t)) = {}
    /\ \A c, p : Needs(Ref(c, p)) = {Obj("table", c), Obj("table", p), Obj("key", p)}
<1>1. \A k \in PgKinds : \A t : Obj(k, t)[1] = k /\ Obj(k, t)[2] = t
  BY ObjFacts
<1>2. \A c, p : Ref(c, p)[1] = "reference" /\ Ref(c, p)[2] = c /\ Ref(c, p)[3] = p
  BY ObjFacts
<1>3. {"function", "sequence", "table", "view", "matview", "key"} \subseteq PgKinds
  BY DEF PgKinds
<1>4. ASSUME NEW t
      PROVE  /\ Needs(Obj("table", t)) = IF t \in schema.drawing THEN {Obj("sequence", t)} ELSE {}
             /\ Needs(Obj("key", t)) = {Obj("table", t)}
             /\ Needs(Obj("function", t)) = {Obj("table", t)}
             /\ Needs(Obj("matview", t)) = {Obj("table", t)}
             /\ Needs(Obj("view", t)) = {Obj("matview", t)}
             /\ Needs(Obj("sequence", t)) = {}
  <2>1. \A o : o[1] = "table" /\ o[2] = t => Needs(o) = IF t \in schema.drawing THEN {Obj("sequence", t)} ELSE {}
    BY DEF Needs
  <2>2. \A o : o[1] \in {"key", "matview", "function"} /\ o[2] = t => Needs(o) = {Obj("table", t)}
    BY DEF Needs
  <2>3. \A o : o[1] = "view" /\ o[2] = t => Needs(o) = {Obj("matview", t)}
    BY DEF Needs
  <2>4. \A o : o[1] = "sequence" => Needs(o) = {}
    BY DEF Needs
  <2>. QED
    BY <1>1, <1>3, <2>1, <2>2, <2>3, <2>4
<1>5. \A c, p : Needs(Ref(c, p)) = {Obj("table", c), Obj("table", p), Obj("key", p)}
  BY <1>2 DEF Needs
<1>. QED
  BY <1>4, <1>5

\* What an object needs is of the archive too.
LEMMA NeedsArchived ==
    ASSUME RestoreTypes, NEW o \in ArchivedObjects
    PROVE  Needs(o) \subseteq ArchivedObjects
<1>1. CASE o \in PgFunctions
  BY <1>1, ArchivedKinds, KindsArchived, NeedsFacts, SchemaFacts
<1>2. CASE o \in PgSequences
  BY <1>2, ArchivedKinds, NeedsFacts
<1>3. CASE o \in PgViews
  BY <1>3, ArchivedKinds, KindsArchived, NeedsFacts, SchemaFacts
<1>4. CASE \E t \in schema.tables : o = Obj("table", t)
  BY <1>4, KindsArchived, NeedsFacts, SchemaFacts
<1>5. CASE o \in PgConstraints
  BY <1>5, ArchivedKinds, KindsArchived, NeedsFacts, SchemaFacts
<1>. QED
  BY <1>1, <1>2, <1>3, <1>4, <1>5, ArchivedKinds

\* DROP TABLE ... CASCADE leaves no object without what it needs.
LEMMA DropIsConsistent ==
    ASSUME RestoreTypes, NEW t, NEW o \in objects, NEW n \in Needs(o), n \in GoesWith(t)
    PROVE  o \in GoesWith(t)
<1>1. \A k \in PgKinds : \A u : Obj(k, u)[1] = k /\ Obj(k, u)[2] = u
  BY ObjFacts
<1>2. {"function", "sequence", "table", "view", "matview", "key"} \subseteq PgKinds
  BY DEF PgKinds
<1>3. o \in ArchivedObjects
  BY DEF RestoreTypes
<1>4. CASE \E u : o = Obj("function", u) \/ o = Obj("matview", u) \/ o = Obj("key", u)
  <2>1. PICK u : o = Obj("function", u) \/ o = Obj("matview", u) \/ o = Obj("key", u)
    BY <1>4
  <2>2. n = Obj("table", u) /\ o[1] # "sequence" /\ o[2] = u
    BY <2>1, <1>1, <1>2, NeedsFacts
  <2>3. n[1] = "table" /\ n[2] = u
    BY <2>2, <1>1, <1>2
  <2>. QED
    BY <2>2, <2>3 DEF GoesWith
<1>5. CASE \E u : o = Obj("view", u)
  <2>1. PICK u : o = Obj("view", u)
    BY <1>5
  <2>2. n = Obj("matview", u) /\ o[1] = "view" /\ o[2] = u
    BY <2>1, <1>1, <1>2, NeedsFacts
  <2>3. n[1] = "matview" /\ n[2] = u
    BY <2>2, <1>1, <1>2
  <2>. QED
    BY <2>2, <2>3 DEF GoesWith
<1>6. CASE \E u : o = Obj("table", u)
  <2>1. PICK u : o = Obj("table", u)
    BY <1>6
  <2>2. n = Obj("sequence", u) /\ o[1] = "table" /\ o[2] = u
    BY <2>1, <1>1, <1>2, NeedsFacts
  <2>3. n[1] = "sequence" /\ n[2] = u
    BY <2>2, <1>1, <1>2
  <2>. QED
    BY <2>2, <2>3 DEF GoesWith
<1>7. CASE \E u : o = Obj("sequence", u)
  BY <1>7, NeedsFacts
<1>8. CASE \E c, p : o = Ref(c, p)
  <2>1. PICK c, p : o = Ref(c, p)
    BY <1>8
  <2>2. n \in {Obj("table", c), Obj("table", p), Obj("key", p)}
    BY <2>1, NeedsFacts
  <2>3. n[1] # "sequence" /\ n[1] # "reference" /\ (n[2] = c \/ n[2] = p)
    BY <2>2, <1>1, <1>2
  <2>4. o[1] = "reference" /\ o[2] = c /\ o[3] = p
    BY <2>1, ObjFacts
  <2>. QED
    BY <2>3, <2>4 DEF GoesWith
<1>. QED
  BY <1>3, <1>4, <1>5, <1>6, <1>7, <1>8, ArchivedKinds

\* The parts of the invariant, for the step lemmas.
LEMMA RestoreParts ==
    ASSUME RestoreInv
    PROVE  /\ RestoreTypes /\ Consistent /\ PhasesInOrder /\ KeepsAll /\ FailsForAReason
           /\ schema \in PgSchemas /\ objects \in SUBSET ArchivedObjects
           /\ copies \in [PgTables -> Nat]
           /\ frames \in SUBSET write_archive /\ ddl \in Ddls /\ swept \in SUBSET ArchivedObjects
           /\ ddl.pre \in SUBSET PgFunctions /\ ddl.constraints \in SUBSET PgConstraints
           /\ ddl.post \in SUBSET (PgFunctions \cup PgViews)
  BY DEF RestoreInv, RestoreTypes, Ddls

\* The archive is that of the database, which does not change.
LEMMA SameArchive ==
    ASSUME schema' = schema
    PROVE  /\ write_archive' = write_archive /\ ArchivedObjects' = ArchivedObjects
           /\ PgFunctions' = PgFunctions /\ PgSequences' = PgSequences /\ PgViews' = PgViews
           /\ PgConstraints' = PgConstraints /\ Ddls' = Ddls
           /\ \A t : ConstraintsOf(t)' = ConstraintsOf(t)
           /\ \A o : Needs(o)' = Needs(o)
<1>1. /\ write_archive' = write_archive
      /\ PgFunctions' = PgFunctions /\ PgSequences' = PgSequences /\ PgViews' = PgViews
  BY DEF write_archive, PgFunctions, PgSequences, PgViews
<1>2. \A t : ConstraintsOf(t)' = ConstraintsOf(t)
  BY DEF ConstraintsOf
<1>3. PgConstraints' = PgConstraints /\ ArchivedObjects' = ArchivedObjects
  BY <1>1 DEF PgConstraints, ArchivedObjects, ConstraintsOf
<1>4. Ddls' = Ddls
  BY <1>1, <1>3 DEF Ddls
<1>5. \A o : Needs(o)' = Needs(o)
  BY DEF Needs
<1>. QED
  BY <1>1, <1>2, <1>3, <1>4, <1>5

LEMMA EmptyDdl ==
    NoDdl \in Ddls /\ NoDdl.pre = {} /\ NoDdl.constraints = {} /\ NoDdl.post = {}
  BY DEF NoDdl, Ddls

\* One CREATE.
LEMMA CreatedFacts ==
    ASSUME NEW o, NEW present, \A q \in present : Needs(q) \subseteq present
    PROVE  /\ present \subseteq Created(o, present) /\ Created(o, present) \subseteq present \cup {o}
           /\ \A q \in Created(o, present) : Needs(q) \subseteq Created(o, present)
           /\ run_ignore_exists(o, present) => o \in Created(o, present)
<1>1. CASE Creatable(o, present)
  <2>1. Created(o, present) = present \cup {o} /\ Needs(o) \subseteq present
    BY <1>1 DEF Created, Creatable
  <2>. QED
    BY <2>1
<1>2. CASE ~ Creatable(o, present)
  BY <1>2 DEF Created, run_ignore_exists
<1>. QED
  BY <1>1, <1>2

LEMMA StepRequestRestore ==
    ASSUME RestoreInv, RequestRestore
    PROVE  RestoreInv'
<1>t. /\ RestoreTypes /\ Consistent
  BY RestoreParts
<1>s. /\ phase' = "frames" /\ frames' = write_archive /\ ddl' = NoDdl /\ valued' = {} /\ swept' = {}
      /\ failed' = FALSE /\ schema' = schema /\ objects' = objects /\ copies' = copies /\ serial' = serial
      /\ restores < MaxRestores /\ restores' = restores + 1
      /\ afresh' = (dropping' \/ ~ \E t \in schema.tables : Obj("table", t) \in objects)
      /\ dropping' \in BOOLEAN
  BY DEF RequestRestore
<1>a. /\ write_archive' = write_archive /\ ArchivedObjects' = ArchivedObjects
      /\ PgFunctions' = PgFunctions /\ PgSequences' = PgSequences /\ PgViews' = PgViews
      /\ Ddls' = Ddls /\ \A o : Needs(o)' = Needs(o)
  BY <1>s, SameArchive
<1>1. RestoreTypes'
  <2>1. restores' \in 0 .. MaxRestores
    BY <1>t, <1>s, PgRestoreAssumption DEF RestoreTypes
  <2>2. ddl' \in Ddls
    BY <1>s, EmptyDdl
  <2>3. frames' \in SUBSET write_archive /\ phase' \in PgPhases /\ afresh' \in BOOLEAN
    BY <1>s DEF PgPhases
  <2>. QED
    BY <1>t, <1>s, <1>a, <2>1, <2>2, <2>3 DEF RestoreTypes
<1>2. Consistent'
  BY <1>t, <1>s, <1>a DEF Consistent
<1>3. PhasesInOrder'
  BY <1>s, <1>a DEF PhasesInOrder, Read
<1>4. KeepsAll'
  <2>1. /\ PgFunctions \subseteq frames' /\ PgSequences \subseteq frames' /\ PgViews \subseteq frames'
        /\ \A t \in schema.tables : Obj("table", t) \in frames'
    BY <1>s, <1>t, KindsArchived
  <2>2. FunctionsKept' /\ SequencesKept' /\ ViewsKept'
    BY <2>1, <1>a DEF FunctionsKept, SequencesKept, ViewsKept, Read
  <2>3. TablesKept' /\ SequencesSet'
    BY <2>1, <1>s DEF TablesKept, SequencesSet, Read
  <2>4. KeysWait'
    BY <1>s, EmptyDdl DEF KeysWait
  <2>5. Sound' => NoOldTable'
    BY <1>s DEF NoOldTable, Sound
  <2>. QED
    BY <2>2, <2>3, <2>4, <2>5 DEF KeepsAll
<1>5. FailsForAReason'
  BY <1>s DEF FailsForAReason
<1>. QED
  BY <1>1, <1>2, <1>3, <1>4, <1>5 DEF RestoreInv

\* After a frame was read, everything before the others was.
LEMMA NextRead ==
    ASSUME PhasesInOrder, phase = "frames", schema' = schema, NEW o \in frames,
           NextIs(o, {o[1]}), frames' = frames \ {o}
    PROVE  \A q \in write_archive : Read(q)' => \A p \in frames' : DumpedBefore(q, p)
  BY DEF PhasesInOrder, Read, NextIs

LEMMA StepReadDdl ==
    ASSUME RestoreInv, ReadDdl
    PROVE  RestoreInv'
<1>t. /\ RestoreTypes /\ Consistent /\ PhasesInOrder /\ KeepsAll
      /\ frames \in SUBSET write_archive /\ ddl \in Ddls
  BY RestoreParts
<1>1. PICK o \in frames :
        /\ NextIs(o, {"function", "view", "matview"})
        /\ ddl' = IF o[1] = "function" THEN [ddl EXCEPT !.pre = ddl.pre \cup {o}]
                                       ELSE [ddl EXCEPT !.post = ddl.post \cup {o}]
        /\ frames' = frames \ {o}
  BY DEF ReadDdl
<1>s. /\ UNCHANGED <<schema, objects, copies, serial, phase, dropping, valued, restores, afresh,
                     swept, failed>>
      /\ phase = "frames" /\ o[1] \in {"function", "view", "matview"}
      /\ NextIs(o, {o[1]})
  BY <1>1 DEF ReadDdl, NextIs
<1>a. /\ write_archive' = write_archive /\ ArchivedObjects' = ArchivedObjects
      /\ PgFunctions' = PgFunctions /\ PgSequences' = PgSequences /\ PgViews' = PgViews
      /\ Ddls' = Ddls /\ (\A q : Needs(q)' = Needs(q)) /\ \A t : ConstraintsOf(t)' = ConstraintsOf(t)
  BY <1>s, SameArchive
<1>k. \/ o[1] = "function" /\ o \in PgFunctions
      \/ o[1] # "function" /\ o \in PgViews
  <2>1. o \in write_archive
    BY <1>t, <1>1
  <2>. QED
    BY <1>s, <1>t, <2>1, ArchivedKinds, KindWords
<1>2. /\ ddl' \in Ddls /\ ddl'.constraints = ddl.constraints
      /\ ddl.pre \subseteq ddl'.pre /\ ddl.post \subseteq ddl'.post
      /\ o \in PgFunctions => o \in ddl'.pre
      /\ o \in PgViews => o \in ddl'.post
  <2>1. (\A q \in PgViews : q[1] # "function") /\ \A q \in PgFunctions : q[1] = "function"
    BY <1>t, KindWords
  <2>2. CASE o[1] = "function" /\ o \in PgFunctions
    <3>1. ddl' = [ddl EXCEPT !.pre = ddl.pre \cup {o}]
      BY <1>1, <2>2
    <3>2. ddl.pre \cup {o} \in SUBSET PgFunctions
      BY <1>t, <2>2 DEF Ddls
    <3>. QED
      BY <1>t, <2>1, <2>2, <3>1, <3>2 DEF Ddls
  <2>3. CASE o[1] # "function" /\ o \in PgViews
    <3>1. ddl' = [ddl EXCEPT !.post = ddl.post \cup {o}]
      BY <1>1, <2>3
    <3>2. ddl.post \cup {o} \in SUBSET (PgFunctions \cup PgViews)
      BY <1>t, <2>3 DEF Ddls
    <3>. QED
      BY <1>t, <2>1, <2>3, <3>1, <3>2 DEF Ddls
  <2>. QED
    BY <1>k, <2>2, <2>3
<1>3. RestoreTypes'
  BY <1>t, <1>1, <1>2, <1>s, <1>a DEF RestoreTypes
<1>4. Consistent'
  BY <1>t, <1>s, <1>a DEF Consistent
<1>5. PhasesInOrder'
  <2>1. \A q \in write_archive : Read(q)' => \A p \in frames' : DumpedBefore(q, p)
    BY <1>t, <1>1, <1>s, NextRead
  <2>. QED
    BY <2>1, <1>s, <1>a DEF PhasesInOrder
<1>6. KeepsAll'
  <2>1. SUFFICES ASSUME Sound PROVE (/\ FunctionsKept /\ SequencesKept /\ TablesKept /\ KeysWait
                                     /\ ViewsKept /\ NoOldTable /\ SequencesSet)'
    BY <1>s DEF KeepsAll, Sound
  <2>2. FunctionsKept /\ SequencesKept /\ TablesKept /\ KeysWait /\ ViewsKept /\ NoOldTable
    BY <1>t, <2>1 DEF KeepsAll
  <2>3. \A q : Read(q)' => Read(q) \/ q = o
    BY <1>1 DEF Read
  <2>4. FunctionsKept'
    BY <2>2, <2>3, <1>2, <1>s, <1>a DEF FunctionsKept
  <2>5. o \notin PgSequences /\ \A t \in schema.tables : o # Obj("table", t)
    BY <1>t, <1>s, KindWords
  <2>6. SequencesKept'
    BY <2>2, <2>3, <2>5, <1>s, <1>a DEF SequencesKept
  <2>7. TablesKept'
    BY <2>2, <2>3, <2>5, <1>s, <1>a, <1>2 DEF TablesKept
  <2>8. KeysWait' /\ SequencesSet'
    BY <2>2, <1>s, <1>2 DEF KeysWait, SequencesSet
  <2>9. ViewsKept'
    BY <2>2, <2>3, <1>2, <1>s, <1>a DEF ViewsKept
  <2>10. NoOldTable'
    BY <2>2, <1>1, <1>s DEF NoOldTable
  <2>. QED
    BY <2>4, <2>6, <2>7, <2>8, <2>9, <2>10
<1>7. FailsForAReason'
  BY <1>s DEF FailsForAReason
<1>. QED
  BY <1>3, <1>4, <1>5, <1>6, <1>7 DEF RestoreInv

LEMMA MemberIsBoolean == ASSUME NEW x, NEW S PROVE (x \in S) \in BOOLEAN
  BY SMT

\* One round.
LEMMA RoundFacts ==
    ASSUME RestoreTypes, Consistent, NEW S \in SUBSET ArchivedObjects
    PROVE  /\ Round(S).still \subseteq S
           /\ objects \subseteq Round(S).present /\ Round(S).present \subseteq objects \cup S
           /\ Round(S).present \in SUBSET ArchivedObjects
           /\ \A o \in Round(S).present : Needs(o) \subseteq Round(S).present
           /\ \A o \in S : o \in Round(S).still \/ o \in Round(S).present
           /\ \A o \in S : o \in Round(S).still => ~ run_ignore_exists(o, objects)
<1>. DEFINE new == {o \in S : Creatable(o, objects)}
<1>1. /\ Round(S).present = objects \cup new
      /\ Round(S).still = {o \in S : ~ run_ignore_exists(o, objects)}
  BY DEF Round
<1>2. new \subseteq S /\ \A o \in new : Needs(o) \subseteq objects
  BY DEF Creatable
<1>3. \A o \in S : run_ignore_exists(o, objects) => o \in objects \/ o \in new
  BY DEF run_ignore_exists
<1>4. objects \in SUBSET ArchivedObjects /\ \A o \in objects : Needs(o) \subseteq objects
  BY DEF RestoreTypes, Consistent
<1>. HIDE DEF new
<1>. QED
  BY <1>1, <1>2, <1>3, <1>4

LEMMA StepApplyPre ==
    ASSUME RestoreInv, ApplyPre
    PROVE  RestoreInv'
<1>t. /\ RestoreTypes /\ Consistent /\ PhasesInOrder /\ KeepsAll /\ ddl \in Ddls
      /\ ddl.pre \in SUBSET PgFunctions /\ objects \in SUBSET ArchivedObjects
  BY RestoreParts
<1>s. /\ UNCHANGED <<schema, copies, serial, phase, dropping, frames, valued, restores, afresh,
                     swept, failed>>
      /\ phase = "frames"
  BY DEF ApplyPre, NextIs
<1>1. PICK b \in BOOLEAN :
        /\ objects' = Round(ddl.pre).present
        /\ ddl' = [ddl EXCEPT !.pre = Round(ddl.pre).still, !.applied = b]
  <2>1. /\ objects' = Round(ddl.pre).present
        /\ ddl' = [ddl EXCEPT !.pre = Round(ddl.pre).still,
                              !.applied = (Round(ddl.pre).still \in {{}, ddl.pre})]
    BY DEF ApplyPre
  <2>2. (Round(ddl.pre).still \in {{}, ddl.pre}) \in BOOLEAN
    BY MemberIsBoolean
  <2>. QED
    BY <2>1, <2>2, Zenon
<1>p. PICK present, still : present = Round(ddl.pre).present /\ still = Round(ddl.pre).still
  OBVIOUS
<1>q. objects' = present /\ ddl' = [ddl EXCEPT !.pre = still, !.applied = b]
  BY <1>1, <1>p
<1>2. ddl.pre \in SUBSET ArchivedObjects
  BY <1>t, KindsArchived
<1>3. /\ still \subseteq ddl.pre /\ objects \subseteq present /\ present \subseteq objects \cup ddl.pre
      /\ present \in SUBSET ArchivedObjects
      /\ \A o \in present : Needs(o) \subseteq present
      /\ \A o \in ddl.pre : o \in still \/ o \in present
  BY <1>t, <1>p, <1>2, RoundFacts
<1>4. /\ ddl' \in Ddls /\ ddl'.pre = still /\ ddl'.post = ddl.post /\ ddl'.constraints = ddl.constraints
  BY <1>t, <1>q, <1>3 DEF Ddls
<1>5. \A o \in present : o \in objects \/ o[1] = "function"
  BY <1>t, <1>3, KindWords
<1>a. /\ write_archive' = write_archive /\ ArchivedObjects' = ArchivedObjects
      /\ PgFunctions' = PgFunctions /\ PgSequences' = PgSequences /\ PgViews' = PgViews
      /\ Ddls' = Ddls /\ (\A q : Needs(q)' = Needs(q)) /\ \A t : ConstraintsOf(t)' = ConstraintsOf(t)
  BY <1>s, SameArchive
<1>6. RestoreTypes'
  BY <1>t, <1>s, <1>a, <1>q, <1>3, <1>4 DEF RestoreTypes
<1>7. Consistent'
  BY <1>t, <1>s, <1>a, <1>q, <1>3 DEF Consistent
<1>8. PhasesInOrder'
  BY <1>t, <1>s, <1>a DEF PhasesInOrder, Read
<1>9. KeepsAll'
  <2>1. SUFFICES ASSUME Sound PROVE (/\ FunctionsKept /\ SequencesKept /\ TablesKept /\ KeysWait
                                     /\ ViewsKept /\ NoOldTable /\ SequencesSet)'
    BY <1>s DEF KeepsAll, Sound
  <2>2. FunctionsKept /\ SequencesKept /\ TablesKept /\ KeysWait /\ ViewsKept /\ NoOldTable
    BY <1>t, <2>1 DEF KeepsAll
  <2>3. \A t : (Obj("key", t) \in present => Obj("key", t) \in objects)
            /\ (Obj("table", t) \in present => Obj("table", t) \in objects)
    BY <1>t, <1>5, KindWords
  <2>4. FunctionsKept' /\ SequencesKept'
    BY <2>2, <1>q, <1>3, <1>4, <1>s, <1>a DEF FunctionsKept, SequencesKept, Read
  <2>5. TablesKept'
    BY <2>2, <1>q, <1>3, <1>4, <1>s, <1>a DEF TablesKept, Read
  <2>6. KeysWait' /\ SequencesSet' /\ NoOldTable'
    BY <2>2, <2>3, <1>q, <1>4, <1>s DEF KeysWait, SequencesSet, NoOldTable
  <2>7. ViewsKept'
    BY <2>2, <1>q, <1>3, <1>4, <1>s, <1>a DEF ViewsKept, Read
  <2>. QED
    BY <2>4, <2>5, <2>6, <2>7
<1>10. FailsForAReason'
  BY <1>s DEF FailsForAReason
<1>. QED
  BY <1>6, <1>7, <1>8, <1>9, <1>10 DEF RestoreInv

LEMMA StepRestoreSequence ==
    ASSUME RestoreInv, RestoreSequence
    PROVE  RestoreInv'
<1>t. /\ RestoreTypes /\ Consistent /\ PhasesInOrder /\ KeepsAll /\ ddl \in Ddls
      /\ frames \in SUBSET write_archive /\ objects \in SUBSET ArchivedObjects
      /\ \A q \in objects : Needs(q) \subseteq objects
  BY RestoreParts DEF Consistent
<1>1. PICK o \in frames :
        NextIs(o, {"sequence"}) /\ objects' = Created(o, objects) /\ frames' = frames \ {o}
  BY DEF RestoreSequence
<1>s. /\ UNCHANGED <<schema, copies, serial, phase, dropping, ddl, valued, restores, afresh,
                     swept, failed>>
      /\ phase = "frames" /\ o[1] = "sequence" /\ NextIs(o, {o[1]})
  BY <1>1 DEF RestoreSequence, NextIs
<1>2. o \in PgSequences /\ o \in ArchivedObjects
  <2>1. o \in write_archive
    BY <1>t, <1>1
  <2>. QED
    BY <2>1, <1>t, <1>s, ArchivedKinds, KindWords
<1>3. run_ignore_exists(o, objects)
  <2>1. Needs(o) = {}
    BY <1>2, <1>t, ArchivedKinds, NeedsFacts
  <2>. QED
    BY <2>1, <1>s DEF run_ignore_exists, Creatable
<1>4. /\ objects \subseteq objects' /\ objects' \subseteq objects \cup {o} /\ o \in objects'
      /\ \A q \in objects' : Needs(q) \subseteq objects'
  BY <1>t, <1>1, <1>3, CreatedFacts
<1>a. /\ write_archive' = write_archive /\ ArchivedObjects' = ArchivedObjects
      /\ PgFunctions' = PgFunctions /\ PgSequences' = PgSequences /\ PgViews' = PgViews
      /\ Ddls' = Ddls /\ (\A q : Needs(q)' = Needs(q)) /\ \A t : ConstraintsOf(t)' = ConstraintsOf(t)
  BY <1>s, SameArchive
<1>5. RestoreTypes'
  BY <1>t, <1>s, <1>a, <1>1, <1>2, <1>4 DEF RestoreTypes
<1>6. Consistent'
  BY <1>t, <1>s, <1>a, <1>4 DEF Consistent
<1>7. PhasesInOrder'
  <2>1. \A q \in write_archive : Read(q)' => \A p \in frames' : DumpedBefore(q, p)
    BY <1>t, <1>1, <1>s, NextRead
  <2>. QED
    BY <2>1, <1>s, <1>a DEF PhasesInOrder
<1>8. KeepsAll'
  <2>1. SUFFICES ASSUME Sound PROVE (/\ FunctionsKept /\ SequencesKept /\ TablesKept /\ KeysWait
                                     /\ ViewsKept /\ NoOldTable /\ SequencesSet)'
    BY <1>s DEF KeepsAll, Sound
  <2>2. FunctionsKept /\ SequencesKept /\ TablesKept /\ KeysWait /\ ViewsKept /\ NoOldTable
    BY <1>t, <2>1 DEF KeepsAll
  <2>3. \A q : Read(q)' => Read(q) \/ q = o
    BY <1>1 DEF Read
  <2>4. /\ o \notin PgFunctions /\ o \notin PgViews
        /\ \A t : o # Obj("table", t) /\ o # Obj("key", t)
    BY <1>t, <1>s, KindWords
  <2>5. FunctionsKept' /\ SequencesKept'
    BY <2>2, <2>3, <2>4, <1>4, <1>s, <1>a DEF FunctionsKept, SequencesKept
  <2>6. TablesKept'
    BY <2>2, <2>3, <2>4, <1>4, <1>s, <1>a DEF TablesKept
  <2>7. KeysWait' /\ SequencesSet'
    BY <2>2, <2>4, <1>4, <1>s DEF KeysWait, SequencesSet
  <2>8. NoOldTable'
    BY <2>2, <2>4, <1>1, <1>4, <1>s DEF NoOldTable
  <2>9. ViewsKept'
    BY <2>2, <2>3, <2>4, <1>4, <1>s, <1>a DEF ViewsKept
  <2>. QED
    BY <2>5, <2>6, <2>7, <2>8, <2>9
<1>9. FailsForAReason'
  BY <1>s DEF FailsForAReason
<1>. QED
  BY <1>5, <1>6, <1>7, <1>8, <1>9 DEF RestoreInv

LEMMA StepEndOfData ==
    ASSUME RestoreInv, EndOfData
    PROVE  RestoreInv'
<1>t. RestoreTypes /\ Consistent /\ PhasesInOrder /\ KeepsAll
  BY RestoreParts
<1>s. /\ UNCHANGED <<schema, objects, copies, serial, dropping, frames, ddl, valued, restores, afresh,
                     swept, failed>>
      /\ phase = "frames" /\ phase' = "constraints" /\ frames = {}
  BY DEF EndOfData
<1>a. /\ write_archive' = write_archive /\ ArchivedObjects' = ArchivedObjects
      /\ PgFunctions' = PgFunctions /\ PgSequences' = PgSequences /\ PgViews' = PgViews
      /\ Ddls' = Ddls /\ (\A q : Needs(q)' = Needs(q)) /\ \A t : ConstraintsOf(t)' = ConstraintsOf(t)
  BY <1>s, SameArchive
<1>1. RestoreTypes'
  BY <1>t, <1>s, <1>a DEF RestoreTypes, PgPhases
<1>2. Consistent' /\ PhasesInOrder'
  BY <1>t, <1>s, <1>a DEF Consistent, PhasesInOrder
<1>3. KeepsAll'
  <2>1. SUFFICES ASSUME Sound PROVE (/\ FunctionsKept /\ SequencesKept /\ TablesKept /\ KeysWait
                                     /\ ViewsKept /\ NoOldTable /\ SequencesSet)'
    BY <1>s DEF KeepsAll, Sound
  <2>2. FunctionsKept /\ SequencesKept /\ TablesKept /\ KeysWait /\ ViewsKept /\ NoOldTable
    BY <1>t, <2>1 DEF KeepsAll
  <2>3. FunctionsKept' /\ SequencesKept' /\ KeysWait' /\ NoOldTable' /\ SequencesSet'
    BY <2>2, <1>s, <1>a DEF FunctionsKept, SequencesKept, KeysWait, NoOldTable, SequencesSet, Read
  <2>4. TablesKept'
    BY <2>2, <1>s, <1>a DEF TablesKept, Read
  <2>5. ViewsKept'
    BY <2>2, <1>s, <1>a DEF ViewsKept, Read
  <2>. QED
    BY <2>3, <2>4, <2>5
<1>4. FailsForAReason'
  BY <1>s DEF FailsForAReason
<1>. QED
  BY <1>1, <1>2, <1>3, <1>4 DEF RestoreInv

\* What DROP TABLE leaves is consistent, and holds nothing of the table's own
\* but, perhaps, its sequence.
LEMMA DropFacts ==
    ASSUME RestoreTypes, Consistent, NEW t, NEW gone, gone \in {{}, GoesWith(t)}
    PROVE  /\ objects \ gone \in SUBSET ArchivedObjects
           /\ \A q \in objects \ gone : Needs(q) \subseteq objects \ gone
           /\ gone = GoesWith(t) =>
                /\ Obj("table", t) \notin objects \ gone /\ Obj("key", t) \notin objects \ gone
                /\ Obj("table", t) \in objects => Obj("table", t) \in gone
           /\ \A u : u # t => Obj("table", u) \notin gone
           /\ \A o \in gone : o \in objects
<1>1. objects \in SUBSET ArchivedObjects /\ \A q \in objects : Needs(q) \subseteq objects
  BY DEF RestoreTypes, Consistent
<1>2. ASSUME NEW q \in objects \ gone
      PROVE  Needs(q) \subseteq objects \ gone
  BY <1>1, <1>2, DropIsConsistent
<1>3. \A u : /\ Obj("table", u)[1] = "table" /\ Obj("key", u)[1] = "key"
             /\ Obj("table", u)[2] = u /\ Obj("key", u)[2] = u
  BY ObjFacts DEF PgKinds
<1>4. /\ Obj("table", t) \in objects => Obj("table", t) \in GoesWith(t)
      /\ Obj("key", t) \in objects => Obj("key", t) \in GoesWith(t)
      /\ \A u : Obj("table", u) \in GoesWith(t) => u = t
  BY <1>3 DEF GoesWith
<1>5. \A o \in GoesWith(t) : o \in objects
  BY DEF GoesWith
<1>. QED
  BY <1>1, <1>2, <1>4, <1>5

\* A table that is read into a database without an old one of its name is created
\* and filled, unless its sequence was dropped.
LEMMA StepRestoreTable ==
    ASSUME RestoreInv, RestoreTable
    PROVE  RestoreInv'
<1>t. /\ RestoreTypes /\ Consistent /\ PhasesInOrder /\ KeepsAll /\ ddl \in Ddls
      /\ frames \in SUBSET write_archive /\ objects \in SUBSET ArchivedObjects
      /\ copies \in [PgTables -> Nat] /\ swept \in SUBSET ArchivedObjects
      /\ ddl.constraints \in SUBSET PgConstraints
  BY RestoreParts
<1>0. PICK o \in frames, dropped \in BOOLEAN, lost \in BOOLEAN :
         LET t == o[2]
             gone == IF dropped THEN GoesWith(t) ELSE {}
             present == objects \ gone
             old == IF o \in gone THEN 0 ELSE copies[t]
             fits == Obj("key", t) \in present => old = 0
             done == run_ignore_exists(o, present) /\ fits /\ ~ lost
         IN
         /\ NextIs(o, {"table"})
         /\ lost => "connection" \in RestoreFaults
         /\ IF dropped THEN dropping ELSE dropping => "drop" \in RestoreFaults
         /\ failed' = (failed \/ lost \/ (dropping /\ ~ dropped))
         /\ swept' = swept \cup {x \in gone : x[1] \in {"sequence", "function"}}
         /\ serial' = IF dropped THEN serial \ {t} ELSE serial
         /\ objects' = Created(o, present)
         /\ copies' = [copies EXCEPT ![t] = IF done THEN old + 1 ELSE old]
         /\ IF done
            THEN /\ frames' = frames \ {o}
                 /\ ddl' = [ddl EXCEPT !.constraints = @ \cup ConstraintsOf(t)]
                 /\ UNCHANGED phase
            ELSE Ends("error")
  BY ZenonT(60) DEF RestoreTable
<1>. DEFINE t == o[2]
            gone == IF dropped THEN GoesWith(t) ELSE {}
            present == objects \ gone
            old == IF o \in gone THEN 0 ELSE copies[t]
            done == run_ignore_exists(o, present) /\ (Obj("key", t) \in present => old = 0) /\ ~ lost
<1>e. NextIs(o, {"table"}) /\ (dropped => dropping)
  BY <1>0
<1>f. failed' = (failed \/ lost \/ (dropping /\ ~ dropped))
  BY <1>0
<1>g. /\ swept' = swept \cup {x \in gone : x[1] \in {"sequence", "function"}}
      /\ serial' = IF dropped THEN serial \ {t} ELSE serial
      /\ objects' = Created(o, present)
  BY <1>0
<1>h. copies' = [copies EXCEPT ![t] = IF done THEN old + 1 ELSE old]
  BY <1>0
<1>i. IF done
      THEN /\ frames' = frames \ {o}
           /\ ddl' = [ddl EXCEPT !.constraints = ddl.constraints \cup ConstraintsOf(t)]
           /\ UNCHANGED phase
      ELSE Ends("error")
  BY <1>0
<1>j. /\ t = o[2] /\ present = objects \ gone
      /\ dropped => gone = GoesWith(t)
      /\ ~ dropped => gone = {}
      /\ o \in gone => old = 0
      /\ o \notin gone => old = copies[t]
  OBVIOUS
<1>l. done <=> run_ignore_exists(o, present) /\ (Obj("key", t) \in present => old = 0) /\ ~ lost
  OBVIOUS
<1>. HIDE DEF t, gone, present, old, done
<1>s. /\ UNCHANGED <<schema, dropping, valued, restores, afresh>>
      /\ phase = "frames" /\ o[1] = "table" /\ NextIs(o, {o[1]})
  BY <1>e DEF RestoreTable, NextIs
<1>1. t \in schema.tables /\ o = Obj("table", t) /\ t \in PgTables /\ o \in ArchivedObjects
  <2>1. o \in write_archive
    BY <1>t, <1>0
  <2>2. PICK u \in schema.tables : o = Obj("table", u)
    BY <2>1, <1>t, <1>s, ArchivedKinds, KindWords
  <2>3. u = t
    BY <1>j, <2>2, ObjFacts DEF PgKinds
  <2>. QED
    BY <2>1, <2>2, <2>3, <1>t, SchemaFacts, KindsArchived
<1>2. /\ present \in SUBSET ArchivedObjects
      /\ \A q \in present : Needs(q) \subseteq present
      /\ dropped => o \notin present /\ Obj("key", t) \notin present
      /\ dropped /\ o \in objects => o \in gone
      /\ \A u : u # t => Obj("table", u) \notin gone
      /\ \A q \in gone : q \in objects
      /\ gone \in SUBSET ArchivedObjects
  BY <1>t, <1>e, <1>f, <1>j, <1>1, DropFacts
<1>3. /\ present \subseteq objects' /\ objects' \subseteq present \cup {o}
      /\ \A q \in objects' : Needs(q) \subseteq objects'
      /\ run_ignore_exists(o, present) => o \in objects'
  BY <1>g, <1>2, CreatedFacts
<1>a. /\ write_archive' = write_archive /\ ArchivedObjects' = ArchivedObjects
      /\ PgFunctions' = PgFunctions /\ PgSequences' = PgSequences /\ PgViews' = PgViews
      /\ Ddls' = Ddls /\ (\A q : Needs(q)' = Needs(q)) /\ \A u : ConstraintsOf(u)' = ConstraintsOf(u)
  BY <1>s, SameArchive
<1>o. old \in Nat
  BY <1>t, <1>j, <1>1
<1>n. PICK n \in Nat : n = (IF done THEN old + 1 ELSE old) /\ (done /\ old = 0 => n = 1) /\ (~ done => n = old)
  BY <1>o
<1>c. copies' = [copies EXCEPT ![t] = n]
  BY <1>h, <1>n
<1>d. \/ /\ done /\ frames' = frames \ {o} /\ phase' = "frames"
         /\ ddl' \in Ddls /\ ddl'.pre = ddl.pre /\ ddl'.post = ddl.post
         /\ ddl'.constraints = ddl.constraints \cup ConstraintsOf(t)
      \/ ~ done /\ frames' = {} /\ phase' = "error" /\ ddl' = NoDdl
  <2>1. CASE done
    <3>1. ConstraintsOf(t) \subseteq PgConstraints
      BY <1>t, <1>1, KindsArchived
    <3>2. PICK more \in SUBSET PgConstraints : more = ddl.constraints \cup ConstraintsOf(t)
      BY <3>1, <1>t
    <3>3. ddl' = [ddl EXCEPT !.constraints = more]
      BY <1>e, <1>f, <1>g, <1>i, <1>j, <1>l, <2>1, <3>2
    <3>4. /\ ddl' \in Ddls /\ ddl'.pre = ddl.pre /\ ddl'.post = ddl.post /\ ddl'.constraints = more
      BY <1>t, <3>3 DEF Ddls
    <3>. QED
      BY <2>1, <3>2, <3>4, <1>e, <1>f, <1>g, <1>i, <1>j, <1>l, <1>s
  <2>2. CASE ~ done
    BY <2>2, <1>e, <1>f, <1>g, <1>i, <1>j, <1>l DEF Ends
  <2>. QED
    BY <2>1, <2>2
<1>4. RestoreTypes'
  <2>1. copies' \in [PgTables -> Nat] /\ ddl' \in Ddls /\ phase' \in PgPhases
    BY <1>t, <1>c, <1>d, <1>1, EmptyDdl DEF PgPhases
  <2>2. serial' \in SUBSET PgTables /\ failed' \in BOOLEAN
    BY <1>t, <1>e, <1>f, <1>g, <1>i, <1>j, <1>l DEF RestoreTypes
  <2>3. objects' \in SUBSET ArchivedObjects /\ swept' \in SUBSET ArchivedObjects
    BY <1>t, <1>e, <1>f, <1>g, <1>i, <1>j, <1>l, <1>1, <1>2, <1>3
  <2>4. frames' \in SUBSET write_archive
    BY <1>t, <1>d
  <2>. QED
    BY <1>t, <1>s, <1>a, <2>1, <2>2, <2>3, <2>4 DEF RestoreTypes
<1>5. Consistent'
  <2>1. ASSUME NEW u \in PgTables, Obj("table", u) \notin objects'
        PROVE  copies'[u] = 0
    <3>1. CASE u = t
      <4>1. ~ run_ignore_exists(o, present) /\ o \notin present
        BY <2>1, <3>1, <1>1, <1>3
      <4>2. ~ done
        BY <4>1, <1>e, <1>f, <1>g, <1>i, <1>j, <1>l
      <4>3. old = 0
        <5>1. o \in gone \/ o \notin objects
          BY <4>1, <1>e, <1>f, <1>g, <1>i, <1>j, <1>l
        <5>2. o \notin objects => copies[t] = 0
          BY <1>t, <1>1 DEF Consistent
        <5>. QED
          BY <5>1, <5>2, <1>e, <1>f, <1>g, <1>i, <1>j, <1>l
      <4>. QED
        BY <3>1, <4>2, <4>3, <1>n, <1>c, <1>t, <1>1
    <3>2. CASE u # t
      <4>1. Obj("table", u) \notin objects
        BY <2>1, <3>2, <1>e, <1>f, <1>g, <1>i, <1>j, <1>l, <1>2, <1>3
      <4>2. copies[u] = 0
        BY <4>1, <2>1, <1>t DEF Consistent
      <4>. QED
        BY <4>2, <3>2, <1>c, <1>t, <2>1
    <3>. QED
      BY <3>1, <3>2
  <2>. QED
    BY <2>1, <1>3, <1>a DEF Consistent
<1>6. PhasesInOrder'
  <2>1. done => \A q \in write_archive : Read(q)' => \A p \in frames' : DumpedBefore(q, p)
    BY <1>t, <1>e, <1>f, <1>g, <1>i, <1>j, <1>l, <1>d, <1>s, NextRead
  <2>. QED
    BY <2>1, <1>d, <1>a DEF PhasesInOrder
<1>7. ASSUME afresh, ~ failed'
      PROVE  /\ ~ failed /\ (FunctionsKept /\ SequencesKept /\ TablesKept /\ KeysWait /\ ViewsKept /\ NoOldTable)
             /\ o \notin present /\ Obj("key", t) \notin present /\ old = 0
             /\ ~ done => t \in schema.drawing /\ Obj("sequence", t) \in swept'
  <2>1. ~ failed /\ ~ lost /\ (dropping => dropped)
    BY <1>e, <1>f, <1>g, <1>i, <1>j, <1>l, <1>7
  <2>2. FunctionsKept /\ SequencesKept /\ TablesKept /\ KeysWait /\ ViewsKept /\ NoOldTable
    BY <1>t, <1>s, <1>7, <2>1 DEF KeepsAll, Sound
  <2>3. ~ dropping => o \notin objects
    BY <2>2, <1>e, <1>f, <1>g, <1>i, <1>j, <1>l, <1>1 DEF NoOldTable
  <2>4. o \notin present /\ (o \in gone \/ o \notin objects)
    BY <2>1, <2>3, <1>e, <1>f, <1>g, <1>i, <1>j, <1>l, <1>2
  <2>5. Obj("key", t) \notin present
    <3>1. Obj("key", t) \in present => o \in present
      BY <1>1, <1>2, NeedsFacts
    <3>. QED
      BY <2>4, <3>1
  <2>6. old = 0
    <3>1. o \notin objects => copies[t] = 0
      BY <1>t, <1>1 DEF Consistent
    <3>. QED
      BY <2>4, <3>1, <1>e, <1>f, <1>g, <1>i, <1>j, <1>l
  <2>7. ASSUME ~ done PROVE t \in schema.drawing /\ Obj("sequence", t) \in swept'
    <3>1. ~ run_ignore_exists(o, present)
      BY <2>1, <2>5, <2>7, <1>e, <1>f, <1>g, <1>i, <1>j, <1>l
    <3>2. ~ (Needs(o) \subseteq present)
      BY <3>1, <2>4, <1>s DEF run_ignore_exists, Creatable
    <3>3. t \in schema.drawing /\ Obj("sequence", t) \notin present
      BY <3>2, <1>1, NeedsFacts
    <3>4. Obj("sequence", t) \in PgSequences /\ Obj("sequence", t) \in write_archive
      BY <3>3, <1>t, SchemaFacts, KindsArchived
    <3>5. Read(Obj("sequence", t))
      <4>1. SUFFICES ASSUME Obj("sequence", t) \in frames PROVE FALSE
        BY DEF Read
      <4>2. DumpedBefore(o, Obj("sequence", t))
        BY <4>1, <1>s DEF NextIs
      <4>3. Obj("sequence", t)[1] = "sequence" /\ Place["table"] = 3 /\ Place["sequence"] = 2
        BY <1>t, KindWords DEF Place
      <4>. QED
        BY <4>2, <4>3, <1>s DEF DumpedBefore
    <3>6. Obj("sequence", t) \in objects \cup swept
      BY <2>2, <3>4, <3>5 DEF SequencesKept
    <3>7. Obj("sequence", t)[1] = "sequence"
      BY <1>t, KindWords
    <3>. QED
      BY <3>3, <3>6, <3>7, <1>e, <1>f, <1>g, <1>i, <1>j, <1>l
  <2>. QED
    BY <2>1, <2>2, <2>4, <2>5, <2>6, <2>7
<1>8. KeepsAll'
  <2>1. SUFFICES ASSUME Sound' PROVE (/\ FunctionsKept /\ SequencesKept /\ TablesKept /\ KeysWait
                                      /\ ViewsKept /\ NoOldTable /\ SequencesSet)'
    BY DEF KeepsAll
  <2>2. afresh /\ ~ failed' /\ done
    BY <2>1, <1>s, <1>d DEF Sound
  <2>3. /\ FunctionsKept /\ SequencesKept /\ TablesKept /\ KeysWait /\ ViewsKept /\ NoOldTable
        /\ o \notin present /\ Obj("key", t) \notin present /\ old = 0
    BY <2>2, <1>7
  <2>d. /\ frames' = frames \ {o} /\ phase' = "frames" /\ ddl'.pre = ddl.pre /\ ddl'.post = ddl.post
        /\ ddl'.constraints = ddl.constraints \cup ConstraintsOf(t)
    BY <2>2, <1>d
  <2>4. \A q : Read(q)' => Read(q) \/ q = o
    BY <2>d DEF Read
  <2>5. o \notin PgFunctions /\ o \notin PgSequences /\ o \notin PgViews /\ \A u : o # Obj("key", u)
    BY <1>t, <1>s, KindWords
  <2>6. \A q \in objects : q \in objects' \/ q \in gone
    BY <1>e, <1>f, <1>g, <1>i, <1>j, <1>l, <1>3
  <2>7. FunctionsKept'
    <3>1. \A q \in PgFunctions : q \in gone => q \in swept'
      BY <1>t, <1>e, <1>f, <1>g, <1>i, <1>j, <1>l, KindWords
    <3>2. swept \subseteq swept'
      BY <1>e, <1>f, <1>g, <1>i, <1>j, <1>l
    <3>. QED
      BY <2>3, <2>4, <2>5, <2>6, <2>d, <3>1, <3>2, <1>a DEF FunctionsKept
  <2>8. SequencesKept'
    <3>1. \A q \in PgSequences : q \in gone => q \in swept'
      BY <1>t, <1>e, <1>f, <1>g, <1>i, <1>j, <1>l, KindWords
    <3>2. swept \subseteq swept'
      BY <1>e, <1>f, <1>g, <1>i, <1>j, <1>l
    <3>. QED
      BY <2>3, <2>4, <2>5, <2>6, <3>1, <3>2, <1>a DEF SequencesKept
  <2>9. TablesKept'
    <3>1. SUFFICES ASSUME NEW u \in schema.tables, Read(Obj("table", u))'
                   PROVE  /\ Obj("table", u) \in objects' /\ copies'[u] = 1
                          /\ ConstraintsOf(u) \subseteq ddl'.constraints
      BY <2>d, <1>s, <1>a DEF TablesKept
    <3>2. CASE u = t
      <4>1. copies'[u] = 1
        BY <3>2, <2>2, <2>3, <1>n, <1>c, <1>t, <1>1
      <4>2. o \in objects'
        BY <2>2, <1>e, <1>f, <1>g, <1>i, <1>j, <1>l, <1>3
      <4>. QED
        BY <4>1, <4>2, <3>2, <1>1, <2>d
    <3>3. CASE u # t
      <4>1. Obj("table", u) # o
        <5>1. Obj("table", u)[2] = u
          BY ObjFacts DEF PgKinds
        <5>. QED
          BY <5>1, <3>3, <1>e, <1>f, <1>g, <1>i, <1>j, <1>l
      <4>2. /\ Obj("table", u) \in objects /\ copies[u] = 1 /\ ConstraintsOf(u) \subseteq ddl.constraints
        BY <3>1, <4>1, <2>3, <2>4, <1>s DEF TablesKept
      <4>3. Obj("table", u) \in objects'
        BY <4>2, <3>3, <2>6, <1>2
      <4>4. copies'[u] = 1
        BY <4>2, <3>3, <1>c, <1>t, <3>1, SchemaFacts
      <4>. QED
        BY <4>2, <4>3, <4>4, <2>d
    <3>. QED
      BY <3>2, <3>3
  <2>10. KeysWait'
    <3>1. SUFFICES ASSUME NEW u \in schema.keyed, Obj("key", u) \in ddl'.constraints, Obj("key", u) \in objects'
                   PROVE  FALSE
      BY <1>s DEF KeysWait
    <3>2. Obj("key", u) \in present /\ Obj("key", u) \in objects
      BY <3>1, <2>5, <1>3, <1>e, <1>f, <1>g, <1>i, <1>j, <1>l
    <3>3. Obj("key", u) \notin ddl.constraints
      BY <3>1, <3>2, <2>3 DEF KeysWait
    <3>4. Obj("key", u) \in ConstraintsOf(t)
      BY <3>1, <3>3, <2>d
    <3>5. Obj("key", u) = Obj("key", t)
      <4>1. Obj("key", u)[1] = "key" /\ Obj("key", u)[2] = u
        BY ObjFacts DEF PgKinds
      <4>2. \A c, p : Ref(c, p)[1] = "reference"
        BY ObjFacts
      <4>. QED
        BY <3>4, <4>1, <4>2 DEF ConstraintsOf
    <3>. QED
      BY <3>2, <3>5, <2>3
  <2>11. ViewsKept'
    BY <2>3, <2>4, <2>5, <2>d, <1>s, <1>a DEF ViewsKept
  <2>12. NoOldTable'
    <3>1. \A u : Obj("table", u) \in objects' /\ Obj("table", u) # o => Obj("table", u) \in objects
      BY <1>e, <1>f, <1>g, <1>i, <1>j, <1>l, <1>3
    <3>. QED
      BY <2>3, <2>d, <3>1, <1>s DEF NoOldTable
  <2>13. SequencesSet'
    BY <2>d DEF SequencesSet
  <2>. QED
    BY <2>7, <2>8, <2>9, <2>10, <2>11, <2>12, <2>13
<1>9. FailsForAReason'
  <2>1. SUFFICES ASSUME phase' = "error", afresh, ~ failed'
                 PROVE  \E u \in schema.drawing : Obj("sequence", u) \in swept'
    BY <1>s DEF FailsForAReason
  <2>2. ~ done
    BY <2>1, <1>d
  <2>. QED
    BY <2>1, <2>2, <1>7
<1>. QED
  BY <1>4, <1>5, <1>6, <1>8, <1>9 DEF RestoreInv

\* A key can be added to a table that was filled once; a reference, unless the key
\* it refers to is still to come.
LEMMA StepAddConstraint ==
    ASSUME RestoreInv, AddConstraint
    PROVE  RestoreInv'
<1>t. /\ RestoreTypes /\ Consistent /\ PhasesInOrder /\ KeepsAll /\ ddl \in Ddls
      /\ objects \in SUBSET ArchivedObjects /\ ddl.constraints \in SUBSET PgConstraints
      /\ \A q \in objects : Needs(q) \subseteq objects
  BY RestoreParts DEF Consistent
<1>0. PICK o \in ddl.constraints :
         /\ \A p \in ddl.constraints : MadeBefore(o, p)
         /\ IF run_ignore_exists(o, objects)
            THEN /\ objects' = Created(o, objects)
                 /\ ddl' = [ddl EXCEPT !.constraints = ddl.constraints \ {o}]
                 /\ UNCHANGED <<phase, frames>>
            ELSE Ends("error") /\ UNCHANGED objects
  BY DEF AddConstraint
<1>s. /\ UNCHANGED <<schema, copies, serial, dropping, valued, restores, afresh, swept, failed>>
      /\ phase = "constraints" /\ frames = {}
  BY <1>t DEF AddConstraint, PhasesInOrder
<1>a. /\ write_archive' = write_archive /\ ArchivedObjects' = ArchivedObjects
      /\ PgFunctions' = PgFunctions /\ PgSequences' = PgSequences /\ PgViews' = PgViews
      /\ Ddls' = Ddls /\ (\A q : Needs(q)' = Needs(q)) /\ \A u : ConstraintsOf(u)' = ConstraintsOf(u)
  BY <1>s, SameArchive
<1>o. o \in PgConstraints /\ o \in ArchivedObjects
  BY <1>t, <1>0, KindsArchived
<1>d. /\ objects \subseteq objects' /\ objects' \subseteq objects \cup {o}
      /\ (\A q \in objects' : Needs(q) \subseteq objects') /\ frames' = {}
      /\ \/ /\ run_ignore_exists(o, objects) /\ o \in objects' /\ phase' = "constraints"
            /\ ddl' \in Ddls /\ ddl'.pre = ddl.pre /\ ddl'.post = ddl.post
            /\ ddl'.constraints = ddl.constraints \ {o}
         \/ ~ run_ignore_exists(o, objects) /\ phase' = "error" /\ ddl' = NoDdl
  <2>1. CASE run_ignore_exists(o, objects)
    <3>1. PICK rest \in SUBSET PgConstraints : rest = ddl.constraints \ {o}
      BY <1>t
    <3>2. ddl' = [ddl EXCEPT !.constraints = rest]
      BY <2>1, <1>0, <3>1
    <3>3. ddl' \in Ddls /\ ddl'.pre = ddl.pre /\ ddl'.post = ddl.post /\ ddl'.constraints = rest
      BY <1>t, <3>2 DEF Ddls
    <3>4. objects' = Created(o, objects) /\ phase' = "constraints" /\ frames' = {}
      BY <2>1, <1>0, <1>s
    <3>. QED
      BY <2>1, <3>1, <3>3, <3>4, <1>t, CreatedFacts
  <2>2. CASE ~ run_ignore_exists(o, objects)
    <3>1. phase' = "error" /\ frames' = {} /\ ddl' = NoDdl /\ objects' = objects
      BY <2>2, <1>0 DEF Ends
    <3>. QED
      BY <2>2, <3>1, <1>t
  <2>. QED
    BY <2>1, <2>2
<1>1. RestoreTypes'
  <2>1. ddl' \in Ddls /\ phase' \in PgPhases /\ frames' \in SUBSET write_archive
    BY <1>d, EmptyDdl DEF PgPhases
  <2>2. objects' \in SUBSET ArchivedObjects
    BY <1>t, <1>d, <1>o
  <2>. QED
    BY <1>t, <1>s, <1>a, <2>1, <2>2 DEF RestoreTypes
<1>2. Consistent'
  BY <1>t, <1>s, <1>a, <1>d DEF Consistent
<1>3. PhasesInOrder'
  BY <1>d DEF PhasesInOrder
<1>4. ASSUME afresh, ~ failed
      PROVE  /\ FunctionsKept /\ SequencesKept /\ KeysWait /\ ViewsKept
             /\ \A t \in schema.tables :
                  /\ Obj("table", t) \in objects /\ copies[t] = 1
                  /\ ConstraintsOf(t) \subseteq ddl.constraints \cup objects
  <2>1. FunctionsKept /\ SequencesKept /\ TablesKept /\ KeysWait /\ ViewsKept
    BY <1>t, <1>s, <1>4 DEF KeepsAll, Sound
  <2>. QED
    BY <2>1, <1>s DEF TablesKept, Read
<1>5. KeepsAll'
  <2>1. SUFFICES ASSUME Sound' PROVE (/\ FunctionsKept /\ SequencesKept /\ TablesKept /\ KeysWait
                                      /\ ViewsKept /\ NoOldTable /\ SequencesSet)'
    BY DEF KeepsAll
  <2>2. /\ afresh /\ ~ failed /\ o \in objects' /\ phase' = "constraints"
        /\ ddl'.pre = ddl.pre /\ ddl'.post = ddl.post
        /\ ddl'.constraints = ddl.constraints \ {o}
    BY <2>1, <1>s, <1>d DEF Sound
  <2>3. /\ FunctionsKept /\ SequencesKept /\ KeysWait /\ ViewsKept
        /\ \A t \in schema.tables :
             /\ Obj("table", t) \in objects /\ copies[t] = 1
             /\ ConstraintsOf(t) \subseteq ddl.constraints \cup objects
    BY <2>2, <1>4
  <2>4. FunctionsKept' /\ SequencesKept' /\ ViewsKept'
    BY <2>2, <2>3, <1>d, <1>s, <1>a DEF FunctionsKept, SequencesKept, ViewsKept, Read
  <2>5. TablesKept'
    BY <2>2, <2>3, <1>d, <1>s, <1>a DEF TablesKept
  <2>6. KeysWait'
    BY <2>2, <2>3, <1>d, <1>s DEF KeysWait
  <2>7. NoOldTable' /\ SequencesSet'
    BY <2>2, <1>d DEF NoOldTable, SequencesSet
  <2>. QED
    BY <2>4, <2>5, <2>6, <2>7
<1>6. FailsForAReason'
  <2>1. SUFFICES ASSUME phase' = "error", afresh, ~ failed PROVE LaterParent
    BY <1>s DEF FailsForAReason, LaterParent
  <2>2. ~ run_ignore_exists(o, objects)
    BY <2>1, <1>d
  <2>3. /\ KeysWait
        /\ \A t \in schema.tables :
             /\ Obj("table", t) \in objects /\ copies[t] = 1
             /\ ConstraintsOf(t) \subseteq ddl.constraints \cup objects
    BY <2>1, <1>4
  <2>4. /\ \A t : Obj("key", t)[1] = "key" /\ Obj("key", t)[2] = t
        /\ \A c, p : Ref(c, p)[1] = "reference" /\ Ref(c, p)[2] = c
    BY ObjFacts DEF PgKinds
  <2>5. CASE \E t \in schema.keyed : o = Obj("key", t)
    <3>1. PICK t \in schema.keyed : o = Obj("key", t)
      BY <2>5
    <3>2. t \in schema.tables /\ Obj("table", t) \in objects /\ copies[t] = 1
      BY <2>3, <1>t, SchemaFacts
    <3>3. o \notin objects
      BY <2>3, <1>0, <3>1 DEF KeysWait
    <3>4. Needs(o) \subseteq objects
      BY <3>1, <3>2, NeedsFacts
    <3>5. Creatable(o, objects)
      BY <3>1, <3>2, <3>4, <2>4 DEF Creatable
    <3>. QED
      BY <2>2, <3>3, <3>5 DEF run_ignore_exists
  <2>6. CASE \E r \in schema.refs : o = Ref(r[1], r[2])
    <3>1. PICK r \in schema.refs : o = Ref(r[1], r[2])
      BY <2>6
    <3>2. o[1] = "reference" /\ o[2] = r[1]
      BY <3>1, <2>4
    <3>3. r[1] \in schema.tables /\ r[2] \in schema.keyed /\ r[2] \in schema.tables
      BY <3>1, <1>t, SchemaFacts
    <3>4. ~ (Needs(o) \subseteq objects)
      BY <2>2, <3>2 DEF run_ignore_exists, Creatable
    <3>5. Obj("key", r[2]) \notin objects
      BY <3>1, <3>3, <3>4, <2>3, NeedsFacts
    <3>6. Obj("key", r[2]) \in ddl.constraints
      BY <3>3, <3>5, <2>3, <1>t, KindsArchived
    <3>7. MadeBefore(o, Obj("key", r[2]))
      BY <3>6, <1>0
    <3>8. r[1] < r[2]
      BY <3>7, <3>2, <2>4 DEF MadeBefore
    <3>. QED
      BY <3>1, <3>8 DEF LaterParent
  <2>. QED
    BY <2>5, <2>6, <1>t, <1>o, ArchivedKinds
<1>. QED
  BY <1>1, <1>2, <1>3, <1>5, <1>6 DEF RestoreInv

LEMMA StepSetSequences ==
    ASSUME RestoreInv, SetSequences
    PROVE  RestoreInv'
<1>t. /\ RestoreTypes /\ Consistent /\ PhasesInOrder /\ KeepsAll /\ ddl \in Ddls
      /\ ddl.pre \in SUBSET PgFunctions /\ ddl.post \in SUBSET (PgFunctions \cup PgViews)
  BY RestoreParts
<1>s. /\ UNCHANGED <<schema, objects, copies, serial, dropping, frames, restores, afresh, swept, failed>>
      /\ phase = "constraints" /\ frames = {} /\ phase' = "post" /\ ddl.constraints = {}
      /\ valued' = {t \in schema.sequences : Obj("sequence", t) \in objects}
  BY <1>t DEF SetSequences, PhasesInOrder
<1>a. /\ write_archive' = write_archive /\ ArchivedObjects' = ArchivedObjects
      /\ PgFunctions' = PgFunctions /\ PgSequences' = PgSequences /\ PgViews' = PgViews
      /\ Ddls' = Ddls /\ (\A q : Needs(q)' = Needs(q)) /\ \A u : ConstraintsOf(u)' = ConstraintsOf(u)
  BY <1>s, SameArchive
<1>d. /\ ddl' \in Ddls /\ ddl'.pre = {} /\ ddl'.constraints = {}
      /\ ddl'.post = ddl.pre \cup ddl.post
  <2>1. PICK all \in SUBSET (PgFunctions \cup PgViews) : all = ddl.pre \cup ddl.post
    BY <1>t
  <2>2. ddl' = [ddl EXCEPT !.pre = {}, !.post = all]
    BY <2>1 DEF SetSequences
  <2>. QED
    BY <1>t, <1>s, <2>1, <2>2 DEF Ddls
<1>1. RestoreTypes'
  <2>1. valued' \in SUBSET PgTables /\ phase' \in PgPhases
    BY <1>t, <1>s, SchemaFacts DEF PgPhases
  <2>. QED
    BY <1>t, <1>s, <1>a, <1>d, <2>1 DEF RestoreTypes
<1>2. Consistent' /\ PhasesInOrder'
  BY <1>t, <1>s, <1>a, <1>d DEF Consistent, PhasesInOrder
<1>3. KeepsAll'
  <2>1. SUFFICES ASSUME Sound PROVE (/\ FunctionsKept /\ SequencesKept /\ TablesKept /\ KeysWait
                                     /\ ViewsKept /\ NoOldTable /\ SequencesSet)'
    BY <1>s DEF KeepsAll, Sound
  <2>2. FunctionsKept /\ SequencesKept /\ TablesKept /\ KeysWait /\ ViewsKept
    BY <1>t, <2>1 DEF KeepsAll
  <2>3. FunctionsKept' /\ SequencesKept' /\ ViewsKept'
    BY <2>2, <1>d, <1>s, <1>a DEF FunctionsKept, SequencesKept, ViewsKept, Read
  <2>4. TablesKept'
    BY <2>2, <1>d, <1>s, <1>a DEF TablesKept, Read
  <2>5. KeysWait' /\ NoOldTable'
    BY <1>d, <1>s DEF KeysWait, NoOldTable
  <2>6. SequencesSet'
    <3>1. \A t \in schema.sequences : Obj("sequence", t) \in objects \cup swept
      BY <2>2, <1>t, <1>s, KindsArchived DEF SequencesKept, Read
    <3>. QED
      BY <3>1, <1>s DEF SequencesSet
  <2>. QED
    BY <2>3, <2>4, <2>5, <2>6
<1>4. FailsForAReason'
  BY <1>s DEF FailsForAReason
<1>. QED
  BY <1>1, <1>2, <1>3, <1>4 DEF RestoreInv

\* After the data, every round over what is left creates something: a function or
\* a materialized view finds its table, and a view waits for no more than that.
LEMMA EveryRoundCreates ==
    ASSUME RestoreInv, phase = "post", Sound, ddl.post # {}
    PROVE  Round(ddl.post).still # ddl.post
<1>t. /\ RestoreTypes /\ Consistent /\ PhasesInOrder /\ KeepsAll
      /\ ddl.post \in SUBSET (PgFunctions \cup PgViews)
  BY RestoreParts
<1>1. SUFFICES ASSUME Round(ddl.post).still = ddl.post PROVE FALSE
  OBVIOUS
<1>2. \A o \in ddl.post : ~ run_ignore_exists(o, objects)
  BY <1>t, <1>1, RoundFacts, KindsArchived
<1>3. /\ \A t \in schema.tables : Obj("table", t) \in objects
      /\ \A o \in PgViews : o \in ddl.post \/ o \in objects
  BY <1>t DEF KeepsAll, TablesKept, ViewsKept, PhasesInOrder, Read
<1>4. ASSUME NEW o \in ddl.post, Needs(o) \subseteq objects
      PROVE  FALSE
  <2>1. o[1] # "key"
    BY <1>t, <1>4, KindWords
  <2>. QED
    BY <1>2, <1>4, <2>1 DEF run_ignore_exists, Creatable
<1>5. \A t \in schema.functions \cup schema.views : t \in schema.tables
  BY <1>t, SchemaFacts
<1>6. \A t \in schema.functions : Obj("function", t) \notin ddl.post
  BY <1>3, <1>4, <1>5, NeedsFacts
<1>7. \A t \in schema.views : Obj("matview", t) \notin ddl.post
  BY <1>3, <1>4, <1>5, NeedsFacts
<1>8. \A t \in schema.views : Obj("matview", t) \in objects
  BY <1>3, <1>7, <1>t, KindsArchived
<1>9. \A t \in schema.views : Obj("view", t) \notin ddl.post
  BY <1>4, <1>8, NeedsFacts
<1>. QED
  BY <1>t, <1>6, <1>7, <1>9, ArchivedKinds

LEMMA StepApplyPost ==
    ASSUME RestoreInv, ApplyPost
    PROVE  RestoreInv'
<1>t. /\ RestoreTypes /\ Consistent /\ PhasesInOrder /\ KeepsAll /\ ddl \in Ddls
      /\ objects \in SUBSET ArchivedObjects
      /\ ddl.post \in SUBSET (PgFunctions \cup PgViews)
  BY RestoreParts
<1>s. /\ UNCHANGED <<schema, copies, serial, dropping, valued, restores, afresh, swept, failed>>
      /\ phase = "post" /\ frames = {} /\ ddl.constraints = {} /\ ddl.pre = {}
  BY <1>t DEF ApplyPost, PhasesInOrder
<1>a. /\ write_archive' = write_archive /\ ArchivedObjects' = ArchivedObjects
      /\ PgFunctions' = PgFunctions /\ PgSequences' = PgSequences /\ PgViews' = PgViews
      /\ Ddls' = Ddls /\ (\A q : Needs(q)' = Needs(q)) /\ \A u : ConstraintsOf(u)' = ConstraintsOf(u)
  BY <1>s, SameArchive
<1>p. PICK present, still : present = Round(ddl.post).present /\ still = Round(ddl.post).still
  OBVIOUS
<1>r. /\ still \subseteq ddl.post /\ objects \subseteq present
      /\ present \in SUBSET ArchivedObjects
      /\ \A o \in present : Needs(o) \subseteq present
      /\ \A o \in ddl.post : o \in still \/ o \in present
  BY <1>t, <1>p, RoundFacts, KindsArchived
<1>d. /\ objects \subseteq objects' /\ objects' \in SUBSET ArchivedObjects /\ frames' = {}
      /\ (\A q \in objects' : Needs(q) \subseteq objects')
      /\ ddl' \in Ddls /\ ddl'.pre = {} /\ ddl'.constraints = {} /\ ddl'.post \subseteq ddl.post
      /\ \/ phase' = "done" /\ ddl.post = {} /\ ddl'.post = {}
         \/ phase' = "error" /\ ddl.post # {} /\ still = ddl.post
         \/ /\ phase' = "post"
            /\ \A o \in ddl.post : o \in ddl'.post \/ o \in objects'
  <2>1. CASE ddl.post = {}
    <3>1. phase' = "done" /\ frames' = {} /\ ddl' = NoDdl /\ objects' = objects
      BY <2>1 DEF ApplyPost, Ends
    <3>. QED
      BY <2>1, <3>1, <1>t, EmptyDdl DEF Consistent
  <2>2. CASE ddl.post # {}
    <3>1. /\ objects' = present
          /\ IF still = ddl.post THEN Ends("error")
             ELSE ddl' = [ddl EXCEPT !.post = still] /\ UNCHANGED <<phase, frames>>
      BY <2>2, <1>p DEF ApplyPost, Stuck
    <3>2. CASE still = ddl.post
      <4>1. phase' = "error" /\ frames' = {} /\ ddl' = NoDdl
        BY <3>1, <3>2 DEF Ends
      <4>. QED
        BY <2>2, <3>1, <3>2, <4>1, <1>r, EmptyDdl
    <3>3. CASE still # ddl.post
      <4>1. ddl' = [ddl EXCEPT !.post = still] /\ phase' = "post" /\ frames' = {}
        BY <3>1, <3>3, <1>s
      <4>2. ddl' \in Ddls /\ ddl'.pre = {} /\ ddl'.constraints = {} /\ ddl'.post = still
        BY <4>1, <1>t, <1>s, <1>r DEF Ddls
      <4>. QED
        BY <3>1, <4>1, <4>2, <1>r
    <3>. QED
      BY <3>2, <3>3
  <2>. QED
    BY <2>1, <2>2
<1>1. RestoreTypes'
  <2>1. phase' \in PgPhases /\ frames' \in SUBSET write_archive
    BY <1>d DEF PgPhases
  <2>. QED
    BY <1>t, <1>s, <1>a, <1>d, <2>1 DEF RestoreTypes
<1>2. Consistent'
  BY <1>t, <1>s, <1>a, <1>d DEF Consistent
<1>3. PhasesInOrder'
  BY <1>d DEF PhasesInOrder
<1>4. KeepsAll'
  <2>1. SUFFICES ASSUME Sound' PROVE (/\ FunctionsKept /\ SequencesKept /\ TablesKept /\ KeysWait
                                      /\ ViewsKept /\ NoOldTable /\ SequencesSet)'
    BY DEF KeepsAll
  <2>2. /\ afresh /\ ~ failed /\ phase' \in {"post", "done"}
        /\ \A o \in ddl.post : o \in ddl'.post \/ o \in objects'
    BY <2>1, <1>s, <1>d DEF Sound
  <2>3. /\ FunctionsKept /\ SequencesKept /\ TablesKept /\ KeysWait /\ ViewsKept /\ SequencesSet
    BY <1>t, <1>s, <2>2 DEF KeepsAll, Sound
  <2>4. FunctionsKept' /\ SequencesKept' /\ ViewsKept'
    BY <2>2, <2>3, <1>d, <1>s, <1>a DEF FunctionsKept, SequencesKept, ViewsKept, Read
  <2>5. TablesKept'
    BY <2>2, <2>3, <1>d, <1>s, <1>a DEF TablesKept, Read
  <2>6. KeysWait' /\ NoOldTable'
    BY <1>d DEF KeysWait, NoOldTable
  <2>7. SequencesSet'
    BY <2>3, <1>s DEF SequencesSet
  <2>. QED
    BY <2>4, <2>5, <2>6, <2>7
<1>5. FailsForAReason'
  <2>1. SUFFICES ASSUME phase' = "error", afresh, ~ failed PROVE FALSE
    BY <1>s DEF FailsForAReason
  <2>2. ddl.post # {} /\ still = ddl.post
    BY <2>1, <1>d
  <2>. QED
    BY <2>1, <2>2, <1>p, <1>s, EveryRoundCreates DEF Sound
<1>. QED
  BY <1>1, <1>2, <1>3, <1>4, <1>5 DEF RestoreInv

LEMMA StepConnectionLost ==
    ASSUME RestoreInv, ConnectionLost
    PROVE  RestoreInv'
<1>t. RestoreTypes /\ Consistent
  BY RestoreParts
<1>s. /\ UNCHANGED <<schema, objects, copies, serial, dropping, valued, restores, afresh, swept>>
      /\ failed' = TRUE /\ phase' = "error" /\ frames' = {} /\ ddl' = NoDdl
  BY DEF ConnectionLost, Ends
<1>a. /\ write_archive' = write_archive /\ ArchivedObjects' = ArchivedObjects
      /\ Ddls' = Ddls /\ \A q : Needs(q)' = Needs(q)
  BY <1>s, SameArchive
<1>1. RestoreTypes'
  BY <1>t, <1>s, <1>a, EmptyDdl DEF RestoreTypes, PgPhases
<1>2. Consistent'
  BY <1>t, <1>s, <1>a DEF Consistent
<1>3. PhasesInOrder' /\ KeepsAll' /\ FailsForAReason'
  BY <1>s DEF PhasesInOrder, KeepsAll, Sound, FailsForAReason
<1>. QED
  BY <1>1, <1>2, <1>3 DEF RestoreInv

LEMMA RestoreStutter ==
    ASSUME RestoreInv, UNCHANGED pgRestoreVars
    PROVE  RestoreInv'
<1>s. UNCHANGED <<schema, objects, copies, serial, phase, dropping, frames, ddl, valued,
                   restores, afresh, swept, failed>>
  BY DEF pgRestoreVars
<1>a. /\ write_archive' = write_archive /\ ArchivedObjects' = ArchivedObjects
      /\ PgFunctions' = PgFunctions /\ PgSequences' = PgSequences /\ PgViews' = PgViews
      /\ Ddls' = Ddls /\ (\A q : Needs(q)' = Needs(q)) /\ \A u : ConstraintsOf(u)' = ConstraintsOf(u)
  BY <1>s, SameArchive
<1>1. RestoreTypes' /\ Consistent' /\ PhasesInOrder'
  BY <1>s, <1>a, RestoreParts DEF RestoreTypes, Consistent, PhasesInOrder, Read
<1>2. Sound' => /\ FunctionsKept' /\ SequencesKept' /\ ViewsKept' /\ TablesKept'
                /\ KeysWait' /\ NoOldTable' /\ SequencesSet'
  <2>1. SUFFICES ASSUME Sound PROVE /\ FunctionsKept' /\ SequencesKept' /\ ViewsKept' /\ TablesKept'
                                    /\ KeysWait' /\ NoOldTable' /\ SequencesSet'
    BY <1>s DEF Sound
  <2>2. /\ FunctionsKept /\ SequencesKept /\ TablesKept /\ KeysWait /\ ViewsKept /\ NoOldTable /\ SequencesSet
    BY <2>1, RestoreParts DEF KeepsAll
  <2>3. FunctionsKept' /\ SequencesKept' /\ ViewsKept'
    BY <2>2, <1>s, <1>a DEF FunctionsKept, SequencesKept, ViewsKept, Read
  <2>4. TablesKept'
    BY <2>2, <1>s, <1>a DEF TablesKept, Read
  <2>5. KeysWait' /\ NoOldTable' /\ SequencesSet'
    BY <2>2, <1>s DEF KeysWait, NoOldTable, SequencesSet
  <2>. QED
    BY <2>3, <2>4, <2>5
<1>3. KeepsAll'
  BY <1>2 DEF KeepsAll
<1>4. FailsForAReason'
  BY <1>s, RestoreParts DEF FailsForAReason, LaterParent
<1>. QED
  BY <1>1, <1>3, <1>4 DEF RestoreInv

LEMMA RestoreStarts == PgRestoreInit => RestoreInv
<1>1. SUFFICES ASSUME PgRestoreInit PROVE RestoreInv
  OBVIOUS
<1>2. PICK target \in PgTargets :
         /\ objects = IF target = "empty" THEN {} ELSE ArchivedObjects
         /\ copies = [t \in PgTables |-> IF target # "empty" /\ t \in schema.tables THEN 1 ELSE 0]
         /\ serial = IF target = "original" THEN schema.sequences \cap schema.tables ELSE {}
  BY <1>1 DEF PgRestoreInit
<1>3. /\ schema \in PgSchemas /\ phase = "idle" /\ dropping = FALSE /\ frames = {} /\ ddl = NoDdl
      /\ valued = {} /\ restores = 0 /\ afresh = FALSE /\ swept = {} /\ failed = FALSE
  BY <1>1 DEF PgRestoreInit
<1>4. RestoreTypes
  <2>1. objects \in SUBSET ArchivedObjects
    BY <1>2
  <2>2. copies \in [PgTables -> Nat]
    BY <1>2
  <2>3. schema.tables \in SUBSET PgTables
    BY <1>3, PgRestoreAssumption DEF PgSchema
  <2>4. serial \in SUBSET PgTables
    BY <1>2, <2>3
  <2>5. restores \in 0 .. MaxRestores
    BY <1>3, PgRestoreAssumption
  <2>. QED
    BY <1>3, <2>1, <2>2, <2>4, <2>5, EmptyDdl DEF RestoreTypes, PgPhases
<1>5. Consistent
  <2>1. CASE target = "empty"
    BY <2>1, <1>2 DEF Consistent
  <2>2. CASE target # "empty"
    <3>1. \A o \in objects : Needs(o) \subseteq objects
      BY <2>2, <1>2, <1>4, NeedsArchived
    <3>2. \A t \in PgTables : Obj("table", t) \notin objects => copies[t] = 0
      BY <2>2, <1>2, <1>4, KindsArchived
    <3>. QED
      BY <3>1, <3>2 DEF Consistent
  <2>. QED
    BY <2>1, <2>2
<1>6. PhasesInOrder /\ KeepsAll /\ FailsForAReason
  BY <1>3 DEF PhasesInOrder, KeepsAll, Sound, FailsForAReason
<1>. QED
  BY <1>4, <1>5, <1>6 DEF RestoreInv

LEMMA RestoreStep ==
    ASSUME RestoreInv, [PgRestoreNext]_pgRestoreVars
    PROVE  RestoreInv'
<1>1. CASE RequestRestore
  BY <1>1, StepRequestRestore
<1>2. CASE ReadDdl
  BY <1>2, StepReadDdl
<1>3. CASE ApplyPre
  BY <1>3, StepApplyPre
<1>4. CASE RestoreSequence
  BY <1>4, StepRestoreSequence
<1>5. CASE RestoreTable
  BY <1>5, StepRestoreTable
<1>6. CASE EndOfData
  BY <1>6, StepEndOfData
<1>7. CASE AddConstraint
  BY <1>7, StepAddConstraint
<1>8. CASE SetSequences
  BY <1>8, StepSetSequences
<1>9. CASE ApplyPost
  BY <1>9, StepApplyPost
<1>10. CASE ConnectionLost
  BY <1>10, StepConnectionLost
<1>11. CASE UNCHANGED pgRestoreVars
  BY <1>11, RestoreStutter
<1>. QED
  BY <1>1, <1>2, <1>3, <1>4, <1>5, <1>6, <1>7, <1>8, <1>9, <1>10, <1>11 DEF PgRestoreNext

\* The inductive invariant of a restore.
THEOREM RestoreInvariance == PgRestoreSpec => []RestoreInv
  BY RestoreStarts, RestoreStep, PTL DEF PgRestoreSpec

LEMMA DoneIsWhole == RestoreInv => RestoredButSwept
<1>1. SUFFICES ASSUME RestoreInv, phase = "done", afresh, ~ failed PROVE Whole(swept)
  BY DEF RestoredButSwept
<1>2. /\ RestoreTypes /\ PhasesInOrder
      /\ FunctionsKept /\ SequencesKept /\ TablesKept /\ ViewsKept /\ SequencesSet
  BY <1>1, RestoreParts DEF KeepsAll, Sound
<1>3. frames = {} /\ ddl.constraints = {} /\ ddl.pre = {} /\ ddl.post = {}
  BY <1>1, <1>2 DEF PhasesInOrder
<1>4. /\ PgFunctions \subseteq objects \cup swept /\ PgSequences \subseteq objects \cup swept
      /\ PgViews \subseteq objects
  BY <1>2, <1>3 DEF FunctionsKept, SequencesKept, ViewsKept, Read
<1>5. \A t \in schema.tables : Obj("table", t) \in objects /\ copies[t] = 1 /\ ConstraintsOf(t) \subseteq objects
  BY <1>1, <1>2, <1>3 DEF TablesKept, Read
<1>6. PgConstraints \subseteq objects
  BY <1>5 DEF PgConstraints
<1>7. ArchivedObjects \subseteq objects \cup swept
  BY <1>2, <1>4, <1>5, <1>6, ArchivedKinds
<1>8. \A t \in schema.sequences : Obj("sequence", t) \in swept \/ t \in valued
  BY <1>1, <1>2 DEF SequencesSet
<1>. QED
  BY <1>5, <1>7, <1>8 DEF Whole

\* Success means that the rows, constraints, sequences, views and functions are all
\* back, but for what the restore dropped itself.
THEOREM SuccessIsWhole == PgRestoreSpec => []RestoredButSwept
  BY RestoreInvariance, DoneIsWhole, PTL

\* A restore into tables it creates fails for one of three reasons.
THEOREM FailureHasAReason == PgRestoreSpec => []FailsForAReason
<1>1. RestoreInv => FailsForAReason
  BY DEF RestoreInv
<1>. QED
  BY <1>1, RestoreInvariance, PTL

==============================================================================
