--------------------------- MODULE RetentionProofs ---------------------------
(***************************************************************************)
(* An increment never loses the manifest of its base, whatever the         *)
(* retention policy, however many backups there are and wherever writes,   *)
(* cleanups and prunes are interrupted, provided that a prune reads every  *)
(* manifest there is; and what a prune that was interrupted leaves with    *)
(* its data can be restored, provided that its policy keeps the newest     *)
(* chain.  No prune takes away what the recovery window or min_redundancy  *)
(* is to keep (docs/prd/02-recovery-window-retention.md).                  *)
(*                                                                         *)
(* LiveBaseKept is not inductive: that the base is deleted last follows    *)
(* from what a plan contains (PlanClosed), from the order in which it is   *)
(* carried out and from a base being older than its increments (Shape).    *)
(* The rules of a policy are judged when a plan is made and prunes stop    *)
(* half way, so what they keep is said of every state: whatever is planned *)
(* or has lost its data has newer full backups that are whole and stay     *)
(* (RedundancySpared, WindowSpared).                                       *)
(***************************************************************************)
EXTENDS Retention, FiniteSetTheorems, WellFoundedInduction, TLAPS

\* An increment is bound to an older full backup.
Shape ==
    \A i \in DOMAIN store : store[i].kind = "incr" =>
        /\ store[i].base \in DOMAIN store
        /\ store[i].base < i
        /\ store[store[i].base].kind = "full"

\* A backup that is being written is the newest; its base is still there when
\* its manifest is about to be.  Only a prune has a plan.
Pending ==
    /\ pc # "prune" => todo = {}
    /\ pc \in {"manifest", "sidecar", "clean_data", "clean_manifest", "clean_sidecar"}
         => New \in DOMAIN store
    /\ pc = "manifest" /\ store[New].kind = "incr" => store[New].base \in Visible

\* A plan that contains a base contains every increment bound to it.
PlanClosed == \A i \in Visible : BaseOf(i) \in todo => i \in todo

IInv == TypeOK /\ Shape /\ Pending /\ PlanClosed /\ LiveBaseKept

\* The domain and the elements of a sequence of backups, as the provers need
\* them.
LEMMA StoreFacts ==
    ASSUME TypeOK
    PROVE  /\ DOMAIN store = 1..New
           /\ New \in Nat
           /\ \A i \in DOMAIN store : store[i] \in Backups
BY DEF TypeOK, New


\* Writing or removing a file of one backup leaves the rest of the store as it is.
LEMMA OnlyFiles ==
    ASSUME TypeOK, NEW i \in DOMAIN store, NEW F \in SUBSET Files,
           store' = [store EXCEPT ![i].files = F]
    PROVE  /\ store' \in Seq(Backups)
           /\ DOMAIN store' = DOMAIN store
           /\ New' = New
           /\ \A k \in DOMAIN store :
                /\ store'[k].kind = store[k].kind
                /\ store'[k].base = store[k].base
                /\ store'[k].files = IF k = i THEN F ELSE store[k].files
<1>1. store[i] \in Backups /\ DOMAIN store = 1..New /\ New \in Nat
  BY StoreFacts
<1>2. [store[i] EXCEPT !.files = F] \in Backups
  BY <1>1 DEF Backups
<1>3. store' = [store EXCEPT ![i] = [store[i] EXCEPT !.files = F]]
  OBVIOUS
<1>4. store' \in [1..New -> Backups]
  BY <1>1, <1>2, <1>3, StoreFacts
<1>5. store' \in Seq(Backups) /\ DOMAIN store' = DOMAIN store /\ New' = New
  BY <1>1, <1>4 DEF New
<1>6. \A k \in DOMAIN store : store[k] \in Backups
  BY StoreFacts
<1>7. QED
  BY <1>1, <1>3, <1>5, <1>6 DEF Backups

\* Kinds and bases that do not change keep their shape.
LEMMA ShapeKept ==
    ASSUME Shape, DOMAIN store' = DOMAIN store,
           \A k \in DOMAIN store :
             store'[k].kind = store[k].kind /\ store'[k].base = store[k].base
    PROVE  Shape'
<1> SUFFICES ASSUME NEW i \in DOMAIN store, store'[i].kind = "incr"
             PROVE  /\ store'[i].base \in DOMAIN store
                    /\ store'[i].base < i
                    /\ store'[store'[i].base].kind = "full"
  BY DEF Shape
<1>1. /\ store[i].base \in DOMAIN store
      /\ store[i].base < i
      /\ store[store[i].base].kind = "full"
  BY DEF Shape
<1>2. QED
  BY <1>1

\* The initial state satisfies the invariant.
LEMMA InitIInv == Init => IInv
<1> SUFFICES ASSUME Init PROVE IInv
  OBVIOUS
<1>1. store \in Seq(Backups) /\ DOMAIN store = {}
  BY DEF Init
<1>2. Visible = {}
  BY <1>1 DEF Visible
<1>3. QED
  BY <1>1, <1>2 DEF Init, IInv, TypeOK, Shape, Pending, PlanClosed, LiveBaseKept

\* Storing the data of a new backup, whose base if it has one is visible and
\* full, makes nothing visible and hides nothing.
LEMMA PutKeeps ==
    ASSUME IInv, pc = "idle", todo = {}, NEW r \in Backups, "manifest" \notin r.files,
           r.kind = "incr" => r.base \in Visible /\ store[r.base].kind = "full",
           Put(r)
    PROVE  IInv'
<1>1. store \in Seq(Backups) /\ store' = Append(store, r) /\ r \in Backups
  BY DEF IInv, TypeOK, Put
<1>2. /\ DOMAIN store = 1..New /\ New \in Nat
      /\ New' = New + 1 /\ DOMAIN store' = 1..(New + 1)
      /\ store' \in Seq(Backups)
      /\ store'[New + 1] = r
      /\ \A k \in 1..New : store'[k] = store[k]
  BY <1>1 DEF New
<1>3. Visible' = Visible
  BY <1>2 DEF Visible, Has
<1>4. TypeOK'
  BY <1>2 DEF IInv, TypeOK, Put
<1>5. Shape'
  <2> SUFFICES ASSUME NEW i \in 1..(New + 1), store'[i].kind = "incr"
               PROVE  /\ store'[i].base \in 1..(New + 1)
                      /\ store'[i].base < i
                      /\ store'[store'[i].base].kind = "full"
    BY <1>2 DEF Shape
  <2>1. CASE i = New + 1
    <3>1. r.base \in 1..New /\ store[r.base].kind = "full"
      BY <1>2, <2>1 DEF Visible
    <3>2. QED
      BY <1>2, <2>1, <3>1
  <2>2. CASE i \in 1..New
    <3>1. store[i].base \in 1..New /\ store[i].base < i /\ store[store[i].base].kind = "full"
      BY <1>2, <2>2 DEF IInv, Shape
    <3>2. QED
      BY <1>2, <2>2, <3>1
  <2>3. QED
    BY <1>2, <2>1, <2>2
<1>6. Pending'
  BY <1>2, <1>3 DEF Pending, Put
<1>7. Visible \subseteq 1..New
  BY <1>2 DEF Visible
<1>8. \A i \in Visible : BaseOf(i)' = BaseOf(i)
  BY <1>2, <1>7 DEF BaseOf
<1>9. LiveBaseKept'
  BY <1>3, <1>8 DEF IInv, LiveBaseKept
<1>10. PlanClosed'
  BY DEF PlanClosed, Put
<1>11. QED
  BY <1>4, <1>5, <1>6, <1>9, <1>10 DEF IInv

\* A visible backup's base is a full backup and not newer than itself.
LEMMA BaseFacts ==
    ASSUME IInv, NEW i \in Visible
    PROVE  /\ i \in DOMAIN store
           /\ BaseOf(i) \in Visible
           /\ store[BaseOf(i)].kind = "full"
           /\ BaseOf(i) <= i
<1>1. i \in DOMAIN store /\ store[i] \in Backups /\ i \in Nat
  BY StoreFacts DEF IInv, Visible
<1>2. BaseOf(i) \in Visible
  BY DEF IInv, LiveBaseKept
<1>3. CASE store[i].kind = "full"
  BY <1>1, <1>2, <1>3 DEF BaseOf
<1>4. CASE store[i].kind = "incr"
  <2>1. BaseOf(i) = store[i].base
    BY <1>4 DEF BaseOf
  <2>2. store[i].base < i /\ store[store[i].base].kind = "full" /\ store[i].base \in Nat
    BY <1>1, <1>4 DEF IInv, Shape, Backups
  <2>3. QED
    BY <1>1, <1>2, <2>1, <2>2
<1>5. QED
  BY <1>1, <1>3, <1>4 DEF Backups

\* Writing a file of the newest backup hides nothing, and makes at most that
\* backup visible.
LEMMA AddKeeps ==
    ASSUME IInv, New \in DOMAIN store, NEW file \in Files,
           store' = AddFile(file), UNCHANGED <<now, policy, todo>>,
           file = "manifest" => pc = "manifest",
           pc \in {"manifest", "sidecar"}, pc' \in {"sidecar", "idle"},
           todo = {}
    PROVE  IInv'
<1> DEFINE F == store[New].files \cup {file}
<1>1. F \in SUBSET Files /\ store' = [store EXCEPT ![New].files = F]
  BY StoreFacts DEF IInv, AddFile, Backups
<1> HIDE DEF F
<1>2. /\ store' \in Seq(Backups)
      /\ DOMAIN store' = DOMAIN store
      /\ New' = New
      /\ \A k \in DOMAIN store :
            /\ store'[k].kind = store[k].kind
            /\ store'[k].base = store[k].base
            /\ store'[k].files = IF k = New THEN F ELSE store[k].files
  BY <1>1, OnlyFiles DEF IInv
<1>3. TypeOK'
  BY <1>2 DEF IInv, TypeOK
<1>4. Shape'
  BY <1>2, ShapeKept DEF IInv
<1>5. Pending'
  BY <1>2 DEF Pending
<1>6. Visible \subseteq Visible'
  BY <1>2 DEF Visible, Has, F
<1>7. Visible' \subseteq Visible \cup (IF file = "manifest" THEN {New} ELSE {})
  BY <1>2 DEF Visible, Has, F
<1>8. LiveBaseKept'
  <2> SUFFICES ASSUME NEW i \in Visible' PROVE BaseOf(i)' \in Visible'
    BY DEF LiveBaseKept
  <2>1. i \in DOMAIN store /\ BaseOf(i)' = BaseOf(i)
    BY <1>2 DEF Visible, BaseOf
  <2>2. CASE i \in Visible
    BY <1>6, <2>1, <2>2 DEF IInv, LiveBaseKept
  <2>3. CASE i = New /\ file = "manifest"
    <3>1. CASE store[i].kind = "incr"
      BY <1>6, <2>1, <2>3, <3>1 DEF IInv, Pending, BaseOf
    <3>2. CASE store[i].kind = "full"
      BY <2>1, <3>2 DEF BaseOf
    <3>3. QED
      BY <2>1, <3>1, <3>2, StoreFacts DEF IInv, Backups
  <2>4. QED
    BY <1>7, <2>2, <2>3
<1>9. PlanClosed'
  BY DEF PlanClosed
<1>10. QED
  BY <1>3, <1>4, <1>5, <1>8, <1>9 DEF IInv

\* Removing a file keeps the invariant if it is not the manifest of a base that
\* a visible increment is bound to; `plan` is what is left to delete.
LEMMA RemoveKeeps ==
    ASSUME IInv, NEW i \in DOMAIN store, NEW file \in Files,
           store' = RemoveFile(i, file),
           now' \in Nat, policy' \in Policies,
           pc' \in {"idle", "clean_manifest", "clean_sidecar", "prune"},
           pc' \in {"clean_manifest", "clean_sidecar"} => New \in DOMAIN store,
           pc' # "prune" => todo' = {},
           todo' \subseteq todo, \A k \in todo \ todo' : k = i /\ store'[i].files = {},
           file = "manifest" => \A k \in Visible : BaseOf(k) = i => k = i
    PROVE  IInv'
<1> DEFINE F == store[i].files \ {file}
<1>1. F \in SUBSET Files /\ store' = [store EXCEPT ![i].files = F]
  BY StoreFacts DEF IInv, RemoveFile, Backups
<1> HIDE DEF F
<1>2. /\ store' \in Seq(Backups)
      /\ DOMAIN store' = DOMAIN store
      /\ New' = New
      /\ \A k \in DOMAIN store :
            /\ store'[k].kind = store[k].kind
            /\ store'[k].base = store[k].base
            /\ store'[k].files = IF k = i THEN F ELSE store[k].files
  BY <1>1, OnlyFiles DEF IInv
<1>3. TypeOK'
  BY <1>2 DEF IInv, TypeOK
<1>4. Shape'
  BY <1>2, ShapeKept DEF IInv
<1>5. Pending'
  BY <1>2 DEF Pending
<1>6. Visible' = Visible \ (IF file = "manifest" THEN {i} ELSE {})
  BY <1>2 DEF Visible, Has, F
<1>7. \A k \in Visible : BaseOf(k)' = BaseOf(k)
  BY <1>2 DEF Visible, BaseOf
<1>8. LiveBaseKept'
  BY <1>6, <1>7 DEF IInv, LiveBaseKept
<1>9. PlanClosed'
  <2> SUFFICES ASSUME NEW k \in Visible', BaseOf(k)' \in todo' PROVE k \in todo'
    BY DEF PlanClosed
  <2>1. k \in Visible /\ k \in todo
    BY <1>6, <1>7 DEF IInv, PlanClosed
  <2>2. store'[k].files # {}
    BY DEF Visible, Has
  <2>3. QED
    BY <2>1, <2>2
<1>10. QED
  BY <1>3, <1>4, <1>5, <1>8, <1>9 DEF IInv

\* What is deleted next is never a base that a visible increment is bound to:
\* the plan contains the increment too and deletes it before.
LEMMA BaseGoesLast ==
    ASSUME IInv, NEW i \in todo, \A j \in todo \ {i} : Precedes(i, j),
           NEW k \in Visible, BaseOf(k) = i
    PROVE  k = i
<1> SUFFICES ASSUME k # i PROVE FALSE
  OBVIOUS
<1>1. /\ i \in Visible /\ store[i].kind = "full" /\ i <= k
      /\ k \in DOMAIN store /\ i \in DOMAIN store
  BY BaseFacts DEF Visible
<1>2. Precedes(i, k)
  BY DEF IInv, PlanClosed
<1>3. Has(i, "manifest") /\ Has(k, "manifest") /\ BaseOf(i) = i
  BY <1>1 DEF Visible, BaseOf
<1>4. i \in Nat /\ k \in Nat
  BY <1>1, StoreFacts DEF IInv
<1>5. QED
  BY <1>1, <1>2, <1>3, <1>4 DEF Precedes

\* A plan made from every manifest there is contains whole chains.
LEMMA PlanIsClosed ==
    ASSUME IInv, NEW force \in BOOLEAN, StartPrune(force), "read" \notin Events
    PROVE  todo' \subseteq DOMAIN store /\ PlanClosed'
<1>1. PICK unread \in Unreadable : todo' = Plan(Visible \ unread, force)
  BY DEF StartPrune
<1>2. todo' = Plan(Visible, force)
  <2>1. Visible \ unread = Visible
    BY DEF Unreadable
  <2>2. QED
    BY <1>1, <2>1
<1> DEFINE Gone == {c \in Fulls(Visible) : ~ Kept(c, Visible)}
<1>3. Gone \subseteq Visible /\ \A b \in Gone : store[b].kind = "full"
  BY DEF Fulls
<1>4. \A x : x \in todo' <=> \/ \E b \in Gone : x \in Members(b, Visible)
                             \/ force /\ x \in Orphans
  <2>1. \A x : x \in ChainTargets(Visible) <=> \E b \in Gone : x \in Members(b, Visible)
    BY DEF ChainTargets
  <2>2. \A x : x \in Plan(Visible, force) <=> \/ x \in ChainTargets(Visible)
                                              \/ force /\ x \in Orphans
    BY DEF Plan
  <2>3. QED
    BY <1>2, <2>1, <2>2
<1> HIDE DEF Gone
<1>5. todo' \subseteq DOMAIN store
  <2>1. \A b \in Gone : Members(b, Visible) \subseteq DOMAIN store
    BY <1>3 DEF Members, Visible
  <2>2. Orphans \subseteq DOMAIN store
    BY DEF Orphans
  <2>3. QED
    BY <1>4, <2>1, <2>2
<1>6. store' = store /\ Visible' = Visible
  BY DEF StartPrune, Visible, Has
<1>7. ASSUME NEW i \in Visible, BaseOf(i) \in todo'
      PROVE  i \in todo'
  <2>1. BaseOf(i) \in Visible /\ store[BaseOf(i)].kind = "full" /\ i \in DOMAIN store
    BY BaseFacts
  <2>2. BaseOf(i) \notin Orphans
    BY <2>1 DEF Orphans, Visible
  <2>3. PICK b \in Gone : BaseOf(i) \in Members(b, Visible)
    BY <1>4, <1>7, <2>2
  <2>4. BaseOf(i) = b
    BY <2>1, <2>3 DEF Members
  <2>5. store[i].kind \in {"full", "incr"}
    BY <2>1, StoreFacts DEF IInv, Backups
  <2>6. i \in Members(b, Visible)
    BY <2>4, <2>5 DEF Members, BaseOf
  <2>7. QED
    BY <1>4, <2>6
<1>8. \A i \in Visible : BaseOf(i)' = BaseOf(i)
  BY <1>6 DEF BaseOf
<1>9. QED
  BY <1>5, <1>6, <1>7, <1>8 DEF PlanClosed

\* Every step preserves the invariant, if manifests can be read.
LEMMA NextIInv ==
    ASSUME IInv, Next, "read" \notin Events
    PROVE  IInv'
<1>1. CASE Tick
  <2>1. New' = New /\ Visible' = Visible /\ \A i \in DOMAIN store : BaseOf(i)' = BaseOf(i)
    BY <1>1 DEF Tick, New, Visible, Has, BaseOf
  <2>2. QED
    BY <1>1, <2>1 DEF Tick, IInv, TypeOK, Shape, Pending, PlanClosed, LiveBaseKept, Visible
<1>2. CASE PutFull
  <2>1. PICK selective \in BOOLEAN :
          Put([kind |-> "full", selective |-> selective, base |-> 0, start |-> 0,
               end |-> now, created |-> now + 1, empty |-> FALSE, files |-> {"data"}])
    BY <1>2 DEF PutFull
  <2> DEFINE r == [kind |-> "full", selective |-> selective, base |-> 0, start |-> 0,
                   end |-> now, created |-> now + 1, empty |-> FALSE, files |-> {"data"}]
  <2>2. r \in Backups /\ "manifest" \notin r.files /\ r.kind # "incr"
    BY DEF IInv, TypeOK, Backups, Files
  <2>3. pc = "idle" /\ todo = {}
    BY <1>2 DEF PutFull, IInv, Pending
  <2> HIDE DEF r
  <2>4. Put(r)
    BY <2>1 DEF r
  <2>5. QED
    BY <2>2, <2>3, <2>4, PutKeeps
<1>3. CASE PutIncr
  <2>1. PICK tip \in Visible, empty \in BOOLEAN :
          Put([kind |-> "incr", selective |-> FALSE, base |-> BaseOf(tip),
               start |-> store[tip].end,
               end |-> IF empty THEN store[tip].end ELSE now,
               created |-> now + 1, empty |-> empty,
               files |-> IF empty THEN {} ELSE {"data"}])
    BY <1>3 DEF PutIncr, Eligible
  <2>2. BaseOf(tip) \in Visible /\ store[BaseOf(tip)].kind = "full"
    BY BaseFacts
  <2>3. BaseOf(tip) \in Nat /\ store[tip].end \in Nat
    BY <2>2, StoreFacts DEF IInv, Visible, Backups
  <2> DEFINE r == [kind |-> "incr", selective |-> FALSE, base |-> BaseOf(tip),
                   start |-> store[tip].end,
                   end |-> IF empty THEN store[tip].end ELSE now,
                   created |-> now + 1, empty |-> empty,
                   files |-> IF empty THEN {} ELSE {"data"}]
  <2>4. r \in Backups /\ "manifest" \notin r.files /\ r.base = BaseOf(tip)
    BY <2>3 DEF IInv, TypeOK, Backups, Files
  <2>5. pc = "idle" /\ todo = {}
    BY <1>3 DEF PutIncr, IInv, Pending
  <2> HIDE DEF r
  <2>6. Put(r)
    BY <2>1 DEF r
  <2>7. QED
    BY <2>2, <2>4, <2>5, <2>6, PutKeeps
<1>4. CASE WriteManifest
  <2>1. New \in DOMAIN store /\ todo = {} /\ "manifest" \in Files
    BY <1>4 DEF WriteManifest, IInv, Pending, Files
  <2>2. QED
    BY <1>4, <2>1, AddKeeps DEF WriteManifest
<1>5. CASE WriteSidecar
  <2>1. New \in DOMAIN store /\ todo = {} /\ "sidecar" \in Files
    BY <1>5 DEF WriteSidecar, IInv, Pending, Files
  <2>2. QED
    BY <1>5, <2>1, AddKeeps DEF WriteSidecar
<1>6. CASE WriteFails
  <2>1. New' = New /\ Visible' = Visible /\ \A i \in DOMAIN store : BaseOf(i)' = BaseOf(i)
    BY <1>6 DEF WriteFails, New, Visible, Has, BaseOf
  <2>2. QED
    BY <1>6, <2>1 DEF WriteFails, IInv, TypeOK, Shape, Pending, PlanClosed, LiveBaseKept, Visible
<1>7. CASE Cleanup
  <2>1. PICK file \in Files, next \in {"clean_manifest", "clean_sidecar", "idle"} :
          CleanupFile(file, next) /\ pc \in {"clean_data", "clean_manifest", "clean_sidecar"}
    BY <1>7 DEF Cleanup, Files
  <2>2. New \in DOMAIN store /\ todo = {}
    BY <2>1 DEF IInv, Pending
  <2>3. \A k \in Visible : BaseOf(k) = New => k = New
    <3>1. ASSUME NEW k \in Visible, BaseOf(k) = New PROVE k = New
      <4>1. New <= k /\ k \in 1..New /\ New \in Nat
        BY <3>1, BaseFacts, StoreFacts DEF IInv, Visible
      <4>2. QED
        BY <4>1
    <3>2. QED
      BY <3>1
  <2>4. CASE store' = RemoveFile(New, file)
    BY <2>1, <2>2, <2>3, <2>4, RemoveKeeps DEF CleanupFile, IInv, TypeOK
  <2>5. CASE store' = store
    <3>1. New' = New /\ Visible' = Visible /\ \A i \in DOMAIN store : BaseOf(i)' = BaseOf(i)
      BY <2>5 DEF New, Visible, Has, BaseOf
    <3>2. QED
      BY <2>1, <2>2, <2>5, <3>1
         DEF CleanupFile, IInv, TypeOK, Shape, Pending, PlanClosed, LiveBaseKept, Visible
  <2>6. QED
    BY <2>1, <2>4, <2>5 DEF CleanupFile
<1>8. ASSUME NEW force \in BOOLEAN, StartPrune(force)
      PROVE  IInv'
  <2>1. New' = New /\ Visible' = Visible /\ \A i \in DOMAIN store : BaseOf(i)' = BaseOf(i)
    BY <1>8 DEF StartPrune, New, Visible, Has, BaseOf
  <2>2. todo' \subseteq DOMAIN store /\ PlanClosed'
    BY <1>8, PlanIsClosed
  <2>3. QED
    BY <1>8, <2>1, <2>2 DEF StartPrune, IInv, TypeOK, Shape, Pending, LiveBaseKept, Visible
<1>9. CASE DeleteFile
  <2>1. PICK i \in todo :
          /\ \A j \in todo \ {i} : Precedes(i, j)
          /\ store' = RemoveFile(i, FileToDelete(i))
          /\ todo' = IF store'[i].files = {} THEN todo \ {i} ELSE todo
    BY <1>9 DEF DeleteFile
  <2>2. i \in DOMAIN store /\ FileToDelete(i) \in Files
    BY DEF IInv, TypeOK, FileToDelete, Files
  <2>3. \A k \in Visible : BaseOf(k) = i => k = i
    BY <2>1, BaseGoesLast
  <2>4. /\ now' \in Nat /\ policy' \in Policies /\ pc' \in {"idle", "prune"}
        /\ pc' # "prune" => todo' = {}
    BY <1>9 DEF DeleteFile, IInv, TypeOK
  <2>5. todo' \subseteq todo /\ \A k \in todo \ todo' : k = i /\ store'[i].files = {}
    BY <2>1
  <2>6. QED
    BY <2>1, <2>2, <2>3, <2>4, <2>5, RemoveKeeps
<1>10. CASE Crash
  <2>1. New' = New /\ Visible' = Visible /\ \A i \in DOMAIN store : BaseOf(i)' = BaseOf(i)
    BY <1>10 DEF Crash, New, Visible, Has, BaseOf
  <2>2. QED
    BY <1>10, <2>1 DEF Crash, IInv, TypeOK, Shape, Pending, PlanClosed, LiveBaseKept, Visible
<1>11. QED
  BY <1>1, <1>2, <1>3, <1>4, <1>5, <1>6, <1>7, <1>8, <1>9, <1>10 DEF Next

\* A step that changes nothing preserves the invariant.
LEMMA StutterIInv == IInv /\ UNCHANGED vars => IInv'
BY DEF IInv, TypeOK, Shape, Pending, PlanClosed, LiveBaseKept, New, Visible, Has, BaseOf, vars

\* The types hold, and no increment is ever without the manifest of its base
\* (prune.rs:9), for every policy, any number of backups, and crashes, failing
\* writes and failing cleanups anywhere, as long as the manifests in the
\* destination can be read.
THEOREM LiveBases ==
    ASSUME "read" \notin Events
    PROVE  Spec => [](TypeOK /\ LiveBaseKept)
<1>1. IInv /\ [Next]_vars => IInv'
  BY NextIInv, StutterIInv
<1>2. IInv => TypeOK /\ LiveBaseKept
  BY DEF IInv
<1>3. QED
  BY <1>1, <1>2, InitIInv, PTL DEF Spec

--------------------------------------------------------------------------------
(* What a prune leaves can be restored.                                    *)

\* Backups are made one after another, all of the whole, and no write fails.
InOrderOfTime ==
    /\ pc \in {"idle", "manifest", "sidecar", "prune"}
    /\ \A i \in DOMAIN store : ~ store[i].selective /\ store[i].created <= now
    /\ \A i, j \in DOMAIN store : i < j => store[i].created < store[j].created

IsFull(i) == store[i].kind = "full"

\* No full backup lies between a base and its increments.
BoundToNewest == \A i, c \in Visible : IsFull(c) /\ c < i => c <= BaseOf(i)

InNewestChain(i) == \A c \in Visible : IsFull(c) => c <= BaseOf(i)

\* What the next increment continues has its data.
NewestChainWhole == \A i \in Visible : InNewestChain(i) => Backed(i)

\* A plan has the base of what it has, and none of the newest chain.
PlanOfOlderChains ==
    \A i \in todo \cap Visible :
        BaseOf(i) \in todo /\ \E c \in Visible : IsFull(c) /\ BaseOf(i) < c

\* The increment that is being written continues the newest backup there is.
Continuing ==
    pc = "manifest" =>
        /\ New \notin Visible /\ Backed(New)
        /\ store[New].kind = "incr" =>
             \E tip \in Visible :
                 /\ \A i \in Visible : i <= tip
                 /\ store[New].base = BaseOf(tip) /\ store[New].start = store[tip].end

Survival == BoundToNewest /\ NewestChainWhole /\ PlanOfOlderChains /\ SurvivorsRestorable

SurvInv == IInv /\ InOrderOfTime /\ Continuing /\ (KeepsNewest(policy) => Survival)

\* Nothing is stored and nothing runs.
LEMMA InitSurvInv == Init => SurvInv
<1>. SUFFICES ASSUME Init PROVE SurvInv
  OBVIOUS
<1>1. DOMAIN store = {} /\ Visible = {} /\ todo = {} /\ pc = "idle"
  BY DEF Init, Visible
<1>2. InOrderOfTime /\ Continuing
  BY <1>1 DEF InOrderOfTime, Continuing
<1>3. Survival
  BY <1>1 DEF Survival, BoundToNewest, NewestChainWhole, PlanOfOlderChains, SurvivorsRestorable
<1>. QED
  BY <1>2, <1>3, InitIInv DEF SurvInv

\* The step leaves what backup k covers and when it was made as it is.
SameRange(k) ==
    /\ store'[k].selective = store[k].selective /\ store'[k].empty = store[k].empty
    /\ store'[k].start = store[k].start /\ store'[k].end = store[k].end
    /\ store'[k].created = store[k].created

\* Writing or removing a file does.
LEMMA RangesKept ==
    ASSUME TypeOK, NEW i \in DOMAIN store, NEW F \in SUBSET Files,
           store' = [store EXCEPT ![i].files = F], NEW k \in DOMAIN store
    PROVE  SameRange(k)
<1>1. store[i] \in Backups /\ store[k] \in Backups
  BY StoreFacts
<1>2. store' = [store EXCEPT ![i] = [store[i] EXCEPT !.files = F]]
  OBVIOUS
<1>3. CASE k = i
  <2>1. store'[k] = [store[i] EXCEPT !.files = F]
    BY <1>2, <1>3
  <2>. QED
    BY <1>1, <1>3, <2>1 DEF Backups, SameRange
<1>4. CASE k # i
  <2>1. store'[k] = store[k]
    BY <1>2, <1>4
  <2>. QED
    BY <2>1 DEF SameRange
<1>. QED
  BY <1>3, <1>4

\* A backup whose chain is the same, with the same data, can still be restored.
LEMMA RestorableKept ==
    ASSUME NEW k, Restorable(k), Chain(k)' = Chain(k), BaseOf(k)' = BaseOf(k),
           \A j \in Chain(k) : Backed(j)' /\ SameRange(j)
    PROVE  Restorable(k)'
<1>1. \A j \in Chain(k) : store'[j].start = store[j].start /\ store'[j].end = store[j].end
  BY DEF SameRange
<1>. QED
  BY <1>1 DEF Restorable

\* The newest backup there is belongs to the newest chain.
LEMMA NewestIsInNewestChain ==
    ASSUME IInv, BoundToNewest, NEW tip \in Visible, \A i \in Visible : i <= tip
    PROVE  InNewestChain(tip)
<1>. SUFFICES ASSUME NEW c \in Visible, IsFull(c) PROVE c <= BaseOf(tip)
  BY DEF InNewestChain
<1>1. c \in Nat /\ tip \in Nat /\ c <= tip
  BY StoreFacts DEF IInv, Visible
<1>2. CASE c = tip
  BY <1>1, <1>2 DEF BaseOf, IsFull
<1>3. CASE c < tip
  BY <1>3 DEF BoundToNewest
<1>. QED
  BY <1>1, <1>2, <1>3

\* What says nothing of the plan depends on the store only.
LEMMA SameStore ==
    ASSUME SurvInv, IInv', store' = store, policy' = policy, now' \in Nat, now <= now',
           pc' \in {pc, "idle"}, todo' \in {todo, {}}
    PROVE  SurvInv'
<1>1. Visible' = Visible /\ New' = New /\ \A i : BaseOf(i)' = BaseOf(i) /\ (IsFull(i)' <=> IsFull(i))
  BY DEF Visible, Has, New, BaseOf, IsFull
<1>2. InOrderOfTime'
  <2>1. now \in Nat /\ \A i \in DOMAIN store : store[i].created \in Nat
    BY StoreFacts DEF SurvInv, IInv, TypeOK, Backups
  <2>. QED
    BY <2>1 DEF SurvInv, InOrderOfTime
<1>3. \A i : Backed(i)' <=> Backed(i)
  BY DEF Backed, Has
<1>4. Continuing'
  BY <1>1, <1>3 DEF SurvInv, Continuing
<1>5. ASSUME Survival PROVE Survival'
  <2>1. BoundToNewest' /\ NewestChainWhole'
    BY <1>1, <1>3, <1>5 DEF Survival, BoundToNewest, NewestChainWhole, InNewestChain
  <2>2. PlanOfOlderChains'
    BY <1>1, <1>5 DEF Survival, PlanOfOlderChains
  <2>3. ASSUME NEW k \in Visible, Backed(k) PROVE Restorable(k)'
    <3>1. Restorable(k)
      BY <1>5, <2>3 DEF Survival, SurvivorsRestorable
    <3>2. Chain(k)' = Chain(k)
      BY <1>1 DEF Chain
    <3>. QED
      BY <1>1, <1>3, <3>1, <3>2, RestorableKept DEF SameRange, Restorable
  <2>. QED
    BY <1>1, <1>3, <2>1, <2>2, <2>3 DEF Survival, SurvivorsRestorable
<1>. QED
  BY <1>2, <1>4, <1>5 DEF SurvInv, KeepsNewest

\* Storing the data of a backup shows nothing and hides nothing.
LEMMA PutSurvives ==
    ASSUME SurvInv, IInv', pc = "idle", todo = {}, NEW r \in Backups, ~ r.selective,
           r.created = now + 1, "manifest" \notin r.files, "data" \in r.files \/ r.empty,
           r.kind = "incr" =>
              \E tip \in Visible : /\ \A i \in Visible : i <= tip
                                   /\ r.base = BaseOf(tip) /\ r.start = store[tip].end,
           Put(r)
    PROVE  SurvInv'
<1>1. /\ DOMAIN store = 1..New /\ New \in Nat /\ now \in Nat
      /\ New' = New + 1 /\ DOMAIN store' = 1..(New + 1)
      /\ store'[New + 1] = r /\ now' = now + 1 /\ pc' = "manifest" /\ todo' = {}
      /\ \A k \in 1..New : store'[k] = store[k]
      /\ policy' = policy
  BY StoreFacts DEF SurvInv, IInv, TypeOK, Put, New
<1>2. Visible' = Visible /\ Visible \subseteq 1..New
  BY <1>1 DEF Visible, Has
<1>3. \A i \in 1..New : BaseOf(i)' = BaseOf(i) /\ (IsFull(i)' <=> IsFull(i)) /\ (Backed(i)' <=> Backed(i)) /\ SameRange(i)
  BY <1>1 DEF BaseOf, IsFull, Backed, Has, SameRange
<1>4. InOrderOfTime'
  <2>1. \A i \in 1..New : store[i].created \in Nat /\ store[i].created <= now /\ ~ store[i].selective
    BY <1>1, StoreFacts DEF SurvInv, IInv, InOrderOfTime, Backups
  <2>2. \A i, j \in 1..New : i < j => store[i].created < store[j].created
    BY <1>1 DEF SurvInv, InOrderOfTime
  <2>3. \A i \in 1..(New + 1) : ~ store'[i].selective /\ store'[i].created <= now + 1
    BY <1>1, <2>1
  <2>4. ASSUME NEW i \in 1..(New + 1), NEW j \in 1..(New + 1), i < j
        PROVE  store'[i].created < store'[j].created
    <3>1. i \in 1..New
      BY <1>1, <2>4
    <3>2. CASE j \in 1..New
      BY <1>1, <2>2, <2>4, <3>1, <3>2
    <3>3. CASE j = New + 1
      BY <1>1, <2>1, <3>1, <3>3
    <3>. QED
      BY <1>1, <3>2, <3>3
  <2>. QED
    BY <1>1, <2>3, <2>4 DEF InOrderOfTime
<1>5. Continuing'
  <2>1. New' \notin Visible'
    BY <1>1, <1>2
  <2>2. Backed(New)'
    BY <1>1 DEF Backed, Has
  <2>3. store'[New'] = r
    BY <1>1
  <2>4. \A tip \in Visible : BaseOf(tip)' = BaseOf(tip) /\ store'[tip].end = store[tip].end
    BY <1>1, <1>2, <1>3
  <2>. QED
    BY <1>2, <2>1, <2>2, <2>3, <2>4 DEF Continuing
<1>6. ASSUME Survival PROVE Survival'
  <2>1. BoundToNewest' /\ NewestChainWhole'
    BY <1>2, <1>3, <1>6 DEF Survival, BoundToNewest, NewestChainWhole, InNewestChain
  <2>2. PlanOfOlderChains'
    BY <1>1 DEF PlanOfOlderChains
  <2>3. ASSUME NEW k \in Visible, Backed(k) PROVE Restorable(k)'
    <3>1. Restorable(k)
      BY <1>6, <2>3 DEF Survival, SurvivorsRestorable
    <3>2. Chain(k)' = Chain(k)
      BY <1>2, <1>3 DEF Chain
    <3>3. Chain(k) \subseteq 1..New
      BY <1>2 DEF Chain
    <3>. QED
      BY <1>2, <1>3, <3>1, <3>2, <3>3, RestorableKept DEF Restorable
  <2>. QED
    BY <1>2, <1>3, <2>1, <2>2, <2>3 DEF Survival, SurvivorsRestorable
<1>. QED
  BY <1>1, <1>4, <1>5, <1>6 DEF SurvInv, KeepsNewest

\* Writing a file of the backup that is being made: the manifest is last seen to
\* continue the newest chain.
LEMMA AddSurvives ==
    ASSUME SurvInv, IInv', New \in DOMAIN store, NEW file \in {"manifest", "sidecar"},
           store' = AddFile(file), UNCHANGED <<now, policy, todo>>,
           file = "manifest" <=> pc = "manifest",
           pc \in {"manifest", "sidecar"}, pc' \in {"sidecar", "idle"}, todo = {}
    PROVE  SurvInv'
<1>. DEFINE F == store[New].files \cup {file}
<1>1. F \in SUBSET Files /\ store' = [store EXCEPT ![New].files = F]
  BY StoreFacts DEF SurvInv, IInv, AddFile, Backups, Files
<1>. HIDE DEF F
<1>2. /\ DOMAIN store' = DOMAIN store /\ New' = New
      /\ \A k \in DOMAIN store :
            /\ store'[k].kind = store[k].kind
            /\ store'[k].base = store[k].base
            /\ store'[k].files = IF k = New THEN F ELSE store[k].files
  BY <1>1, OnlyFiles DEF SurvInv, IInv
<1>3. \A k \in DOMAIN store : SameRange(k)
  BY <1>1, RangesKept DEF SurvInv, IInv
<1>4. /\ DOMAIN store = 1..New /\ New \in Nat
      /\ \A k \in DOMAIN store : store[k].kind \in {"full", "incr"}
      /\ Visible \subseteq DOMAIN store
  BY StoreFacts DEF SurvInv, IInv, Visible, Backups
<1>5. \A k \in DOMAIN store : BaseOf(k)' = BaseOf(k) /\ (IsFull(k)' <=> IsFull(k))
  BY <1>2 DEF BaseOf, IsFull
<1>6. \A k \in DOMAIN store : Backed(k)' <=> Backed(k)
  BY <1>2, <1>3 DEF Backed, Has, SameRange, F
<1>7. Visible' = Visible \cup (IF file = "manifest" THEN {New} ELSE {})
  BY <1>2 DEF Visible, Has, F
<1>8. InOrderOfTime'
  BY <1>2, <1>3 DEF SurvInv, InOrderOfTime, SameRange
<1>9. Continuing'
  BY DEF Continuing
<1>10. ASSUME Survival PROVE Survival'
  <2>1. BoundToNewest /\ NewestChainWhole /\ SurvivorsRestorable
    BY <1>10 DEF Survival
  <2>2. PlanOfOlderChains'
    BY DEF PlanOfOlderChains
  <2>3. ASSUME NEW k \in Visible, Backed(k), k # New \/ file # "manifest" PROVE Restorable(k)'
    <3>1. Restorable(k) /\ k \in 1..New
      BY <1>4, <2>1, <2>3 DEF SurvivorsRestorable
    <3>2. Chain(k)' = Chain(k)
      <4>1. CASE file = "manifest"
        <5>1. ~ (New <= k) /\ Visible' = Visible \cup {New}
          BY <1>4, <1>7, <2>3, <3>1, <4>1
        <5>. QED
          BY <1>4, <1>5, <3>1, <5>1 DEF Chain
      <4>2. CASE file # "manifest"
        <5>1. Visible' = Visible
          BY <1>7, <4>2
        <5>. QED
          BY <1>4, <1>5, <3>1, <5>1 DEF Chain
      <4>. QED
        BY <4>1, <4>2
    <3>3. Chain(k) \subseteq DOMAIN store /\ \A j \in Chain(k) : Backed(j)
      BY <1>4, <3>1 DEF Chain, Restorable
    <3>. QED
      BY <1>3, <1>4, <1>5, <1>6, <3>1, <3>2, <3>3, RestorableKept
  <2>4. CASE file = "sidecar"
    <3>1. Visible' = Visible
      BY <1>7, <2>4
    <3>2. BoundToNewest' /\ NewestChainWhole'
      BY <1>4, <1>5, <1>6, <2>1, <3>1 DEF BoundToNewest, NewestChainWhole, InNewestChain
    <3>. QED
      BY <1>4, <1>6, <2>2, <2>3, <2>4, <3>1, <3>2 DEF Survival, SurvivorsRestorable
  <2>5. CASE file = "manifest"
    <3>1. /\ New \notin Visible /\ Backed(New) /\ Visible' = Visible \cup {New}
          /\ Visible \subseteq 1..New /\ \A k \in Visible : k < New
      BY <1>4, <1>7, <2>5 DEF SurvInv, Continuing
    <3>0. PICK n \in 1..New : n = New
      BY <1>4, <3>1
    <3>2. \A k \in Visible : BaseOf(k) \in Visible /\ BaseOf(k) # New
      BY <3>1 DEF SurvInv, IInv, LiveBaseKept
    <3>3. CASE IsFull(New)
      <4>1. BaseOf(New) = New
        BY <3>3 DEF IsFull, BaseOf
      <4>2. BoundToNewest'
        <5>. SUFFICES ASSUME NEW i \in Visible', NEW c \in Visible', IsFull(c), c < i
                      PROVE  c <= BaseOf(i)
          BY <1>4, <1>5, <3>1 DEF BoundToNewest
        <5>1. CASE i = New
          BY <1>4, <3>1, <4>1, <5>1
        <5>2. CASE i \in Visible
          BY <1>4, <2>1, <3>1, <5>2 DEF BoundToNewest
        <5>. QED
          BY <3>1, <5>1, <5>2
      <4>3. NewestChainWhole'
        BY <1>4, <1>5, <1>6, <2>1, <3>1 DEF NewestChainWhole, InNewestChain
      <4>4. Restorable(n)'
        <5>1. BaseOf(n)' = n /\ Backed(n)'
          BY <1>4, <1>5, <1>6, <3>0, <3>1, <4>1
        <5>2. Chain(n)' = {n}
          BY <1>4, <1>5, <3>0, <3>1, <3>2, <5>1 DEF Chain
        <5>. QED
          BY <5>1, <5>2 DEF Restorable
      <4>. QED
        BY <1>4, <1>6, <2>2, <2>3, <3>0, <3>1, <4>2, <4>3, <4>4 DEF Survival, SurvivorsRestorable
    <3>4. CASE ~ IsFull(New)
      <4>1. PICK tip \in Visible : /\ \A i \in Visible : i <= tip
                                    /\ store[New].base = BaseOf(tip) /\ store[New].start = store[tip].end
        BY <1>4, <2>5, <3>4 DEF SurvInv, Continuing, IsFull
      <4>2. BaseOf(New) = BaseOf(tip)
        BY <3>4, <4>1 DEF IsFull, BaseOf
      <4>3. InNewestChain(tip)
        BY <2>1, <4>1, NewestIsInNewestChain DEF SurvInv
      <4>4. Backed(tip) /\ Restorable(tip)
        BY <2>1, <4>3 DEF NewestChainWhole, SurvivorsRestorable
      <4>5. BoundToNewest'
        <5>. SUFFICES ASSUME NEW i \in Visible', NEW c \in Visible', IsFull(c), c < i
                      PROVE  c <= BaseOf(i)
          BY <1>4, <1>5, <3>1 DEF BoundToNewest
        <5>0. c \in Visible
          BY <3>1, <3>4
        <5>1. CASE i = New
          BY <4>2, <4>3, <5>0, <5>1 DEF InNewestChain
        <5>2. CASE i \in Visible
          BY <2>1, <5>0, <5>2 DEF BoundToNewest
        <5>. QED
          BY <3>1, <5>1, <5>2
      <4>6. NewestChainWhole'
        BY <1>4, <1>5, <1>6, <2>1, <3>1 DEF NewestChainWhole, InNewestChain
      <4>7. Restorable(n)'
        <5>0. BaseOf(n)' = BaseOf(tip) /\ Backed(n)'
          BY <1>4, <1>5, <1>6, <3>0, <3>1, <4>2
        <5>1. Chain(n)' = Chain(tip) \cup {n}
          BY <1>4, <1>5, <3>0, <3>1, <4>1, <5>0 DEF Chain
        <5>2. /\ tip \in Chain(tip) /\ tip < New /\ Chain(tip) \subseteq 1..New
              /\ \A j \in Chain(tip) : j <= tip /\ j < New
          BY <3>1, <4>1 DEF Chain
        <5>3. \A j \in Chain(tip) : Backed(j)'
          BY <1>4, <1>6, <4>4, <5>2 DEF Restorable
        <5>4. BaseOf(tip) \in Chain(tip)
          BY <4>4 DEF Restorable
        <5>5. \A j \in 1..New : store'[j].start = store[j].start /\ store'[j].end = store[j].end
          BY <1>3, <1>4 DEF SameRange
        <5>6. ASSUME NEW k \in Chain(tip) \cup {New}, k # BaseOf(tip)
              PROVE  \E prev \in Chain(tip) \cup {New} :
                       /\ prev < k
                       /\ \A j \in Chain(tip) \cup {New} : j < k => j <= prev
                       /\ store'[k].start = store'[prev].end
          <6>1. CASE k = New
            BY <1>4, <4>1, <5>2, <5>5, <6>1
          <6>2. CASE k \in Chain(tip)
            <7>1. PICK prev \in Chain(tip) :
                     /\ prev < k
                     /\ \A j \in Chain(tip) : j < k => j <= prev
                     /\ store[k].start = store[prev].end
              BY <4>4, <5>6, <6>2 DEF Restorable
            <7>2. ~ (New < k)
              BY <1>4, <5>2, <6>2
            <7>. QED
              BY <5>2, <5>5, <6>2, <7>1, <7>2
          <6>. QED
            BY <6>1, <6>2
        <5>. QED
          BY <3>0, <5>0, <5>1, <5>3, <5>4, <5>6 DEF Restorable
      <4>. QED
        BY <1>4, <1>6, <2>2, <2>3, <3>0, <3>1, <4>5, <4>6, <4>7 DEF Survival, SurvivorsRestorable
    <3>. QED
      BY <3>3, <3>4
  <2>. QED
    BY <2>4, <2>5
<1>. QED
  BY <1>8, <1>9, <1>10 DEF SurvInv, KeepsNewest

\* A rule that keeps the newest chain keeps it: a chain that is not kept has a
\* newer one before it.
LEMMA GoneHasNewer ==
    ASSUME IInv, InOrderOfTime, KeepsNewest(policy), NEW b \in Fulls(Visible), ~ Kept(b, Visible)
    PROVE  \E c \in Visible : IsFull(c) /\ b < c
<1>1. ASSUME Before(b, Visible) = {} PROVE FALSE
  <2>1. Rank(b, Visible) = 0
    BY <1>1, FS_EmptySet DEF Rank
  <2>2. UNION {Members(c, Visible) : c \in Before(b, Visible)} = {}
    BY <1>1
  <2>3. MembersBefore(b, Visible) = 0
    BY <2>2, FS_EmptySet DEF MembersBefore
  <2>4. policy \in RetentionPolicy
    BY PoliciesAssumption DEF IInv, TypeOK
  <2>5. \A n \in policy.keep_full \cup policy.keep_last \cup policy.min_redundancy : ~ (n > 0)
    BY <2>1, <2>3, <2>4 DEF Kept, KeptByRedundancy, RetentionPolicy
  <2>6. PICK d \in policy.window : TRUE
    BY <2>5 DEF KeepsNewest
  <2>7. b \in Members(b, Visible) /\ store[b].created \in Nat /\ now \in Nat /\ d \in Nat
    BY <2>4, <2>6, StoreFacts DEF IInv, TypeOK, Fulls, Members, Visible, Backups, RetentionPolicy
  <2>8. KeptByWindow(b, Visible, now - d)
    BY <1>1, <2>7 DEF KeptByWindow, NewestSince
  <2>. QED
    BY <2>6, <2>8 DEF Kept
<1>2. PICK c \in Fulls(Visible) : store[c].created > store[b].created
  BY <1>1 DEF Before
<1>3. /\ b \in DOMAIN store /\ c \in DOMAIN store /\ b \in Nat /\ c \in Nat
      /\ store[b].created \in Nat /\ store[c].created \in Nat
  BY StoreFacts DEF IInv, Fulls, Visible, Backups
<1>4. ~ (c < b) /\ c # b
  BY <1>2, <1>3 DEF InOrderOfTime
<1>. QED
  BY <1>2, <1>3, <1>4 DEF Fulls, IsFull

\* A plan has whole chains, and none of the newest.
LEMMA StartSurvives ==
    ASSUME SurvInv, IInv', NEW force \in BOOLEAN, StartPrune(force), "read" \notin Events
    PROVE  SurvInv'
<1>1. PICK unread \in Unreadable : todo' = Plan(Visible \ unread, force)
  BY DEF StartPrune
<1>2. todo' = Plan(Visible, force)
  <2>1. Visible \ unread = Visible
    BY DEF Unreadable
  <2>. QED
    BY <1>1, <2>1
<1>3. store' = store /\ policy' = policy /\ now' = now /\ pc' = "prune"
  BY DEF StartPrune
<1>4. Visible' = Visible /\ New' = New /\ \A i : BaseOf(i)' = BaseOf(i) /\ (IsFull(i)' <=> IsFull(i))
  BY <1>3 DEF Visible, Has, New, BaseOf, IsFull
<1>5. \A i : Backed(i)' <=> Backed(i)
  BY <1>3 DEF Backed, Has
<1>6. InOrderOfTime' /\ Continuing'
  BY <1>3 DEF SurvInv, InOrderOfTime, Continuing
<1>7. ASSUME Survival, KeepsNewest(policy) PROVE Survival'
  <2>1. BoundToNewest' /\ NewestChainWhole'
    BY <1>4, <1>5, <1>7 DEF Survival, BoundToNewest, NewestChainWhole, InNewestChain
  <2>2. PlanOfOlderChains'
    <3>. SUFFICES ASSUME NEW i \in todo' \cap Visible
                  PROVE  BaseOf(i) \in todo' /\ \E c \in Visible : IsFull(c) /\ BaseOf(i) < c
      BY <1>4 DEF PlanOfOlderChains
    <3>1. i \in ChainTargets(Visible)
      BY <1>2 DEF Plan, Orphans, Visible
    <3>2. PICK b \in Fulls(Visible) : ~ Kept(b, Visible) /\ i \in Members(b, Visible)
      BY <3>1 DEF ChainTargets
    <3>3. BaseOf(i) = b
      BY <3>2 DEF Members, Fulls, BaseOf
    <3>4. b \in todo'
      BY <1>2, <3>2 DEF Plan, ChainTargets, Members
    <3>. QED
      BY <1>7, <3>2, <3>3, <3>4, GoneHasNewer DEF SurvInv
  <2>3. ASSUME NEW k \in Visible, Backed(k) PROVE Restorable(k)'
    <3>1. Restorable(k)
      BY <1>7, <2>3 DEF Survival, SurvivorsRestorable
    <3>2. Chain(k)' = Chain(k)
      BY <1>4 DEF Chain
    <3>. QED
      BY <1>3, <1>4, <1>5, <3>1, <3>2, RestorableKept DEF SameRange, Restorable
  <2>. QED
    BY <1>4, <1>5, <2>1, <2>2, <2>3 DEF Survival, SurvivorsRestorable
<1>. QED
  BY <1>3, <1>6, <1>7 DEF SurvInv, KeepsNewest

\* The files of a chain go from its end, and the newest chain has stayed.
LEMMA DeleteSurvives ==
    ASSUME SurvInv, IInv', DeleteFile
    PROVE  SurvInv'
<1>1. PICK i \in todo :
        /\ \A j \in todo \ {i} : Precedes(i, j)
        /\ store' = RemoveFile(i, FileToDelete(i))
        /\ todo' = IF store'[i].files = {} THEN todo \ {i} ELSE todo
  BY DEF DeleteFile
<1>. DEFINE file == FileToDelete(i)
            F == store[i].files \ {file}
<1>2. /\ i \in DOMAIN store /\ file \in Files /\ F \in SUBSET Files
      /\ store' = [store EXCEPT ![i].files = F]
  BY <1>1, StoreFacts DEF SurvInv, IInv, TypeOK, FileToDelete, Files, RemoveFile, Backups
<1>. HIDE DEF file, F
<1>3. /\ DOMAIN store' = DOMAIN store /\ New' = New
      /\ \A k \in DOMAIN store :
            /\ store'[k].kind = store[k].kind
            /\ store'[k].base = store[k].base
            /\ store'[k].files = IF k = i THEN F ELSE store[k].files
  BY <1>2, OnlyFiles DEF SurvInv, IInv
<1>4. \A k \in DOMAIN store : SameRange(k)
  BY <1>2, RangesKept DEF SurvInv, IInv
<1>5. /\ DOMAIN store = 1..New /\ New \in Nat /\ Visible \subseteq DOMAIN store
  BY StoreFacts DEF SurvInv, IInv, Visible
<1>6. \A k \in DOMAIN store : BaseOf(k)' = BaseOf(k) /\ (IsFull(k)' <=> IsFull(k))
  BY <1>3 DEF BaseOf, IsFull
<1>7. \A k \in DOMAIN store \ {i} : Backed(k)' <=> Backed(k)
  BY <1>3, <1>4 DEF Backed, Has, SameRange
<1>8. Visible' \subseteq Visible /\ Visible \ {i} \subseteq Visible'
  BY <1>3 DEF Visible, Has, F
<1>9. UNCHANGED <<now, policy>> /\ pc' \in {"idle", "prune"}
  BY DEF DeleteFile
<1>10. InOrderOfTime'
  BY <1>3, <1>4, <1>9 DEF SurvInv, InOrderOfTime, SameRange
<1>11. Continuing'
  BY <1>9 DEF Continuing
<1>12. ASSUME Survival PROVE Survival'
  <2>1. BoundToNewest /\ NewestChainWhole /\ PlanOfOlderChains /\ SurvivorsRestorable
    BY <1>12 DEF Survival
  <2>2. ASSUME i \in Visible
        PROVE  BaseOf(i) \in todo /\ \E c \in Visible' : IsFull(c) /\ BaseOf(i) < c
    <3>1. PICK c \in Visible : IsFull(c) /\ BaseOf(i) < c
      BY <1>1, <2>1, <2>2 DEF PlanOfOlderChains
    <3>2. c # i
      BY <1>5, <3>1 DEF BaseOf, IsFull
    <3>. QED
      BY <1>1, <1>8, <2>1, <2>2, <3>1, <3>2 DEF PlanOfOlderChains
  <2>3. BoundToNewest'
    BY <1>5, <1>6, <1>8, <2>1 DEF BoundToNewest
  <2>4. ASSUME NEW k \in Visible', InNewestChain(k)'
        PROVE  Backed(k)'
    <3>1. k \in Visible /\ k \in DOMAIN store
      BY <1>5, <1>8
    <3>2. \A c \in Visible' : IsFull(c) => c <= BaseOf(k)
      BY <1>5, <1>6, <1>8, <2>4, <3>1 DEF InNewestChain
    <3>3. BaseOf(k) \in Nat
      BY <1>5, <3>1, BaseFacts DEF SurvInv
    <3>4. k # i
      <4>. SUFFICES ASSUME k = i PROVE FALSE
        OBVIOUS
      <4>1. PICK c \in Visible' : IsFull(c) /\ BaseOf(i) < c
        BY <2>2, <3>1
      <4>2. c \in Nat /\ c <= BaseOf(i)
        BY <1>5, <1>8, <3>2, <4>1
      <4>. QED
        BY <3>3, <4>1, <4>2
    <3>5. InNewestChain(k)
      <4>. SUFFICES ASSUME NEW c \in Visible, IsFull(c) PROVE c <= BaseOf(k)
        BY DEF InNewestChain
      <4>1. CASE c # i
        BY <1>8, <3>2, <4>1
      <4>2. CASE c = i
        <5>1. BaseOf(c) = c
          BY DEF BaseOf, IsFull
        <5>. QED
          BY <1>5, <2>2, <3>2, <3>3, <4>2, <5>1, <1>8
      <4>. QED
        BY <4>1, <4>2
    <3>. QED
      BY <1>7, <2>1, <3>1, <3>4, <3>5 DEF NewestChainWhole
  <2>5. PlanOfOlderChains'
    <3>. SUFFICES ASSUME NEW k \in todo', k \in Visible'
                  PROVE  BaseOf(k) \in todo' /\ \E c \in Visible' : IsFull(c) /\ BaseOf(k) < c
      BY <1>5, <1>6, <1>8 DEF PlanOfOlderChains
    <3>1. k \in todo /\ k \in Visible /\ k \in DOMAIN store
      BY <1>1, <1>5, <1>8
    <3>2. BaseOf(k) \in todo
      BY <2>1, <3>1 DEF PlanOfOlderChains
    <3>3. BaseOf(k) = i => k = i
      BY <1>1, <3>1, BaseGoesLast DEF SurvInv
    <3>4. BaseOf(k) \in todo'
      <4>1. ASSUME BaseOf(k) = i PROVE store'[i].files # {}
        BY <3>3, <4>1 DEF Visible, Has
      <4>. QED
        BY <1>1, <3>2, <4>1
    <3>5. PICK c \in Visible : IsFull(c) /\ BaseOf(k) < c
      BY <2>1, <3>1 DEF PlanOfOlderChains
    <3>6. CASE c # i
      BY <1>8, <3>4, <3>5, <3>6
    <3>7. CASE c = i
      <4>1. BaseOf(i) = i
        BY <3>5, <3>7 DEF BaseOf, IsFull
      <4>2. PICK d \in Visible' : IsFull(d) /\ i < d
        BY <2>2, <3>7, <4>1
      <4>3. BaseOf(k) \in Nat
        BY <1>5, <3>1, BaseFacts DEF SurvInv
      <4>. QED
        BY <1>5, <1>8, <3>4, <3>5, <3>7, <4>2, <4>3
    <3>. QED
      BY <3>6, <3>7
  <2>6. ASSUME NEW k \in Visible', Backed(k)' PROVE Restorable(k)'
    <3>1. k \in Visible /\ k \in DOMAIN store
      BY <1>5, <1>8
    <3>2. Backed(k)
      <4>1. CASE k = i
        BY <1>3, <1>4, <2>6, <3>1, <4>1 DEF Backed, Has, SameRange, F
      <4>. QED
        BY <1>7, <2>6, <3>1, <4>1
    <3>3. Restorable(k)
      BY <2>1, <3>1, <3>2 DEF SurvivorsRestorable
    <3>4. i \in Chain(k) => i = k
      <4>. SUFFICES ASSUME i \in Chain(k), i # k PROVE FALSE
        OBVIOUS
      <4>1. i \in Visible /\ i < k /\ BaseOf(i) = BaseOf(k)
        BY <1>5, <3>1 DEF Chain
      <4>2. k \in todo
        BY <2>2, <3>1, <4>1 DEF SurvInv, IInv, PlanClosed
      <4>3. Precedes(i, k)
        BY <1>1, <4>2
      <4>4. BaseOf(k) \in Nat
        BY <1>5, <3>1, BaseFacts DEF SurvInv
      <4>. QED
        BY <1>5, <3>1, <4>1, <4>3, <4>4 DEF Precedes, Visible
    <3>5. Chain(k)' = Chain(k)
      BY <1>5, <1>6, <1>8, <3>1, <3>4 DEF Chain
    <3>6. \A j \in Chain(k) : j \in DOMAIN store /\ Backed(j)'
      BY <1>5, <1>7, <2>6, <3>3, <3>4 DEF Restorable, Chain
    <3>. QED
      BY <1>4, <1>6, <3>1, <3>3, <3>5, <3>6, RestorableKept
  <2>. QED
    BY <2>3, <2>4, <2>5, <2>6 DEF Survival, NewestChainWhole, SurvivorsRestorable
<1>. QED
  BY <1>9, <1>10, <1>11, <1>12 DEF SurvInv, KeepsNewest

\* Every step of a profile whose backups are whole and whose writes succeed.
LEMMA NextSurvives ==
    ASSUME SurvInv, IInv', [Next]_vars, Events \cap {"read", "write", "selective"} = {}
    PROVE  SurvInv'
<1>t. now \in Nat /\ todo \subseteq DOMAIN store
  BY DEF SurvInv, IInv, TypeOK
<1>1. CASE Tick
  BY <1>1, <1>t, SameStore DEF Tick
<1>2. CASE PutFull
  <2>. DEFINE r == [kind |-> "full", selective |-> FALSE, base |-> 0, start |-> 0,
                    end |-> now, created |-> now + 1, empty |-> FALSE, files |-> {"data"}]
  <2>1. Put(r) /\ pc = "idle" /\ todo = {}
    BY <1>2 DEF PutFull, SurvInv, IInv, Pending
  <2>2. r \in Backups
    BY <1>t DEF Backups, Files
  <2>3. /\ ~ r.selective /\ r.created = now + 1 /\ "manifest" \notin r.files
        /\ "data" \in r.files /\ r.kind # "incr"
    OBVIOUS
  <2>. HIDE DEF r
  <2>. QED
    BY <2>1, <2>2, <2>3, PutSurvives
<1>3. CASE PutIncr
  <2>0. Visible = Eligible(Visible)
    BY StoreFacts DEF Eligible, SurvInv, IInv, InOrderOfTime, LiveBaseKept, Visible
  <2>1. \A unread \in Unreadable : Visible \ unread = Visible
    BY DEF Unreadable
  <2>2. PICK tip \in Visible, empty \in BOOLEAN :
          /\ \A i \in Visible : i <= tip
          /\ Put([kind |-> "incr", selective |-> FALSE, base |-> BaseOf(tip),
                  start |-> store[tip].end,
                  end |-> IF empty THEN store[tip].end ELSE now,
                  created |-> now + 1, empty |-> empty,
                  files |-> IF empty THEN {} ELSE {"data"}])
    BY <1>3, <2>0, <2>1 DEF PutIncr
  <2>3. \A i \in Visible : i <= tip
    BY <2>2
  <2>. DEFINE r == [kind |-> "incr", selective |-> FALSE, base |-> BaseOf(tip),
                    start |-> store[tip].end,
                    end |-> IF empty THEN store[tip].end ELSE now,
                    created |-> now + 1, empty |-> empty,
                    files |-> IF empty THEN {} ELSE {"data"}]
  <2>4. Put(r) /\ pc = "idle" /\ todo = {}
    BY <1>3, <2>2 DEF PutIncr, SurvInv, IInv, Pending
  <2>5. BaseOf(tip) \in Nat /\ store[tip].end \in Nat
    BY <2>3, BaseFacts, StoreFacts DEF SurvInv, IInv, Visible, Backups
  <2>6. r \in Backups
    BY <1>t, <2>5 DEF Backups, Files
  <2>7. /\ ~ r.selective /\ r.created = now + 1 /\ "manifest" \notin r.files
        /\ "data" \in r.files \/ r.empty
        /\ r.base = BaseOf(tip) /\ r.start = store[tip].end
    OBVIOUS
  <2>. HIDE DEF r
  <2>. QED
    BY <2>3, <2>4, <2>6, <2>7, PutSurvives
<1>4. CASE WriteManifest \/ WriteSidecar
  BY <1>4, AddSurvives DEF WriteManifest, WriteSidecar, SurvInv, IInv, Pending
<1>5. CASE WriteFails \/ Cleanup
  BY <1>5 DEF WriteFails, Cleanup, SurvInv, InOrderOfTime
<1>6. ASSUME NEW force \in BOOLEAN, StartPrune(force) PROVE SurvInv'
  BY <1>6, StartSurvives
<1>7. CASE DeleteFile
  BY <1>7, DeleteSurvives
<1>8. CASE Crash
  BY <1>8, <1>t, SameStore DEF Crash
<1>9. CASE UNCHANGED vars
  BY <1>9, <1>t, SameStore DEF vars
<1>. QED
  BY <1>1, <1>2, <1>3, <1>4, <1>5, <1>6, <1>7, <1>8, <1>9 DEF Next

\* A backup that has its data can be restored, wherever prunes and backups are
\* interrupted, as long as the policy keeps the newest chain, no backup is
\* selective and files are written and read (prune.rs:385-393).
THEOREM SurvivorsCanBeRestored ==
    ASSUME Events \cap {"read", "write", "selective"} = {}
    PROVE  Spec => []SurvivorsRestorableIfWritten
<1>1. SurvInv /\ [Next]_vars => SurvInv'
  <2>. SUFFICES ASSUME SurvInv, [Next]_vars PROVE SurvInv'
    OBVIOUS
  <2>1. IInv'
    BY NextIInv, StutterIInv DEF SurvInv
  <2>. QED
    BY <2>1, NextSurvives
<1>2. SurvInv => SurvivorsRestorableIfWritten
  BY DEF SurvInv, Survival, SurvivorsRestorableIfWritten
<1>. QED
  BY <1>1, <1>2, InitSurvInv, PTL DEF Spec

--------------------------------------------------------------------------------
(* Prunes leave the full backups a policy is to keep.                      *)

\* A set of numbers has a least one.
LEMMA LeastOfNaturals ==
    ASSUME NEW S \in SUBSET Nat, S # {}
    PROVE  \E m \in S : \A k \in S : m <= k
<1>1. PICK m \in S : \A k \in S : <<k, m>> \notin OpToRel(<, Nat)
  BY NatLessThanWellFounded, WFMin
<1>2. \A k \in S : ~ (k < m)
  BY <1>1 DEF OpToRel
<1>. QED
  BY <1>2

\* A set of backups has a newest one.
LEMMA NewestOf ==
    ASSUME NEW n \in Nat, NEW S \in SUBSET (1..n), S # {}
    PROVE  \E m \in S : \A k \in S : k <= m
<1>. DEFINE T == {n - k : k \in S}
<1>1. T \in SUBSET Nat /\ T # {}
  <2>1. \A k \in S : n - k \in Nat
    OBVIOUS
  <2>2. PICK k \in S : TRUE
    OBVIOUS
  <2>3. n - k \in T
    OBVIOUS
  <2>. QED
    BY <2>1, <2>3
<1>2. PICK l \in T : \A k \in T : l <= k
  <2>. HIDE DEF T
  <2>. QED
    BY <1>1, LeastOfNaturals
<1>3. PICK m \in S : l = n - m
  OBVIOUS
<1>4. \A k \in S : n - k \in T
  OBVIOUS
<1>. HIDE DEF T
<1>5. \A k \in S : n - m <= n - k
  BY <1>2, <1>3, <1>4
<1>. QED
  BY <1>5

\* What is about to be deleted, or was in part.
AtRisk(b) == b \in Visible /\ (b \in todo \/ ~ Backed(b))

\* Newer full backups that have their data and are to stay.
Spared(b) == {c \in Visible \ todo : IsFull(c) /\ Backed(c) /\ b < c}

\* A full backup that is at risk has as many spared ones ahead of it.
RedundancySpared ==
    \A n \in policy.min_redundancy : \A b \in Visible :
        IsFull(b) /\ AtRisk(b) => Cardinality(Spared(b)) >= n

RedundancyInv ==
    /\ TypeOK /\ Shape /\ InOrderOfTime
    /\ pc # "prune" => todo = {}
    /\ pc \in {"manifest", "sidecar"} => New \in DOMAIN store
    /\ pc = "manifest" => Backed(New)
    /\ RedundancySpared

\* Sets of backups are finite.
LEMMA FiniteRange ==
    ASSUME NEW n \in Nat, NEW S \in SUBSET (1..n)
    PROVE  IsFiniteSet(S)
<1>1. IsFiniteSet(1..n)
  BY FS_Interval
<1>. QED
  BY <1>1, FS_Subset

\* A set that has as many elements, has as many elements with more.
LEMMA MoreAreSpared ==
    ASSUME NEW n, NEW S, NEW T, IsFiniteSet(T), S \subseteq T, n \in Nat, Cardinality(S) >= n
    PROVE  Cardinality(T) >= n
<1>1. Cardinality(S) <= Cardinality(T) /\ IsFiniteSet(S)
  BY FS_Subset
<1>2. Cardinality(S) \in Nat /\ Cardinality(T) \in Nat
  BY <1>1, FS_CardinalityType
<1>. QED
  BY <1>1, <1>2

\* The values of the two rules.
LEMMA RulesAreNumbers ==
    ASSUME TypeOK
    PROVE  policy.min_redundancy \subseteq Nat /\ policy.window \subseteq Nat
  BY PoliciesAssumption DEF TypeOK, RetentionPolicy

\* Nothing is stored.
LEMMA InitRedundancyInv == Init => RedundancyInv
<1>. SUFFICES ASSUME Init PROVE RedundancyInv
  OBVIOUS
<1>1. DOMAIN store = {} /\ Visible = {} /\ todo = {} /\ pc = "idle"
  BY DEF Init, Visible
<1>2. InOrderOfTime
  BY <1>1 DEF InOrderOfTime
<1>3. TypeOK /\ Shape
  BY InitIInv DEF IInv
<1>. QED
  BY <1>1, <1>2, <1>3 DEF RedundancyInv, RedundancySpared

\* Nothing happens to the store.
LEMMA SameStoreSpares ==
    ASSUME RedundancyInv, store' = store, policy' = policy, now' \in Nat, now <= now',
           pc' \in {pc, "idle"}, pc' # "prune" => todo' = {}, todo' \in {todo, {}}
    PROVE  RedundancyInv'
<1>1. Visible' = Visible /\ New' = New /\ \A i : IsFull(i)' <=> IsFull(i)
  BY DEF Visible, Has, New, IsFull
<1>2. \A i : Backed(i)' <=> Backed(i)
  BY DEF Backed, Has
<1>t. TypeOK /\ Shape /\ InOrderOfTime /\ RedundancySpared /\ now \in Nat
      /\ policy \in Policies /\ pc \in {"idle", "manifest", "sidecar", "prune"}
  BY DEF RedundancyInv, TypeOK, InOrderOfTime
<1>3. InOrderOfTime'
  <2>1. \A i \in DOMAIN store : store[i].created \in Nat
    BY <1>t, StoreFacts DEF Backups
  <2>. QED
    BY <1>t, <2>1 DEF InOrderOfTime
<1>4. TypeOK' /\ Shape'
  BY <1>t DEF TypeOK, Shape
<1>5. RedundancySpared'
  <2>. SUFFICES ASSUME NEW n \in policy.min_redundancy, NEW b \in Visible, IsFull(b), AtRisk(b)'
                PROVE  Cardinality(Spared(b)') >= n
    BY <1>1 DEF RedundancySpared
  <2>1. AtRisk(b)
    BY <1>1, <1>2 DEF AtRisk
  <2>2. Cardinality(Spared(b)) >= n /\ n \in Nat
    BY <1>t, <2>1, RulesAreNumbers DEF RedundancySpared
  <2>3. Spared(b) \subseteq Spared(b)'
    BY <1>1, <1>2 DEF Spared
  <2>4. IsFiniteSet(Spared(b)')
    <3>1. Spared(b)' \subseteq 1..New /\ New \in Nat
      BY <1>t, <1>1, StoreFacts DEF Spared, Visible
    <3>. QED
      BY <3>1, FiniteRange
  <2>. QED
    BY <2>2, <2>3, <2>4, MoreAreSpared
<1>. QED
  BY <1>1, <1>2, <1>3, <1>4, <1>5 DEF RedundancyInv

\* The data of a new backup.
LEMMA PutSpares ==
    ASSUME RedundancyInv, pc = "idle", NEW r \in Backups, ~ r.selective,
           r.created = now + 1, "manifest" \notin r.files, "data" \in r.files \/ r.empty,
           r.kind = "incr" => r.base \in Visible /\ store[r.base].kind = "full",
           Put(r)
    PROVE  RedundancyInv'
<1>t. TypeOK /\ Shape /\ InOrderOfTime /\ RedundancySpared /\ todo = {}
  BY DEF RedundancyInv
<1>0. store \in Seq(Backups) /\ now \in Nat /\ policy \in Policies
  BY <1>t DEF TypeOK
<1>1. /\ DOMAIN store = 1..New /\ New \in Nat /\ New' = New + 1 /\ DOMAIN store' = 1..(New + 1)
      /\ store'[New + 1] = r /\ now' = now + 1 /\ pc' = "manifest" /\ todo' = {}
      /\ (\A k \in 1..New : store'[k] = store[k]) /\ policy' = policy
      /\ store' \in Seq(Backups)
  BY <1>0, <1>t DEF Put, New
<1>2. Visible' = Visible /\ Visible \subseteq 1..New
  BY <1>1 DEF Visible, Has
<1>3. \A i \in 1..New : (IsFull(i)' <=> IsFull(i)) /\ (Backed(i)' <=> Backed(i))
  BY <1>1 DEF IsFull, Backed, Has
<1>4. TypeOK'
  BY <1>0, <1>1 DEF TypeOK
<1>5. Shape'
  <2>. SUFFICES ASSUME NEW i \in 1..(New + 1), store'[i].kind = "incr"
                PROVE  /\ store'[i].base \in 1..(New + 1) /\ store'[i].base < i
                       /\ store'[store'[i].base].kind = "full"
    BY <1>1 DEF Shape
  <2>1. CASE i = New + 1
    <3>1. store'[i] = r /\ r.kind = "incr"
      BY <1>1, <2>1
    <3>2. PICK b \in 1..New : b = r.base /\ store[b].kind = "full"
      BY <1>2, <3>1
    <3>3. store'[b].kind = "full" /\ b < i /\ b \in 1..(New + 1)
      BY <1>1, <2>1, <3>2
    <3>. QED
      BY <3>1, <3>2, <3>3
  <2>2. CASE i \in 1..New
    <3>1. store[i].base \in 1..New /\ store[i].base < i /\ store[store[i].base].kind = "full"
      BY <1>1, <1>t, <2>2 DEF Shape
    <3>. QED
      BY <1>1, <2>2, <3>1
  <2>. QED
    BY <1>1, <2>1, <2>2
<1>6. InOrderOfTime'
  <2>1. \A i \in 1..New : store[i].created \in Nat /\ store[i].created <= now /\ ~ store[i].selective
    BY <1>t, <1>1, StoreFacts DEF InOrderOfTime, Backups
  <2>2. \A i, j \in 1..New : i < j => store[i].created < store[j].created
    BY <1>t, <1>1 DEF InOrderOfTime
  <2>3. \A i \in 1..(New + 1) : ~ store'[i].selective /\ store'[i].created <= now + 1
    BY <1>0, <1>1, <2>1
  <2>4. ASSUME NEW i \in 1..(New + 1), NEW j \in 1..(New + 1), i < j
        PROVE  store'[i].created < store'[j].created
    <3>1. i \in 1..New
      BY <1>1, <2>4
    <3>2. CASE j \in 1..New
      BY <1>1, <2>2, <2>4, <3>1, <3>2
    <3>3. CASE j = New + 1
      BY <1>0, <1>1, <2>1, <3>1, <3>3
    <3>. QED
      BY <1>1, <3>2, <3>3
  <2>. QED
    BY <1>1, <2>3, <2>4 DEF InOrderOfTime
<1>7. Backed(New)'
  BY <1>1 DEF Backed, Has
<1>8. RedundancySpared'
  <2>1. \A b \in Visible : AtRisk(b)' => AtRisk(b)
    BY <1>1, <1>2, <1>3 DEF AtRisk
  <2>2. \A b \in Visible : Spared(b)' = Spared(b)
    BY <1>1, <1>2, <1>3, <1>t DEF Spared
  <2>. QED
    BY <1>t, <1>1, <1>2, <1>3, <2>1, <2>2 DEF RedundancySpared
<1>. QED
  BY <1>1, <1>4, <1>5, <1>6, <1>7, <1>8 DEF RedundancyInv

\* A file of the backup that is being made.
LEMMA AddSpares ==
    ASSUME RedundancyInv, NEW file \in {"manifest", "sidecar"}, store' = AddFile(file),
           pc = file, pc' = IF file = "manifest" THEN "sidecar" ELSE "idle",
           UNCHANGED <<now, policy, todo>>
    PROVE  RedundancyInv'
<1>t. TypeOK /\ Shape /\ InOrderOfTime /\ RedundancySpared /\ todo = {} /\ New \in DOMAIN store
      /\ (file = "manifest" => Backed(New))
  BY DEF RedundancyInv
<1>. DEFINE F == store[New].files \cup {file}
<1>1. F \in SUBSET Files /\ store' = [store EXCEPT ![New].files = F]
  BY <1>t, StoreFacts DEF AddFile, Backups, Files
<1>. HIDE DEF F
<1>2. /\ store' \in Seq(Backups) /\ DOMAIN store' = DOMAIN store /\ New' = New
      /\ \A k \in DOMAIN store :
            /\ store'[k].kind = store[k].kind
            /\ store'[k].base = store[k].base
            /\ store'[k].files = IF k = New THEN F ELSE store[k].files
  BY <1>1, <1>t, OnlyFiles
<1>3. \A k \in DOMAIN store : SameRange(k)
  BY <1>1, <1>t, RangesKept
<1>4. TypeOK'
  BY <1>2, <1>t DEF TypeOK
<1>5. Shape'
  BY <1>2, <1>t, ShapeKept
<1>6. InOrderOfTime'
  BY <1>2, <1>3, <1>t DEF InOrderOfTime, SameRange
<1>7. \A k \in DOMAIN store : (IsFull(k)' <=> IsFull(k)) /\ (Backed(k)' <=> Backed(k))
  BY <1>2, <1>3 DEF IsFull, Backed, Has, SameRange, F
<1>8. Visible \subseteq Visible' /\ Visible' \subseteq Visible \cup (IF file = "manifest" THEN {New} ELSE {})
      /\ Visible' \subseteq DOMAIN store /\ Visible \subseteq DOMAIN store
  BY <1>2 DEF Visible, Has, F
<1>9. RedundancySpared'
  <2>. SUFFICES ASSUME NEW n \in policy.min_redundancy, NEW b \in Visible', IsFull(b)', AtRisk(b)'
                PROVE  Cardinality(Spared(b)') >= n
    BY DEF RedundancySpared
  <2>1. ~ Backed(b) /\ IsFull(b)
    BY <1>7, <1>8, <1>t DEF AtRisk
  <2>2. b \in Visible /\ AtRisk(b)
    BY <1>8, <1>t, <2>1 DEF AtRisk
  <2>3. Cardinality(Spared(b)) >= n /\ n \in Nat
    BY <1>t, <2>1, <2>2, RulesAreNumbers DEF RedundancySpared
  <2>4. Spared(b) \subseteq Spared(b)'
    BY <1>7, <1>8 DEF Spared
  <2>5. IsFiniteSet(Spared(b)')
    <3>1. Spared(b)' \subseteq 1..New /\ New \in Nat
      BY <1>t, <1>8, StoreFacts DEF Spared
    <3>. QED
      BY <3>1, FiniteRange
  <2>. QED
    BY <2>3, <2>4, <2>5, MoreAreSpared
<1>. QED
  BY <1>2, <1>4, <1>5, <1>6, <1>9, <1>t DEF RedundancyInv

\* A plan made from what can be read: the last of the chains that are at risk is
\* followed by as many that are not, as its rank or the last plan says.
LEMMA StartSpares ==
    ASSUME RedundancyInv, NEW force \in BOOLEAN, StartPrune(force)
    PROVE  RedundancyInv'
<1>t. /\ TypeOK /\ Shape /\ InOrderOfTime /\ RedundancySpared /\ todo = {}
      /\ DOMAIN store = 1..New /\ New \in Nat /\ Visible \subseteq 1..New
      /\ policy.min_redundancy \subseteq Nat
  BY StoreFacts, RulesAreNumbers DEF RedundancyInv, StartPrune, Visible
<1>1. PICK unread \in Unreadable : todo' = Plan(Visible \ unread, force)
  BY DEF StartPrune
<1>s. UNCHANGED <<now, store, policy>> /\ pc' = "prune"
  BY DEF StartPrune
<1>r. PICK read \in SUBSET Visible : todo' = Plan(read, force)
  BY <1>1
<1>2. /\ Visible' = Visible /\ New' = New
      /\ \A i : (IsFull(i)' <=> IsFull(i)) /\ (Backed(i)' <=> Backed(i))
  BY <1>s DEF Visible, Has, New, IsFull, Backed
<1>3. TypeOK'
  <2>1. \A b \in Fulls(read) : Members(b, read) \subseteq DOMAIN store
    BY <1>t DEF Members, Fulls
  <2>2. ChainTargets(read) \subseteq DOMAIN store
    BY <2>1 DEF ChainTargets
  <2>3. todo' \subseteq DOMAIN store
    BY <1>r, <2>2 DEF Plan, Orphans
  <2>. QED
    BY <1>t, <1>s, <2>3 DEF TypeOK
<1>4. Shape' /\ InOrderOfTime'
  BY <1>t, <1>s DEF Shape, InOrderOfTime
<1>5. RedundancySpared'
  <2>. SUFFICES ASSUME NEW n \in policy.min_redundancy, NEW b \in Visible, IsFull(b), AtRisk(b)'
                PROVE  Cardinality(Spared(b)') >= n
    BY <1>s, <1>2 DEF RedundancySpared
  <2>. DEFINE Bad == {c \in Visible : IsFull(c) /\ b <= c /\ AtRisk(c)'}
  <2>1. b \in Bad /\ Bad \in SUBSET (1..New)
    <3>1. PICK v \in Nat : v = b
      BY <1>t
    <3>2. b <= b
      BY <3>1
    <3>3. b \in Bad
      BY <3>2
    <3>. QED
      BY <1>t, <3>3
  <2>2. PICK m \in Bad : \A c \in Bad : c <= m
    <3>. HIDE DEF Bad
    <3>. QED
      BY <1>t, <2>1, NewestOf
  <2>3. m \in Visible /\ IsFull(m) /\ b <= m /\ m \in 1..New /\ b \in 1..New
    BY <1>t
  <2>4. \A c \in Visible : IsFull(c) /\ m < c => Backed(c) /\ c \notin todo'
    <3>1. ASSUME NEW c \in Visible, IsFull(c), m < c PROVE ~ AtRisk(c)'
      <4>1. c \in 1..New /\ b <= c /\ ~ (c <= m)
        BY <1>t, <2>3, <3>1
      <4>2. c \notin Bad
        BY <2>2, <4>1
      <4>. QED
        BY <3>1, <4>1, <4>2
    <3>. QED
      BY <3>1, <1>2 DEF AtRisk
  <2>5. \A c \in Visible : IsFull(c) /\ m < c => c \in Spared(m)' /\ c \in Spared(b)'
    <3>1. \A c \in Visible : m < c => b < c
      BY <1>t, <2>3
    <3>. QED
      BY <2>4, <3>1, <1>2 DEF Spared
  <2>6. PICK S \in SUBSET Visible : /\ \A c \in S : IsFull(c) /\ m < c
                                    /\ Cardinality(S) >= n
    <3>1. CASE ~ Backed(m)
      <4>1. Cardinality(Spared(m)) >= n
        BY <1>t, <2>3, <3>1 DEF RedundancySpared, AtRisk
      <4>2. Spared(m) \subseteq Visible /\ \A c \in Spared(m) : IsFull(c) /\ m < c
        BY DEF Spared
      <4>. QED
        BY <4>1, <4>2
    <3>2. CASE m \in todo'
      <4>1. m \notin Orphans
        BY <2>3 DEF Orphans, Visible
      <4>2. m \in ChainTargets(read)
        BY <1>r, <3>2, <4>1 DEF Plan
      <4>3. PICK c \in Fulls(read) : ~ Kept(c, read) /\ m \in Members(c, read)
        BY <4>2 DEF ChainTargets
      <4>4. c = m
        BY <2>3, <4>3 DEF Members, IsFull
      <4>5. ~ (Cardinality(Before(m, read)) < n)
        BY <4>3, <4>4 DEF Kept, KeptByRedundancy, Rank
      <4>6. Before(m, read) \subseteq Visible /\ \A k \in Before(m, read) : IsFull(k) /\ store[k].created > store[m].created
        BY DEF Before, Fulls, IsFull
      <4>7. \A k \in Before(m, read) : m < k
        <5>1. ASSUME NEW k \in Before(m, read) PROVE m < k
          <6>1. k \in 1..New /\ store[k].created > store[m].created
            BY <1>t, <4>6
          <6>2. store[k].created \in Nat /\ store[m].created \in Nat
            BY <1>t, <2>3, <6>1, StoreFacts DEF Backups
          <6>3. ~ (k < m) /\ k # m
            BY <1>t, <2>3, <6>1, <6>2 DEF InOrderOfTime
          <6>. QED
            BY <2>3, <6>1, <6>3
        <5>. QED
          BY <5>1
      <4>8. Cardinality(Before(m, read)) \in Nat
        <5>1. Before(m, read) \subseteq 1..New
          BY <1>t, <4>6
        <5>. QED
          BY <1>t, <5>1, FiniteRange, FS_CardinalityType
      <4>9. Cardinality(Before(m, read)) >= n
        BY <1>t, <4>5, <4>8
      <4>. QED
        BY <4>6, <4>7, <4>9
    <3>. QED
      BY <2>2, <3>1, <3>2, <1>2 DEF AtRisk
  <2>7. S \subseteq Spared(b)'
    BY <2>5, <2>6
  <2>8. IsFiniteSet(Spared(b)')
    <3>1. Spared(b)' \subseteq 1..New
      BY <1>t, <1>2 DEF Spared
    <3>. QED
      BY <1>t, <3>1, FiniteRange
  <2>. QED
    BY <1>t, <2>6, <2>7, <2>8, MoreAreSpared
<1>. QED
  BY <1>s, <1>3, <1>4, <1>5 DEF RedundancyInv

\* A file of what is planned: none of what is spared.
LEMMA DeleteSpares ==
    ASSUME RedundancyInv, DeleteFile
    PROVE  RedundancyInv'
<1>t. /\ TypeOK /\ Shape /\ InOrderOfTime /\ RedundancySpared
      /\ DOMAIN store = 1..New /\ New \in Nat /\ Visible \subseteq 1..New
      /\ policy.min_redundancy \subseteq Nat
  BY StoreFacts, RulesAreNumbers DEF RedundancyInv, Visible
<1>1. PICK i \in todo :
        /\ store' = RemoveFile(i, FileToDelete(i))
        /\ todo' = IF store'[i].files = {} THEN todo \ {i} ELSE todo
  BY DEF DeleteFile
<1>s. /\ UNCHANGED <<now, policy>> /\ pc' \in {"idle", "prune"}
      /\ (pc' # "prune" => todo' = {}) /\ todo' \subseteq todo
  BY <1>1 DEF DeleteFile
<1>. DEFINE file == FileToDelete(i)
            F == store[i].files \ {file}
<1>2. /\ i \in DOMAIN store /\ F \in SUBSET Files
      /\ store' = [store EXCEPT ![i].files = F]
  BY <1>1, <1>t, StoreFacts DEF TypeOK, RemoveFile, Backups
<1>f. F \subseteq store[i].files
  OBVIOUS
<1>. HIDE DEF file, F
<1>3. /\ store' \in Seq(Backups) /\ DOMAIN store' = DOMAIN store /\ New' = New
      /\ \A k \in DOMAIN store :
            /\ store'[k].kind = store[k].kind
            /\ store'[k].base = store[k].base
            /\ store'[k].files = IF k = i THEN F ELSE store[k].files
  BY <1>2, <1>t, OnlyFiles
<1>4. \A k \in DOMAIN store : SameRange(k)
  BY <1>2, <1>t, RangesKept
<1>5. TypeOK'
  BY <1>3, <1>s, <1>t DEF TypeOK
<1>6. Shape' /\ InOrderOfTime'
  BY <1>3, <1>4, <1>s, <1>t, ShapeKept DEF InOrderOfTime, SameRange
<1>7. /\ \A k \in DOMAIN store : IsFull(k)' <=> IsFull(k)
      /\ \A k \in DOMAIN store \ {i} : Backed(k)' <=> Backed(k)
      /\ Visible' \subseteq Visible /\ Visible \ {i} \subseteq Visible'
  BY <1>3, <1>4, <1>f DEF IsFull, Backed, Has, SameRange, Visible
<1>8. RedundancySpared'
  <2>. SUFFICES ASSUME NEW n \in policy.min_redundancy, NEW b \in Visible', IsFull(b)', AtRisk(b)'
                PROVE  Cardinality(Spared(b)') >= n
    BY <1>s DEF RedundancySpared
  <2>1. b \in Visible /\ b \in 1..New /\ IsFull(b)
    BY <1>t, <1>7
  <2>2. AtRisk(b)
    <3>1. CASE b = i
      BY <1>1, <2>1, <3>1 DEF AtRisk
    <3>2. CASE b # i
      BY <1>7, <1>s, <1>t, <2>1, <3>2 DEF AtRisk
    <3>. QED
      BY <3>1, <3>2
  <2>3. Cardinality(Spared(b)) >= n /\ n \in Nat
    BY <1>t, <2>1, <2>2 DEF RedundancySpared
  <2>4. Spared(b) \subseteq Spared(b)'
    BY <1>1, <1>7, <1>s, <1>t DEF Spared
  <2>5. IsFiniteSet(Spared(b)')
    <3>1. Spared(b)' \subseteq 1..New
      BY <1>t, <1>7 DEF Spared
    <3>. QED
      BY <1>t, <3>1, FiniteRange
  <2>. QED
    BY <2>3, <2>4, <2>5, MoreAreSpared
<1>. QED
  BY <1>s, <1>5, <1>6, <1>8 DEF RedundancyInv

\* Every step, if no write fails and no backup is selective.
LEMMA RedundancyStep ==
    ASSUME RedundancyInv, [Next]_vars, Events \cap {"write", "selective"} = {}
    PROVE  RedundancyInv'
<1>t. now \in Nat /\ todo \subseteq DOMAIN store /\ store \in Seq(Backups) /\ TypeOK /\ Shape /\ InOrderOfTime
      /\ (pc # "prune" => todo = {})
  BY DEF RedundancyInv, TypeOK
<1>1. CASE Tick
  BY <1>1, <1>t, SameStoreSpares DEF Tick
<1>2. CASE PutFull
  <2>. DEFINE r == [kind |-> "full", selective |-> FALSE, base |-> 0, start |-> 0,
                    end |-> now, created |-> now + 1, empty |-> FALSE, files |-> {"data"}]
  <2>1. Put(r) /\ pc = "idle"
    BY <1>2 DEF PutFull
  <2>2. r \in Backups
    BY <1>t DEF Backups, Files
  <2>3. /\ ~ r.selective /\ r.created = now + 1 /\ "manifest" \notin r.files
        /\ "data" \in r.files /\ r.kind # "incr"
    OBVIOUS
  <2>. HIDE DEF r
  <2>. QED
    BY <2>1, <2>2, <2>3, PutSpares
<1>3. CASE PutIncr
  <2>1. PICK tip \in Visible, empty \in BOOLEAN :
          /\ BaseOf(tip) \in Visible
          /\ Put([kind |-> "incr", selective |-> FALSE, base |-> BaseOf(tip),
                  start |-> store[tip].end,
                  end |-> IF empty THEN store[tip].end ELSE now,
                  created |-> now + 1, empty |-> empty,
                  files |-> IF empty THEN {} ELSE {"data"}])
    BY <1>3 DEF PutIncr, Eligible
  <2>2. tip \in DOMAIN store /\ BaseOf(tip) \in DOMAIN store
    BY <2>1 DEF Visible
  <2>3. store[BaseOf(tip)].kind = "full" /\ BaseOf(tip) \in Nat /\ store[tip].end \in Nat
    <3>1. store[tip] \in Backups /\ DOMAIN store \subseteq Nat
      BY <1>t, <2>2, StoreFacts
    <3>2. store[tip].kind \in {"full", "incr"} /\ store[tip].end \in Nat
      BY <3>1 DEF Backups
    <3>. QED
      BY <1>t, <2>2, <3>1, <3>2 DEF BaseOf, Shape
  <2>. DEFINE r == [kind |-> "incr", selective |-> FALSE, base |-> BaseOf(tip),
                    start |-> store[tip].end,
                    end |-> IF empty THEN store[tip].end ELSE now,
                    created |-> now + 1, empty |-> empty,
                    files |-> IF empty THEN {} ELSE {"data"}]
  <2>4. Put(r) /\ pc = "idle"
    BY <1>3, <2>1 DEF PutIncr
  <2>5. r \in Backups
    <3>1. now + 1 \in Nat /\ (IF empty THEN store[tip].end ELSE now) \in Nat
      BY <1>t, <2>3
    <3>2. (IF empty THEN {} ELSE {"data"}) \in SUBSET Files
      BY DEF Files
    <3>. QED
      BY <2>3, <3>1, <3>2 DEF Backups
  <2>6. /\ ~ r.selective /\ r.created = now + 1 /\ "manifest" \notin r.files
        /\ "data" \in r.files \/ r.empty
        /\ r.base = BaseOf(tip)
    OBVIOUS
  <2>. HIDE DEF r
  <2>. QED
    BY <2>1, <2>3, <2>4, <2>5, <2>6, PutSpares
<1>4. CASE WriteManifest
  BY <1>4, AddSpares DEF WriteManifest
<1>5. CASE WriteSidecar
  BY <1>5, AddSpares DEF WriteSidecar
<1>6. CASE WriteFails \/ Cleanup
  BY <1>6, <1>t DEF WriteFails, Cleanup, InOrderOfTime
<1>7. ASSUME NEW force \in BOOLEAN, StartPrune(force) PROVE RedundancyInv'
  BY <1>7, StartSpares
<1>8. CASE DeleteFile
  BY <1>8, DeleteSpares
<1>9. CASE Crash
  BY <1>9, <1>t, SameStoreSpares DEF Crash
<1>10. CASE UNCHANGED vars
  BY <1>10, <1>t, SameStoreSpares DEF vars
<1>. QED
  BY <1>1, <1>2, <1>3, <1>4, <1>5, <1>6, <1>7, <1>8, <1>9, <1>10 DEF Next

\* Every command but the prune leaves what is listed as it is.
LEMMA NothingGoes ==
    ASSUME TypeOK, InOrderOfTime, pc \in {"manifest", "sidecar"} => New \in DOMAIN store,
           [Next]_vars, ~ DeleteFile
    PROVE  \A k \in Visible : /\ k \in Visible' /\ (Backed(k)' <=> Backed(k))
                              /\ BaseOf(k)' = BaseOf(k) /\ (IsFull(k)' <=> IsFull(k))
                              /\ SameRange(k)
<1>t. DOMAIN store = 1..New /\ New \in Nat /\ Visible \subseteq 1..New /\ store \in Seq(Backups)
  BY StoreFacts DEF Visible, TypeOK
<1>1. CASE PutFull \/ PutIncr
  <2>1. PICK r : store' = Append(store, r)
    BY <1>1 DEF PutFull, PutIncr, Put
  <2>2. \A b \in 1..New : b \in DOMAIN store' /\ store'[b] = store[b]
    BY <1>t, <2>1 DEF New
  <2>. QED
    BY <1>t, <2>2 DEF Visible, Has, IsFull, Backed, BaseOf, SameRange
<1>2. CASE WriteManifest \/ WriteSidecar
  <2>1. PICK file \in {"manifest", "sidecar"} : store' = AddFile(file)
    BY <1>2 DEF WriteManifest, WriteSidecar
  <2>2. New \in DOMAIN store
    BY <1>2 DEF WriteManifest, WriteSidecar
  <2>. DEFINE F == store[New].files \cup {file}
  <2>3. F \in SUBSET Files /\ store' = [store EXCEPT ![New].files = F] /\ store[New].files \subseteq F
    BY <1>t, <2>1, <2>2, StoreFacts DEF AddFile, Backups, Files
  <2>4. "data" \in F <=> "data" \in store[New].files
    OBVIOUS
  <2>. HIDE DEF F
  <2>5. /\ DOMAIN store' = DOMAIN store
        /\ \A k \in DOMAIN store :
              /\ store'[k].kind = store[k].kind /\ store'[k].base = store[k].base
              /\ store'[k].files = IF k = New THEN F ELSE store[k].files
    BY <1>t, <2>2, <2>3, OnlyFiles
  <2>6. \A k \in DOMAIN store : SameRange(k)
    BY <1>t, <2>2, <2>3, RangesKept
  <2>. QED
    BY <2>3, <2>4, <2>5, <2>6 DEF Visible, Has, IsFull, Backed, BaseOf, SameRange
<1>3. CASE store' = store
  BY <1>3 DEF Visible, Has, IsFull, Backed, BaseOf, SameRange
<1>4. store' = store \/ PutFull \/ PutIncr \/ WriteManifest \/ WriteSidecar
  BY DEF Next, vars, Tick, WriteFails, Cleanup, StartPrune, Crash, InOrderOfTime
<1>. QED
  BY <1>1, <1>2, <1>3, <1>4

\* A prune changes the files of one backup it has planned to delete.
LEMMA OneGoes ==
    ASSUME TypeOK, DeleteFile
    PROVE  /\ todo' \subseteq todo /\ now' = now /\ policy' = policy /\ Visible' \subseteq Visible
           /\ DOMAIN store' = DOMAIN store
           /\ \A k \in DOMAIN store : /\ BaseOf(k)' = BaseOf(k) /\ (IsFull(k)' <=> IsFull(k))
                                      /\ SameRange(k)
           /\ \E i \in todo : \A k \in Visible \ {i} : k \in Visible' /\ (Backed(k)' <=> Backed(k))
<1>1. PICK i \in todo :
        /\ store' = RemoveFile(i, FileToDelete(i))
        /\ todo' = IF store'[i].files = {} THEN todo \ {i} ELSE todo
  BY DEF DeleteFile
<1>s. UNCHANGED <<now, policy>> /\ todo' \subseteq todo
  BY <1>1 DEF DeleteFile
<1>. DEFINE file == FileToDelete(i)
            F == store[i].files \ {file}
<1>2. i \in DOMAIN store /\ F \in SUBSET Files /\ store' = [store EXCEPT ![i].files = F]
  BY <1>1, StoreFacts DEF TypeOK, RemoveFile, Backups
<1>f. F \subseteq store[i].files
  OBVIOUS
<1>. HIDE DEF file, F
<1>3. /\ DOMAIN store' = DOMAIN store
      /\ \A k \in DOMAIN store :
            /\ store'[k].kind = store[k].kind
            /\ store'[k].base = store[k].base
            /\ store'[k].files = IF k = i THEN F ELSE store[k].files
  BY <1>2, OnlyFiles
<1>4. \A k \in DOMAIN store : SameRange(k)
  BY <1>2, RangesKept
<1>5. \A k \in DOMAIN store : BaseOf(k)' = BaseOf(k) /\ (IsFull(k)' <=> IsFull(k))
  BY <1>3 DEF IsFull, BaseOf
<1>6. \A k \in Visible \ {i} : k \in Visible' /\ (Backed(k)' <=> Backed(k))
  BY <1>3, <1>4 DEF Backed, Has, SameRange, Visible
<1>7. Visible' \subseteq Visible
  BY <1>3, <1>f DEF Has, Visible
<1>. QED
  BY <1>1, <1>s, <1>3, <1>4, <1>5, <1>6, <1>7

\* What is left can be restored if it is a full backup that has its data.
LEMMA WholeFacts ==
    RedundancyInv => WholeChains = {b \in Visible : IsFull(b) /\ Backed(b)}
<1>. SUFFICES ASSUME RedundancyInv
              PROVE  WholeChains = {b \in Visible : IsFull(b) /\ Backed(b)}
  OBVIOUS
<1>1. ASSUME NEW b \in Visible, IsFull(b)
      PROVE  Usable(b) <=> Backed(b)
  <2>1. BaseOf(b) = b /\ b \in DOMAIN store /\ DOMAIN store \subseteq Nat /\ ~ store[b].selective
    BY <1>1, StoreFacts DEF BaseOf, IsFull, Visible, RedundancyInv, InOrderOfTime
  <2>2. Chain(b) = {b}
    <3>1. ASSUME NEW k \in Visible, k <= b, BaseOf(k) = b PROVE k = b
      <4>1. k \in DOMAIN store /\ k \in Nat /\ store[k] \in Backups
        BY StoreFacts DEF Visible, RedundancyInv
      <4>2. CASE store[k].kind = "full"
        BY <3>1, <4>2 DEF BaseOf
      <4>3. CASE store[k].kind = "incr"
        BY <2>1, <3>1, <4>1, <4>3 DEF BaseOf, RedundancyInv, Shape
      <4>. QED
        BY <4>1, <4>2, <4>3 DEF Backups
    <3>. QED
      BY <1>1, <2>1, <3>1 DEF Chain
  <2>. QED
    BY <1>1, <2>1, <2>2 DEF Usable, Restorable
<1>. QED
  BY <1>1 DEF WholeChains, Fulls, IsFull

\* A step takes at most one full backup away, and only one that is planned.
LEMMA RedundancyInStep ==
    ASSUME RedundancyInv, RedundancyInv', [Next]_vars, Events \cap {"write", "selective"} = {},
           WholeChains = {b \in Visible : IsFull(b) /\ Backed(b)},
           WholeChains' = {b \in Visible' : IsFull(b)' /\ Backed(b)'},
           NEW n \in policy.min_redundancy, Cardinality(WholeChains) >= n
    PROVE  Cardinality(WholeChains') >= n
<1>t. /\ TypeOK /\ TypeOK' /\ DOMAIN store = 1..New /\ New \in Nat /\ Visible \subseteq 1..New
      /\ n \in Nat /\ RedundancySpared /\ InOrderOfTime
      /\ (pc \in {"manifest", "sidecar"} => New \in DOMAIN store)
  BY StoreFacts, RulesAreNumbers DEF RedundancyInv, Visible
<1>1. IsFiniteSet(WholeChains')
  <2>1. PICK top \in Nat : Visible' \subseteq 1..top
    <3>1. store' \in Seq(Backups)
      BY <1>t DEF TypeOK
    <3>2. Len(store') \in Nat /\ DOMAIN store' = 1..Len(store')
      BY <3>1
    <3>. QED
      BY <3>2 DEF Visible
  <2>2. WholeChains' \subseteq 1..top
    BY <2>1
  <2>. QED
    BY <2>1, <2>2, FiniteRange
<1>2. CASE DeleteFile
  <2>1. PICK i \in todo :
          /\ \A k \in Visible \ {i} : k \in Visible' /\ (Backed(k)' <=> Backed(k))
          /\ \A k \in DOMAIN store : IsFull(k)' <=> IsFull(k)
    BY <1>2, <1>t, OneGoes
  <2>2. CASE i \in WholeChains
    <3>1. Cardinality(Spared(i)) >= n
      BY <1>t, <2>2 DEF RedundancySpared, AtRisk
    <3>2. Spared(i) \subseteq WholeChains'
      BY <1>t, <2>1 DEF Spared
    <3>. QED
      BY <1>1, <1>t, <3>1, <3>2, MoreAreSpared
  <2>3. CASE i \notin WholeChains
    <3>1. WholeChains \subseteq WholeChains'
      BY <1>t, <2>1, <2>3
    <3>. QED
      BY <1>1, <1>t, <3>1, MoreAreSpared
  <2>. QED
    BY <2>2, <2>3
<1>3. CASE ~ DeleteFile
  <2>1. \A b \in Visible : IsFull(b) /\ Backed(b) => b \in Visible' /\ IsFull(b)' /\ Backed(b)'
    BY <1>3, <1>t, NothingGoes
  <2>2. WholeChains \subseteq WholeChains'
    BY <2>1
  <2>. QED
    BY <1>1, <1>t, <2>2, MoreAreSpared
<1>. QED
  BY <1>2, <1>3

\* INV-3 of the retention design: full backups that can be restored are never fewer
\* than min_redundancy for having been deleted, wherever a prune stops and
\* whatever it cannot read.
THEOREM FullBackupsRemain ==
    ASSUME Events \cap {"write", "selective"} = {}
    PROVE  Spec => RedundancyKept
<1>1. RedundancyInv /\ [Next]_vars => RedundancyInv'
  BY RedundancyStep
<1>2. Spec => []RedundancyInv
  BY <1>1, InitRedundancyInv, PTL DEF Spec
<1>3. RedundancyInv => WholeChains = {b \in Visible : IsFull(b) /\ Backed(b)}
  BY WholeFacts
<1>4. (RedundancyInv => WholeChains = {b \in Visible : IsFull(b) /\ Backed(b)})'
  BY WholeFacts, PTL
<1>5. RedundancyInv /\ RedundancyInv' /\ [Next]_vars =>
         [\A n \in policy.min_redundancy :
            Cardinality(WholeChains) >= n => Cardinality(WholeChains') >= n]_vars
  BY <1>3, <1>4, RedundancyInStep
<1>. QED
  BY <1>1, <1>2, <1>5, PTL DEF Spec, RedundancyKept

--------------------------------------------------------------------------------
(* Prunes leave what the recovery window has.                              *)

\* A backup covers nothing after it was made.
EndsBefore == \A i \in DOMAIN store : store[i].end <= store[i].created

\* What is at risk was made before the window, and a newer full backup that was too
\* has its data and is to stay.
WindowSpared ==
    \A d \in policy.window : \A i \in Visible : AtRisk(i) =>
        /\ store[i].created < now - d
        /\ \E c \in Spared(BaseOf(i)) : store[c].created <= now - d

WindowInv == SurvInv /\ EndsBefore /\ WindowSpared

\* Nothing is stored.
LEMMA InitWindowInv == Init => WindowInv
<1>. SUFFICES ASSUME Init PROVE WindowInv
  OBVIOUS
<1>1. DOMAIN store = {} /\ Visible = {}
  BY DEF Init, Visible
<1>. QED
  BY <1>1, InitSurvInv DEF WindowInv, EndsBefore, WindowSpared

\* What is created is a number, and the newer backup was created later.
LEMMA CreatedFacts ==
    ASSUME SurvInv
    PROVE  /\ DOMAIN store = 1..New /\ New \in Nat /\ now \in Nat
           /\ \A i \in DOMAIN store : store[i].created \in Nat /\ store[i].end \in Nat
           /\ \A i, j \in DOMAIN store : store[i].created < store[j].created => i < j
           /\ \A i, j \in DOMAIN store : i <= j => store[i].created <= store[j].created
           /\ policy.window \subseteq Nat
<1>1. TypeOK /\ InOrderOfTime /\ policy.window \subseteq Nat
  BY RulesAreNumbers DEF SurvInv, IInv
<1>2. DOMAIN store = 1..New /\ New \in Nat /\ now \in Nat
  BY <1>1, StoreFacts DEF TypeOK
<1>3. \A i \in DOMAIN store : store[i].created \in Nat /\ store[i].end \in Nat
  BY <1>1, StoreFacts DEF Backups
<1>4. \A i, j \in DOMAIN store : i < j => store[i].created < store[j].created
  BY <1>1 DEF InOrderOfTime
<1>5. ASSUME NEW i \in 1..New, NEW j \in 1..New
      PROVE  /\ store[i].created < store[j].created => i < j
             /\ i <= j => store[i].created <= store[j].created
  <2>1. i < j => store[i].created < store[j].created
    BY <1>2, <1>4
  <2>2. j < i => store[j].created < store[i].created
    BY <1>2, <1>4
  <2>3. i < j \/ i = j \/ j < i
    BY <1>2
  <2>4. PICK a \in Nat, b \in Nat : a = store[i].created /\ b = store[j].created
    BY <1>2, <1>3
  <2>5. CASE i < j
    BY <1>2, <2>1, <2>4, <2>5
  <2>6. CASE i = j
    BY <1>2, <2>4, <2>6
  <2>7. CASE j < i
    BY <1>2, <2>2, <2>4, <2>7
  <2>. QED
    BY <2>3, <2>5, <2>6, <2>7
<1>. QED
  BY <1>1, <1>2, <1>3, <1>5

\* The step puts nothing more at risk and spares what was spared.
LEMMA WindowStays ==
    ASSUME SurvInv, WindowSpared, policy' = policy, now' \in Nat, now <= now',
           \A i \in Visible' : AtRisk(i)' =>
               /\ AtRisk(i) /\ BaseOf(i)' = BaseOf(i) /\ store'[i].created = store[i].created
               /\ \A c \in Spared(BaseOf(i)) :
                     c \in Spared(BaseOf(i))' /\ store'[c].created = store[c].created
    PROVE  WindowSpared'
<1>. SUFFICES ASSUME NEW d \in policy.window, NEW i \in Visible', AtRisk(i)'
              PROVE  /\ store'[i].created < now' - d
                     /\ \E c \in Spared(BaseOf(i))' : store'[c].created <= now' - d
  BY DEF WindowSpared
<1>1. /\ AtRisk(i) /\ i \in Visible /\ store'[i].created = store[i].created
      /\ BaseOf(i)' = BaseOf(i)
  BY DEF AtRisk
<1>2. store[i].created < now - d
  BY <1>1 DEF WindowSpared
<1>3. PICK c \in Spared(BaseOf(i)) : store[c].created <= now - d
  BY <1>1 DEF WindowSpared
<1>4. c \in Spared(BaseOf(i))' /\ store'[c].created = store[c].created
  BY <1>3
<1>5. /\ now \in Nat /\ d \in Nat /\ i \in DOMAIN store /\ c \in DOMAIN store
      /\ store[i].created \in Nat /\ store[c].created \in Nat
  BY <1>1, CreatedFacts DEF Spared, Visible
<1>6. store'[i].created < now' - d /\ store'[c].created <= now' - d
  BY <1>1, <1>2, <1>3, <1>4, <1>5
<1>. QED
  BY <1>4, <1>6

\* A plan is of chains whose backups were all made before the window, but for the
\* last chain that began before it, and the last one at risk is not that one.
LEMMA StartSparesWindow ==
    ASSUME WindowInv, NEW force \in BOOLEAN, StartPrune(force), "read" \notin Events
    PROVE  WindowSpared'
<1>t. /\ SurvInv /\ IInv /\ TypeOK /\ WindowSpared /\ todo = {} /\ Visible \subseteq DOMAIN store
      /\ DOMAIN store = 1..New /\ New \in Nat
  BY StoreFacts DEF WindowInv, SurvInv, IInv, Pending, StartPrune, Visible
<1>1. PICK unread \in Unreadable : todo' = Plan(Visible \ unread, force)
  BY DEF StartPrune
<1>2. todo' = Plan(Visible, force)
  <2>1. Visible \ unread = Visible
    BY DEF Unreadable
  <2>. QED
    BY <1>1, <2>1
<1>3. UNCHANGED <<now, store, policy>>
  BY DEF StartPrune
<1>4. Visible' = Visible /\ \A i : /\ BaseOf(i)' = BaseOf(i) /\ (IsFull(i)' <=> IsFull(i))
                                    /\ (Backed(i)' <=> Backed(i))
  BY <1>3 DEF Visible, Has, BaseOf, IsFull, Backed
<1>5. \A i \in Visible : i \in todo' => ~ Kept(BaseOf(i), Visible) /\ BaseOf(i) \in Fulls(Visible)
                                         /\ i \in Members(BaseOf(i), Visible)
  <2>. SUFFICES ASSUME NEW i \in Visible, i \in todo'
                PROVE  ~ Kept(BaseOf(i), Visible) /\ BaseOf(i) \in Fulls(Visible)
                       /\ i \in Members(BaseOf(i), Visible)
    OBVIOUS
  <2>1. i \in ChainTargets(Visible)
    BY <1>2 DEF Plan, Orphans, Visible
  <2>2. PICK b \in Fulls(Visible) : ~ Kept(b, Visible) /\ i \in Members(b, Visible)
    BY <2>1 DEF ChainTargets
  <2>3. BaseOf(i) = b
    BY <2>2 DEF Members, Fulls, BaseOf
  <2>. QED
    BY <2>2, <2>3
<1>. SUFFICES ASSUME NEW d \in policy.window, NEW i \in Visible, AtRisk(i)'
              PROVE  /\ store[i].created < now - d
                     /\ \E c \in Spared(BaseOf(i))' : store[c].created <= now - d
  BY <1>3, <1>4 DEF WindowSpared
<1>. DEFINE Past == {c \in Visible : IsFull(c) /\ store[c].created <= now - d}
<1>6. /\ store[i].created < now - d
      /\ \E c \in Past : BaseOf(i) < c
  <2>1. CASE ~ Backed(i)
    <3>1. AtRisk(i)
      BY <2>1 DEF AtRisk
    <3>2. /\ store[i].created < now - d
          /\ \E c \in Spared(BaseOf(i)) : store[c].created <= now - d
      BY <1>t, <3>1 DEF WindowSpared
    <3>. QED
      BY <3>2 DEF Spared
  <2>2. CASE i \in todo'
    <3>. DEFINE b == BaseOf(i)
    <3>1. /\ ~ KeptByWindow(b, Visible, now - d)
          /\ b \in Fulls(Visible) /\ i \in Members(b, Visible)
      BY <1>5, <2>2 DEF Kept
    <3>2. b \in Visible /\ IsFull(b) /\ b <= i
      BY <1>t, <3>1, BaseFacts DEF Fulls, IsFull
    <3>. HIDE DEF b
    <3>3. /\ store[i].created \in Nat /\ store[b].created \in Nat /\ now - d \in Int
          /\ store[b].created <= store[i].created
      BY <1>t, <3>2, CreatedFacts
    <3>4. ~ (store[i].created >= now - d)
      BY <3>1 DEF KeptByWindow, NewestSince
    <3>5. store[i].created < now - d /\ store[b].created <= now - d
      BY <3>3, <3>4
    <3>6. PICK c \in Before(b, Visible) : ~ (store[c].created > now - d)
      BY <3>1, <3>5 DEF KeptByWindow
    <3>7. c \in Visible /\ IsFull(c) /\ store[c].created > store[b].created
      BY <3>6 DEF Before, Fulls, IsFull
    <3>8. c \in DOMAIN store /\ b \in DOMAIN store /\ store[c].created \in Nat
      BY <1>t, <3>2, <3>7, CreatedFacts
    <3>9. b < c
      BY <1>t, <3>3, <3>7, <3>8, CreatedFacts
    <3>10. store[c].created <= now - d
      BY <3>3, <3>6, <3>8
    <3>. QED
      BY <3>5, <3>7, <3>9, <3>10 DEF b
  <2>. QED
    BY <1>4, <2>1, <2>2 DEF AtRisk
<1>7. PICK m \in Past : \A c \in Past : c <= m
  <2>1. Past \in SUBSET (1..New) /\ Past # {}
    BY <1>t, <1>6
  <2>. HIDE DEF Past
  <2>. QED
    BY <1>t, <2>1, NewestOf
<1>8. /\ m \in Visible /\ IsFull(m) /\ store[m].created <= now - d /\ BaseOf(m) = m
      /\ m \in DOMAIN store /\ m \in Nat /\ store[m].created \in Nat /\ now - d \in Int
  BY <1>t, CreatedFacts DEF IsFull, BaseOf
<1>9. Backed(m)
  <2>. SUFFICES ASSUME ~ Backed(m) PROVE FALSE
    OBVIOUS
  <2>1. PICK c \in Spared(m) : store[c].created <= now - d
    BY <1>t, <1>8 DEF WindowSpared, AtRisk
  <2>2. c \in Past /\ m < c /\ c \in Nat
    BY <1>t, <2>1 DEF Spared
  <2>. QED
    BY <1>7, <1>8, <2>2
<1>10. m \notin todo'
  <2>. SUFFICES ASSUME NEW c \in Before(m, Visible) PROVE store[c].created > now - d
    BY <1>5, <1>8 DEF Kept, KeptByWindow
  <2>1. c \in Visible /\ IsFull(c) /\ store[c].created > store[m].created
    BY DEF Before, Fulls, IsFull
  <2>2. c \in DOMAIN store /\ store[c].created \in Nat /\ c \in Nat
    BY <1>t, <2>1, CreatedFacts
  <2>3. m < c
    BY <1>t, <1>8, <2>1, <2>2, CreatedFacts
  <2>4. c \notin Past
    BY <1>7, <1>8, <2>2, <2>3
  <2>5. ~ (store[c].created <= now - d)
    BY <2>1, <2>4
  <2>. QED
    BY <1>8, <2>2, <2>5
<1>11. BaseOf(i) < m
  <2>1. PICK c \in Past : BaseOf(i) < c
    BY <1>6
  <2>2. c <= m /\ c \in Nat
    BY <1>7, <1>t, <2>1
  <2>3. BaseOf(i) \in Nat
    BY <1>t, BaseFacts
  <2>. QED
    BY <1>8, <2>1, <2>2, <2>3
<1>12. m \in Spared(BaseOf(i))'
  BY <1>4, <1>8, <1>9, <1>10, <1>11 DEF Spared
<1>. QED
  BY <1>6, <1>8, <1>12

\* Every step, if manifests can be read as well.
LEMMA WindowStep ==
    ASSUME WindowInv, SurvInv', [Next]_vars, Events \cap {"read", "write", "selective"} = {}
    PROVE  WindowInv'
<1>t. /\ SurvInv /\ IInv /\ TypeOK /\ InOrderOfTime /\ WindowSpared /\ EndsBefore
      /\ (pc # "prune" => todo = {}) /\ (pc \in {"manifest", "sidecar"} => New \in DOMAIN store)
      /\ (pc = "manifest" => Backed(New))
      /\ now \in Nat /\ now' \in Nat /\ DOMAIN store = 1..New /\ New \in Nat
      /\ Visible \subseteq DOMAIN store
  BY CreatedFacts DEF WindowInv, SurvInv, IInv, TypeOK, Pending, Visible, Continuing
<1>o. TypeOK
  BY <1>t
<1>1. ASSUME NEW force \in BOOLEAN, StartPrune(force) PROVE WindowInv'
  <2>1. UNCHANGED store
    BY <1>1 DEF StartPrune
  <2>. QED
    BY <1>1, <1>t, <2>1, StartSparesWindow DEF WindowInv, EndsBefore
<1>2. CASE DeleteFile
  <2>1. PICK i \in todo : \A k \in Visible \ {i} : k \in Visible' /\ (Backed(k)' <=> Backed(k))
    BY <1>2, <1>t, OneGoes
  <2>2. /\ todo' \subseteq todo /\ now' = now /\ policy' = policy /\ Visible' \subseteq Visible
        /\ DOMAIN store' = DOMAIN store
        /\ \A k \in DOMAIN store : /\ BaseOf(k)' = BaseOf(k) /\ (IsFull(k)' <=> IsFull(k))
                                   /\ SameRange(k)
    BY <1>2, <1>t, OneGoes
  <2>3. EndsBefore'
    BY <1>t, <2>2 DEF EndsBefore, SameRange
  <2>4. ASSUME NEW k \in Visible', AtRisk(k)' PROVE AtRisk(k)
    BY <2>1, <2>2, <2>4 DEF AtRisk
  <2>5. ASSUME NEW k \in DOMAIN store, NEW c \in Spared(BaseOf(k)) PROVE c \in Spared(BaseOf(k))'
    BY <1>t, <2>1, <2>2 DEF Spared
  <2>6. \A k \in Visible : store'[k].created = store[k].created
    BY <1>t, <2>2 DEF SameRange
  <2>7. WindowSpared'
    <3>1. now <= now'
      BY <1>t, <2>2
    <3>2. \A k : Spared(BaseOf(k)) \subseteq Visible
      BY DEF Spared
    <3>. QED
      BY <1>t, <2>2, <2>4, <2>5, <2>6, <3>1, <3>2, WindowStays
  <2>. QED
    BY <2>3, <2>7 DEF WindowInv
<1>3. CASE ~ DeleteFile /\ \A force \in BOOLEAN : ~ StartPrune(force)
  <2>1. \A k \in Visible : /\ k \in Visible' /\ (Backed(k)' <=> Backed(k))
                           /\ BaseOf(k)' = BaseOf(k) /\ (IsFull(k)' <=> IsFull(k))
                           /\ SameRange(k)
    BY <1>3, <1>t, NothingGoes
  <2>2. todo' \in {todo, {}} /\ policy' = policy /\ now <= now'
    <3>1. CASE PutFull \/ PutIncr
      <4>1. now' = now + 1 /\ todo' = todo /\ policy' = policy
        BY <3>1 DEF PutFull, PutIncr, Put
      <4>. QED
        BY <1>t, <4>1
    <3>2. CASE Tick
      BY <1>t, <3>2 DEF Tick
    <3>3. CASE WriteManifest \/ WriteSidecar \/ WriteFails \/ Cleanup
      <4>1. now' = now /\ todo' = todo /\ policy' = policy
        BY <3>3 DEF WriteManifest, WriteSidecar, WriteFails, Cleanup, CleanupFile
      <4>. QED
        BY <1>t, <4>1
    <3>4. CASE Crash
      BY <1>t, <3>4 DEF Crash
    <3>5. CASE UNCHANGED vars
      BY <1>t, <3>5 DEF vars
    <3>. QED
      BY <1>3, <3>1, <3>2, <3>3, <3>4, <3>5 DEF Next
  <2>3. \A k \in Visible' : k \in Visible \/ (Backed(k)' /\ todo' = {})
    <3>1. CASE PutFull \/ PutIncr
      <4>1. PICK r : store' = Append(store, r) /\ "manifest" \notin r.files
        <5>1. CASE PutFull
          BY <5>1 DEF PutFull, Put
        <5>2. CASE PutIncr
          BY <5>2 DEF PutIncr, Put
        <5>. QED
          BY <3>1, <5>1, <5>2
      <4>2. /\ DOMAIN store' = 1..(New + 1) /\ store'[New + 1] = r
            /\ \A b \in 1..New : store'[b] = store[b]
        BY <1>t, <4>1 DEF New, TypeOK
      <4>. QED
        BY <1>t, <4>1, <4>2 DEF Visible, Has
    <3>2. CASE WriteManifest
      <4>1. store' = AddFile("manifest") /\ New \in DOMAIN store /\ Backed(New) /\ todo' = {}
        BY <1>t, <3>2 DEF WriteManifest
      <4>d. New \in DOMAIN store
        BY <4>1
      <4>. DEFINE F == store[New].files \cup {"manifest"}
      <4>2. F \in SUBSET Files /\ store' = [store EXCEPT ![New].files = F] /\ store[New].files \subseteq F
        BY <1>t, <4>1, StoreFacts DEF AddFile, Backups, Files
      <4>. HIDE DEF F
      <4>3. /\ DOMAIN store' = DOMAIN store
            /\ \A k \in DOMAIN store :
                  /\ store'[k].kind = store[k].kind /\ store'[k].base = store[k].base
                  /\ store'[k].files = IF k = New THEN F ELSE store[k].files
        BY <1>o, <4>d, <4>2, OnlyFiles
      <4>4. SameRange(New)
        BY <1>t, <4>1, <4>2, RangesKept
      <4>5. Backed(New) => (\E n \in DOMAIN store : n = New /\ Backed(n)')
        BY <1>t, <4>1, <4>2, <4>3, <4>4 DEF Backed, Has, SameRange
      <4>6. \A k \in Visible' : k \in Visible \/ k = New
        BY <4>3 DEF Visible, Has
      <4>. QED
        BY <4>1, <4>5, <4>6
    <3>3. CASE WriteSidecar
      <4>1. store' = AddFile("sidecar") /\ New \in DOMAIN store
        BY <1>t, <3>3 DEF WriteSidecar
      <4>d. New \in DOMAIN store
        BY <4>1
      <4>. DEFINE F == store[New].files \cup {"sidecar"}
      <4>2. F \in SUBSET Files /\ store' = [store EXCEPT ![New].files = F]
        BY <1>t, <4>1, StoreFacts DEF AddFile, Backups, Files
      <4>3. "manifest" \in F <=> "manifest" \in store[New].files
        OBVIOUS
      <4>. HIDE DEF F
      <4>4. /\ DOMAIN store' = DOMAIN store
            /\ \A k \in DOMAIN store :
                  /\ store'[k].kind = store[k].kind /\ store'[k].base = store[k].base
                  /\ store'[k].files = IF k = New THEN F ELSE store[k].files
        BY <1>o, <4>d, <4>2, OnlyFiles
      <4>. QED
        BY <4>3, <4>4 DEF Visible, Has
    <3>4. CASE store' = store
      BY <3>4 DEF Visible, Has
    <3>5. store' = store \/ PutFull \/ PutIncr \/ WriteManifest \/ WriteSidecar
      BY <1>3, <1>t DEF Next, vars, Tick, WriteFails, Cleanup, Crash, InOrderOfTime
    <3>. QED
      BY <3>1, <3>2, <3>3, <3>4, <3>5
  <2>4. WindowSpared'
    <3>1. ASSUME NEW i \in Visible', AtRisk(i)' PROVE AtRisk(i) /\ i \in Visible
      BY <2>1, <2>2, <2>3, <3>1 DEF AtRisk
    <3>2. \A i \in Visible : BaseOf(i)' = BaseOf(i) /\ store'[i].created = store[i].created
      BY <2>1 DEF SameRange
    <3>3. ASSUME NEW i \in Visible, NEW c \in Spared(BaseOf(i))
          PROVE  c \in Spared(BaseOf(i))' /\ store'[c].created = store[c].created
      BY <2>1, <2>2 DEF Spared, SameRange
    <3>. QED
      BY <1>t, <2>2, <3>1, <3>2, <3>3, WindowStays
  <2>5. EndsBefore'
    <3>1. CASE PutFull
      <4>. DEFINE r == [kind |-> "full", selective |-> FALSE, base |-> 0, start |-> 0,
                        end |-> now, created |-> now + 1, empty |-> FALSE, files |-> {"data"}]
      <4>1. store' = Append(store, r)
        BY <3>1 DEF PutFull, Put
      <4>2. r.end <= r.created
        BY <1>t
      <4>. HIDE DEF r
      <4>3. /\ DOMAIN store' = 1..(New + 1) /\ store'[New + 1] = r
            /\ \A b \in 1..New : store'[b] = store[b]
        BY <1>t, <4>1 DEF New, TypeOK
      <4>. QED
        BY <1>t, <4>2, <4>3 DEF EndsBefore
    <3>2. CASE PutIncr
      <4>1. PICK tip \in Visible, empty \in BOOLEAN :
              Put([kind |-> "incr", selective |-> FALSE, base |-> BaseOf(tip),
                   start |-> store[tip].end,
                   end |-> IF empty THEN store[tip].end ELSE now,
                   created |-> now + 1, empty |-> empty,
                   files |-> IF empty THEN {} ELSE {"data"}])
        BY <3>2 DEF PutIncr, Eligible
      <4>. DEFINE r == [kind |-> "incr", selective |-> FALSE, base |-> BaseOf(tip),
                        start |-> store[tip].end,
                        end |-> IF empty THEN store[tip].end ELSE now,
                        created |-> now + 1, empty |-> empty,
                        files |-> IF empty THEN {} ELSE {"data"}]
      <4>2. store' = Append(store, r)
        BY <4>1 DEF Put
      <4>3. store[tip].end \in Nat /\ store[tip].end <= store[tip].created
            /\ store[tip].created <= now /\ store[tip].created \in Nat
        BY <1>t, CreatedFacts DEF EndsBefore, InOrderOfTime
      <4>4. r.end <= r.created
        BY <1>t, <4>3
      <4>. HIDE DEF r
      <4>5. /\ DOMAIN store' = 1..(New + 1) /\ store'[New + 1] = r
            /\ \A b \in 1..New : store'[b] = store[b]
        BY <1>t, <4>2 DEF New, TypeOK
      <4>. QED
        BY <1>t, <4>4, <4>5 DEF EndsBefore
    <3>3. CASE WriteManifest \/ WriteSidecar
      <4>1. PICK file \in {"manifest", "sidecar"} : store' = AddFile(file)
        BY <3>3 DEF WriteManifest, WriteSidecar
      <4>2. New \in DOMAIN store
        BY <1>t, <3>3 DEF WriteManifest, WriteSidecar
      <4>. DEFINE F == store[New].files \cup {file}
      <4>3. F \in SUBSET Files /\ store' = [store EXCEPT ![New].files = F]
        BY <1>t, <4>1, <4>2, StoreFacts DEF AddFile, Backups, Files
      <4>. HIDE DEF F
      <4>4. DOMAIN store' = DOMAIN store
        BY <1>o, <4>2, <4>3, OnlyFiles
      <4>5. \A k \in DOMAIN store : SameRange(k)
        BY <1>t, <4>2, <4>3, RangesKept
      <4>. QED
        BY <1>t, <4>4, <4>5 DEF EndsBefore, SameRange
    <3>4. CASE store' = store
      BY <1>t, <3>4 DEF EndsBefore
    <3>5. store' = store \/ PutFull \/ PutIncr \/ WriteManifest \/ WriteSidecar
      BY <1>3, <1>t DEF Next, vars, Tick, WriteFails, Cleanup, Crash, InOrderOfTime
    <3>. QED
      BY <3>1, <3>2, <3>3, <3>4, <3>5
  <2>. QED
    BY <2>4, <2>5 DEF WindowInv
<1>. QED
  BY <1>1, <1>2, <1>3

\* What is listed and has its data can be restored from.
LEMMA BackedIsUsable ==
    SurvInv /\ Survival => \A k \in Visible : Usable(k) <=> Backed(k)
<1>. SUFFICES ASSUME SurvInv, Survival, NEW k \in Visible
              PROVE  Usable(k) <=> Backed(k)
  OBVIOUS
<1>1. k \in Nat /\ BaseOf(k) \in DOMAIN store
  BY StoreFacts, BaseFacts DEF SurvInv, IInv, Visible
<1>2. k \in Chain(k)
  BY <1>1 DEF Chain
<1>3. ~ store[BaseOf(k)].selective
  BY <1>1 DEF SurvInv, InOrderOfTime
<1>. QED
  BY <1>2, <1>3 DEF Usable, Restorable, Survival, SurvivorsRestorable

\* The deletion of a backup that is at risk takes nothing of the window away.
LEMMA WindowInStep ==
    ASSUME WindowInv, [Next]_vars, Survival,
           \A k \in Visible' : Usable(k)' <=> Backed(k)',
           NEW d \in policy.window, NEW t \in now - d .. now
    PROVE  /\ Recoverable(t) => Recoverable(t)'
           /\ \A i \in Visible : NewestAsOf(i, t) => Usable(i)'
<1>t. /\ SurvInv /\ IInv /\ TypeOK /\ InOrderOfTime /\ WindowSpared /\ EndsBefore /\ BoundToNewest
      /\ (pc \in {"manifest", "sidecar"} => New \in DOMAIN store)
      /\ Visible \subseteq DOMAIN store /\ DOMAIN store = 1..New /\ New \in Nat
      /\ d \in Nat /\ now \in Nat /\ now - d \in Int /\ t \in Int /\ now - d <= t
  BY CreatedFacts DEF WindowInv, SurvInv, IInv, Pending, Visible, Survival
<1>1. \A k \in Visible : Usable(k) <=> Backed(k)
  BY <1>t, BackedIsUsable
<1>2. ASSUME NEW k \in Visible, k \in Visible', Backed(k)' <=> Backed(k), Usable(k)
      PROVE  Usable(k)'
  BY <1>1, <1>2
<1>3. ASSUME NEW k \in Visible, k \in Visible', Backed(k)' <=> Backed(k), Usable(k),
             BaseOf(k)' = BaseOf(k), store'[k].end = store[k].end,
             store'[BaseOf(k)].end = store[BaseOf(k)].end,
             store[BaseOf(k)].end <= t, t <= store[k].end
      PROVE  Recoverable(t)'
  <2>1. Usable(k)'
    BY <1>2, <1>3
  <2>2. store'[BaseOf(k)'].end <= t /\ t <= store'[k].end
    BY <1>3
  <2>. QED
    BY <1>3, <2>1, <2>2 DEF Recoverable
<1>4. CASE ~ DeleteFile
  <2>1. \A k \in Visible : /\ k \in Visible' /\ (Backed(k)' <=> Backed(k))
                           /\ BaseOf(k)' = BaseOf(k) /\ store'[k].end = store[k].end
    BY <1>4, <1>t, NothingGoes DEF SameRange
  <2>2. \A k \in Visible : BaseOf(k) \in Visible
    BY <1>t, BaseFacts
  <2>3. Recoverable(t) => Recoverable(t)'
    BY <1>3, <2>1, <2>2 DEF Recoverable
  <2>4. \A i \in Visible : NewestAsOf(i, t) => Usable(i)'
    BY <1>2, <2>1 DEF NewestAsOf
  <2>. QED
    BY <2>3, <2>4
<1>5. CASE DeleteFile
  <2>1. PICK i \in todo : \A k \in Visible \ {i} : k \in Visible' /\ (Backed(k)' <=> Backed(k))
    BY <1>5, <1>t, OneGoes
  <2>2. \A k \in DOMAIN store : BaseOf(k)' = BaseOf(k) /\ store'[k].end = store[k].end
    BY <1>5, <1>t, OneGoes DEF SameRange
  <2>3. ASSUME i \in Visible
        PROVE  store[i].end < t /\ ~ NewestAsOf(i, t)
    <3>1. AtRisk(i)
      BY <2>1, <2>3 DEF AtRisk
    <3>2. store[i].created < now - d
      BY <1>t, <2>3, <3>1 DEF WindowSpared
    <3>3. PICK c \in Spared(BaseOf(i)) : store[c].created <= now - d
      BY <1>t, <2>3, <3>1 DEF WindowSpared
    <3>4. /\ c \in Visible /\ IsFull(c) /\ Backed(c) /\ BaseOf(i) < c
          /\ c \in Nat /\ i \in Nat /\ BaseOf(i) \in Nat
      BY <1>t, <2>3, <3>3, BaseFacts DEF Spared
    <3>5. /\ store[i].created \in Nat /\ store[i].end \in Nat /\ store[c].created \in Nat
          /\ store[i].end <= store[i].created
      BY <1>t, <2>3, <3>4, CreatedFacts DEF EndsBefore
    <3>6. store[i].end < t /\ store[c].created <= t
      BY <1>t, <3>2, <3>3, <3>5
    <3>7. ASSUME NewestAsOf(i, t) PROVE FALSE
      <4>1. c <= i
        BY <1>1, <3>4, <3>6, <3>7 DEF NewestAsOf
      <4>2. c # i
        BY <3>4 DEF BaseOf, IsFull
      <4>3. c <= BaseOf(i)
        BY <1>t, <2>3, <3>4, <4>1, <4>2 DEF BoundToNewest
      <4>. QED
        BY <3>4, <4>3
    <3>. QED
      BY <3>6, <3>7
  <2>4. Recoverable(t) => Recoverable(t)'
    <3>. SUFFICES ASSUME NEW k \in Visible, Usable(k), store[BaseOf(k)].end <= t, t <= store[k].end
                  PROVE  Recoverable(t)'
      BY DEF Recoverable
    <3>1. k # i
      <4>1. store[k].end \in Nat
        BY <1>t, CreatedFacts
      <4>. QED
        BY <1>t, <2>3, <4>1
    <3>2. k \in DOMAIN store /\ BaseOf(k) \in DOMAIN store
      BY <1>t, BaseFacts
    <3>. QED
      BY <1>3, <2>1, <2>2, <3>1, <3>2
  <2>5. \A k \in Visible : NewestAsOf(k, t) => Usable(k)'
    BY <1>2, <2>1, <2>3 DEF NewestAsOf
  <2>. QED
    BY <2>4, <2>5
<1>. QED
  BY <1>4, <1>5

\* INV-1 and INV-2 of the retention design: a prune takes nothing away that the
\* recovery window has, neither a moment of it nor the last backup before one,
\* even if it stops between any two files, if every write has succeeded, no
\* backup is selective and prunes can read the manifests.
THEOREM TheWindowIsKept ==
    ASSUME Events \cap {"read", "write", "selective"} = {}
    PROVE  Spec => WindowKept
<1>1. IInv /\ SurvInv /\ WindowInv /\ [Next]_vars => (IInv /\ SurvInv /\ WindowInv)'
  <2>1. IInv /\ [Next]_vars => IInv'
    BY NextIInv, StutterIInv
  <2>2. SurvInv /\ IInv' /\ [Next]_vars => SurvInv'
    BY NextSurvives
  <2>3. WindowInv /\ SurvInv' /\ [Next]_vars => WindowInv'
    BY WindowStep
  <2>. QED
    BY <2>1, <2>2, <2>3
<1>2. Spec => [](SurvInv /\ WindowInv)
  BY <1>1, InitIInv, InitSurvInv, InitWindowInv, PTL DEF Spec
<1>3. (SurvInv /\ Survival => \A k \in Visible : Usable(k) <=> Backed(k))'
  BY BackedIsUsable, PTL
<1>4. SurvInv /\ WindowInv /\ SurvInv' /\ [Next]_vars =>
         [\A d \in policy.window : \A t \in now - d .. now :
            /\ Recoverable(t) => Recoverable(t)'
            /\ \A i \in Visible : NewestAsOf(i, t) => Usable(i)']_vars
  <2>. SUFFICES ASSUME SurvInv, WindowInv, SurvInv', [Next]_vars,
                       NEW d \in policy.window, NEW t \in now - d .. now
                PROVE  /\ Recoverable(t) => Recoverable(t)'
                       /\ \A i \in Visible : NewestAsOf(i, t) => Usable(i)'
    OBVIOUS
  <2>1. KeepsNewest(policy) /\ Survival
    BY DEF KeepsNewest, SurvInv
  <2>2. policy' = policy
    BY DEF Next, vars, Tick, PutFull, PutIncr, Put, WriteManifest, WriteSidecar, WriteFails,
           Cleanup, CleanupFile, StartPrune, DeleteFile, Crash
  <2>3. Survival'
    BY <2>1, <2>2 DEF SurvInv, KeepsNewest
  <2>4. \A k \in Visible' : Usable(k)' <=> Backed(k)'
    BY <1>3, <2>3
  <2>. QED
    BY <2>1, <2>4, WindowInStep
<1>. QED
  BY <1>1, <1>2, <1>4, PTL DEF Spec, WindowKept

==============================================================================
