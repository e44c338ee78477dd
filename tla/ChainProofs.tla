----------------------------- MODULE ChainProofs ------------------------------
(***************************************************************************)
(* Theorems about the chains of MySQL, of the file engine and of MongoDB,  *)
(* for any number of backups, any histories and any crashes: what a chain  *)
(* holds, and what restoring it brings back.                               *)
(***************************************************************************)
EXTENDS MysqlChain, FileChain, MongoChain, FiniteSetTheorems, WellFoundedInduction, TLAPS

--------------------------------------------------------------------------------
(* Largest and least. *)

\* A set of natural numbers that is not empty has a least one.
LEMMA LeastOfNaturals ==
    ASSUME NEW S \in SUBSET Nat, S # {}
    PROVE  \E m \in S : \A k \in S : m <= k
<1>1. PICK m \in S : \A k \in S : <<k, m>> \notin OpToRel(<, Nat)
  BY NatLessThanWellFounded, WFMin
<1>2. \A k \in S : ~ (k < m)
  BY <1>1 DEF OpToRel
<1>. QED
  BY <1>2

\* Min finds it.
LEMMA MinOfNaturals ==
    ASSUME NEW S \in SUBSET Nat, S # {}
    PROVE  Min(S) \in S /\ \A k \in S : Min(S) <= k
  BY LeastOfNaturals DEF Min

\* Max finds the largest of a set that has a bound.
LEMMA MaxOfBounded ==
    ASSUME NEW n \in Nat, NEW S \in SUBSET (0..n), S # {}
    PROVE  Max(S) \in S /\ \A k \in S : k <= Max(S)
<1>. DEFINE T == {n - k : k \in S}
<1>1. T \in SUBSET Nat /\ T # {}
  <2>1. \A k \in S : n - k \in Nat
    OBVIOUS
  <2>2. PICK k \in S : TRUE
    OBVIOUS
  <2>3. n - k \in T
    OBVIOUS
  <2>. QED
    BY <2>1, <2>3
<1>2. PICK m \in T : \A k \in T : m <= k
  BY <1>1, LeastOfNaturals
<1>3. PICK x \in S : m = n - x
  OBVIOUS
<1>4. \A k \in S : n - k \in T
  OBVIOUS
<1>. HIDE DEF T
<1>5. \A k \in S : n - x <= n - k
  BY <1>2, <1>3, <1>4
<1>6. \A k \in S : x >= k
  BY <1>5, <1>3
<1>. QED
  BY <1>6 DEF Max

--------------------------------------------------------------------------------
(* The chains of the binary log *)

\* The positions of a log whose transaction is of one of some kinds.
KindsAt(txs, kinds, positions) == {n \in positions : txs[n].kind \in kinds}

\* The increments of base b among the manifests of a destination, and the
\* coordinates its chain ends at.
IncrementsOf(dest, b) == {i \in DOMAIN dest : dest[i].kind = "incr" /\ dest[i].base = b}
EndOf(dest, b) == dest[Max(IncrementsOf(dest, b) \cup {b})].coords

\* What a full backup holds: what was committed before its snapshot, and of the
\* later changes some of those in tables without transactions.
FullIsSound(txs, m) ==
    /\ m.snap <= m.read /\ m.read <= Len(txs)
    /\ KindsAt(txs, {"row", "noxid", "partial"}, 1 .. m.snap) \subseteq m.data
    /\ m.data \subseteq KindsAt(txs, {"row", "noxid", "partial"}, 1 .. m.snap)
                         \cup KindsAt(txs, {"noxid"}, m.snap + 1 .. m.read)
    /\ m.locked => m.coords.pos <= m.snap

\* The chain of base b: the increments hold all that a capture does not skip
\* from the coordinates of the base to the end of the chain, and none reaches
\* beyond that.
ChainIsSound(txs, dest, b) ==
    LET end == EndOf(dest, b).pos IN
    /\ FullIsSound(txs, dest[b])
    /\ dest[b].coords.pos <= end
    /\ end <= Len(txs)
    /\ \A i \in IncrementsOf(dest, b) : dest[i].coords.pos <= end
    /\ UNION {dest[i].data : i \in IncrementsOf(dest, b)}
         = KindsAt(txs, {"row", "noxid"}, dest[b].coords.pos + 1 .. end)

FullsOf(dest) == {i \in DOMAIN dest : dest[i].kind = "full" /\ ~ dest[i].selective}

\* Every increment belongs to a full backup of the whole.
BasesOf(dest) ==
    \A i \in DOMAIN dest : dest[i].kind = "incr" => dest[i].base \in FullsOf(dest)

ChainsAreSound ==
    /\ BasesOf(mysqlDest)
    /\ \A b \in FullsOf(mysqlDest) : ChainIsSound(binlog, mysqlDest, b)

\* What the tables with transactions had at the snapshot of a dump.
SnapshotIsSound(txs, m) ==
    /\ m.kind = "full"
    /\ m.snap <= Len(txs)
    /\ m.data = KindsAt(txs, {"row", "partial"}, 1 .. m.snap)

\* What the running command has learnt is still true: the lock has kept the
\* log where the snapshot saw it; a capture starts where the chain ends.
RunIsSound ==
    LET end == EndOf(mysqlDest, mysqlRun.base)
    IN  /\ readLock => mysqlStep \in {"snapshot", "coords"}
        /\ mysqlStep = "lock" => mysqlRun.kind = "full"
        /\ mysqlStep = "snapshot" =>
             mysqlRun.kind = "full" /\ (mysqlRun.locked => readLock)
        /\ mysqlStep = "coords" =>
             /\ SnapshotIsSound(binlog, mysqlRun)
             /\ mysqlRun.locked => readLock /\ LastTx = mysqlRun.snap
        /\ mysqlStep = "tables" =>
             /\ SnapshotIsSound(binlog, mysqlRun)
             /\ mysqlRun.coords.pos <= LastTx
             /\ mysqlRun.locked => mysqlRun.coords.pos <= mysqlRun.snap
        /\ mysqlStep \in {"gap", "capture"} =>
             /\ mysqlRun.kind = "incr"
             /\ mysqlRun.base \in FullsOf(mysqlDest)
             /\ mysqlRun.coords = end
        /\ mysqlStep = "publish" => mysqlRun.coords.pos <= LastTx
        /\ mysqlStep = "publish" /\ mysqlRun.kind = "full" => FullIsSound(binlog, mysqlRun)
        /\ mysqlStep = "publish" /\ mysqlRun.kind = "incr" =>
             /\ mysqlRun.base \in FullsOf(mysqlDest)
             /\ end.pos <= mysqlRun.coords.pos
             /\ mysqlRun.data
                  = KindsAt(binlog, {"row", "noxid"}, end.pos + 1 .. mysqlRun.coords.pos)

MysqlInv == MysqlTypeOK /\ ChainsAreSound /\ RunIsSound

\* The model's names for these.
LEMMA MysqlNames ==
    /\ MysqlBases = FullsOf(mysqlDest)
    /\ \A b : collect_mysql_increments(b) = IncrementsOf(mysqlDest, b)
    /\ \A b : chain_start_coords(b) = EndOf(mysqlDest, b)
    /\ \A K, P : OfKinds(K, P) = KindsAt(binlog, K, P)
    /\ \A P : Changes(P) = KindsAt(binlog, {"row", "noxid", "partial"}, P)
  BY DEF MysqlBases, is_mysql_full, FullsOf, collect_mysql_increments, IncrementsOf,
         chain_start_coords, EndOf, OfKinds, KindsAt, Changes

\* A log that grows keeps what it was.
LEMMA LogGrows ==
    ASSUME NEW txs \in Seq(Txs), NEW tx \in Txs
    PROVE  /\ Append(txs, tx) \in Seq(Txs)
           /\ Len(Append(txs, tx)) = Len(txs) + 1
           /\ Len(txs) \in Nat
  OBVIOUS

\* What was of some kinds among the old positions still is.
LEMMA KindsKept ==
    ASSUME NEW txs \in Seq(Txs), NEW tx \in Txs, NEW K, NEW P \in SUBSET (1 .. Len(txs))
    PROVE  KindsAt(Append(txs, tx), K, P) = KindsAt(txs, K, P)
<1>1. \A n \in 1 .. Len(txs) : Append(txs, tx)[n] = txs[n]
  OBVIOUS
<1>. QED
  BY <1>1 DEF KindsAt

\* The newest of some manifests is one of them.
LEMMA NewestOf ==
    ASSUME NEW dest \in Seq(MysqlManifests), NEW S \in SUBSET DOMAIN dest, S # {}
    PROVE  Max(S) \in S /\ \A k \in S : k <= Max(S)
<1>1. Len(dest) \in Nat /\ DOMAIN dest = 1 .. Len(dest)
  OBVIOUS
<1>2. S \in SUBSET (0 .. Len(dest))
  BY <1>1
<1>. QED
  BY <1>1, <1>2, MaxOfBounded

\* What a manifest is made of.
LEMMA ManifestFacts ==
    ASSUME NEW m \in MysqlManifests
    PROVE  /\ m.coords \in Coords /\ m.coords.pos \in Nat /\ m.base \in Nat
           /\ m.snap \in Nat /\ m.read \in Nat
  BY DEF MysqlManifests, Coords

\* A full backup stays sound when the log grows.
LEMMA FullGrows ==
    ASSUME NEW txs \in Seq(Txs), NEW tx \in Txs, NEW m \in MysqlManifests, FullIsSound(txs, m)
    PROVE  FullIsSound(Append(txs, tx), m)
<1>1. /\ m.snap \in Nat /\ m.read \in Nat /\ Len(txs) \in Nat
      /\ m.snap <= m.read /\ m.read <= Len(txs)
  BY ManifestFacts, LogGrows DEF FullIsSound
<1>2. 1 .. m.snap \in SUBSET (1 .. Len(txs)) /\ m.snap + 1 .. m.read \in SUBSET (1 .. Len(txs))
  BY <1>1
<1>3. m.read <= Len(Append(txs, tx))
  BY <1>1, LogGrows
<1>4. /\ KindsAt(Append(txs, tx), {"row", "noxid", "partial"}, 1 .. m.snap)
           = KindsAt(txs, {"row", "noxid", "partial"}, 1 .. m.snap)
      /\ KindsAt(Append(txs, tx), {"noxid"}, m.snap + 1 .. m.read)
           = KindsAt(txs, {"noxid"}, m.snap + 1 .. m.read)
  BY <1>2, KindsKept
<1>. QED
  BY <1>3, <1>4 DEF FullIsSound

\* So does what a dump has seen at its snapshot.
LEMMA SnapshotGrows ==
    ASSUME NEW txs \in Seq(Txs), NEW tx \in Txs, NEW m \in MysqlManifests, SnapshotIsSound(txs, m)
    PROVE  SnapshotIsSound(Append(txs, tx), m)
<1>1. m.snap \in Nat /\ Len(txs) \in Nat /\ m.snap <= Len(txs)
  BY ManifestFacts, LogGrows DEF SnapshotIsSound
<1>2. 1 .. m.snap \in SUBSET (1 .. Len(txs)) /\ m.snap <= Len(Append(txs, tx))
  BY <1>1, LogGrows
<1>3. KindsAt(Append(txs, tx), {"row", "partial"}, 1 .. m.snap)
        = KindsAt(txs, {"row", "partial"}, 1 .. m.snap)
  BY <1>2, KindsKept
<1>. QED
  BY <1>2, <1>3 DEF SnapshotIsSound

\* The chain's end is the end of one of its manifests.
LEMMA EndOfIsCoords ==
    ASSUME NEW dest \in Seq(MysqlManifests), NEW b \in DOMAIN dest
    PROVE  EndOf(dest, b) \in Coords
<1>. DEFINE S == IncrementsOf(dest, b) \cup {b}
<1>1. S \in SUBSET DOMAIN dest /\ S # {}
  BY DEF IncrementsOf
<1>2. Max(S) \in DOMAIN dest
  BY <1>1, NewestOf
<1>. HIDE DEF S
<1>3. dest[Max(S)] \in MysqlManifests
  BY <1>2
<1>4. dest[Max(S)].coords \in Coords
  BY <1>3, ManifestFacts
<1>. QED
  BY <1>4 DEF EndOf, S

\* So does its chain.
LEMMA ChainGrows ==
    ASSUME NEW txs \in Seq(Txs), NEW tx \in Txs, NEW dest \in Seq(MysqlManifests),
           NEW b \in DOMAIN dest, ChainIsSound(txs, dest, b)
    PROVE  ChainIsSound(Append(txs, tx), dest, b)
<1>. DEFINE end == EndOf(dest, b).pos
<1>0. dest[b] \in MysqlManifests /\ EndOf(dest, b) \in Coords
  BY EndOfIsCoords
<1>1. end \in Nat /\ dest[b].coords.pos \in Nat /\ dest[b] \in MysqlManifests
  BY <1>0, ManifestFacts DEF Coords
<1>. HIDE DEF end
<1>2. end <= Len(txs) /\ FullIsSound(txs, dest[b])
  BY DEF ChainIsSound, end
<1>3. (dest[b].coords.pos + 1 .. end) \in SUBSET (1 .. Len(txs))
  BY <1>1, <1>2
<1>4. KindsAt(Append(txs, tx), {"row", "noxid"}, dest[b].coords.pos + 1 .. end)
        = KindsAt(txs, {"row", "noxid"}, dest[b].coords.pos + 1 .. end)
  BY <1>3, KindsKept
<1>5. end <= Len(Append(txs, tx))
  BY <1>1, <1>2, LogGrows
<1>6. FullIsSound(Append(txs, tx), dest[b])
  BY <1>1, <1>2, FullGrows
<1>. QED
  BY <1>4, <1>5, <1>6 DEF ChainIsSound, end

\* Every increment of base b is newer than b, and among the manifests.
LEMMA AppendFacts ==
    ASSUME NEW dest \in Seq(MysqlManifests), NEW m \in MysqlManifests
    PROVE  /\ Append(dest, m) \in Seq(MysqlManifests)
           /\ DOMAIN Append(dest, m) = DOMAIN dest \cup {Len(dest) + 1}
           /\ Len(dest) + 1 \notin DOMAIN dest
           /\ \A i \in DOMAIN dest : Append(dest, m)[i] = dest[i]
           /\ Append(dest, m)[Len(dest) + 1] = m
           /\ DOMAIN dest = 1 .. Len(dest) /\ Len(dest) \in Nat
  OBVIOUS

\* A full backup starts a chain of its own.
LEMMA AppendFull ==
    ASSUME NEW txs \in Seq(Txs), NEW dest \in Seq(MysqlManifests), NEW m \in MysqlManifests,
           BasesOf(dest), \A b \in FullsOf(dest) : ChainIsSound(txs, dest, b),
           m.kind = "full", m.coords.pos <= Len(txs), FullIsSound(txs, m)
    PROVE  /\ BasesOf(Append(dest, m))
           /\ \A b \in FullsOf(Append(dest, m)) : ChainIsSound(txs, Append(dest, m), b)
<1>. DEFINE new == Append(dest, m)
            n == Len(dest) + 1
<1>a. /\ DOMAIN new = DOMAIN dest \cup {n} /\ n \notin DOMAIN dest
      /\ \A i \in DOMAIN dest : new[i] = dest[i]
      /\ new[n] = m /\ n \in Nat
  BY AppendFacts
<1>. HIDE DEF new, n
<1>1. FullsOf(dest) \subseteq FullsOf(new)
  BY <1>a DEF FullsOf
<1>2. BasesOf(new)
  BY <1>a, <1>1 DEF BasesOf
<1>3. \A b : IncrementsOf(new, b) = IncrementsOf(dest, b)
  BY <1>a DEF IncrementsOf
<1>4. ASSUME NEW b \in FullsOf(new)
      PROVE  ChainIsSound(txs, new, b)
  <2>1. CASE b = n
    <3>1. IncrementsOf(new, n) = {}
      BY <1>a, <1>3 DEF IncrementsOf, BasesOf, FullsOf
    <3>2. Max({n}) = n
      BY <1>a DEF Max
    <3>3. EndOf(new, n) = m.coords
      BY <3>1, <3>2, <1>a DEF EndOf
    <3>4. m.coords.pos \in Nat
      BY ManifestFacts
    <3>5. m.coords.pos + 1 .. m.coords.pos = {}
      BY <3>4
    <3>6. KindsAt(txs, {"row", "noxid"}, m.coords.pos + 1 .. m.coords.pos) = {}
      BY <3>5 DEF KindsAt
    <3>7. UNION {new[i].data : i \in IncrementsOf(new, n)} = {}
      BY <3>1
    <3>8. FullIsSound(txs, new[n])
      BY <1>a
    <3>. QED
      BY <2>1, <3>1, <3>3, <3>4, <3>6, <3>7, <3>8, <1>a DEF ChainIsSound
  <2>2. CASE b # n
    <3>1. b \in FullsOf(dest) /\ b \in DOMAIN dest /\ new[b] = dest[b]
      BY <1>a, <2>2 DEF FullsOf
    <3>2. IncrementsOf(dest, b) \subseteq DOMAIN dest
      BY DEF IncrementsOf
    <3>3. \A i \in IncrementsOf(dest, b) : new[i] = dest[i]
      BY <3>2, <1>a
    <3>4. Max(IncrementsOf(dest, b) \cup {b}) \in DOMAIN dest
      <4>1. IncrementsOf(dest, b) \cup {b} \in SUBSET DOMAIN dest
        BY <3>1, <3>2
      <4>. QED
        BY <4>1, NewestOf
    <3>5. EndOf(new, b) = EndOf(dest, b)
      BY <3>4, <1>3, <1>a DEF EndOf
    <3>6. {new[i].data : i \in IncrementsOf(new, b)} = {dest[i].data : i \in IncrementsOf(dest, b)}
      BY <3>3, <1>3
    <3>7. ChainIsSound(txs, dest, b)
      BY <3>1
    <3>. QED
      BY <3>1, <3>3, <3>5, <3>6, <3>7, <1>3 DEF ChainIsSound
  <2>. QED
    BY <2>1, <2>2
<1>. QED
  BY <1>2, <1>4 DEF new

\* An increment lengthens the chain of its base.
LEMMA AppendIncr ==
    ASSUME NEW txs \in Seq(Txs), NEW dest \in Seq(MysqlManifests), NEW m \in MysqlManifests,
           BasesOf(dest), \A b \in FullsOf(dest) : ChainIsSound(txs, dest, b),
           m.kind = "incr", m.base \in FullsOf(dest), m.coords.pos <= Len(txs),
           EndOf(dest, m.base).pos <= m.coords.pos,
           m.data = KindsAt(txs, {"row", "noxid"}, EndOf(dest, m.base).pos + 1 .. m.coords.pos)
    PROVE  /\ BasesOf(Append(dest, m))
           /\ \A b \in FullsOf(Append(dest, m)) : ChainIsSound(txs, Append(dest, m), b)
<1>. DEFINE new == Append(dest, m)
            n == Len(dest) + 1
<1>a. /\ DOMAIN new = DOMAIN dest \cup {n} /\ n \notin DOMAIN dest
      /\ \A i \in DOMAIN dest : new[i] = dest[i]
      /\ new[n] = m /\ n \in Nat
      /\ \A i \in DOMAIN dest : i \in Nat /\ i < n
  BY AppendFacts
<1>b. DOMAIN dest = 1 .. Len(dest)
  OBVIOUS
<1>. HIDE DEF new, n
<1>1. FullsOf(dest) = FullsOf(new)
  BY <1>a DEF FullsOf
<1>2. BasesOf(new)
  BY <1>a, <1>1 DEF BasesOf
<1>4. ASSUME NEW b \in FullsOf(new)
      PROVE  ChainIsSound(txs, new, b)
  <2>1. b \in FullsOf(dest) /\ b \in DOMAIN dest /\ new[b] = dest[b]
    BY <1>a, <1>1 DEF FullsOf
  <2>2. IncrementsOf(dest, b) \subseteq DOMAIN dest
    BY DEF IncrementsOf
  <2>3. \A i \in IncrementsOf(dest, b) : new[i] = dest[i]
    BY <2>2, <1>a
  <2>4. ChainIsSound(txs, dest, b)
    BY <2>1
  <2>5. CASE b = m.base
    <3>1. IncrementsOf(new, b) = IncrementsOf(dest, b) \cup {n}
      BY <1>a, <2>5 DEF IncrementsOf
    <3>2. Max(IncrementsOf(new, b) \cup {b}) = n
      <4>1. n \in IncrementsOf(new, b) \cup {b}
        BY <3>1
      <4>2. \A i \in IncrementsOf(new, b) \cup {b} : i \in Nat /\ i <= n
        BY <3>1, <2>1, <2>2, <1>a
      <4>. QED
        BY <4>1, <4>2 DEF Max
    <3>3. EndOf(new, b) = m.coords
      BY <3>2, <1>a DEF EndOf
    <3>. DEFINE old == EndOf(dest, b).pos
                start == dest[b].coords.pos
                stop == m.coords.pos
    <3>4. old \in Nat /\ start \in Nat /\ stop \in Nat
      <4>1. dest[b] \in MysqlManifests /\ EndOf(dest, b) \in Coords
        BY <2>1, EndOfIsCoords
      <4>. QED
        BY <4>1, ManifestFacts DEF Coords
    <3>5. /\ start <= old /\ old <= stop /\ stop <= Len(txs)
          /\ FullIsSound(txs, dest[b])
          /\ \A i \in IncrementsOf(dest, b) : dest[i].coords.pos <= old
          /\ UNION {dest[i].data : i \in IncrementsOf(dest, b)}
               = KindsAt(txs, {"row", "noxid"}, start + 1 .. old)
          /\ m.data = KindsAt(txs, {"row", "noxid"}, old + 1 .. stop)
      BY <2>4, <2>5 DEF ChainIsSound
    <3>. HIDE DEF old, start, stop
    <3>6. start + 1 .. stop = (start + 1 .. old) \cup (old + 1 .. stop)
      BY <3>4, <3>5
    <3>7. KindsAt(txs, {"row", "noxid"}, start + 1 .. stop)
            = KindsAt(txs, {"row", "noxid"}, start + 1 .. old)
                \cup KindsAt(txs, {"row", "noxid"}, old + 1 .. stop)
      BY <3>6 DEF KindsAt
    <3>8. UNION {new[i].data : i \in IncrementsOf(new, b)}
            = (UNION {dest[i].data : i \in IncrementsOf(dest, b)}) \cup m.data
      <4>1. {new[i].data : i \in IncrementsOf(new, b)}
              = {dest[i].data : i \in IncrementsOf(dest, b)} \cup {m.data}
        BY <3>1, <2>3, <1>a
      <4>. QED
        BY <4>1
    <3>9. \A i \in IncrementsOf(new, b) : new[i].coords.pos <= stop
      <4>1. \A i \in IncrementsOf(dest, b) : dest[i].coords.pos \in Nat
        <5>1. \A i \in IncrementsOf(dest, b) : dest[i] \in MysqlManifests
          BY <2>2
        <5>. QED
          BY <5>1, ManifestFacts
      <4>. QED
        BY <3>1, <3>4, <3>5, <2>3, <1>a, <4>1 DEF stop
    <3>10. start <= stop
      BY <3>4, <3>5
    <3>. QED
      BY <2>1, <3>3, <3>5, <3>7, <3>8, <3>9, <3>10 DEF ChainIsSound, start, stop
  <2>6. CASE b # m.base
    <3>1. IncrementsOf(new, b) = IncrementsOf(dest, b)
      BY <1>a, <2>6 DEF IncrementsOf
    <3>4. Max(IncrementsOf(dest, b) \cup {b}) \in DOMAIN dest
      <4>1. IncrementsOf(dest, b) \cup {b} \in SUBSET DOMAIN dest
        BY <2>1, <2>2
      <4>. QED
        BY <4>1, NewestOf
    <3>5. EndOf(new, b) = EndOf(dest, b)
      BY <3>4, <3>1, <1>a DEF EndOf
    <3>6. {new[i].data : i \in IncrementsOf(new, b)} = {dest[i].data : i \in IncrementsOf(dest, b)}
      BY <2>3, <3>1
    <3>. QED
      BY <2>1, <2>3, <3>5, <3>6, <2>4, <3>1 DEF ChainIsSound
  <2>. QED
    BY <2>5, <2>6
<1>. QED
  BY <1>2, <1>4 DEF new

\* The fields of what the running command has learnt.
LEMMA IdleRunFacts ==
    /\ IdleRun \in MysqlManifests /\ NoCoords \in Coords
    /\ IdleRun.kind = "full" /\ ~ IdleRun.locked /\ IdleRun.coords = NoCoords
  BY DEF IdleRun, NoCoords, MysqlManifests, Coords

\* Nothing is left to show when the manifests and the log stay, and the command
\* is idle or starts anew.
LEMMA MysqlInitInv == MysqlInit => MysqlInv
<1>. SUFFICES ASSUME MysqlInit PROVE MysqlInv
  OBVIOUS
<1>1. MysqlTypeOK
  <2>1. <<>> \in Seq(Txs) /\ <<>> \in Seq(MysqlManifests)
    OBVIOUS
  <2>2. 1 \in 1 .. MaxFiles /\ 0 \in 0 .. (MaxFiles - 1)
    BY MysqlAssumption
  <2>3. 1 .. LastTx = {}
    BY DEF MysqlInit, LastTx
  <2>. QED
    BY <2>1, <2>2, <2>3, IdleRunFacts DEF MysqlInit, MysqlTypeOK
<1>2. DOMAIN mysqlDest = {}
  BY DEF MysqlInit
<1>3. ChainsAreSound
  BY <1>2 DEF ChainsAreSound, BasesOf, FullsOf
<1>4. RunIsSound
  BY DEF MysqlInit, RunIsSound
<1>. QED
  BY <1>1, <1>3, <1>4 DEF MysqlInv

\* A transaction commits: every claim is about the log as far as it went.
LEMMA MysqlCommitStep ==
    ASSUME MysqlInv, NEW kind \in TxKinds, NEW gtid \in BOOLEAN, NEW began \in 0..MaxBinlog,
           BinlogCommit(kind, gtid, began)
    PROVE  MysqlInv'
<1>. DEFINE tx == [kind |-> kind, file |-> logFile, gtid |-> gtid, began |-> began]
<1>t. /\ binlog \in Seq(Txs) /\ tx \in Txs
      /\ mysqlDest \in Seq(MysqlManifests) /\ mysqlRun \in MysqlManifests
  BY DEF MysqlInv, MysqlTypeOK, Txs
<1>u. /\ binlog' = Append(binlog, tx)
      /\ UNCHANGED <<logFile, purged, readLock, mysqlDest, mysqlStep, mysqlRun>> /\ ~ readLock
  BY DEF BinlogCommit
<1>. HIDE DEF tx
<1>1. MysqlTypeOK'
  <2>1. /\ binlog' \in Seq(Txs) /\ LastTx \in Nat /\ LastTx' = LastTx + 1
        /\ \A n \in 1 .. LastTx : binlog'[n] = binlog[n]
        /\ binlog'[LastTx + 1] = tx /\ tx.began <= LastTx + 1
    BY <1>t, <1>u, LogGrows DEF LastTx, BinlogCommit, tx
  <2>2. \A n \in 1 .. LastTx' : n \in 1 .. LastTx \/ n = LastTx + 1
    BY <2>1
  <2>3. \A n \in 1 .. LastTx' : binlog'[n].began <= n
    BY <2>1, <2>2 DEF MysqlInv, MysqlTypeOK
  <2>. QED
    BY <2>1, <2>3, <1>u DEF MysqlInv, MysqlTypeOK
<1>2. ChainsAreSound'
  <2>1. ASSUME NEW b \in FullsOf(mysqlDest)
        PROVE  ChainIsSound(binlog', mysqlDest, b)
    <3>1. b \in DOMAIN mysqlDest /\ ChainIsSound(binlog, mysqlDest, b)
      BY DEF MysqlInv, ChainsAreSound, FullsOf
    <3>. QED
      BY <3>1, <1>t, <1>u, ChainGrows
  <2>2. BasesOf(mysqlDest)
    BY DEF MysqlInv, ChainsAreSound
  <2>. QED
    BY <2>1, <2>2, <1>u DEF ChainsAreSound
<1>3. RunIsSound'
  <2>. DEFINE end == EndOf(mysqlDest, mysqlRun.base)
  <2>1. mysqlRun.snap \in Nat /\ mysqlRun.coords.pos \in Nat /\ mysqlRun.base \in Nat
    BY <1>t, ManifestFacts
  <2>2. LastTx \in Nat /\ LastTx' = LastTx + 1
    BY <1>t, <1>u, LogGrows DEF LastTx
  <2>3. CASE mysqlStep \in {"coords", "tables"}
    <3>1. SnapshotIsSound(binlog', mysqlRun)
      BY <2>3, <1>t, <1>u, SnapshotGrows DEF MysqlInv, RunIsSound
    <3>2. mysqlStep = "coords" => ~ mysqlRun.locked
      BY <1>u DEF MysqlInv, RunIsSound
    <3>3. mysqlStep = "tables" =>
            /\ mysqlRun.coords.pos <= LastTx'
            /\ mysqlRun.locked => mysqlRun.coords.pos <= mysqlRun.snap
      BY <2>1, <2>2 DEF MysqlInv, RunIsSound
    <3>. QED
      BY <2>3, <3>1, <3>2, <3>3, <1>u DEF MysqlInv, RunIsSound
  <2>4. CASE mysqlStep = "publish" /\ mysqlRun.kind = "full"
    <3>1. FullIsSound(binlog', mysqlRun)
      BY <2>4, <1>t, <1>u, FullGrows DEF MysqlInv, RunIsSound
    <3>. QED
      BY <2>1, <2>2, <2>4, <3>1, <1>u DEF MysqlInv, RunIsSound
  <2>5. CASE mysqlStep = "publish" /\ mysqlRun.kind = "incr"
    <3>0. mysqlRun.base \in DOMAIN mysqlDest
      BY <2>5 DEF MysqlInv, RunIsSound, FullsOf
    <3>1. mysqlRun.coords.pos <= Len(binlog) /\ end \in Coords
      BY <2>5, <3>0, <1>t, EndOfIsCoords DEF MysqlInv, RunIsSound, LastTx
    <3>2. end.pos \in Nat
      BY <3>1 DEF Coords
    <3>. HIDE DEF end
    <3>3. (end.pos + 1 .. mysqlRun.coords.pos) \in SUBSET (1 .. Len(binlog))
      BY <3>1, <3>2, <2>1, <2>2 DEF LastTx
    <3>4. KindsAt(binlog', {"row", "noxid"}, end.pos + 1 .. mysqlRun.coords.pos)
            = KindsAt(binlog, {"row", "noxid"}, end.pos + 1 .. mysqlRun.coords.pos)
      BY <3>3, <1>t, <1>u, KindsKept
    <3>. QED
      BY <2>1, <2>2, <2>5, <3>4, <1>u DEF MysqlInv, RunIsSound, end
  <2>6. CASE mysqlStep \notin {"coords", "tables", "publish"}
    BY <2>6, <1>u DEF MysqlInv, RunIsSound
  <2>7. mysqlRun.kind \in {"full", "incr"}
    BY <1>t DEF MysqlManifests
  <2>. QED
    BY <2>3, <2>4, <2>5, <2>6, <2>7
<1>. QED
  BY <1>1, <1>2, <1>3 DEF MysqlInv

\* The server rotates and purges its files.
LEMMA MysqlServerStep ==
    ASSUME MysqlInv, RotateBinlog \/ PurgeBinlog
    PROVE  MysqlInv'
<1>t. logFile \in 1 .. MaxFiles /\ purged \in 0 .. (MaxFiles - 1) /\ MaxFiles \in Nat \ {0}
  BY MysqlAssumption DEF MysqlInv, MysqlTypeOK
<1>1. UNCHANGED <<binlog, readLock, mysqlDest, mysqlStep, mysqlRun>>
  BY DEF RotateBinlog, PurgeBinlog
<1>2. logFile' \in 1 .. MaxFiles /\ purged' \in 0 .. (MaxFiles - 1)
  BY <1>t DEF RotateBinlog, PurgeBinlog
<1>3. MysqlTypeOK'
  BY <1>1, <1>2 DEF MysqlInv, MysqlTypeOK, LastTx
<1>4. ChainsAreSound' /\ RunIsSound'
  BY <1>1 DEF MysqlInv, ChainsAreSound, RunIsSound, LastTx
<1>. QED
  BY <1>3, <1>4 DEF MysqlInv

\* A full backup starts, its command takes the lock or not, and every command
\* may end.
LEMMA MysqlFullStartStep ==
    ASSUME MysqlInv, StartMysqlFull \/ TakeReadLock \/ AbortMysql
    PROVE  MysqlInv'
<1>t. /\ mysqlRun \in MysqlManifests /\ readLock \in BOOLEAN
  BY DEF MysqlInv, MysqlTypeOK
<1>1. UNCHANGED <<binlog, logFile, purged, mysqlDest>>
  BY DEF StartMysqlFull, TakeReadLock, AbortMysql, server
<1>2. ChainsAreSound'
  BY <1>1 DEF MysqlInv, ChainsAreSound
<1>3. /\ mysqlRun' \in MysqlManifests /\ readLock' \in BOOLEAN
      /\ mysqlStep' \in {"idle", "lock", "snapshot"} /\ RunIsSound'
  <2>1. CASE StartMysqlFull
    <3>1. PICK selective \in BOOLEAN : mysqlRun' = [IdleRun EXCEPT !.selective = selective]
      BY <2>1 DEF StartMysqlFull
    <3>2. mysqlRun' \in MysqlManifests /\ mysqlRun'.kind = "full"
      BY <3>1, IdleRunFacts DEF MysqlManifests, IdleRun
    <3>3. mysqlStep' = "lock" /\ mysqlStep = "idle" /\ readLock' = readLock
      BY <2>1 DEF StartMysqlFull
    <3>4. RunIsSound'
      BY <3>2, <3>3 DEF MysqlInv, RunIsSound
    <3>. QED
      BY <3>2, <3>3, <3>4, <1>t
  <2>2. CASE TakeReadLock
    <3>1. PICK granted \in BOOLEAN : readLock' = granted /\ mysqlRun' = [mysqlRun EXCEPT !.locked = granted]
      BY <2>2 DEF TakeReadLock
    <3>2. mysqlRun' \in MysqlManifests /\ mysqlRun'.kind = mysqlRun.kind /\ mysqlRun'.locked = granted
      BY <3>1, <1>t DEF MysqlManifests
    <3>3. mysqlStep' = "snapshot" /\ mysqlStep = "lock"
      BY <2>2 DEF TakeReadLock
    <3>4. RunIsSound'
      BY <3>1, <3>2, <3>3 DEF MysqlInv, RunIsSound
    <3>. QED
      BY <3>1, <3>2, <3>3, <3>4
  <2>3. CASE AbortMysql
    <3>1. mysqlStep' = "idle" /\ mysqlRun' = IdleRun /\ readLock' = FALSE
      BY <2>3 DEF AbortMysql
    <3>. QED
      BY <3>1, IdleRunFacts DEF RunIsSound
  <2>. QED
    BY <2>1, <2>2, <2>3
<1>4. MysqlTypeOK'
  BY <1>1, <1>3 DEF MysqlInv, MysqlTypeOK, LastTx
<1>. QED
  BY <1>2, <1>3, <1>4 DEF MysqlInv

\* The snapshot holds what is committed by now.
LEMMA MysqlSnapshotStep ==
    ASSUME MysqlInv, OpenSnapshot
    PROVE  MysqlInv'
<1>t. /\ mysqlRun \in MysqlManifests /\ binlog \in Seq(Txs)
  BY DEF MysqlInv, MysqlTypeOK, Txs
<1>1. /\ UNCHANGED <<binlog, logFile, purged, readLock, mysqlDest>>
      /\ mysqlStep = "snapshot" /\ mysqlStep' = "coords"
      /\ mysqlRun' = [mysqlRun EXCEPT !.snap = LastTx, !.data = OfKinds({"row", "partial"}, 1 .. LastTx)]
  BY DEF OpenSnapshot, server
<1>2. LastTx \in Nat /\ OfKinds({"row", "partial"}, 1 .. LastTx) \in SUBSET Nat
  BY <1>t DEF LastTx, OfKinds
<1>3. /\ mysqlRun' \in MysqlManifests
      /\ mysqlRun'.snap = LastTx /\ mysqlRun'.data = OfKinds({"row", "partial"}, 1 .. LastTx)
      /\ mysqlRun'.kind = mysqlRun.kind /\ mysqlRun'.locked = mysqlRun.locked
  BY <1>t, <1>1, <1>2 DEF MysqlManifests
<1>4. MysqlTypeOK'
  BY <1>1, <1>3 DEF MysqlInv, MysqlTypeOK, LastTx
<1>5. ChainsAreSound'
  BY <1>1 DEF MysqlInv, ChainsAreSound
<1>6. LastTx' = LastTx /\ LastTx = Len(binlog)
  BY <1>1 DEF LastTx
<1>7. SnapshotIsSound(binlog, mysqlRun')
  BY <1>1, <1>2, <1>3, <1>6, MysqlNames DEF MysqlInv, RunIsSound, SnapshotIsSound
<1>8. RunIsSound'
  BY <1>1, <1>2, <1>3, <1>6, <1>7 DEF MysqlInv, RunIsSound
<1>. QED
  BY <1>4, <1>5, <1>8 DEF MysqlInv

\* The coordinates are those of the end of the log, or none: under the lock the
\* log has not moved since the snapshot.
LEMMA MysqlCoordsStep ==
    ASSUME MysqlInv, ReadCoords
    PROVE  MysqlInv'
<1>t. /\ mysqlRun \in MysqlManifests /\ binlog \in Seq(Txs) /\ logFile \in 1 .. MaxFiles
  BY DEF MysqlInv, MysqlTypeOK, Txs
<1>1. /\ UNCHANGED <<binlog, logFile, purged, mysqlDest>> /\ readLock' = FALSE
      /\ mysqlStep = "coords" /\ mysqlStep' = "tables"
  BY DEF ReadCoords, server
<1>2. PICK coords \in current_coords : mysqlRun' = [mysqlRun EXCEPT !.coords = coords]
  BY DEF ReadCoords
<1>3. LastTx \in Nat /\ LastTx' = LastTx
  BY <1>t, <1>1 DEF LastTx
<1>4. coords \in Coords /\ coords.pos \in Nat /\ coords.pos <= LastTx
  BY <1>3, <1>t, MysqlAssumption DEF current_coords, NoCoords, Coords
<1>5. /\ mysqlRun' \in MysqlManifests /\ mysqlRun'.coords = coords
      /\ mysqlRun'.snap = mysqlRun.snap /\ mysqlRun'.data = mysqlRun.data
      /\ mysqlRun'.kind = mysqlRun.kind /\ mysqlRun'.locked = mysqlRun.locked
  BY <1>t, <1>2, <1>4 DEF MysqlManifests
<1>6. MysqlTypeOK'
  BY <1>1, <1>5 DEF MysqlInv, MysqlTypeOK, LastTx
<1>7. ChainsAreSound'
  BY <1>1 DEF MysqlInv, ChainsAreSound
<1>8. SnapshotIsSound(binlog, mysqlRun')
  BY <1>1, <1>5 DEF MysqlInv, RunIsSound, SnapshotIsSound
<1>9. RunIsSound'
  BY <1>1, <1>3, <1>4, <1>5, <1>8 DEF MysqlInv, RunIsSound
<1>. QED
  BY <1>6, <1>7, <1>9 DEF MysqlInv

\* The tables are read: those without transactions as they are by then.
LEMMA MysqlTablesStep ==
    ASSUME MysqlInv, DumpTables
    PROVE  MysqlInv'
<1>t. /\ mysqlRun \in MysqlManifests /\ binlog \in Seq(Txs)
      /\ LastTx \in Nat /\ LastTx = Len(binlog)
  BY DEF MysqlInv, MysqlTypeOK, LastTx
<1>1. /\ UNCHANGED <<binlog, logFile, purged, readLock, mysqlDest>>
      /\ mysqlStep = "tables" /\ mysqlStep' = "publish"
  BY DEF DumpTables, server
<1>. DEFINE old == KindsAt(binlog, {"noxid"}, 1 .. mysqlRun.snap)
<1>2. PICK late \in SUBSET KindsAt(binlog, {"noxid"}, mysqlRun.snap + 1 .. LastTx) :
         mysqlRun' = [mysqlRun EXCEPT !.data = (mysqlRun.data \cup old) \cup late, !.read = LastTx]
  BY MysqlNames DEF DumpTables
<1>3. mysqlRun.snap \in Nat /\ mysqlRun.data \in SUBSET Nat
  BY <1>t, ManifestFacts DEF MysqlManifests
<1>4. old \in SUBSET Nat /\ late \in SUBSET Nat
  BY <1>3, <1>t DEF KindsAt
<1>5. /\ mysqlRun' \in MysqlManifests
      /\ mysqlRun'.data = (mysqlRun.data \cup old) \cup late /\ mysqlRun'.read = LastTx
      /\ mysqlRun'.snap = mysqlRun.snap /\ mysqlRun'.coords = mysqlRun.coords
      /\ mysqlRun'.kind = mysqlRun.kind /\ mysqlRun'.locked = mysqlRun.locked
  <2>. HIDE DEF old
  <2>. QED
    BY <1>2, <1>3, <1>4, <1>t DEF MysqlManifests
<1>6. /\ SnapshotIsSound(binlog, mysqlRun)
      /\ mysqlRun.coords.pos <= LastTx
      /\ mysqlRun.locked => mysqlRun.coords.pos <= mysqlRun.snap
      /\ ~ readLock
  BY <1>1 DEF MysqlInv, RunIsSound
<1>7. mysqlRun.data \cup old = KindsAt(binlog, {"row", "noxid", "partial"}, 1 .. mysqlRun.snap)
  BY <1>6 DEF SnapshotIsSound, KindsAt
<1>. HIDE DEF old
<1>8. FullIsSound(binlog, mysqlRun')
  BY <1>2, <1>3, <1>5, <1>6, <1>7, <1>t DEF FullIsSound, SnapshotIsSound
<1>9. RunIsSound'
  BY <1>1, <1>5, <1>6, <1>8, <1>t DEF RunIsSound, SnapshotIsSound, LastTx
<1>10. MysqlTypeOK'
  BY <1>1, <1>5 DEF MysqlInv, MysqlTypeOK, LastTx
<1>11. ChainsAreSound'
  BY <1>1 DEF MysqlInv, ChainsAreSound
<1>. QED
  BY <1>9, <1>10, <1>11 DEF MysqlInv

\* A manifest is stored.
LEMMA MysqlPublishStep ==
    ASSUME MysqlInv, PublishMysql
    PROVE  MysqlInv'
<1>t. /\ mysqlRun \in MysqlManifests /\ binlog \in Seq(Txs)
      /\ mysqlDest \in Seq(MysqlManifests)
  BY DEF MysqlInv, MysqlTypeOK, Txs
<1>1. /\ UNCHANGED <<binlog, logFile, purged, readLock>>
      /\ mysqlStep = "publish" /\ mysqlStep' = "idle"
      /\ mysqlDest' = Append(mysqlDest, mysqlRun) /\ mysqlRun' = IdleRun
  BY DEF PublishMysql, server
<1>2. MysqlTypeOK'
  BY <1>t, <1>1, IdleRunFacts, AppendFacts DEF MysqlInv, MysqlTypeOK, LastTx
<1>3. RunIsSound'
  BY <1>1 DEF MysqlInv, RunIsSound
<1>4. BasesOf(mysqlDest) /\ \A b \in FullsOf(mysqlDest) : ChainIsSound(binlog, mysqlDest, b)
  BY DEF MysqlInv, ChainsAreSound
<1>5. mysqlRun.coords.pos <= Len(binlog)
  BY <1>1 DEF MysqlInv, RunIsSound, LastTx
<1>6. /\ BasesOf(Append(mysqlDest, mysqlRun))
      /\ \A b \in FullsOf(Append(mysqlDest, mysqlRun)) :
            ChainIsSound(binlog, Append(mysqlDest, mysqlRun), b)
  <2>1. CASE mysqlRun.kind = "full"
    <3>1. FullIsSound(binlog, mysqlRun)
      BY <2>1, <1>1 DEF MysqlInv, RunIsSound
    <3>. QED
      BY <2>1, <3>1, <1>t, <1>4, <1>5, AppendFull
  <2>2. CASE mysqlRun.kind = "incr"
    <3>1. /\ mysqlRun.base \in FullsOf(mysqlDest)
          /\ EndOf(mysqlDest, mysqlRun.base).pos <= mysqlRun.coords.pos
          /\ mysqlRun.data = KindsAt(binlog, {"row", "noxid"},
                EndOf(mysqlDest, mysqlRun.base).pos + 1 .. mysqlRun.coords.pos)
      BY <2>2, <1>1 DEF MysqlInv, RunIsSound
    <3>. QED
      BY <2>2, <3>1, <1>t, <1>4, <1>5, AppendIncr
  <2>. QED
    BY <2>1, <2>2, <1>t DEF MysqlManifests
<1>7. ChainsAreSound'
  BY <1>1, <1>6 DEF ChainsAreSound
<1>. QED
  BY <1>2, <1>3, <1>7 DEF MysqlInv

\* An increment starts at the end of the chain of the newest full backup, and a
\* gap in the log makes it a full backup.
LEMMA MysqlIncrStartStep ==
    ASSUME MysqlInv, StartMysqlIncr \/ CheckGap
    PROVE  MysqlInv'
<1>t. /\ mysqlRun \in MysqlManifests /\ mysqlDest \in Seq(MysqlManifests)
  BY DEF MysqlInv, MysqlTypeOK
<1>1. UNCHANGED <<binlog, logFile, purged, readLock, mysqlDest>>
  BY DEF StartMysqlIncr, CheckGap, server
<1>2. ChainsAreSound'
  BY <1>1 DEF MysqlInv, ChainsAreSound
<1>3. /\ mysqlRun' \in MysqlManifests /\ mysqlStep' \in {"lock", "gap", "capture"} /\ RunIsSound'
  <2>1. CASE StartMysqlIncr
    <3>. DEFINE b == latest_mysql_full
    <3>1. FullsOf(mysqlDest) # {} /\ FullsOf(mysqlDest) \in SUBSET DOMAIN mysqlDest
      BY <2>1, MysqlNames DEF StartMysqlIncr, FullsOf
    <3>2. b \in FullsOf(mysqlDest) /\ b \in Nat
      <4>1. b = Max(FullsOf(mysqlDest))
        BY MysqlNames DEF latest_mysql_full
      <4>. QED
        BY <4>1, <3>1, <1>t, NewestOf
    <3>3. EndOf(mysqlDest, b) \in Coords
      BY <3>1, <3>2, <1>t, EndOfIsCoords
    <3>4. /\ mysqlRun' = [IdleRun EXCEPT !.kind = "incr", !.base = b, !.coords = EndOf(mysqlDest, b)]
          /\ mysqlStep = "idle" /\ mysqlStep' = "gap"
      BY <2>1, MysqlNames DEF StartMysqlIncr
    <3>. HIDE DEF b
    <3>5. /\ mysqlRun' \in MysqlManifests /\ mysqlRun'.kind = "incr" /\ mysqlRun'.base = b
          /\ mysqlRun'.coords = EndOf(mysqlDest, b)
      BY <3>2, <3>3, <3>4, IdleRunFacts DEF MysqlManifests, IdleRun
    <3>6. RunIsSound'
      BY <1>1, <3>2, <3>4, <3>5 DEF MysqlInv, RunIsSound
    <3>. QED
      BY <3>4, <3>5, <3>6
  <2>2. CASE CheckGap
    <3>1. CASE mysqlStep' = "capture" /\ mysqlRun' = mysqlRun
      <4>1. mysqlStep = "gap"
        BY <2>2 DEF CheckGap
      <4>. QED
        BY <3>1, <4>1, <1>1, <1>t DEF MysqlInv, RunIsSound
    <3>2. CASE mysqlStep' = "lock" /\ mysqlRun' = IdleRun
      <4>1. mysqlStep = "gap"
        BY <2>2 DEF CheckGap
      <4>. QED
        BY <3>2, <4>1, <1>1, IdleRunFacts DEF MysqlInv, RunIsSound
    <3>. QED
      BY <2>2, <3>1, <3>2 DEF CheckGap
  <2>. QED
    BY <2>1, <2>2
<1>4. MysqlTypeOK'
  BY <1>1, <1>3 DEF MysqlInv, MysqlTypeOK, LastTx
<1>. QED
  BY <1>2, <1>3, <1>4 DEF MysqlInv

\* A capture ends between its start and the end of the log.
LEMMA BoundaryBounds ==
    ASSUME binlog \in Seq(Txs), NEW start \in Nat, start <= LastTx
    PROVE  Boundary(start) \in Nat /\ start <= Boundary(start) /\ Boundary(start) <= LastTx
<1>. DEFINE xids == OfKinds({"row", "otherdb", "partial"}, start + 1 .. LastTx)
            full == {n \in xids :
                       Cardinality(OfKinds({"row", "noxid"}, start + 1 .. n)) >= MaxCapture}
<1>1. LastTx \in Nat
  BY DEF LastTx
<1>2. xids \in SUBSET (start + 1 .. LastTx)
  BY DEF OfKinds
<1>3. full \in SUBSET xids
  OBVIOUS
<1>4. Boundary(start) = IF full # {} THEN Min(full) ELSE Max(xids \cup {start})
  BY DEF Boundary
<1>. HIDE DEF xids, full
<1>5. CASE full # {}
  <2>1. full \in SUBSET Nat
    BY <1>1, <1>2, <1>3
  <2>2. Min(full) \in full
    BY <2>1, <1>5, MinOfNaturals
  <2>3. Boundary(start) \in start + 1 .. LastTx
    BY <2>2, <1>2, <1>3, <1>4, <1>5
  <2>. QED
    BY <2>3, <1>1
<1>6. CASE full = {}
  <2>1. xids \cup {start} \in SUBSET (0 .. LastTx) /\ xids \cup {start} # {}
    BY <1>1, <1>2
  <2>2. Max(xids \cup {start}) \in xids \cup {start}
    BY <2>1, <1>1, MaxOfBounded
  <2>3. Boundary(start) \in (start + 1 .. LastTx) \cup {start}
    BY <2>2, <1>2, <1>4, <1>6
  <2>. QED
    BY <2>3, <1>1
<1>. QED
  BY <1>5, <1>6

\* The capture takes the chain from its end to where it stops.
LEMMA MysqlCaptureStep ==
    ASSUME MysqlInv, CaptureBinlog
    PROVE  MysqlInv'
<1>. DEFINE start == mysqlRun.coords
            stop == Boundary(start.pos)
            data == OfKinds({"row", "noxid"}, start.pos + 1 .. stop)
            coords == EndCoords(start, stop)
<1>t. /\ mysqlRun \in MysqlManifests /\ mysqlDest \in Seq(MysqlManifests) /\ binlog \in Seq(Txs)
  BY DEF MysqlInv, MysqlTypeOK, Txs
<1>1. /\ UNCHANGED <<binlog, logFile, purged, readLock, mysqlDest>>
      /\ mysqlStep = "capture" /\ mysqlStep' = "publish"
      /\ mysqlRun' = [mysqlRun EXCEPT !.data = data, !.coords = coords]
  BY DEF CaptureBinlog, server
<1>2. start \in Coords /\ start.pos \in Nat
  BY <1>t, ManifestFacts
<1>3. /\ mysqlRun.kind = "incr" /\ mysqlRun.base \in FullsOf(mysqlDest)
      /\ start = EndOf(mysqlDest, mysqlRun.base)
  BY <1>1 DEF MysqlInv, RunIsSound
<1>4. LastTx \in Nat /\ start.pos <= LastTx
  <2>1. ChainIsSound(binlog, mysqlDest, mysqlRun.base)
    BY <1>3 DEF MysqlInv, ChainsAreSound
  <2>. QED
    BY <2>1, <1>3, <1>t DEF ChainIsSound, LastTx
<1>5. stop \in Nat /\ start.pos <= stop /\ stop <= LastTx
  BY <1>2, <1>4, <1>t, BoundaryBounds
<1>6. data \in SUBSET Nat /\ data = KindsAt(binlog, {"row", "noxid"}, start.pos + 1 .. stop)
  <2>1. data = KindsAt(binlog, {"row", "noxid"}, start.pos + 1 .. stop)
    BY MysqlNames
  <2>2. (start.pos + 1 .. stop) \in SUBSET Nat
    BY <1>2, <1>5
  <2>. QED
    BY <2>1, <2>2 DEF KindsAt
<1>. HIDE DEF start, stop, data
<1>7. coords \in Coords /\ coords.pos = stop
  <2>1. CASE stop = start.pos
    BY <2>1, <1>2 DEF EndCoords
  <2>2. CASE stop # start.pos
    <3>1. stop \in 1 .. Len(binlog)
      BY <2>2, <1>2, <1>4, <1>5 DEF LastTx
    <3>2. binlog[stop] \in Txs
      BY <3>1, <1>t
    <3>3. binlog[stop].file \in Nat
      BY <3>2, MysqlAssumption DEF Txs
    <3>. QED
      BY <2>2, <3>3, <1>5 DEF EndCoords, Coords
  <2>. QED
    BY <2>1, <2>2
<1>. HIDE DEF coords
<1>8. /\ mysqlRun' \in MysqlManifests /\ mysqlRun'.kind = "incr" /\ mysqlRun'.base = mysqlRun.base
      /\ mysqlRun'.data = data /\ mysqlRun'.coords = coords
  BY <1>1, <1>3, <1>6, <1>7, <1>t DEF MysqlManifests
<1>9. MysqlTypeOK'
  BY <1>1, <1>8 DEF MysqlInv, MysqlTypeOK, LastTx
<1>10. ChainsAreSound'
  BY <1>1 DEF MysqlInv, ChainsAreSound
<1>11. LastTx' = LastTx
  BY <1>1 DEF LastTx
<1>12. RunIsSound'
  BY <1>1, <1>3, <1>5, <1>6, <1>7, <1>8, <1>11 DEF MysqlInv, RunIsSound
<1>. QED
  BY <1>9, <1>10, <1>12 DEF MysqlInv

\* The chains of the log are sound in every reachable state.
THEOREM MysqlInvariance == MysqlSpec => []MysqlInv
<1>1. MysqlInit => MysqlInv
  BY MysqlInitInv
<1>2. MysqlInv /\ [MysqlNext]_mysqlVars => MysqlInv'
  <2>. SUFFICES ASSUME MysqlInv, [MysqlNext]_mysqlVars PROVE MysqlInv'
    OBVIOUS
  <2>1. CASE UNCHANGED mysqlVars
    BY <2>1 DEF mysqlVars, MysqlInv, MysqlTypeOK, ChainsAreSound, RunIsSound, LastTx
  <2>2. CASE \E kind \in TxKinds, gtid \in BOOLEAN, began \in 0..MaxBinlog : BinlogCommit(kind, gtid, began)
    BY <2>2, MysqlCommitStep
  <2>3. CASE RotateBinlog \/ PurgeBinlog
    BY <2>3, MysqlServerStep
  <2>4. CASE StartMysqlFull \/ TakeReadLock \/ AbortMysql
    BY <2>4, MysqlFullStartStep
  <2>5. CASE OpenSnapshot
    BY <2>5, MysqlSnapshotStep
  <2>6. CASE ReadCoords \/ DumpTables
    BY <2>6, MysqlCoordsStep, MysqlTablesStep
  <2>7. CASE PublishMysql
    BY <2>7, MysqlPublishStep
  <2>8. CASE StartMysqlIncr \/ CheckGap
    BY <2>8, MysqlIncrStartStep
  <2>9. CASE CaptureBinlog
    BY <2>9, MysqlCaptureStep
  <2>. QED
    BY <2>1, <2>2, <2>3, <2>4, <2>5, <2>6, <2>7, <2>8, <2>9 DEF MysqlNext
<1>. QED
  BY <1>1, <1>2, PTL DEF MysqlSpec

\* What a restore misses or has too lies in one of the known windows.
LEMMA SoundChainsLoseNothingElse == MysqlInv => MysqlLossIsKnown
<1>. SUFFICES ASSUME MysqlInv, NEW b \in MysqlBases,
                     NEW at \in (mysqlDest[b].snap .. MysqlReach(b)) \cup {Latest}
              PROVE  LET t    == IF at = Latest THEN MysqlReach(b) ELSE at
                         back == run_mysql_pitr(b, at)
                     IN  /\ Changes(1..t) \ back
                              \subseteq Window(b) \cup OfKinds({"partial"}, mysqlDest[b].snap + 1 .. t)
                         /\ back \ Changes(1..t) \subseteq ReadLate(b) \cup BeganEarly(t)
  BY DEF MysqlLossIsKnown
<1>. DEFINE m == mysqlDest[b]
            incrs == IncrementsOf(mysqlDest, b)
            end == EndOf(mysqlDest, b).pos
            late == UNION {mysqlDest[i].data : i \in incrs}
            ends == {mysqlDest[i].coords.pos : i \in incrs} \cup {m.snap}
            reach == MysqlReach(b)
            t == IF at = Latest THEN reach ELSE at
<1>t. /\ mysqlDest \in Seq(MysqlManifests) /\ binlog \in Seq(Txs)
  BY DEF MysqlInv, MysqlTypeOK
<1>b. b \in DOMAIN mysqlDest /\ b \in FullsOf(mysqlDest)
  BY MysqlNames DEF FullsOf
<1>1. m \in MysqlManifests /\ EndOf(mysqlDest, b) \in Coords
  BY <1>t, <1>b, EndOfIsCoords
<1>2. m.snap \in Nat /\ m.read \in Nat /\ m.coords.pos \in Nat /\ end \in Nat
  BY <1>1, ManifestFacts DEF Coords
<1>3. LastTx \in Nat /\ LastTx = Len(binlog)
  BY <1>t DEF LastTx
<1>4. ChainIsSound(binlog, mysqlDest, b)
  BY <1>b DEF MysqlInv, ChainsAreSound
<1>5. /\ m.snap <= m.read /\ m.read <= LastTx /\ m.coords.pos <= end /\ end <= LastTx
      /\ m.locked => m.coords.pos <= m.snap
      /\ KindsAt(binlog, {"row", "noxid", "partial"}, 1 .. m.snap) \subseteq m.data
      /\ m.data \subseteq KindsAt(binlog, {"row", "noxid", "partial"}, 1 .. m.snap)
                           \cup KindsAt(binlog, {"noxid"}, m.snap + 1 .. m.read)
      /\ late = KindsAt(binlog, {"row", "noxid"}, m.coords.pos + 1 .. end)
      /\ \A i \in incrs : mysqlDest[i].coords.pos <= end
  BY <1>4, <1>3 DEF ChainIsSound, FullIsSound
<1>6. \A i \in incrs : mysqlDest[i].coords.pos \in Nat
  <2>1. \A i \in incrs : mysqlDest[i] \in MysqlManifests
    BY <1>t DEF IncrementsOf
  <2>. QED
    BY <2>1, ManifestFacts
<1>7. reach \in ends /\ \A e \in ends : e <= reach
  <2>1. ends \in SUBSET (0 .. LastTx) /\ ends # {}
    BY <1>2, <1>3, <1>5, <1>6
  <2>2. reach = Max(ends)
    BY MysqlNames DEF MysqlReach
  <2>. QED
    BY <2>1, <2>2, <1>3, MaxOfBounded
<1>8. reach \in Nat /\ (reach <= m.snap \/ reach <= end)
  BY <1>2, <1>5, <1>6, <1>7
<1>r. \A n \in late : n <= reach
  <2>. DEFINE last == Max(incrs \cup {b})
  <2>1. last \in incrs \cup {b} /\ end = mysqlDest[last].coords.pos
    <3>1. incrs \cup {b} \in SUBSET DOMAIN mysqlDest
      BY <1>b DEF IncrementsOf
    <3>. QED
      BY <3>1, <1>t, NewestOf DEF EndOf
  <2>2. \A n \in late : n \in m.coords.pos + 1 .. end
    BY <1>5 DEF KindsAt
  <2>3. CASE last \in incrs
    <3>1. end <= reach
      BY <2>1, <2>3, <1>7
    <3>. QED
      BY <2>2, <3>1, <1>2, <1>8
  <2>4. CASE last = b
    <3>1. end = m.coords.pos
      BY <2>1, <2>4
    <3>. QED
      BY <2>2, <3>1, <1>2
  <2>. QED
    BY <2>1, <2>3, <2>4
<1>9. /\ t \in Nat /\ (t <= m.snap \/ t <= end)
      /\ at # Latest => m.snap <= t /\ t = at
      /\ at = Latest => \A e \in ends : e <= t
  <2>1. m.snap .. reach \in SUBSET Nat
    BY <1>2, <1>8
  <2>. QED
    BY <2>1, <1>2, <1>7, <1>8
<1>10. m.snap <= t /\ (at = Latest => t = reach)
  BY <1>9, <1>7
<1>11. run_mysql_pitr(b, at) = m.data \cup {n \in late : at = Latest \/ commit_unix_micros(n) <= at}
  BY MysqlNames DEF run_mysql_pitr
<1>12. /\ Changes(1 .. t) = KindsAt(binlog, {"row", "noxid", "partial"}, 1 .. t)
       /\ OfKinds({"partial"}, m.snap + 1 .. t) = KindsAt(binlog, {"partial"}, m.snap + 1 .. t)
       /\ ReadLate(b) = KindsAt(binlog, {"noxid"}, m.snap + 1 .. m.read)
  BY MysqlNames DEF ReadLate
<1>13. Window(b) = IF m.locked THEN {} ELSE m.snap + 1 .. m.coords.pos
  BY DEF Window
<1>14. \A n \in late : /\ n \in Nat /\ 1 <= n /\ n <= LastTx
                        /\ binlog[n].kind \in {"row", "noxid"}
  BY <1>2, <1>3, <1>5 DEF KindsAt
<1>15. \A n \in 1 .. LastTx : /\ binlog[n].gtid \in BOOLEAN /\ binlog[n].began \in Nat
                               /\ binlog[n].began <= n
  <2>1. \A n \in 1 .. LastTx : binlog[n] \in Txs
    BY <1>3, <1>t
  <2>2. \A n \in 1 .. LastTx : binlog[n].gtid \in BOOLEAN /\ binlog[n].began \in Nat
    BY <2>1 DEF Txs
  <2>3. \A n \in 1 .. LastTx : binlog[n].began <= n
    BY DEF MysqlInv, MysqlTypeOK
  <2>. QED
    BY <2>2, <2>3
<1>. HIDE DEF m, incrs, end, late, ends, reach, t
<1>16. ASSUME NEW n \in KindsAt(binlog, {"row", "noxid", "partial"}, 1 .. t),
              n \notin m.data, n \notin late, n \notin Window(b)
       PROVE  n \in KindsAt(binlog, {"partial"}, m.snap + 1 .. t)
  <2>1. n \in Nat /\ 1 <= n /\ n <= t /\ binlog[n].kind \in {"row", "noxid", "partial"}
    BY <1>9, <1>16 DEF KindsAt
  <2>2. m.snap < n
    BY <2>1, <1>2, <1>5, <1>16 DEF KindsAt
  <2>3. m.coords.pos < n
    BY <2>1, <2>2, <1>2, <1>5, <1>13, <1>16
  <2>4. n <= end
    BY <2>1, <2>2, <1>2, <1>9
  <2>5. binlog[n].kind \notin {"row", "noxid"}
    BY <2>1, <2>3, <2>4, <1>2, <1>5, <1>16 DEF KindsAt
  <2>. QED
    BY <2>1, <2>2, <2>5, <1>2, <1>9 DEF KindsAt
<1>17. ASSUME NEW n \in Changes(1 .. t), n \notin run_mysql_pitr(b, at)
       PROVE  n \in Window(b) \cup OfKinds({"partial"}, m.snap + 1 .. t)
  <2>1. n \in KindsAt(binlog, {"row", "noxid", "partial"}, 1 .. t)
    BY <1>12, <1>17
  <2>2. n \in Nat /\ n <= t
    BY <2>1, <1>9 DEF KindsAt
  <2>3. n \notin m.data /\ (n \in late => at # Latest /\ ~ (commit_unix_micros(n) <= at))
    BY <1>11, <1>17
  <2>4. n \in late => commit_unix_micros(n) \in Nat /\ commit_unix_micros(n) <= n
    BY <2>2, <1>14, <1>15 DEF commit_unix_micros
  <2>5. n \notin late
    BY <2>2, <2>3, <2>4, <1>9
  <2>. QED
    BY <2>1, <2>3, <2>5, <1>12, <1>16
<1>18. ASSUME NEW n \in run_mysql_pitr(b, at), n \notin Changes(1 .. t)
       PROVE  n \in ReadLate(b) \cup BeganEarly(t)
  <2>1. CASE n \in m.data
    <3>1. n \notin KindsAt(binlog, {"row", "noxid", "partial"}, 1 .. m.snap)
      BY <1>2, <1>9, <1>10, <1>12, <1>18 DEF KindsAt
    <3>. QED
      BY <2>1, <3>1, <1>5, <1>12
  <2>2. CASE n \in late /\ (at = Latest \/ commit_unix_micros(n) <= at)
    <3>1. n \in Nat /\ 1 <= n /\ n <= LastTx /\ n \in 1 .. LastTx
      BY <2>2, <1>3, <1>14
    <3>2. ~ (n <= t)
      BY <2>2, <3>1, <1>9, <1>12, <1>14, <1>18 DEF KindsAt
    <3>3. at # Latest /\ t = at /\ commit_unix_micros(n) <= t
      BY <2>2, <3>2, <1>9, <1>10, <1>r
    <3>4. ~ binlog[n].gtid /\ binlog[n].began <= t
      BY <3>1, <3>2, <3>3, <1>15 DEF commit_unix_micros
    <3>5. n \in t + 1 .. LastTx
      BY <3>1, <3>2, <1>3, <1>9
    <3>. QED
      BY <3>4, <3>5 DEF BeganEarly
  <2>. QED
    BY <2>1, <2>2, <1>11, <1>18
<1>. QED
  BY <1>17, <1>18 DEF m, t, reach

\* Whatever is rotated, purged, promoted or aborted, for any number of
\* transactions, files and backups (run_mysql_pitr).
THEOREM MysqlRestoreIsComplete == MysqlSpec => []MysqlLossIsKnown
  BY MysqlInvariance, SoundChainsLoseNothingElse, PTL

--------------------------------------------------------------------------------
(* The chains of the file engine *)

\* The newest among those with the greatest key.
LEMMA GreatestByKey ==
    ASSUME NEW n \in Nat, NEW T \in SUBSET (1..n), T # {}, NEW key \in [T -> 0..n]
    PROVE  \E h \in T : \A i \in T : key[i] < key[h] \/ (key[i] = key[h] /\ i <= h)
<1>. DEFINE K == {key[i] : i \in T}
<1>1. K \in SUBSET (0..n) /\ K # {}
  <2>1. PICK x \in T : TRUE
    OBVIOUS
  <2>2. key[x] \in K
    OBVIOUS
  <2>3. \A i \in T : key[i] \in 0..n
    OBVIOUS
  <2>4. \A k \in K : k \in 0..n
    BY <2>3
  <2>. HIDE DEF K
  <2>. QED
    BY <2>2, <2>4
<1>2. Max(K) \in K /\ \A k \in K : k <= Max(K)
  BY <1>1, MaxOfBounded
<1>. DEFINE top == Max(K)
            U == {i \in T : key[i] = top}
<1>3. PICK x \in T : key[x] = top
  BY <1>2
<1>4. U \in SUBSET (0..n) /\ x \in U
  <2>1. x \in U
    BY <1>3
  <2>2. T \subseteq 0..n
    OBVIOUS
  <2>3. U \subseteq T
    OBVIOUS
  <2>. HIDE DEF U
  <2>. QED
    BY <2>1, <2>2, <2>3
<1>5. Max(U) \in U /\ \A i \in U : i <= Max(U)
  BY <1>4, MaxOfBounded
<1>6. \A i \in T : key[i] \in 0..n /\ key[i] <= top /\ top \in 0..n
  BY <1>1, <1>2
<1>. HIDE DEF K, top
<1>. DEFINE h == Max(U)
<1>7. h \in T /\ key[h] = top /\ \A i \in U : i <= h
  BY <1>5
<1>. HIDE DEF h
<1>8. \A i \in T : key[i] < top \/ (key[i] = top /\ i <= h)
  BY <1>6, <1>7
<1>. QED
  BY <1>7, <1>8

\* The members of the chain of base b.
MembersOf(dest, b) == {b} \cup {i \in DOMAIN dest : dest[i].kind = "incr" /\ dest[i].base = b}

\* What an increment m knows of the head h it was made against: it starts
\* where h ends, touches every path on which their indexes differ, and only a
\* difference makes a generation.
Continues(m, h) ==
    /\ m.start = h.end
    /\ \A p \in Paths \ DOMAIN m.slice : m.index[p] = h.index[p]
    /\ \/ m.end = m.start /\ m.index = h.index
       \/ m.end = m.start + 1

\* Every increment was made against an older member of the chain of its base;
\* generations do not outgrow the ids.
FileDestIsSound(dest) ==
    \A i \in DOMAIN dest :
        /\ dest[i].end \in 1 .. i
        /\ dest[i].kind = "full" => dest[i].end = FILE_CHAIN_START
        /\ dest[i].kind = "incr" =>
             /\ dest[i].base \in DOMAIN dest /\ dest[i].base < i
             /\ dest[dest[i].base].kind = "full"
             /\ \E h \in MembersOf(dest, dest[i].base) : h < i /\ Continues(dest[i], dest[h])

FileRuns == [kind : {"full", "incr"}, base : Nat, start : Nat, end : Nat,
             index : Trees, slice : Slices, readable : BOOLEAN, todo : SUBSET Paths]

\* What the running command has learnt of the head is still true.
FileRunIsSound(dest, step, run) ==
    /\ step = "incr" =>
         /\ run.kind = "incr" /\ run.base \in DOMAIN dest /\ dest[run.base].kind = "full"
         /\ \E h \in MembersOf(dest, run.base) :
              run.start = dest[h].end /\ run.index = dest[h].index
    /\ step = "dump" /\ run.kind = "full" => run.end = FILE_CHAIN_START
    /\ step = "dump" /\ run.kind = "incr" =>
         /\ run.base \in DOMAIN dest /\ dest[run.base].kind = "full"
         /\ \E h \in MembersOf(dest, run.base) :
              /\ run.start = dest[h].end
              /\ \A p \in Paths \ (DOMAIN run.slice \cup run.todo) : run.index[p] = dest[h].index[p]
              /\ \/ run.end = run.start /\ run.index = dest[h].index
                 \/ run.end = run.start + 1

FileInv ==
    /\ FileTypeOK
    /\ fileRun \in FileRuns
    /\ FileDestIsSound(fileDest)
    /\ FileRunIsSound(fileDest, fileStep, fileRun)

\* The entries of a tree are numbers.
LEMMA TreeFacts ==
    /\ NoTree \in Trees
    /\ NoFileRun \in FileRuns
    /\ \A s \in Slices : DOMAIN s \in SUBSET Paths /\ s \in [DOMAIN s -> 0..MaxEntry]
    /\ \A D \in SUBSET Paths : \A s \in [D -> 0..MaxEntry] : s \in Slices
<1>0. 0 \in 0 .. MaxEntry
  BY FileChainAssumption
<1>1. NoTree \in Trees
  BY <1>0 DEF NoTree, Trees
<1>2. << >> \in [{} -> 0..MaxEntry]
  OBVIOUS
<1>3. << >> \in Slices
  BY <1>2 DEF Slices
<1>4. NoFileRun \in FileRuns
  BY <1>1, <1>3 DEF NoFileRun, FileRuns
<1>. QED
  BY <1>1, <1>4 DEF Slices

\* What a backup of the file engine is made of.
LEMMA FileBackupFacts ==
    ASSUME NEW m \in FileBackups
    PROVE  /\ m.kind \in {"full", "incr"} /\ m.base \in Nat /\ m.start \in Nat /\ m.end \in Nat
           /\ m.index \in Trees /\ m.slice \in Slices /\ m.readable \in BOOLEAN
  BY DEF FileBackups

\* What a run of the file engine is made of.
LEMMA FileRunFacts ==
    ASSUME NEW m \in FileRuns
    PROVE  /\ m.kind \in {"full", "incr"} /\ m.base \in Nat /\ m.start \in Nat /\ m.end \in Nat
           /\ m.index \in Trees /\ m.slice \in Slices /\ m.readable \in BOOLEAN
           /\ m.todo \in SUBSET Paths
  BY DEF FileRuns

\* The manifest of a run is what the run has learnt.
LEMMA ManifestOfRun ==
    ASSUME NEW run \in FileRuns
    PROVE  LET m == [f \in DOMAIN run \ {"todo"} |-> run[f]]
           IN  /\ m \in FileBackups
               /\ m.kind = run.kind /\ m.base = run.base /\ m.start = run.start /\ m.end = run.end
               /\ m.index = run.index /\ m.slice = run.slice
<1>. DEFINE m == [f \in DOMAIN run \ {"todo"} |-> run[f]]
<1>1. DOMAIN run = {"kind", "base", "start", "end", "index", "slice", "readable", "todo"}
  BY DEF FileRuns
<1>2. DOMAIN m = {"kind", "base", "start", "end", "index", "slice", "readable"}
  BY <1>1
<1>3. /\ m.kind = run.kind /\ m.base = run.base /\ m.start = run.start /\ m.end = run.end
      /\ m.index = run.index /\ m.slice = run.slice /\ m.readable = run.readable
  BY <1>1
<1>4. m = [kind |-> run.kind, base |-> run.base, start |-> run.start, end |-> run.end,
           index |-> run.index, slice |-> run.slice, readable |-> run.readable]
  BY <1>1
<1>5. m \in FileBackups
  BY <1>4, FileRunFacts DEF FileBackups
<1>. QED
  BY <1>3, <1>5

\* Fields other than readable are all a chain is about.
SameBackup(m, n) ==
    /\ m.kind = n.kind /\ m.base = n.base /\ m.start = n.start /\ m.end = n.end
    /\ m.index = n.index /\ m.slice = n.slice

\* A destination whose backups only differ in their archives has the same chains.
LEMMA SameBackupsSameChains ==
    ASSUME NEW dest, NEW other, DOMAIN other = DOMAIN dest,
           \A i \in DOMAIN dest : SameBackup(other[i], dest[i]),
           FileDestIsSound(dest)
    PROVE  /\ FileDestIsSound(other)
           /\ \A b : MembersOf(other, b) = MembersOf(dest, b)
<1>1. \A b : MembersOf(other, b) = MembersOf(dest, b)
  BY DEF SameBackup, MembersOf
<1>2. ASSUME NEW i \in DOMAIN other, other[i].kind = "incr"
      PROVE  /\ other[i].base \in DOMAIN other /\ other[i].base < i
             /\ other[other[i].base].kind = "full"
             /\ \E h \in MembersOf(other, other[i].base) : h < i /\ Continues(other[i], other[h])
  <2>1. dest[i].kind = "incr" /\ other[i].base = dest[i].base
    BY <1>2 DEF SameBackup
  <2>2. PICK h \in MembersOf(dest, dest[i].base) : h < i /\ Continues(dest[i], dest[h])
    BY <2>1 DEF FileDestIsSound
  <2>3. dest[i].base \in DOMAIN dest /\ dest[i].base < i /\ dest[dest[i].base].kind = "full"
    BY <2>1 DEF FileDestIsSound
  <2>4. h \in DOMAIN dest
    BY <2>3 DEF MembersOf
  <2>5. Continues(other[i], other[h])
    BY <2>2, <2>4 DEF Continues, SameBackup
  <2>. QED
    BY <1>1, <2>1, <2>2, <2>3, <2>5 DEF SameBackup
<1>3. \A i \in DOMAIN other :
        other[i].end \in 1 .. i /\ (other[i].kind = "full" => other[i].end = FILE_CHAIN_START)
  BY DEF FileDestIsSound, SameBackup
<1>. QED
  BY <1>1, <1>2, <1>3 DEF FileDestIsSound

\* A manifest that continues an older member, or starts a chain, keeps the rest
\* as it is.
LEMMA PublishKeepsChains ==
    ASSUME NEW dest \in Seq(FileBackups), NEW m \in FileBackups, FileDestIsSound(dest),
           m.kind = "full" => m.end = FILE_CHAIN_START,
           m.kind = "incr" =>
             /\ m.base \in DOMAIN dest /\ dest[m.base].kind = "full"
             /\ \E h \in MembersOf(dest, m.base) : Continues(m, dest[h])
    PROVE  FileDestIsSound(Append(dest, m))
<1>. DEFINE new == Append(dest, m)
            n == Len(dest) + 1
<1>a. /\ DOMAIN new = DOMAIN dest \cup {n} /\ n \notin DOMAIN dest
      /\ \A i \in DOMAIN dest : new[i] = dest[i]
      /\ new[n] = m /\ n \in Nat /\ 1 <= n
      /\ \A i \in DOMAIN dest : i \in Nat /\ i < n /\ 1 <= i
  OBVIOUS
<1>. HIDE DEF new, n
<1>1. \A b : MembersOf(dest, b) \subseteq MembersOf(new, b)
  BY <1>a DEF MembersOf
<1>2. ASSUME NEW i \in DOMAIN dest
      PROVE  /\ new[i].end \in 1 .. i
             /\ new[i].kind = "full" => new[i].end = FILE_CHAIN_START
             /\ new[i].kind = "incr" =>
                  /\ new[i].base \in DOMAIN new /\ new[i].base < i
                  /\ new[new[i].base].kind = "full"
                  /\ \E h \in MembersOf(new, new[i].base) : h < i /\ Continues(new[i], new[h])
  <2>1. new[i] = dest[i]
    BY <1>a
  <2>2. CASE dest[i].kind = "incr"
    <3>1. /\ dest[i].base \in DOMAIN dest /\ dest[i].base < i
          /\ dest[dest[i].base].kind = "full"
      BY <2>2 DEF FileDestIsSound
    <3>2. PICK h \in MembersOf(dest, dest[i].base) : h < i /\ Continues(dest[i], dest[h])
      BY <2>2 DEF FileDestIsSound
    <3>3. h \in DOMAIN dest /\ new[h] = dest[h]
      BY <3>1, <1>a DEF MembersOf
    <3>4. h \in MembersOf(new, new[i].base) /\ Continues(new[i], new[h])
      BY <3>2, <3>3, <2>1, <1>1
    <3>5. new[new[i].base].kind = "full" /\ new[i].base \in DOMAIN new
      BY <3>1, <2>1, <1>a
    <3>. QED
      BY <2>1, <2>2, <3>1, <3>2, <3>4, <3>5 DEF FileDestIsSound
  <2>3. CASE dest[i].kind # "incr"
    BY <2>1, <2>3 DEF FileDestIsSound
  <2>. QED
    BY <2>2, <2>3
<1>3. /\ new[n].end \in 1 .. n
      /\ new[n].kind = "full" => new[n].end = FILE_CHAIN_START
      /\ new[n].kind = "incr" =>
           /\ new[n].base \in DOMAIN new /\ new[n].base < n
           /\ new[new[n].base].kind = "full"
           /\ \E h \in MembersOf(new, new[n].base) : h < n /\ Continues(new[n], new[h])
  <2>1. CASE m.kind = "incr"
    <3>1. PICK h \in MembersOf(dest, m.base) : Continues(m, dest[h])
      BY <2>1
    <3>2. m.base \in DOMAIN dest /\ dest[m.base].kind = "full"
      BY <2>1
    <3>3. h \in DOMAIN dest /\ new[h] = dest[h] /\ h < n
      BY <3>2, <1>a DEF MembersOf
    <3>4. h \in MembersOf(new, new[n].base) /\ Continues(new[n], new[h])
      BY <3>1, <3>3, <1>a, <1>1
    <3>5. dest[h].end \in 1 .. h
      BY <3>3 DEF FileDestIsSound
    <3>6. m.end \in 1 .. n
      BY <3>1, <3>3, <3>5, <1>a DEF Continues
    <3>. QED
      BY <2>1, <3>2, <3>3, <3>4, <3>6, <1>a
  <2>2. CASE m.kind # "incr"
    <3>1. m.kind = "full"
      BY <2>2, FileBackupFacts
    <3>. QED
      BY <2>2, <3>1, <1>a DEF FILE_CHAIN_START
  <2>. QED
    BY <2>1, <2>2
<1>. QED
  BY <1>a, <1>2, <1>3 DEF FileDestIsSound, new

\* An empty destination has nothing to be wrong about.
LEMMA FileInitInv == FileInit => FileInv
<1>. SUFFICES ASSUME FileInit PROVE FileInv
  OBVIOUS
<1>1. FileTypeOK
  <2>1. <<>> \in Seq(FileBackups) /\ 0 \in 0 .. MaxEntry
    BY FileChainAssumption
  <2>2. fileRun.todo = {}
    BY DEF FileInit, NoFileRun
  <2>. QED
    BY <2>1, <2>2, TreeFacts DEF FileInit, FileTypeOK
<1>2. DOMAIN fileDest = {}
  BY DEF FileInit
<1>3. FileDestIsSound(fileDest)
  BY <1>2 DEF FileDestIsSound
<1>. QED
  BY <1>1, <1>3, TreeFacts DEF FileInit, FileInv, FileRunIsSound

\* The source tree changes: a manifest and a run hold the index of an earlier
\* moment.
LEMMA FileTreeStep ==
    ASSUME FileInv, NEW p \in Paths, WriteFile(p) \/ TakeAway(p) \/ ReturnFile(p)
    PROVE  FileInv'
<1>t. tree \in [Paths -> 0..MaxEntry] /\ away \in [Paths -> 0..MaxEntry] /\ written \in 0 .. MaxEntry
  BY DEF FileInv, FileTypeOK, Trees
<1>0. MaxEntry \in Nat
  BY FileChainAssumption
<1>1. UNCHANGED <<fileDest, fileStep, fileRun>>
  BY DEF WriteFile, TakeAway, ReturnFile
<1>2. tree' \in Trees /\ away' \in Trees /\ written' \in 0 .. MaxEntry
  <2>1. CASE WriteFile(p)
    <3>1. written + 1 \in 0 .. MaxEntry
      BY <2>1, <1>t, <1>0 DEF WriteFile
    <3>. QED
      BY <2>1, <3>1, <1>t DEF WriteFile, Trees
  <2>2. CASE TakeAway(p)
    BY <2>2, <1>t, <1>0 DEF TakeAway, Trees
  <2>3. CASE ReturnFile(p)
    BY <2>3, <1>t DEF ReturnFile, Trees
  <2>. QED
    BY <2>1, <2>2, <2>3
<1>. QED
  BY <1>1, <1>2 DEF FileInv, FileTypeOK

\* A sidecar is lost: no chain is about it.
LEMMA FileLoseStep ==
    ASSUME FileInv, NEW i \in DOMAIN fileDest, LoseIndex(i)
    PROVE  FileInv'
<1>t. fileDest \in Seq(FileBackups) /\ fileRun \in FileRuns
  BY DEF FileInv, FileTypeOK
<1>1. /\ UNCHANGED <<tree, written, away, fileStep, fileRun>>
      /\ fileDest' = [fileDest EXCEPT ![i].readable = FALSE]
  BY DEF LoseIndex
<1>. DEFINE m == [fileDest[i] EXCEPT !.readable = FALSE]
<1>2. fileDest[i] \in FileBackups
  BY <1>t
<1>3. m \in FileBackups /\ SameBackup(m, fileDest[i])
  BY <1>2 DEF FileBackups, SameBackup
<1>4. fileDest' = [fileDest EXCEPT ![i] = m]
  BY <1>1
<1>. HIDE DEF m
<1>5. fileDest' \in Seq(FileBackups) /\ DOMAIN fileDest' = DOMAIN fileDest
  BY <1>t, <1>3, <1>4
<1>6. \A j \in DOMAIN fileDest : SameBackup(fileDest'[j], fileDest[j])
  BY <1>t, <1>3, <1>4 DEF SameBackup
<1>7. FileDestIsSound(fileDest)
  BY DEF FileInv
<1>8. FileDestIsSound(fileDest') /\ \A b : MembersOf(fileDest', b) = MembersOf(fileDest, b)
  BY <1>5, <1>6, <1>7, SameBackupsSameChains
<1>9. FileRunIsSound(fileDest', fileStep', fileRun')
  <2>1. FileRunIsSound(fileDest, fileStep, fileRun)
    BY DEF FileInv
  <2>2. \A b \in DOMAIN fileDest : MembersOf(fileDest, b) \subseteq DOMAIN fileDest
    BY DEF MembersOf
  <2>3. CASE fileStep = "incr"
    <3>1. /\ fileRun.kind = "incr" /\ fileRun.base \in DOMAIN fileDest
          /\ fileDest[fileRun.base].kind = "full"
      BY <2>1, <2>3 DEF FileRunIsSound
    <3>2. PICK h \in MembersOf(fileDest, fileRun.base) :
            fileRun.start = fileDest[h].end /\ fileRun.index = fileDest[h].index
      BY <2>1, <2>3 DEF FileRunIsSound
    <3>3. fileRun.start = fileDest'[h].end /\ fileRun.index = fileDest'[h].index
      BY <2>2, <3>1, <3>2, <1>6 DEF SameBackup
    <3>4. fileDest'[fileRun.base].kind = "full"
      BY <3>1, <1>6 DEF SameBackup
    <3>. QED
      BY <2>3, <3>1, <3>3, <3>4, <1>1, <1>5, <1>8 DEF FileRunIsSound
  <2>4. CASE fileStep = "dump" /\ fileRun.kind = "incr"
    <3>1. fileRun.base \in DOMAIN fileDest /\ fileDest[fileRun.base].kind = "full"
      BY <2>1, <2>4 DEF FileRunIsSound
    <3>2. PICK h \in MembersOf(fileDest, fileRun.base) :
            /\ fileRun.start = fileDest[h].end
            /\ \A p \in Paths \ (DOMAIN fileRun.slice \cup fileRun.todo) :
                  fileRun.index[p] = fileDest[h].index[p]
            /\ \/ fileRun.end = fileRun.start /\ fileRun.index = fileDest[h].index
               \/ fileRun.end = fileRun.start + 1
      BY <2>1, <2>4 DEF FileRunIsSound
    <3>3. fileDest'[h].end = fileDest[h].end /\ fileDest'[h].index = fileDest[h].index
      BY <2>2, <3>1, <1>6 DEF SameBackup
    <3>4. fileDest'[fileRun.base].kind = "full"
      BY <3>1, <1>6 DEF SameBackup
    <3>. QED
      BY <2>4, <3>1, <3>2, <3>3, <3>4, <1>1, <1>5, <1>8 DEF FileRunIsSound
  <2>5. CASE fileStep # "incr" /\ ~ (fileStep = "dump" /\ fileRun.kind = "incr")
    BY <2>1, <2>5, <1>1 DEF FileRunIsSound
  <2>. QED
    BY <2>3, <2>4, <2>5
<1>10. FileTypeOK'
  BY <1>1, <1>5 DEF FileInv, FileTypeOK
<1>. QED
  BY <1>1, <1>t, <1>8, <1>9, <1>10 DEF FileInv

\* The head of the visible chain is a member of it.
LEMMA HeadIsMember ==
    ASSUME FileInv, NEW visible \in SUBSET DOMAIN fileDest, FileFulls(visible) # {}
    PROVE  LET base == Max(FileFulls(visible))
           IN  /\ base \in DOMAIN fileDest /\ fileDest[base].kind = "full" /\ base \in Nat
               /\ collect_file_chain(visible) \in MembersOf(fileDest, base)
               /\ collect_file_chain(visible) \in DOMAIN fileDest
<1>. DEFINE base == Max(FileFulls(visible))
            members == FileIncrs(base, visible) \cup {base}
            n == Len(fileDest)
            key == [i \in members |-> fileDest[i].end]
<1>t. fileDest \in Seq(FileBackups) /\ n \in Nat /\ DOMAIN fileDest = 1 .. n
  BY DEF FileInv, FileTypeOK
<1>. HIDE DEF n
<1>1. FileFulls(visible) \in SUBSET (0 .. n) /\ FileFulls(visible) \in SUBSET DOMAIN fileDest
  BY <1>t DEF FileFulls
<1>2. base \in FileFulls(visible)
  BY <1>1, <1>t, MaxOfBounded
<1>. HIDE DEF base
<1>3. base \in DOMAIN fileDest /\ fileDest[base].kind = "full" /\ base \in Nat
  BY <1>1, <1>2, <1>t DEF FileFulls
<1>4. members \in SUBSET (1 .. n) /\ members # {}
  BY <1>3, <1>t DEF FileIncrs
<1>5. \A i \in members : fileDest[i].end \in 0 .. n
  <2>1. \A i \in DOMAIN fileDest : fileDest[i].end \in 1 .. i
    BY DEF FileInv, FileDestIsSound
  <2>. QED
    BY <2>1, <1>4, <1>t
<1>6. members \subseteq MembersOf(fileDest, base)
  BY <1>3 DEF FileIncrs, MembersOf
<1>7. collect_file_chain(visible)
        = CHOOSE h \in members : \A i \in members :
            \/ fileDest[i].end < fileDest[h].end
            \/ fileDest[i].end = fileDest[h].end /\ i <= h
  BY DEF collect_file_chain, base
<1>. HIDE DEF members
<1>8. key \in [members -> 0 .. n] /\ \A i \in members : key[i] = fileDest[i].end
  BY <1>5
<1>. HIDE DEF key
<1>9. \E h \in members : \A i \in members : key[i] < key[h] \/ (key[i] = key[h] /\ i <= h)
  BY <1>4, <1>8, <1>t, GreatestByKey
<1>10. \E h \in members : \A i \in members :
            \/ fileDest[i].end < fileDest[h].end
            \/ fileDest[i].end = fileDest[h].end /\ i <= h
  BY <1>8, <1>9
<1>11. collect_file_chain(visible) \in members
  BY <1>7, <1>10
<1>12. members \subseteq DOMAIN fileDest
  BY <1>4, <1>t
<1>. QED
  BY <1>3, <1>6, <1>11, <1>12 DEF base

\* The steps before a path is archived.
LEMMA FileStartStep ==
    ASSUME FileInv, StartFileFull \/ IndexForFull \/ StartFileIncr \/ AbortFileBackup
    PROVE  FileInv'
<1>t. fileDest \in Seq(FileBackups) /\ fileRun \in FileRuns /\ tree \in Trees
  BY DEF FileInv, FileTypeOK
<1>1. UNCHANGED <<tree, written, away, fileDest>>
  BY DEF StartFileFull, IndexForFull, StartFileIncr, AbortFileBackup
<1>2. /\ fileRun' \in FileRuns /\ fileStep' \in {"idle", "full", "incr", "dump"}
      /\ FileRunIsSound(fileDest, fileStep', fileRun')
  <2>1. CASE StartFileFull
    BY <2>1, <1>t DEF StartFileFull, FileRunIsSound
  <2>2. CASE AbortFileBackup
    BY <2>2, TreeFacts DEF AbortFileBackup, FileRunIsSound
  <2>3. CASE IndexForFull
    <3>1. /\ fileStep' = "dump"
          /\ fileRun' = [NoFileRun EXCEPT !.start = FILE_CHAIN_START, !.end = FILE_CHAIN_START,
                                          !.index = tree, !.todo = Paths]
      BY <2>3 DEF IndexForFull
    <3>2. fileRun' \in FileRuns /\ fileRun'.kind = "full" /\ fileRun'.end = FILE_CHAIN_START
      BY <3>1, <1>t, TreeFacts DEF FileRuns, NoFileRun, FILE_CHAIN_START
    <3>. QED
      BY <3>1, <3>2 DEF FileRunIsSound
  <2>4. CASE StartFileIncr
    <3>1. PICK hidden \in 0 .. Len(fileDest) :
            LET visible == DOMAIN fileDest \ {hidden} IN
            /\ FileFulls(visible) # {}
            /\ LET head == collect_file_chain(visible) IN
               \/ /\ fileDest[head].readable
                  /\ fileStep' = "incr"
                  /\ fileRun' = [NoFileRun EXCEPT
                       !.kind = "incr", !.base = Max(FileFulls(visible)),
                       !.start = fileDest[head].end, !.index = fileDest[head].index]
               \/ /\ ~ fileDest[head].readable
                  /\ fileStep' = "full"
                  /\ fileRun' = fileRun
      BY <2>4 DEF StartFileIncr
    <3>. DEFINE visible == DOMAIN fileDest \ {hidden}
                base == Max(FileFulls(visible))
                head == collect_file_chain(visible)
    <3>2. visible \in SUBSET DOMAIN fileDest /\ FileFulls(visible) # {}
      BY <3>1
    <3>3. /\ base \in DOMAIN fileDest /\ fileDest[base].kind = "full" /\ base \in Nat
          /\ head \in MembersOf(fileDest, base) /\ head \in DOMAIN fileDest
      BY <3>2, HeadIsMember
    <3>4. \/ /\ fileStep' = "incr"
             /\ fileRun' = [NoFileRun EXCEPT
                  !.kind = "incr", !.base = base,
                  !.start = fileDest[head].end, !.index = fileDest[head].index]
          \/ fileStep' = "full" /\ fileRun' = fileRun
      BY <3>1
    <3>. HIDE DEF visible, base, head
    <3>5. fileDest[head].end \in Nat /\ fileDest[head].index \in Trees
      <4>1. fileDest[head] \in FileBackups
        BY <3>3, <1>t
      <4>. QED
        BY <4>1, FileBackupFacts
    <3>6. CASE /\ fileStep' = "incr"
               /\ fileRun' = [NoFileRun EXCEPT
                    !.kind = "incr", !.base = base,
                    !.start = fileDest[head].end, !.index = fileDest[head].index]
      <4>1. /\ fileRun' \in FileRuns /\ fileRun'.kind = "incr" /\ fileRun'.base = base
            /\ fileRun'.start = fileDest[head].end /\ fileRun'.index = fileDest[head].index
        BY <3>3, <3>5, <3>6, TreeFacts DEF FileRuns, NoFileRun
      <4>. QED
        BY <3>3, <3>6, <4>1 DEF FileRunIsSound
    <3>7. CASE fileStep' = "full" /\ fileRun' = fileRun
      BY <3>7, <1>t DEF FileRunIsSound
    <3>. QED
      BY <3>4, <3>6, <3>7
  <2>. QED
    BY <2>1, <2>2, <2>3, <2>4
<1>3. fileRun'.todo \subseteq Paths
  BY <1>2, FileRunFacts
<1>4. FileTypeOK'
  BY <1>1, <1>2, <1>3 DEF FileInv, FileTypeOK
<1>. QED
  BY <1>1, <1>2, <1>4 DEF FileInv

\* The increment is the difference of two indexes.
LEMMA FileIndexStep ==
    ASSUME FileInv, IndexForIncr
    PROVE  FileInv'
<1>t. fileDest \in Seq(FileBackups) /\ fileRun \in FileRuns /\ tree \in Trees
  BY DEF FileInv, FileTypeOK
<1>1. UNCHANGED <<tree, written, away, fileDest>> /\ fileStep = "incr" /\ fileStep' = "dump"
  BY DEF IndexForIncr
<1>. DEFINE changed == diff_from(tree, fileRun.index)
            gone == {q \in changed : tree[q] = 0}
            slice == [p \in gone |-> 0]
            todo == {p \in changed : tree[p] # 0}
            end == IF changed = {} THEN fileRun.start ELSE fileRun.start + 1
<1>2. fileRun' = [fileRun EXCEPT !.index = tree, !.slice = slice, !.todo = todo, !.end = end]
  BY DEF IndexForIncr
<1>3. changed \in SUBSET Paths /\ \A p \in Paths \ changed : tree[p] = fileRun.index[p]
  BY DEF diff_from
<1>4. gone \in SUBSET Paths /\ todo \in SUBSET Paths /\ gone \cup todo = changed
  BY <1>3
<1>5. slice \in Slices /\ DOMAIN slice = gone
  <2>1. 0 \in 0 .. MaxEntry
    BY FileChainAssumption
  <2>2. slice \in [gone -> 0 .. MaxEntry]
    BY <2>1
  <2>. QED
    BY <2>2, <1>4, TreeFacts
<1>6. end \in Nat
  BY <1>t, FileRunFacts
<1>7. changed = {} => tree = fileRun.index /\ end = fileRun.start
  <2>1. fileRun.index \in [Paths -> 0..MaxEntry] /\ tree \in [Paths -> 0..MaxEntry]
    BY <1>t, FileRunFacts DEF Trees
  <2>. QED
    BY <2>1, <1>3
<1>8. changed # {} => end = fileRun.start + 1
  OBVIOUS
<1>. HIDE DEF changed, gone, slice, todo, end
<1>9. /\ fileRun' \in FileRuns
      /\ fileRun'.kind = fileRun.kind /\ fileRun'.base = fileRun.base
      /\ fileRun'.start = fileRun.start /\ fileRun'.end = end /\ fileRun'.index = tree
      /\ fileRun'.slice = slice /\ fileRun'.todo = todo
  BY <1>2, <1>4, <1>5, <1>6, <1>t DEF FileRuns
<1>10. /\ fileRun.kind = "incr" /\ fileRun.base \in DOMAIN fileDest
       /\ fileDest[fileRun.base].kind = "full"
  BY <1>1 DEF FileInv, FileRunIsSound
<1>11. PICK h \in MembersOf(fileDest, fileRun.base) :
         fileRun.start = fileDest[h].end /\ fileRun.index = fileDest[h].index
  BY <1>1 DEF FileInv, FileRunIsSound
<1>12. \A p \in Paths \ (DOMAIN fileRun'.slice \cup fileRun'.todo) :
          fileRun'.index[p] = fileDest[h].index[p]
  BY <1>3, <1>4, <1>5, <1>9, <1>11
<1>13. \/ fileRun'.end = fileRun'.start /\ fileRun'.index = fileDest[h].index
       \/ fileRun'.end = fileRun'.start + 1
  BY <1>7, <1>8, <1>9, <1>11
<1>14. FileRunIsSound(fileDest, fileStep', fileRun')
  BY <1>1, <1>9, <1>10, <1>11, <1>12, <1>13 DEF FileRunIsSound
<1>15. FileTypeOK'
  BY <1>1, <1>4, <1>9 DEF FileInv, FileTypeOK
<1>. QED
  BY <1>1, <1>9, <1>14, <1>15 DEF FileInv

\* A path goes into the archive: it is touched from now on.
LEMMA FileArchiveStep ==
    ASSUME FileInv, NEW p \in Paths, ArchivePath(p)
    PROVE  FileInv'
<1>t. fileDest \in Seq(FileBackups) /\ fileRun \in FileRuns /\ tree \in [Paths -> 0..MaxEntry]
  BY DEF FileInv, FileTypeOK, Trees
<1>. DEFINE touched == DOMAIN fileRun.slice \cup {p}
            slice == [q \in touched |-> IF q = p THEN tree[p] ELSE fileRun.slice[q]]
            todo == fileRun.todo \ {p}
<1>1. /\ UNCHANGED <<tree, written, away, fileDest, fileStep>> /\ fileStep = "dump"
      /\ fileRun' = [fileRun EXCEPT !.todo = todo, !.slice = slice]
  BY DEF ArchivePath
<1>2. fileRun.slice \in Slices /\ fileRun.todo \in SUBSET Paths
  BY <1>t, FileRunFacts
<1>3. slice \in Slices /\ DOMAIN slice = touched
  <2>1. DOMAIN fileRun.slice \in SUBSET Paths
        /\ fileRun.slice \in [DOMAIN fileRun.slice -> 0..MaxEntry]
    BY <1>2, TreeFacts
  <2>2. slice \in [touched -> 0..MaxEntry] /\ touched \in SUBSET Paths
    BY <2>1, <1>t
  <2>. QED
    BY <2>2, TreeFacts
<1>4. todo \in SUBSET Paths
  BY <1>2
<1>5. touched \cup todo = DOMAIN fileRun.slice \cup fileRun.todo \cup {p}
  OBVIOUS
<1>. HIDE DEF touched, slice, todo
<1>6. /\ fileRun' \in FileRuns
      /\ fileRun'.kind = fileRun.kind /\ fileRun'.base = fileRun.base
      /\ fileRun'.start = fileRun.start /\ fileRun'.end = fileRun.end
      /\ fileRun'.index = fileRun.index
      /\ fileRun'.slice = slice /\ fileRun'.todo = todo
  BY <1>1, <1>3, <1>4, <1>t DEF FileRuns
<1>7. FileRunIsSound(fileDest, fileStep', fileRun')
  <2>1. FileRunIsSound(fileDest, fileStep, fileRun)
    BY DEF FileInv
  <2>2. CASE fileRun.kind = "incr"
    <3>1. fileRun.base \in DOMAIN fileDest /\ fileDest[fileRun.base].kind = "full"
      BY <2>1, <2>2, <1>1 DEF FileRunIsSound
    <3>2. PICK h \in MembersOf(fileDest, fileRun.base) :
            /\ fileRun.start = fileDest[h].end
            /\ \A q \in Paths \ (DOMAIN fileRun.slice \cup fileRun.todo) :
                  fileRun.index[q] = fileDest[h].index[q]
            /\ \/ fileRun.end = fileRun.start /\ fileRun.index = fileDest[h].index
               \/ fileRun.end = fileRun.start + 1
      BY <2>1, <2>2, <1>1 DEF FileRunIsSound
    <3>3. \A q \in Paths \ (DOMAIN fileRun'.slice \cup fileRun'.todo) :
             fileRun'.index[q] = fileDest[h].index[q]
      BY <3>2, <1>3, <1>5, <1>6
    <3>. QED
      BY <2>2, <3>1, <3>2, <3>3, <1>1, <1>6 DEF FileRunIsSound
  <2>3. CASE fileRun.kind # "incr"
    BY <2>1, <2>3, <1>1, <1>6 DEF FileRunIsSound
  <2>. QED
    BY <2>2, <2>3
<1>8. FileTypeOK'
  BY <1>1, <1>4, <1>6 DEF FileInv, FileTypeOK
<1>. QED
  BY <1>1, <1>6, <1>7, <1>8 DEF FileInv

\* The manifest is stored once every path is archived.
LEMMA FilePublishStep ==
    ASSUME FileInv, PublishFileBackup
    PROVE  FileInv'
<1>. DEFINE m == [f \in DOMAIN fileRun \ {"todo"} |-> fileRun[f]]
<1>t. fileDest \in Seq(FileBackups) /\ fileRun \in FileRuns
  BY DEF FileInv, FileTypeOK
<1>1. /\ UNCHANGED <<tree, written, away>> /\ fileStep = "dump" /\ fileRun.todo = {}
      /\ fileDest' = Append(fileDest, m)
      /\ fileStep' = "idle" /\ fileRun' = NoFileRun
  BY DEF PublishFileBackup
<1>2. /\ m \in FileBackups
      /\ m.kind = fileRun.kind /\ m.base = fileRun.base /\ m.start = fileRun.start
      /\ m.end = fileRun.end /\ m.index = fileRun.index /\ m.slice = fileRun.slice
  BY <1>t, ManifestOfRun
<1>. HIDE DEF m
<1>3. FileDestIsSound(fileDest) /\ FileRunIsSound(fileDest, fileStep, fileRun)
  BY DEF FileInv
<1>4. m.kind = "full" => m.end = FILE_CHAIN_START
  BY <1>1, <1>2, <1>3 DEF FileRunIsSound
<1>5. m.kind = "incr" =>
        /\ m.base \in DOMAIN fileDest /\ fileDest[m.base].kind = "full"
        /\ \E h \in MembersOf(fileDest, m.base) : Continues(m, fileDest[h])
  <2>. SUFFICES ASSUME m.kind = "incr"
                PROVE  /\ m.base \in DOMAIN fileDest /\ fileDest[m.base].kind = "full"
                       /\ \E h \in MembersOf(fileDest, m.base) : Continues(m, fileDest[h])
    OBVIOUS
  <2>1. fileRun.base \in DOMAIN fileDest /\ fileDest[fileRun.base].kind = "full"
    BY <1>1, <1>2, <1>3 DEF FileRunIsSound
  <2>2. PICK h \in MembersOf(fileDest, fileRun.base) :
          /\ fileRun.start = fileDest[h].end
          /\ \A q \in Paths \ (DOMAIN fileRun.slice \cup fileRun.todo) :
                fileRun.index[q] = fileDest[h].index[q]
          /\ \/ fileRun.end = fileRun.start /\ fileRun.index = fileDest[h].index
             \/ fileRun.end = fileRun.start + 1
    BY <1>1, <1>2, <1>3 DEF FileRunIsSound
  <2>3. Continues(m, fileDest[h])
    BY <2>2, <1>1, <1>2 DEF Continues
  <2>. QED
    BY <2>1, <2>2, <2>3, <1>2
<1>6. FileDestIsSound(Append(fileDest, m))
  BY <1>t, <1>2, <1>3, <1>4, <1>5, PublishKeepsChains
<1>7. FileRunIsSound(fileDest', fileStep', fileRun')
  BY <1>1 DEF FileRunIsSound
<1>8. fileRun' \in FileRuns /\ fileRun'.todo \subseteq Paths
  BY <1>1, TreeFacts, FileRunFacts
<1>9. FileTypeOK'
  BY <1>1, <1>2, <1>8, <1>t DEF FileInv, FileTypeOK
<1>. QED
  BY <1>1, <1>6, <1>7, <1>8, <1>9 DEF FileInv

\* The invariant of the file engine: the index of a chain's newest member is what its
\* archives hold, whatever is written, deleted, lost or away.
THEOREM FileInvariance == FileChainSpec => []FileInv
<1>1. FileInit => FileInv
  BY FileInitInv
<1>2. FileInv /\ [FileNext]_fileVars => FileInv'
  <2>. SUFFICES ASSUME FileInv, [FileNext]_fileVars PROVE FileInv'
    OBVIOUS
  <2>1. CASE UNCHANGED fileVars
    BY <2>1 DEF fileVars, FileInv, FileTypeOK
  <2>2. CASE \E p \in Paths : WriteFile(p) \/ TakeAway(p) \/ ReturnFile(p)
    BY <2>2, FileTreeStep
  <2>3. CASE \E p \in Paths : ArchivePath(p)
    BY <2>3, FileArchiveStep
  <2>4. CASE \E i \in DOMAIN fileDest : LoseIndex(i)
    BY <2>4, FileLoseStep
  <2>5. CASE StartFileFull \/ IndexForFull \/ StartFileIncr \/ AbortFileBackup
    BY <2>5, FileStartStep
  <2>6. CASE IndexForIncr
    BY <2>6, FileIndexStep
  <2>7. CASE PublishFileBackup
    BY <2>7, FilePublishStep
  <2>. QED
    BY <2>1, <2>2, <2>3, <2>4, <2>5, <2>6, <2>7 DEF FileNext
<1>. QED
  BY <1>1, <1>2, PTL DEF FileChainSpec

\* The facts of a chain that verify_file_chain lets through.
Verified(b) ==
    /\ FileInv /\ b \in DOMAIN fileDest /\ fileDest[b].kind = "full"
    /\ verify_file_chain(b)

Slice(b) == FileIncrs(b, DOMAIN fileDest)

\* An increment of base b: it has a head it continues.
LEMMA SliceFacts ==
    ASSUME FileInv, NEW b \in DOMAIN fileDest, fileDest[b].kind = "full"
    PROVE  /\ \A i \in MembersOf(fileDest, b) :
                /\ i \in Nat /\ b <= i /\ i <= Len(fileDest)
                /\ fileDest[i].start \in Nat /\ fileDest[i].end \in Nat
                /\ fileDest[i].end >= FILE_CHAIN_START /\ fileDest[i].end <= i
           /\ MembersOf(fileDest, b) = Slice(b) \cup {b} /\ b \notin Slice(b)
           /\ fileDest[b].end = FILE_CHAIN_START
           /\ \A i \in Slice(b) : \E h \in MembersOf(fileDest, b) :
                h < i /\ Continues(fileDest[i], fileDest[h])
<1>t. fileDest \in Seq(FileBackups) /\ DOMAIN fileDest = 1 .. Len(fileDest)
  BY DEF FileInv, FileTypeOK
<1>1. MembersOf(fileDest, b) = Slice(b) \cup {b} /\ b \notin Slice(b)
  BY DEF MembersOf, Slice, FileIncrs
<1>2. ASSUME NEW i \in Slice(b)
      PROVE  /\ i \in DOMAIN fileDest /\ b < i
             /\ \E h \in MembersOf(fileDest, b) : h < i /\ Continues(fileDest[i], fileDest[h])
  <2>1. i \in DOMAIN fileDest /\ fileDest[i].kind = "incr" /\ fileDest[i].base = b
    BY DEF Slice, FileIncrs
  <2>. QED
    BY <2>1 DEF FileInv, FileDestIsSound
<1>3. fileDest[b].end = FILE_CHAIN_START
  BY DEF FileInv, FileDestIsSound
<1>4. ASSUME NEW i \in MembersOf(fileDest, b)
      PROVE  /\ i \in Nat /\ b <= i /\ i <= Len(fileDest)
             /\ fileDest[i].start \in Nat /\ fileDest[i].end \in Nat
             /\ fileDest[i].end >= FILE_CHAIN_START /\ fileDest[i].end <= i
  <2>1. i \in DOMAIN fileDest /\ b <= i
    BY <1>1, <1>2, <1>t
  <2>2. fileDest[i].end \in 1 .. i
    BY <2>1 DEF FileInv, FileDestIsSound
  <2>3. fileDest[i] \in FileBackups
    BY <2>1, <1>t
  <2>4. fileDest[i].start \in Nat
    BY <2>3, FileBackupFacts
  <2>. QED
    BY <2>1, <2>2, <2>4, <1>t DEF FILE_CHAIN_START
<1>. QED
  BY <1>1, <1>2, <1>3, <1>4

\* The last of some slices.
LEMMA LastOfSlices ==
    ASSUME FileInv, NEW b \in DOMAIN fileDest, fileDest[b].kind = "full",
           NEW T \in SUBSET Slice(b), T # {}
    PROVE  LastOf(T, b) \in T /\ \A j \in T \ {LastOf(T, b)} : Earlier(j, LastOf(T, b))
<1>. DEFINE n == Len(fileDest)
            key == [i \in T |-> fileDest[i].start]
<1>t. fileDest \in Seq(FileBackups) /\ n \in Nat /\ DOMAIN fileDest = 1 .. n
  BY DEF FileInv, FileTypeOK
<1>1. T \in SUBSET (1 .. n) /\ T \subseteq Slice(b)
  BY <1>t DEF Slice, FileIncrs
<1>2. \A i \in T : fileDest[i].start \in 0 .. n
  <2>. SUFFICES ASSUME NEW i \in T PROVE fileDest[i].start \in 0 .. n
    OBVIOUS
  <2>1. PICK h \in MembersOf(fileDest, b) : Continues(fileDest[i], fileDest[h])
    BY <1>1, SliceFacts
  <2>2. fileDest[i].start = fileDest[h].end
    BY <2>1 DEF Continues
  <2>3. h \in Nat /\ h <= n /\ fileDest[h].end \in Nat /\ fileDest[h].end <= h
    BY SliceFacts
  <2>. QED
    BY <2>2, <2>3, <1>t
<1>. HIDE DEF n
<1>3. key \in [T -> 0 .. n] /\ \A i \in T : key[i] = fileDest[i].start
  BY <1>2
<1>. HIDE DEF key
<1>4. PICK h \in T : \A i \in T : key[i] < key[h] \/ (key[i] = key[h] /\ i <= h)
  BY <1>1, <1>3, <1>t, GreatestByKey
<1>5. \A j \in T \ {h} : Earlier(j, h)
  <2>1. \A j \in T \ {h} : j \in Nat /\ h \in Nat /\ j # h
    BY <1>1
  <2>. QED
    BY <1>3, <1>4, <2>1 DEF Earlier
<1>. QED
  BY <1>5 DEF LastOf

\* The members of a chain that verifies and end at the same generation have one
\* index: at most one of them is not an empty slice.
LEMMA OneIndexPerGeneration ==
    ASSUME NEW b, Verified(b), NEW i \in MembersOf(fileDest, b), NEW j \in MembersOf(fileDest, b),
           fileDest[i].end = fileDest[j].end
    PROVE  fileDest[i].index = fileDest[j].index
<1>. DEFINE M == MembersOf(fileDest, b)
            S == Slice(b)
            Odd(x) == {y \in M : y < x /\ fileDest[y].end = fileDest[x].end
                                 /\ fileDest[y].index # fileDest[x].index}
            Bad == {x \in M : Odd(x) # {}}
<1>b. FileInv /\ b \in DOMAIN fileDest /\ fileDest[b].kind = "full" /\ verify_file_chain(b)
  BY DEF Verified
<1>f. /\ \A x \in M : /\ x \in Nat /\ b <= x
                      /\ fileDest[x].start \in Nat /\ fileDest[x].end \in Nat
                      /\ fileDest[x].end >= FILE_CHAIN_START
      /\ M = S \cup {b} /\ b \notin S
      /\ fileDest[b].end = FILE_CHAIN_START
      /\ \A x \in S : \E h \in M : h < x /\ Continues(fileDest[x], fileDest[h])
  BY <1>b, SliceFacts
<1>. HIDE DEF M, S
<1>1. ASSUME Bad # {}
      PROVE  FALSE
  <2>1. Bad \in SUBSET Nat
    BY <1>f
  <2>2. PICK x \in Bad : \A k \in Bad : x <= k
    BY <1>1, <2>1, LeastOfNaturals
  <2>3. x \in M /\ Odd(x) # {} /\ Odd(x) \in SUBSET Nat
    BY <2>2, <1>f
  <2>4. PICK y \in Odd(x) : \A k \in Odd(x) : y <= k
    BY <2>3, LeastOfNaturals
  <2>5. /\ y \in M /\ y < x /\ fileDest[y].end = fileDest[x].end
        /\ fileDest[y].index # fileDest[x].index
    BY <2>4
  <2>6. \A u, v \in M : u < v /\ v < x /\ fileDest[u].end = fileDest[v].end
                          => fileDest[u].index = fileDest[v].index
    <3>. SUFFICES ASSUME NEW u \in M, NEW v \in M, u < v, v < x,
                         fileDest[u].end = fileDest[v].end,
                         fileDest[u].index # fileDest[v].index
                  PROVE  FALSE
      OBVIOUS
    <3>1. v \in Bad
      OBVIOUS
    <3>. QED
      BY <3>1, <2>2, <2>3, <1>f
  <2>7. \A u \in M : u < y /\ fileDest[u].end = fileDest[x].end
                       => fileDest[u].index = fileDest[x].index
    <3>. SUFFICES ASSUME NEW u \in M, u < y, fileDest[u].end = fileDest[x].end,
                         fileDest[u].index # fileDest[x].index
                  PROVE  FALSE
      OBVIOUS
    <3>0. u < x
      BY <2>3, <2>5, <1>f
    <3>1. u \in Odd(x)
      BY <3>0
    <3>. QED
      BY <3>1, <2>4, <2>5, <1>f
  <2>. HIDE DEF Odd, Bad
  <2>8. x \in S /\ x # b
    BY <2>3, <2>5, <1>f
  <2>9. PICK h \in M : h < x /\ Continues(fileDest[x], fileDest[h])
    BY <2>8, <1>f
  <2>10. fileDest[x].end = fileDest[x].start + 1
    <3>. SUFFICES ASSUME fileDest[x].end = fileDest[x].start,
                         fileDest[x].index = fileDest[h].index
                  PROVE  FALSE
      BY <2>9 DEF Continues
    <3>1. fileDest[h].end = fileDest[x].end
      BY <2>9 DEF Continues
    <3>2. h # y
      BY <2>5
    <3>3. fileDest[h].index = fileDest[y].index
      <4>1. h < y \/ y < h
        BY <3>2, <2>5, <2>9, <1>f
      <4>. QED
        BY <4>1, <3>1, <2>5, <2>6, <2>9
    <3>. QED
      BY <3>3, <2>5
  <2>11. y \in S
    <3>1. fileDest[x].start >= FILE_CHAIN_START
      BY <2>9, <1>f DEF Continues
    <3>2. fileDest[x].end # FILE_CHAIN_START
      BY <3>1, <2>10, <2>3, <1>f DEF FILE_CHAIN_START
    <3>. QED
      BY <3>2, <2>5, <1>f
  <2>12. PICK g \in M : g < y /\ Continues(fileDest[y], fileDest[g])
    BY <2>11, <1>f
  <2>13. fileDest[y].end = fileDest[y].start + 1
    <3>. SUFFICES ASSUME fileDest[y].end = fileDest[y].start,
                         fileDest[y].index = fileDest[g].index
                  PROVE  FALSE
      BY <2>12 DEF Continues
    <3>1. fileDest[g].end = fileDest[x].end
      BY <2>5, <2>12 DEF Continues
    <3>2. fileDest[g].index = fileDest[x].index
      BY <3>1, <2>7, <2>12
    <3>. QED
      BY <3>2, <2>5
  <2>14. fileDest[y].start = fileDest[x].start
    BY <2>3, <2>5, <2>10, <2>13, <1>f
  <2>. DEFINE After == {k \in S : k > y /\ fileDest[k].start = fileDest[y].start}
  <2>15. After \in SUBSET Nat /\ x \in After
    BY <2>5, <2>8, <2>14, <1>f
  <2>16. PICK z \in After : \A k \in After : z <= k
    BY <2>15, LeastOfNaturals
  <2>17. z \in S /\ z > y /\ fileDest[z].start = fileDest[y].start /\ z \in Nat
    BY <2>16, <2>15
  <2>. DEFINE T == {k \in S : Earlier(k, z)}
  <2>18. T \in SUBSET S /\ y \in T
    BY <2>11, <2>17 DEF Earlier
  <2>19. LastOf(T, b) \in T /\ \A k \in T \ {LastOf(T, b)} : Earlier(k, LastOf(T, b))
    BY <2>18, <1>b, LastOfSlices DEF S
  <2>20. LastOf(T, b) = y
    <3>. SUFFICES ASSUME LastOf(T, b) # y PROVE FALSE
      OBVIOUS
    <3>. DEFINE l == LastOf(T, b)
    <3>1. l \in S /\ Earlier(l, z) /\ Earlier(y, l)
      BY <2>18, <2>19
    <3>. HIDE DEF l
    <3>2. l \in Nat /\ fileDest[l].start \in Nat /\ fileDest[y].start \in Nat /\ y \in Nat
      BY <3>1, <2>5, <1>f
    <3>3. fileDest[l].start = fileDest[y].start /\ y < l /\ l < z
      BY <3>1, <3>2, <2>17 DEF Earlier
    <3>4. l \in After
      BY <3>1, <3>3
    <3>. QED
      BY <3>2, <3>3, <3>4, <2>16, <2>17
  <2>21. fileDest[LastOf(T, b)].end = fileDest[z].start
    BY <1>b, <2>17 DEF verify_file_chain, S, Slice
  <2>. QED
    BY <2>5, <2>13, <2>17, <2>20, <2>21, <1>f
<1>2. Odd(i) = {} /\ Odd(j) = {}
  BY <1>1 DEF M
<1>3. i \in Nat /\ j \in Nat /\ i \in M /\ j \in M
  BY <1>f DEF M
<1>. QED
  BY <1>2, <1>3

\* A restore takes each path from a backup whose index has it as the index of
\* the backup that is restored.
LEMMA SourceHasTheIndex ==
    ASSUME NEW b, Verified(b), NEW k \in Slice(b), NEW p \in Paths
    PROVE  fileDest[Source(k, p)].index[p] = fileDest[k].index[p]
<1>. DEFINE M == MembersOf(fileDest, b)
            S == Slice(b)
            Touching(x) == {i \in S : (Earlier(i, x) \/ i = x) /\ p \in DOMAIN fileDest[i].slice}
            From(x) == LastOf(Touching(x), b)
            Wrong == {x \in S : fileDest[From(x)].index[p] # fileDest[x].index[p]}
<1>b. FileInv /\ b \in DOMAIN fileDest /\ fileDest[b].kind = "full" /\ verify_file_chain(b)
  BY DEF Verified
<1>f. /\ \A x \in M : /\ x \in Nat /\ b <= x /\ x <= Len(fileDest)
                      /\ fileDest[x].start \in Nat /\ fileDest[x].end \in Nat
      /\ M = S \cup {b} /\ b \notin S
      /\ \A x \in S : \E h \in M : h < x /\ Continues(fileDest[x], fileDest[h])
  BY <1>b, SliceFacts
<1>0. Source(k, p) = From(k)
  <2>1. fileDest[k].kind = "incr" /\ fileDest[k].base = b /\ k # b
    BY <1>f DEF Slice, FileIncrs
  <2>2. BaseOf(k) = b
    BY <2>1 DEF BaseOf
  <2>3. Applied(k) \ {b} = {i \in S : Earlier(i, k) \/ i = k}
    BY <2>1, <2>2, <1>f DEF Applied, Slice
  <2>4. {i \in Applied(k) \ {BaseOf(k)} : p \in DOMAIN fileDest[i].slice} = Touching(k)
    BY <2>2, <2>3
  <2>. QED
    BY <2>2, <2>4 DEF Source
<1>. HIDE DEF M, S
<1>1. ASSUME NEW x \in S, \A y \in S : Earlier(y, x) => y \notin Wrong
      PROVE  x \notin Wrong
  <2>1. x \in Nat /\ fileDest[x].start \in Nat
    BY <1>f
  <2>2. CASE p \in DOMAIN fileDest[x].slice
    <3>1. Touching(x) \in SUBSET S /\ x \in Touching(x)
      BY <2>2
    <3>2. From(x) \in Touching(x) /\ \A j \in Touching(x) \ {From(x)} : Earlier(j, From(x))
      BY <3>1, <1>b, LastOfSlices DEF S
    <3>3. From(x) = x
      <4>. SUFFICES ASSUME From(x) # x PROVE FALSE
        OBVIOUS
      <4>1. Earlier(x, From(x)) /\ Earlier(From(x), x)
        BY <3>1, <3>2
      <4>2. From(x) \in S
        BY <3>1, <3>2
      <4>. HIDE DEF From
      <4>3. From(x) \in Nat /\ fileDest[From(x)].start \in Nat
        BY <4>2, <1>f
      <4>. QED
        BY <4>1, <4>3, <2>1 DEF Earlier
    <3>. QED
      BY <3>3
  <2>3. CASE p \notin DOMAIN fileDest[x].slice
    <3>1. PICK h \in M : Continues(fileDest[x], fileDest[h])
      BY <1>f
    <3>2. fileDest[x].start = fileDest[h].end /\ fileDest[x].index[p] = fileDest[h].index[p]
      BY <2>3, <3>1 DEF Continues
    <3>. DEFINE T == {j \in S : Earlier(j, x)}
                q == LastOf(T, b)
    <3>3. fileDest[q].end = fileDest[x].start
      BY <1>b DEF verify_file_chain, S, Slice
    <3>4. Touching(x) = {i \in T : p \in DOMAIN fileDest[i].slice}
      BY <2>3
    <3>5. CASE T = {}
      <4>1. q = b /\ b \in M
        BY <3>5, <1>f DEF LastOf
      <4>2. fileDest[b].index = fileDest[h].index
        BY <4>1, <3>2, <3>3, OneIndexPerGeneration DEF M
      <4>3. Touching(x) = {}
        BY <3>4, <3>5
      <4>4. From(x) = b
        BY <4>3 DEF LastOf
      <4>. QED
        BY <4>2, <4>4, <3>2
    <3>6. CASE T # {}
      <4>1. T \in SUBSET S
        OBVIOUS
      <4>2. q \in T /\ \A j \in T \ {q} : Earlier(j, q)
        BY <4>1, <3>6, <1>b, LastOfSlices DEF S
      <4>. HIDE DEF q
      <4>3. q \in S /\ q \in M /\ Earlier(q, x)
        BY <4>2, <1>f
      <4>4. q \notin Wrong
        BY <4>3, <1>1
      <4>5. fileDest[q].index = fileDest[h].index
        BY <4>3, <3>2, <3>3, OneIndexPerGeneration DEF M
      <4>6. \A i \in S : Earlier(i, x) <=> (Earlier(i, q) \/ i = q)
        <5>. SUFFICES ASSUME NEW i \in S PROVE Earlier(i, x) <=> (Earlier(i, q) \/ i = q)
          OBVIOUS
        <5>1. i \in Nat /\ fileDest[i].start \in Nat /\ q \in Nat /\ fileDest[q].start \in Nat
          BY <4>3, <1>f
        <5>2. Earlier(i, x) => (Earlier(i, q) \/ i = q)
          BY <4>2
        <5>3. Earlier(i, q) => Earlier(i, x)
          BY <5>1, <2>1, <4>3 DEF Earlier
        <5>. QED
          BY <5>2, <5>3, <4>3
      <4>7. Touching(x) = Touching(q)
        BY <3>4, <4>6
      <4>8. From(x) = From(q)
        BY <4>7
      <4>. QED
        BY <4>3, <4>4, <4>5, <4>8, <3>2
    <3>. QED
      BY <3>5, <3>6
  <2>. QED
    BY <2>2, <2>3
<1>2. ASSUME Wrong # {}
      PROVE  FALSE
  <2>. DEFINE Starts == {fileDest[x].start : x \in Wrong}
  <2>1. Starts \in SUBSET Nat /\ Starts # {}
    <3>1. Wrong \in SUBSET S
      OBVIOUS
    <3>2. \A x \in Wrong : fileDest[x].start \in Nat
      BY <3>1, <1>f
    <3>. HIDE DEF Wrong
    <3>. QED
      BY <3>2, <1>2
  <2>2. PICK s \in Starts : \A y \in Starts : s <= y
    BY <2>1, LeastOfNaturals
  <2>. DEFINE First == {x \in Wrong : fileDest[x].start = s}
  <2>3. First \in SUBSET Nat /\ First # {}
    BY <2>2, <1>f
  <2>4. PICK x \in First : \A y \in First : x <= y
    BY <2>3, LeastOfNaturals
  <2>5. x \in S /\ x \in Wrong /\ fileDest[x].start = s
    BY <2>4
  <2>6. ASSUME NEW y \in S, Earlier(y, x)
        PROVE  y \notin Wrong
    <3>. SUFFICES ASSUME y \in Wrong PROVE FALSE
      OBVIOUS
    <3>. HIDE DEF Wrong
    <3>1. y \in Nat /\ x \in Nat /\ fileDest[y].start \in Nat /\ fileDest[x].start \in Nat
      BY <2>5, <1>f
    <3>2. s <= fileDest[y].start
      BY <2>2
    <3>3. fileDest[y].start = s /\ y < x
      BY <3>1, <3>2, <2>5, <2>6 DEF Earlier
    <3>4. y \in First
      BY <3>3
    <3>. QED
      BY <3>1, <3>3, <3>4, <2>4
  <2>. QED
    BY <1>1, <2>5, <2>6
<1>3. k \in S
  BY DEF S
<1>. QED
  BY <1>0, <1>2, <1>3

\* A restore of such a chain gives the tree its index records.
LEMMA SoundChainsRestore == FileInv => RestoreMatchesIndex
<1>. SUFFICES ASSUME FileInv, NEW k \in DOMAIN fileDest,
                     fileDest[k].kind = "full" \/ verify_file_chain(BaseOf(k)),
                     NEW p \in Paths,
                     fileDest[Source(k, p)].slice[p] = fileDest[Source(k, p)].index[p]
              PROVE  file_chain_restore(k)[p] = fileDest[k].index[p]
  BY DEF RestoreMatchesIndex
<1>t. fileDest[k] \in FileBackups
  BY DEF FileInv, FileTypeOK
<1>1. file_chain_restore(k)[p] = fileDest[Source(k, p)].slice[p]
  BY DEF file_chain_restore
<1>2. fileDest[Source(k, p)].index[p] = fileDest[k].index[p]
  <2>1. CASE fileDest[k].kind = "full"
    <3>1. BaseOf(k) = k
      BY <2>1 DEF BaseOf
    <3>2. Applied(k) \ {BaseOf(k)} = {}
      BY <2>1, <3>1 DEF Applied
    <3>3. Source(k, p) = k
      BY <3>1, <3>2 DEF Source, LastOf
    <3>. QED
      BY <3>3
  <2>2. CASE fileDest[k].kind = "incr"
    <3>. DEFINE b == fileDest[k].base
    <3>1. BaseOf(k) = b
      BY <2>2 DEF BaseOf
    <3>2. b \in DOMAIN fileDest /\ fileDest[b].kind = "full"
      BY <2>2 DEF FileInv, FileDestIsSound
    <3>3. Verified(b)
      BY <2>2, <3>1, <3>2 DEF Verified
    <3>4. k \in Slice(b)
      BY <2>2 DEF Slice, FileIncrs
    <3>. QED
      BY <3>3, <3>4, SourceHasTheIndex
  <2>. QED
    BY <2>1, <2>2, <1>t, FileBackupFacts
<1>. QED
  BY <1>1, <1>2

\* For any tree, any number of backups, and whatever could not be read meanwhile
\* (verify_chain, the restore of a chain).
THEOREM FileRestoreIsIndex == FileChainSpec => []RestoreMatchesIndex
  BY FileInvariance, SoundChainsRestore, PTL

--------------------------------------------------------------------------------
(* The chains of the oplog *)

\* What applying some entries does, for transaction t.
StreamOf(t, entries) ==
    (entries \ ({t.piece} \cup IF t.aborted THEN {t.last} ELSE {}))
    \cup IF {t.piece, t.last} \subseteq entries /\ ~ t.aborted THEN {t.piece} ELSE {}

\* An entry counts by itself unless it belongs to the transaction.
Plain(t, n) == n # t.piece /\ (t.aborted => n # t.last)

\* A full backup holds all that took effect before it began and nothing that
\* took effect after its end.
DumpIsSound(t, m) ==
    ~ m.selective => StreamOf(t, 1 .. m.start) \subseteq m.data /\ m.data \subseteq StreamOf(t, 1 .. m.end)

\* A slice holds the entries of its range from some entry on; what it lacks was
\* rolled over.
RangeIsSound(trimmed, from, upto, data) ==
    /\ data \subseteq from + 1 .. upto
    /\ (from + 1 .. upto) \ data \subseteq trimmed
    /\ \A m \in data : \A n \in from + 1 .. upto : m <= n => n \in data

BaseAt(dest, i) == IF dest[i].kind = "full" THEN i ELSE dest[i].base

SlicesAt(dest, b) == {i \in DOMAIN dest : dest[i].kind = "incr" /\ dest[i].base = b}

BasesAt(dest) == {i \in DOMAIN dest : dest[i].kind = "full" /\ ~ dest[i].selective}

\* A capture for base b that starts at n, with the manifests up to k: the newest
\* of them that is not selective belongs to the chain of b and ends at n.
FollowsTip(dest, k, b, n) ==
    \E j \in 1 .. k :
        /\ ~ dest[j].selective /\ BaseAt(dest, j) = b /\ dest[j].end = n
        /\ \A l \in j + 1 .. k : dest[l].selective

\* The slices of a base lie end to end.
SlicesLieInOrder(dest) ==
    \A b \in BasesAt(dest) : \A i \in SlicesAt(dest, b) :
        /\ b < i /\ dest[b].end <= dest[i].start
        /\ \A j \in SlicesAt(dest, b) : j < i => dest[j].end <= dest[i].start
        /\ \A n \in dest[b].end + 1 .. dest[i].end :
             \E j \in SlicesAt(dest, b) : j <= i /\ n \in dest[j].start + 1 .. dest[j].end

ManifestIsSound(dest, t, trimmed, top, i) ==
    /\ dest[i].start <= dest[i].end /\ dest[i].end <= top
    /\ dest[i].kind = "full" => DumpIsSound(t, dest[i])
    /\ dest[i].kind = "incr" =>
         /\ ~ dest[i].selective
         /\ dest[i].base \in BasesAt(dest)
         /\ FollowsTip(dest, i - 1, dest[i].base, dest[i].start)
         /\ RangeIsSound(trimmed, dest[i].start, dest[i].end, dest[i].data)

BackupsAreSound(dest, t, trimmed, top) ==
    /\ \A i \in DOMAIN dest : ManifestIsSound(dest, t, trimmed, top, i)
    /\ SlicesLieInOrder(dest)

\* The transaction's entries are in the history, its piece first.
TxnIsSound(t, top) ==
    /\ t.piece <= top /\ t.last <= top
    /\ t.last # 0 => t.piece # 0 /\ t.piece < t.last
    /\ t.aborted => t.last # 0

\* What the running command has learnt.
CaptureIsSound ==
    /\ stage \in {"dump", "end"} =>
         /\ cur.start <= Top
         /\ cur.data \subseteq StreamOf(txn, 1 .. Top)
         /\ ~ cur.selective =>
              {n \in StreamOf(txn, 1 .. cur.start) : log[n] \notin cur.todo} \subseteq cur.data
    /\ stage = "end" => cur.todo = {}
    /\ stage \in {"gap", "upper", "find", "drain", "save"} =>
         /\ FollowsTip(backups, Len(backups), cur.base, cur.start)
         /\ cur.base \in BasesAt(backups)
    /\ stage \in {"upper", "find"} => \A n \in cur.start + 1 .. low - 1 : n \in rolled
    /\ stage \in {"find", "drain", "save"} => cur.start <= cur.end /\ cur.end <= Top
    /\ stage \in {"drain", "save"} => RangeIsSound(rolled, cur.start, cur.end, cur.data)

MongoInv ==
    /\ MongoTypeOK
    /\ TxnIsSound(txn, Top)
    /\ BackupsAreSound(backups, txn, rolled, Top)
    /\ CaptureIsSound

Txns == [piece : 0..MaxLog, last : 0..MaxLog, aborted : BOOLEAN]
Curs == [selective : BOOLEAN, base : Nat, start : Nat, end : Nat, todo : SUBSET Colls, data : SUBSET Nat]

\* The types of the model's variables, one fact each.
LEMMA MongoTypes ==
    ASSUME MongoTypeOK
    PROVE  /\ log \in Seq(Colls) /\ Top \in Nat /\ DOMAIN log = 1 .. Top
           /\ txn \in Txns /\ txn.piece \in Nat /\ txn.last \in Nat /\ txn.aborted \in BOOLEAN
           /\ low \in 1 .. Top /\ low \in Nat
           /\ backups \in Seq(Manifests) /\ Len(backups) \in Nat /\ DOMAIN backups = 1 .. Len(backups)
           /\ cur \in Curs /\ cur.selective \in BOOLEAN /\ cur.base \in Nat /\ cur.start \in Nat
           /\ cur.end \in Nat /\ cur.todo \in SUBSET Colls /\ cur.data \in SUBSET Nat
           /\ rolled \in SUBSET Nat
<1>1. /\ log \in Seq(Colls) /\ txn \in Txns /\ low \in 1 .. Top /\ backups \in Seq(Manifests)
      /\ cur \in Curs /\ rolled \in SUBSET Nat
  BY DEF MongoTypeOK, Txns, Curs
<1>2. Top \in Nat /\ DOMAIN log = 1 .. Top
  BY <1>1 DEF Top
<1>3. txn.piece \in Nat /\ txn.last \in Nat /\ txn.aborted \in BOOLEAN
  BY <1>1, MongoAssumption DEF Txns
<1>4. /\ cur.selective \in BOOLEAN /\ cur.base \in Nat /\ cur.start \in Nat
      /\ cur.end \in Nat /\ cur.todo \in SUBSET Colls /\ cur.data \in SUBSET Nat
  BY <1>1 DEF Curs
<1>5. Len(backups) \in Nat /\ DOMAIN backups = 1 .. Len(backups)
  BY <1>1
<1>6. low \in Nat
  BY <1>1, <1>2
<1>. QED
  BY <1>1, <1>2, <1>3, <1>4, <1>5, <1>6

\* What a manifest is made of.
LEMMA MongoManifestFacts ==
    ASSUME NEW m \in Manifests
    PROVE  /\ m.kind \in {"full", "incr"} /\ m.selective \in BOOLEAN /\ m.base \in Nat
           /\ m.start \in Nat /\ m.end \in Nat /\ m.data \in SUBSET Nat
  BY DEF Manifests

\* Before a run, and before the transaction, there is nothing.
LEMMA NoRunFacts ==
    /\ NoRun \in Curs /\ ~ NoRun.selective /\ NoRun.start = 0 /\ NoRun.data = {}
    /\ NoTxn \in Txns /\ NoTxn.piece = 0 /\ NoTxn.last = 0 /\ ~ NoTxn.aborted
  BY MongoAssumption DEF NoRun, Curs, NoTxn, Txns

--------------------------------------------------------------------------------
(* Streams *)

\* What is in a stream: the entries that count by themselves, and a committed piece.
LEMMA StreamFacts ==
    ASSUME NEW t \in Txns, NEW E
    PROVE  /\ \A n : Plain(t, n) => (n \in StreamOf(t, E) <=> n \in E)
           /\ t.piece \in StreamOf(t, E) <=> (t.piece \in E /\ t.last \in E /\ ~ t.aborted)
           /\ \A n : n \in StreamOf(t, E) => n \in E /\ (Plain(t, n) \/ n = t.piece)
  BY DEF StreamOf, Plain

\* More entries, more effects.
LEMMA StreamGrows ==
    ASSUME NEW t \in Txns, NEW E, NEW F, E \subseteq F
    PROVE  StreamOf(t, E) \subseteq StreamOf(t, F)
  BY DEF StreamOf

\* An effect among the first entries took place among them.
LEMMA EffectInTime ==
    ASSUME NEW t \in Txns, NEW n, NEW top \in Nat, n \in StreamOf(t, 1 .. top), TxnIsSound(t, top)
    PROVE  n \in Nat /\ 1 <= n /\ n <= top
  BY StreamFacts

\* A transaction that ends, or begins, changes nothing of what came before.
LEMMA OldStreamsStay ==
    ASSUME NEW t \in Txns, NEW u \in Txns, NEW top \in Nat, TxnIsSound(t, top),
           NEW e \in Nat, e <= top,
           \/ t = NoTxn /\ u.piece = top + 1 /\ u.last = 0 /\ ~ u.aborted
           \/ t.piece > 0 /\ t.last = 0 /\ u.piece = t.piece /\ u.last = top + 1
    PROVE  StreamOf(u, 1 .. e) = StreamOf(t, 1 .. e)
<1>1. t.piece \in Nat /\ t.last \in Nat /\ u.piece \in Nat /\ u.last \in Nat
  BY MongoAssumption DEF Txns
<1>2. top + 1 \notin 1 .. e /\ 0 \notin 1 .. e
  OBVIOUS
<1>3. CASE t = NoTxn /\ u.piece = top + 1 /\ u.last = 0 /\ ~ u.aborted
  <2>1. StreamOf(u, 1 .. e) = 1 .. e
    BY <1>2, <1>3 DEF StreamOf
  <2>2. StreamOf(t, 1 .. e) = 1 .. e
    BY <1>2, <1>3, NoRunFacts DEF StreamOf
  <2>. QED
    BY <2>1, <2>2
<1>4. CASE t.piece > 0 /\ t.last = 0 /\ u.piece = t.piece /\ u.last = top + 1
  <2>0. ~ t.aborted
    BY <1>4 DEF TxnIsSound
  <2>1. StreamOf(u, 1 .. e) = 1 .. e \ {t.piece}
    BY <1>2, <1>4 DEF StreamOf
  <2>2. StreamOf(t, 1 .. e) = 1 .. e \ {t.piece}
    BY <1>2, <1>4, <2>0 DEF StreamOf
  <2>. QED
    BY <2>1, <2>2
<1>. QED
  BY <1>3, <1>4

--------------------------------------------------------------------------------
(* The manifests *)

\* A manifest goes to the end of the destination, which keeps the others.
LEMMA MongoAppendFacts ==
    ASSUME NEW dest \in Seq(Manifests), NEW m \in Manifests
    PROVE  /\ Append(dest, m) \in Seq(Manifests)
           /\ DOMAIN Append(dest, m) = DOMAIN dest \cup {Len(dest) + 1}
           /\ Len(dest) + 1 \notin DOMAIN dest
           /\ \A i \in DOMAIN dest : Append(dest, m)[i] = dest[i]
           /\ Append(dest, m)[Len(dest) + 1] = m
           /\ DOMAIN dest = 1 .. Len(dest) /\ Len(dest) \in Nat
  OBVIOUS

\* What is true of the manifests stays true when the transaction goes on, more
\* is rolled over and the history grows.
LEMMA SoundnessStays ==
    ASSUME NEW dest \in Seq(Manifests), NEW t \in Txns, NEW u \in Txns, NEW trimmed, NEW more,
           NEW top \in Nat, NEW high \in Nat, top <= high, trimmed \subseteq more,
           \A e \in Nat : e <= top => StreamOf(u, 1 .. e) = StreamOf(t, 1 .. e),
           BackupsAreSound(dest, t, trimmed, top)
    PROVE  BackupsAreSound(dest, u, more, high)
<1>1. ASSUME NEW i \in DOMAIN dest
      PROVE  ManifestIsSound(dest, u, more, high, i)
  <2>1. ManifestIsSound(dest, t, trimmed, top, i)
    BY DEF BackupsAreSound
  <2>2. dest[i] \in Manifests
    OBVIOUS
  <2>3. dest[i].start \in Nat /\ dest[i].end \in Nat
    BY <2>2, MongoManifestFacts
  <2>4. dest[i].start <= dest[i].end /\ dest[i].end <= high /\ dest[i].start <= top /\ dest[i].end <= top
    BY <2>1, <2>3 DEF ManifestIsSound
  <2>5. dest[i].kind = "full" => DumpIsSound(u, dest[i])
    <3>1. /\ StreamOf(u, 1 .. dest[i].start) = StreamOf(t, 1 .. dest[i].start)
          /\ StreamOf(u, 1 .. dest[i].end) = StreamOf(t, 1 .. dest[i].end)
      BY <2>3, <2>4
    <3>. QED
      BY <3>1, <2>1 DEF ManifestIsSound, DumpIsSound
  <2>6. dest[i].kind = "incr" =>
          /\ ~ dest[i].selective
          /\ dest[i].base \in BasesAt(dest)
          /\ FollowsTip(dest, i - 1, dest[i].base, dest[i].start)
          /\ RangeIsSound(more, dest[i].start, dest[i].end, dest[i].data)
    BY <2>1 DEF ManifestIsSound, RangeIsSound
  <2>. QED
    BY <2>4, <2>5, <2>6 DEF ManifestIsSound
<1>. QED
  BY <1>1 DEF BackupsAreSound

\* The manifests before a new one keep what they have.
LEMMA OldManifestsStay ==
    ASSUME NEW dest \in Seq(Manifests), NEW m \in Manifests, NEW t, NEW trimmed, NEW top,
           BackupsAreSound(dest, t, trimmed, top), NEW i \in DOMAIN dest
    PROVE  ManifestIsSound(Append(dest, m), t, trimmed, top, i)
<1>. DEFINE new == Append(dest, m)
<1>a. /\ DOMAIN dest \subseteq DOMAIN new /\ \A k \in DOMAIN dest : new[k] = dest[k]
      /\ DOMAIN dest = 1 .. Len(dest) /\ Len(dest) \in Nat
  BY MongoAppendFacts
<1>. HIDE DEF new
<1>1. BasesAt(dest) \subseteq BasesAt(new)
  BY <1>a DEF BasesAt
<1>2. ManifestIsSound(dest, t, trimmed, top, i)
  BY DEF BackupsAreSound
<1>3. dest[i].kind = "incr" => FollowsTip(new, i - 1, dest[i].base, dest[i].start)
  <2>. SUFFICES ASSUME dest[i].kind = "incr"
                PROVE  FollowsTip(new, i - 1, dest[i].base, dest[i].start)
    OBVIOUS
  <2>1. PICK j \in 1 .. (i - 1) :
          /\ ~ dest[j].selective /\ BaseAt(dest, j) = dest[i].base /\ dest[j].end = dest[i].start
          /\ \A l \in j + 1 .. (i - 1) : dest[l].selective
    BY <1>2 DEF ManifestIsSound, FollowsTip
  <2>2. \A l \in 1 .. (i - 1) : l \in DOMAIN dest /\ new[l] = dest[l]
    BY <1>a
  <2>3. BaseAt(new, j) = BaseAt(dest, j)
    BY <2>2 DEF BaseAt
  <2>4. \A l \in j + 1 .. (i - 1) : new[l].selective
    BY <2>1, <2>2
  <2>. QED
    BY <2>1, <2>2, <2>3, <2>4 DEF FollowsTip
<1>4. new[i] = dest[i]
  BY <1>a
<1>. QED
  BY <1>1, <1>2, <1>3, <1>4 DEF ManifestIsSound, new

\* A full backup begins a chain.
LEMMA MongoAppendFull ==
    ASSUME NEW dest \in Seq(Manifests), NEW m \in Manifests, NEW t, NEW trimmed, NEW top \in Nat,
           BackupsAreSound(dest, t, trimmed, top),
           m.kind = "full", m.start <= m.end, m.end <= top, DumpIsSound(t, m)
    PROVE  BackupsAreSound(Append(dest, m), t, trimmed, top)
<1>. DEFINE new == Append(dest, m)
            n == Len(dest) + 1
<1>a. /\ DOMAIN new = DOMAIN dest \cup {n} /\ n \notin DOMAIN dest
      /\ \A i \in DOMAIN dest : new[i] = dest[i]
      /\ new[n] = m /\ n \in Nat
  BY MongoAppendFacts
<1>0. \A i \in DOMAIN dest : ManifestIsSound(new, t, trimmed, top, i)
  BY OldManifestsStay
<1>. HIDE DEF new, n
<1>1. ManifestIsSound(new, t, trimmed, top, n)
  BY <1>a DEF ManifestIsSound
<1>2. \A b : SlicesAt(new, b) = SlicesAt(dest, b)
  BY <1>a DEF SlicesAt
<1>3. SlicesAt(dest, n) = {}
  <2>1. \A i \in DOMAIN dest : dest[i].kind = "incr" => dest[i].base \in DOMAIN dest
    BY DEF BackupsAreSound, ManifestIsSound, BasesAt
  <2>. QED
    BY <2>1, <1>a DEF SlicesAt
<1>4. SlicesLieInOrder(new)
  <2>1. ASSUME NEW b \in BasesAt(new), NEW i \in SlicesAt(new, b)
        PROVE  /\ b < i /\ new[b].end <= new[i].start
               /\ \A j \in SlicesAt(new, b) : j < i => new[j].end <= new[i].start
               /\ \A k \in new[b].end + 1 .. new[i].end :
                    \E j \in SlicesAt(new, b) : j <= i /\ k \in new[j].start + 1 .. new[j].end
    <3>1. b # n /\ b \in BasesAt(dest)
      BY <1>a, <1>2, <1>3 DEF BasesAt
    <3>2. i \in SlicesAt(dest, b) /\ SlicesAt(new, b) = SlicesAt(dest, b)
      BY <1>2
    <3>3. /\ b < i /\ dest[b].end <= dest[i].start
          /\ \A j \in SlicesAt(dest, b) : j < i => dest[j].end <= dest[i].start
          /\ \A k \in dest[b].end + 1 .. dest[i].end :
               \E j \in SlicesAt(dest, b) : j <= i /\ k \in dest[j].start + 1 .. dest[j].end
      BY <3>1, <3>2 DEF BackupsAreSound, SlicesLieInOrder
    <3>4. new[b] = dest[b] /\ \A j \in SlicesAt(dest, b) : new[j] = dest[j]
      BY <3>1, <1>a DEF BasesAt, SlicesAt
    <3>. QED
      BY <3>2, <3>3, <3>4
  <2>. QED
    BY <2>1 DEF SlicesLieInOrder
<1>. QED
  BY <1>0, <1>1, <1>4, <1>a DEF BackupsAreSound, new

\* A slice lengthens the chain it was captured for.
LEMMA MongoAppendSlice ==
    ASSUME NEW dest \in Seq(Manifests), NEW m \in Manifests, NEW t, NEW trimmed, NEW top \in Nat,
           BackupsAreSound(dest, t, trimmed, top),
           m.kind = "incr", ~ m.selective, m.start <= m.end, m.end <= top,
           m.base \in BasesAt(dest), FollowsTip(dest, Len(dest), m.base, m.start),
           RangeIsSound(trimmed, m.start, m.end, m.data)
    PROVE  BackupsAreSound(Append(dest, m), t, trimmed, top)
<1>. DEFINE new == Append(dest, m)
            n == Len(dest) + 1
<1>a. /\ DOMAIN new = DOMAIN dest \cup {n} /\ n \notin DOMAIN dest
      /\ \A i \in DOMAIN dest : new[i] = dest[i]
      /\ new[n] = m /\ n \in Nat
      /\ DOMAIN dest = 1 .. Len(dest) /\ Len(dest) \in Nat
      /\ \A i \in DOMAIN dest : i \in Nat /\ i < n /\ i <= Len(dest)
      /\ n - 1 = Len(dest)
  BY MongoAppendFacts
<1>0. \A i \in DOMAIN dest : ManifestIsSound(new, t, trimmed, top, i)
  BY OldManifestsStay
<1>. HIDE DEF new, n
<1>b. PICK p \in 1 .. Len(dest) :
        /\ ~ dest[p].selective /\ BaseAt(dest, p) = m.base /\ dest[p].end = m.start
        /\ \A l \in p + 1 .. Len(dest) : dest[l].selective
  BY DEF FollowsTip
<1>c. \A i \in DOMAIN dest : dest[i] \in Manifests
  OBVIOUS
<1>d. \A i \in DOMAIN dest : dest[i].start \in Nat /\ dest[i].end \in Nat /\ dest[i].kind \in {"full", "incr"}
  BY <1>c, MongoManifestFacts
<1>1. BasesAt(new) = BasesAt(dest)
  BY <1>a DEF BasesAt
<1>2. ManifestIsSound(new, t, trimmed, top, n)
  <2>1. FollowsTip(new, n - 1, m.base, m.start)
    <3>1. BaseAt(new, p) = BaseAt(dest, p) /\ new[p] = dest[p]
      BY <1>a DEF BaseAt
    <3>2. \A l \in p + 1 .. Len(dest) : new[l].selective
      BY <1>a, <1>b
    <3>. QED
      BY <1>a, <1>b, <3>1, <3>2 DEF FollowsTip
  <2>. QED
    BY <2>1, <1>1, <1>a DEF ManifestIsSound
<1>3. \A b : b # m.base => SlicesAt(new, b) = SlicesAt(dest, b)
  BY <1>a DEF SlicesAt
<1>4. SlicesAt(new, m.base) = SlicesAt(dest, m.base) \cup {n}
  BY <1>a DEF SlicesAt
<1>5. \A b : SlicesAt(dest, b) \subseteq DOMAIN dest
  BY DEF SlicesAt
<1>6. p = m.base \/ p \in SlicesAt(dest, m.base)
  BY <1>a, <1>b, <1>d DEF BaseAt, SlicesAt
<1>7. \A j \in SlicesAt(dest, m.base) : j <= p
  <2>. SUFFICES ASSUME NEW j \in SlicesAt(dest, m.base), ~ (j <= p) PROVE FALSE
    OBVIOUS
  <2>1. j \in DOMAIN dest /\ dest[j].kind = "incr"
    BY DEF SlicesAt
  <2>2. ~ dest[j].selective
    BY <2>1 DEF BackupsAreSound, ManifestIsSound
  <2>3. j \in p + 1 .. Len(dest)
    BY <2>1, <1>a
  <2>. QED
    BY <2>2, <2>3, <1>b
<1>e. m.base \in DOMAIN dest /\ m.start \in Nat /\ m.end \in Nat
  BY MongoManifestFacts DEF BasesAt
<1>8. dest[m.base].end <= m.start
  <2>1. CASE p = m.base
    BY <2>1, <1>b, <1>e
  <2>2. CASE p \in SlicesAt(dest, m.base)
    <3>1. dest[m.base].end <= dest[p].start
      BY <2>2 DEF BackupsAreSound, SlicesLieInOrder
    <3>2. dest[p].start <= dest[p].end
      BY <1>a DEF BackupsAreSound, ManifestIsSound
    <3>. QED
      BY <3>1, <3>2, <1>a, <1>b, <1>d, <1>e
  <2>. QED
    BY <2>1, <2>2, <1>6
<1>9. \A j \in SlicesAt(dest, m.base) : dest[j].end <= m.start
  <2>. SUFFICES ASSUME NEW j \in SlicesAt(dest, m.base) PROVE dest[j].end <= m.start
    OBVIOUS
  <2>0. j \in DOMAIN dest /\ j \in Nat /\ p \in Nat
    BY <1>5, <1>a
  <2>1. CASE j = p
    BY <2>0, <2>1, <1>b, <1>d, <1>e
  <2>2. CASE j # p
    <3>1. p \in SlicesAt(dest, m.base)
      <4>1. m.base < j
        BY DEF BackupsAreSound, SlicesLieInOrder
      <4>. QED
        BY <4>1, <2>0, <2>2, <1>6, <1>7, <1>e, <1>a
    <3>2. j < p
      BY <2>0, <2>2, <1>7
    <3>3. dest[j].end <= dest[p].start
      BY <3>1, <3>2 DEF BackupsAreSound, SlicesLieInOrder
    <3>4. dest[p].start <= dest[p].end
      BY <1>a DEF BackupsAreSound, ManifestIsSound
    <3>. QED
      BY <3>3, <3>4, <2>0, <1>a, <1>b, <1>d, <1>e
  <2>. QED
    BY <2>1, <2>2
<1>10. \A k \in dest[m.base].end + 1 .. m.start :
         \E j \in SlicesAt(dest, m.base) : k \in dest[j].start + 1 .. dest[j].end
  <2>1. CASE p = m.base
    BY <2>1, <1>b, <1>d, <1>e
  <2>2. CASE p \in SlicesAt(dest, m.base)
    BY <2>2, <1>b DEF BackupsAreSound, SlicesLieInOrder
  <2>. QED
    BY <2>1, <2>2, <1>6
<1>11. SlicesLieInOrder(new)
  <2>1. ASSUME NEW b \in BasesAt(new), NEW i \in SlicesAt(new, b)
        PROVE  /\ b < i /\ new[b].end <= new[i].start
               /\ \A j \in SlicesAt(new, b) : j < i => new[j].end <= new[i].start
               /\ \A k \in new[b].end + 1 .. new[i].end :
                    \E j \in SlicesAt(new, b) : j <= i /\ k \in new[j].start + 1 .. new[j].end
    <3>1. b \in BasesAt(dest) /\ b \in DOMAIN dest /\ new[b] = dest[b]
      BY <1>1, <1>a DEF BasesAt
    <3>2. \A j \in SlicesAt(dest, b) : new[j] = dest[j] /\ j \in SlicesAt(new, b)
      BY <1>3, <1>4, <1>5, <1>a
    <3>3. CASE i \in SlicesAt(dest, b)
      <4>1. /\ b < i /\ dest[b].end <= dest[i].start
            /\ \A j \in SlicesAt(dest, b) : j < i => dest[j].end <= dest[i].start
            /\ \A k \in dest[b].end + 1 .. dest[i].end :
                 \E j \in SlicesAt(dest, b) : j <= i /\ k \in dest[j].start + 1 .. dest[j].end
        BY <3>1, <3>3 DEF BackupsAreSound, SlicesLieInOrder
      <4>2. \A j \in SlicesAt(new, b) : j < i => j \in SlicesAt(dest, b)
        BY <3>3, <1>3, <1>4, <1>5, <1>a
      <4>3. \A k \in new[b].end + 1 .. new[i].end :
                    \E j \in SlicesAt(new, b) : j <= i /\ k \in new[j].start + 1 .. new[j].end
        BY <3>1, <3>2, <3>3, <4>1
      <4>. QED
        BY <3>1, <3>2, <3>3, <4>1, <4>2, <4>3
    <3>4. CASE i \notin SlicesAt(dest, b)
      <4>1. i = n /\ b = m.base
        BY <3>4, <1>3, <1>4
      <4>2. b < n
        BY <3>1, <1>a
      <4>3. \A j \in SlicesAt(new, b) : j < n => j \in SlicesAt(dest, b)
        BY <4>1, <1>4, <1>a
      <4>4. ASSUME NEW k \in new[b].end + 1 .. new[n].end
            PROVE  \E j \in SlicesAt(new, b) : j <= n /\ k \in new[j].start + 1 .. new[j].end
        <5>1. CASE k <= m.start
          <6>1. PICK j \in SlicesAt(dest, b) : k \in dest[j].start + 1 .. dest[j].end
            BY <5>1, <4>1, <3>1, <1>10, <1>d, <1>e, <1>a
          <6>2. j <= n
            BY <1>5, <1>a
          <6>. QED
            BY <6>1, <6>2, <3>2
        <5>2. CASE ~ (k <= m.start)
          <6>1. k \in m.start + 1 .. m.end
            BY <5>2, <3>1, <1>a, <1>d, <1>e
          <6>. QED
            BY <6>1, <4>1, <1>4, <1>a
        <5>. QED
          BY <5>1, <5>2
      <4>. QED
        BY <3>1, <3>2, <4>1, <4>2, <4>3, <4>4, <1>8, <1>9, <1>a
    <3>. QED
      BY <3>3, <3>4
  <2>. QED
    BY <2>1 DEF SlicesLieInOrder
<1>. QED
  BY <1>0, <1>2, <1>11, <1>a DEF BackupsAreSound, new

\* The first write and an empty destination.
LEMMA MongoInitInv == MongoInit => MongoInv
<1>. SUFFICES ASSUME MongoInit PROVE MongoInv
  OBVIOUS
<1>1. PICK c \in Colls : log = <<c>>
  BY DEF MongoInit
<1>2. log \in Seq(Colls) /\ Top = 1
  BY <1>1 DEF Top
<1>3. MongoTypeOK
  BY <1>2, NoRunFacts DEF MongoInit, MongoTypeOK, Txns, Curs
<1>4. TxnIsSound(txn, Top)
  BY <1>2, NoRunFacts DEF MongoInit, TxnIsSound
<1>5. DOMAIN backups = {}
  BY DEF MongoInit
<1>6. BackupsAreSound(backups, txn, rolled, Top)
  BY <1>5 DEF BackupsAreSound, SlicesLieInOrder, BasesAt
<1>7. CaptureIsSound
  BY DEF MongoInit, CaptureIsSound
<1>. QED
  BY <1>3, <1>4, <1>6, <1>7 DEF MongoInv

\* The server writes an entry, of the transaction or not.
LEMMA HistoryStep ==
    ASSUME MongoInv,
           NEW c \in Colls,
           Write(c) \/ TxnPiece(c) \/ \E aborted \in BOOLEAN : TxnEnd(c, aborted)
    PROVE  MongoInv'
<1>t. /\ log \in Seq(Colls) /\ Top \in Nat /\ DOMAIN log = 1 .. Top
      /\ txn \in Txns /\ txn.piece \in Nat /\ txn.last \in Nat
      /\ low \in 1 .. Top /\ backups \in Seq(Manifests) /\ cur \in Curs
      /\ cur.start \in Nat /\ cur.end \in Nat /\ cur.data \in SUBSET Nat
  BY MongoTypes DEF MongoInv
<1>1. /\ log' = Append(log, c) /\ Top < MaxLog
      /\ UNCHANGED <<low, backups, stage, cur, rolled>>
  BY DEF Write, TxnPiece, TxnEnd
<1>2. /\ Top' = Top + 1 /\ Top' \in Nat /\ \A n \in 1 .. Top : log'[n] = log[n]
      /\ log' \in Seq(Colls)
  BY <1>t, <1>1 DEF Top
<1>3. Top + 1 \in 0 .. MaxLog /\ MaxLog \in Nat
  BY <1>t, <1>1, MongoAssumption
<1>4. \/ txn' = txn
      \/ /\ txn' \in Txns /\ txn = NoTxn
         /\ txn'.piece = Top + 1 /\ txn'.last = 0 /\ ~ txn'.aborted
      \/ /\ txn' \in Txns /\ txn.piece > 0 /\ txn.last = 0
         /\ txn'.piece = txn.piece /\ txn'.last = Top + 1
  <2>1. CASE Write(c)
    BY <2>1 DEF Write
  <2>2. CASE TxnPiece(c)
    <3>1. txn' = [txn EXCEPT !.piece = Top + 1] /\ txn = NoTxn
      BY <2>2 DEF TxnPiece
    <3>. QED
      BY <3>1, <1>3, <1>t, NoRunFacts DEF Txns
  <2>3. CASE \E aborted \in BOOLEAN : TxnEnd(c, aborted)
    <3>1. PICK aborted \in BOOLEAN :
            /\ txn' = [txn EXCEPT !.last = Top + 1, !.aborted = aborted]
            /\ txn.piece > 0 /\ txn.last = 0
      BY <2>3 DEF TxnEnd
    <3>. QED
      BY <3>1, <1>3, <1>t DEF Txns
  <2>. QED
    BY <2>1, <2>2, <2>3
<1>5. txn' \in Txns /\ TxnIsSound(txn, Top)
  BY <1>4, <1>t DEF MongoInv
<1>6. \A e \in Nat : e <= Top => StreamOf(txn', 1 .. e) = StreamOf(txn, 1 .. e)
  <2>. SUFFICES ASSUME NEW e \in Nat, e <= Top
                PROVE  StreamOf(txn', 1 .. e) = StreamOf(txn, 1 .. e)
    OBVIOUS
  <2>1. CASE txn' = txn
    BY <2>1
  <2>2. CASE txn' # txn
    BY <2>2, <1>4, <1>5, <1>t, OldStreamsStay
  <2>. QED
    BY <2>1, <2>2
<1>7. TxnIsSound(txn', Top')
  BY <1>2, <1>4, <1>5, <1>t, NoRunFacts DEF TxnIsSound
<1>8. MongoTypeOK'
  BY <1>1, <1>2, <1>5, <1>t DEF MongoInv, MongoTypeOK, Txns
<1>9. BackupsAreSound(backups, txn', rolled, Top')
  <2>1. BackupsAreSound(backups, txn, rolled, Top)
    BY DEF MongoInv
  <2>2. Top <= Top' /\ rolled \subseteq rolled
    BY <1>2, <1>t
  <2>. QED
    BY <2>1, <2>2, <1>2, <1>5, <1>6, <1>t, SoundnessStays
<1>10. CaptureIsSound'
  <2>1. CaptureIsSound
    BY DEF MongoInv
  <2>2. CASE stage \in {"dump", "end"}
    <3>1. cur.start <= Top /\ cur.data \subseteq StreamOf(txn, 1 .. Top)
      BY <2>1, <2>2 DEF CaptureIsSound
    <3>2. StreamOf(txn', 1 .. Top) = StreamOf(txn, 1 .. Top)
          /\ StreamOf(txn', 1 .. cur.start) = StreamOf(txn, 1 .. cur.start)
      BY <1>6, <1>t, <3>1
    <3>3. cur.data \subseteq StreamOf(txn', 1 .. Top')
      <4>1. (1 .. Top) \subseteq (1 .. Top')
        BY <1>2, <1>t
      <4>2. StreamOf(txn', 1 .. Top) \subseteq StreamOf(txn', 1 .. Top')
        BY <4>1, <1>5, StreamGrows
      <4>. QED
        BY <4>2, <3>1, <3>2
    <3>4. \A n \in StreamOf(txn, 1 .. cur.start) : log'[n] = log[n]
      <4>1. \A n \in StreamOf(txn, 1 .. cur.start) : n \in 1 .. cur.start
        BY <1>t, StreamFacts
      <4>. QED
        BY <4>1, <3>1, <1>2, <1>t
    <3>5. ~ cur.selective =>
            {n \in StreamOf(txn', 1 .. cur.start) : log'[n] \notin cur.todo} \subseteq cur.data
      BY <2>1, <2>2, <3>2, <3>4 DEF CaptureIsSound
    <3>6. cur.start <= Top'
      BY <3>1, <1>2, <1>t
    <3>. QED
      BY <2>1, <2>2, <3>3, <3>5, <3>6, <1>1 DEF CaptureIsSound
  <2>3. CASE stage \notin {"dump", "end"}
    <3>1. stage \in {"find", "drain", "save"} => cur.end <= Top'
      BY <2>1, <1>2, <1>t DEF CaptureIsSound
    <3>. QED
      BY <2>1, <2>3, <3>1, <1>1 DEF CaptureIsSound
  <2>. QED
    BY <2>2, <2>3
<1>. QED
  BY <1>1, <1>7, <1>8, <1>9, <1>10 DEF MongoInv

\* The oplog drops its oldest entry; what no capture has read yet is known to
\* be rolled over.
LEMMA TrimStep ==
    ASSUME MongoInv, Trim
    PROVE  MongoInv'
<1>t. /\ Top \in Nat /\ low \in 1 .. Top /\ low \in Nat /\ backups \in Seq(Manifests)
      /\ txn \in Txns /\ cur.start \in Nat /\ rolled \in SUBSET Nat
  BY MongoTypes DEF MongoInv
<1>1. /\ low < Top /\ low' = low + 1 /\ UNCHANGED <<log, txn, backups, stage, cur>>
      /\ rolled' = IF stage \in {"upper", "find"} /\ low > cur.start THEN rolled \cup {low} ELSE rolled
  BY DEF Trim
<1>2. rolled \subseteq rolled' /\ rolled' \in SUBSET Nat /\ low' \in 1 .. Top
  BY <1>1, <1>t
<1>3. Top' = Top
  BY <1>1 DEF Top
<1>4. MongoTypeOK'
  BY <1>1, <1>2, <1>3 DEF MongoInv, MongoTypeOK
<1>5. BackupsAreSound(backups, txn, rolled', Top)
  <2>1. BackupsAreSound(backups, txn, rolled, Top)
    BY DEF MongoInv
  <2>2. Top <= Top /\ \A e \in Nat : e <= Top => StreamOf(txn, 1 .. e) = StreamOf(txn, 1 .. e)
    BY <1>t
  <2>. QED
    BY <2>1, <2>2, <1>2, <1>t, SoundnessStays
<1>6. CaptureIsSound'
  <2>1. CaptureIsSound
    BY DEF MongoInv
  <2>2. stage \in {"upper", "find"} => \A n \in cur.start + 1 .. low' - 1 : n \in rolled'
    <3>. SUFFICES ASSUME stage \in {"upper", "find"}, NEW n \in cur.start + 1 .. low' - 1
                  PROVE  n \in rolled'
      OBVIOUS
    <3>1. CASE n = low
      BY <3>1, <1>1, <1>t
    <3>2. CASE n # low
      <4>1. n \in cur.start + 1 .. low - 1
        BY <3>2, <1>1, <1>t
      <4>. QED
        BY <4>1, <2>1, <1>2 DEF CaptureIsSound
    <3>. QED
      BY <3>1, <3>2
  <2>3. stage \in {"drain", "save"} => RangeIsSound(rolled', cur.start, cur.end, cur.data)
    BY <2>1, <1>2 DEF CaptureIsSound, RangeIsSound
  <2>. QED
    BY <2>1, <2>2, <2>3, <1>1, <1>3 DEF CaptureIsSound
<1>7. TxnIsSound(txn, Top)
  BY DEF MongoInv
<1>. QED
  BY <1>1, <1>3, <1>4, <1>5, <1>6, <1>7 DEF MongoInv

\* The steps that leave the server and the manifests alone.
LEMMA CommandMoves ==
    ASSUME MongoInv, UNCHANGED <<log, txn, low, backups, rolled>>,
           stage' \in {"idle", "dump", "end", "gap", "upper", "find", "drain", "save"},
           cur' \in Curs, CaptureIsSound'
    PROVE  MongoInv'
<1>1. Top' = Top
  BY DEF Top
<1>2. MongoTypeOK'
  BY <1>1 DEF MongoInv, MongoTypeOK, Curs
<1>. QED
  BY <1>1, <1>2 DEF MongoInv

\* A full backup begins, of its own or instead of an increment.
LEMMA BeginFullFacts ==
    ASSUME MongoInv, NEW selective \in BOOLEAN, BeginFull(selective),
           UNCHANGED <<log, txn, low, backups, rolled>>
    PROVE  MongoInv'
<1>t. /\ log \in Seq(Colls) /\ Top \in Nat /\ DOMAIN log = 1 .. Top /\ txn \in Txns
  BY MongoTypes DEF MongoInv
<1>1. /\ stage' = "dump"
      /\ cur' = [NoRun EXCEPT !.selective = selective, !.start = Top, !.todo = Colls]
  BY DEF BeginFull
<1>2. /\ cur' \in Curs /\ cur'.start = Top /\ cur'.todo = Colls /\ cur'.data = {}
      /\ cur'.selective = selective
  BY <1>1, <1>t DEF NoRun, Curs
<1>3. Top' = Top
  BY DEF Top
<1>4. \A n \in StreamOf(txn, 1 .. Top) : log[n] \in Colls
  <2>1. \A n \in StreamOf(txn, 1 .. Top) : n \in 1 .. Top
    BY <1>t, StreamFacts
  <2>. QED
    BY <2>1, <1>t
<1>5. CaptureIsSound'
  BY <1>1, <1>2, <1>3, <1>4, <1>t DEF CaptureIsSound
<1>. QED
  BY <1>1, <1>2, <1>5, CommandMoves

\* A collection is read: it holds what has taken effect by now.
LEMMA DumpCollectionStep ==
    ASSUME MongoInv, NEW c \in Colls, DumpCollection(c)
    PROVE  MongoInv'
<1>t. /\ log \in Seq(Colls) /\ Top \in Nat /\ txn \in Txns /\ cur \in Curs
      /\ cur.start \in Nat /\ cur.data \in SUBSET Nat /\ cur.todo \in SUBSET Colls
  BY MongoTypes DEF MongoInv
<1>. DEFINE data == cur.data \cup {n \in StreamOf(txn, 1 .. Top) : log[n] = c}
            todo == IF cur.selective THEN {} ELSE cur.todo \ {c}
<1>1. /\ stage = "dump" /\ c \in cur.todo
      /\ UNCHANGED <<log, txn, low, backups, rolled>>
      /\ cur' = [cur EXCEPT !.data = data, !.todo = todo]
      /\ stage' = IF cur'.todo = {} THEN "end" ELSE "dump"
  BY DEF DumpCollection, apply_stream, StreamOf
<1>2. \A n \in StreamOf(txn, 1 .. Top) : n \in 1 .. Top
  BY <1>t, StreamFacts
<1>3. data \in SUBSET Nat /\ data \subseteq cur.data \cup StreamOf(txn, 1 .. Top) /\ cur.data \subseteq data
      /\ \A n \in StreamOf(txn, 1 .. Top) : log[n] = c => n \in data
  BY <1>2, <1>t
<1>4. todo \in SUBSET Colls /\ (~ cur.selective => todo = cur.todo \ {c})
  BY <1>t
<1>. HIDE DEF data, todo
<1>5. /\ cur' \in Curs /\ cur'.start = cur.start /\ cur'.selective = cur.selective
      /\ cur'.data = data /\ cur'.todo = todo
  BY <1>1, <1>3, <1>4, <1>t DEF Curs
<1>6. Top' = Top
  BY <1>1 DEF Top
<1>7. /\ cur.start <= Top /\ cur.data \subseteq StreamOf(txn, 1 .. Top)
      /\ ~ cur.selective =>
           {n \in StreamOf(txn, 1 .. cur.start) : log[n] \notin cur.todo} \subseteq cur.data
  BY <1>1 DEF MongoInv, CaptureIsSound
<1>8. StreamOf(txn, 1 .. cur.start) \subseteq StreamOf(txn, 1 .. Top)
  <2>1. 1 .. cur.start \subseteq 1 .. Top
    BY <1>7, <1>t
  <2>. QED
    BY <2>1, <1>t, StreamGrows
<1>9. ~ cur.selective =>
        {n \in StreamOf(txn, 1 .. cur.start) : log[n] \notin todo} \subseteq data
  BY <1>3, <1>4, <1>7, <1>8
<1>10. data \subseteq StreamOf(txn, 1 .. Top)
  BY <1>3, <1>7
<1>11. CaptureIsSound'
  BY <1>1, <1>5, <1>6, <1>7, <1>9, <1>10 DEF CaptureIsSound
<1>12. stage' \in {"dump", "end"}
  BY <1>1
<1>. QED
  BY <1>1, <1>5, <1>11, <1>12, CommandMoves

\* A manifest is added and the command ends.
LEMMA CommandPublishes ==
    ASSUME MongoInv, NEW m \in Manifests, backups' = Append(backups, m),
           stage' = "idle", cur' = NoRun, UNCHANGED <<log, txn, low, rolled>>,
           BackupsAreSound(Append(backups, m), txn, rolled, Top)
    PROVE  MongoInv'
<1>1. Top' = Top
  BY DEF Top
<1>2. backups \in Seq(Manifests)
  BY MongoTypes DEF MongoInv
<1>3. backups' \in Seq(Manifests)
  BY <1>2, MongoAppendFacts
<1>4. MongoTypeOK'
  BY <1>1, <1>3, NoRunFacts DEF MongoInv, MongoTypeOK, Curs
<1>5. CaptureIsSound'
  BY DEF CaptureIsSound
<1>. QED
  BY <1>1, <1>4, <1>5 DEF MongoInv

\* The manifest of a full backup.
LEMMA FinishFullStep ==
    ASSUME MongoInv, FinishFull
    PROVE  MongoInv'
<1>t. /\ Top \in Nat /\ txn \in Txns /\ backups \in Seq(Manifests)
      /\ log \in Seq(Colls) /\ DOMAIN log = 1 .. Top
      /\ cur.selective \in BOOLEAN /\ cur.start \in Nat /\ cur.data \in SUBSET Nat
  BY MongoTypes DEF MongoInv
<1>. DEFINE m == [kind |-> "full", selective |-> cur.selective, base |-> 0,
                  start |-> cur.start, end |-> Top, data |-> cur.data]
<1>1. /\ stage = "end" /\ backups' = Append(backups, m) /\ stage' = "idle" /\ cur' = NoRun
      /\ UNCHANGED <<log, txn, low, rolled>>
  BY DEF FinishFull
<1>2. m \in Manifests /\ m.kind = "full" /\ m.start = cur.start /\ m.end = Top
      /\ m.selective = cur.selective /\ m.data = cur.data
  BY <1>t DEF Manifests
<1>. HIDE DEF m
<1>3. /\ cur.start <= Top /\ cur.data \subseteq StreamOf(txn, 1 .. Top) /\ cur.todo = {}
      /\ ~ cur.selective =>
           {n \in StreamOf(txn, 1 .. cur.start) : log[n] \notin cur.todo} \subseteq cur.data
  BY <1>1 DEF MongoInv, CaptureIsSound
<1>4. DumpIsSound(txn, m)
  BY <1>2, <1>3 DEF DumpIsSound
<1>5. BackupsAreSound(Append(backups, m), txn, rolled, Top)
  <2>1. BackupsAreSound(backups, txn, rolled, Top)
    BY DEF MongoInv
  <2>. QED
    BY <2>1, <1>2, <1>3, <1>4, <1>t, MongoAppendFull
<1>. QED
  BY <1>1, <1>2, <1>5, CommandPublishes

\* The tip is the newest manifest that is not selective.
LEMMA TipFacts ==
    ASSUME MongoInv, Selectable # {}
    PROVE  /\ Tip \in DOMAIN backups
           /\ FollowsTip(backups, Len(backups), BaseAt(backups, Tip), backups[Tip].end)
           /\ BaseAt(backups, Tip) \in BasesAt(backups)
<1>t. backups \in Seq(Manifests) /\ Len(backups) \in Nat /\ DOMAIN backups = 1 .. Len(backups)
  BY MongoTypes DEF MongoInv
<1>1. Selectable \in SUBSET (0 .. Len(backups)) /\ Selectable \subseteq DOMAIN backups
  BY <1>t DEF Selectable
<1>2. Max(Selectable) \in Selectable /\ \A k \in Selectable : k <= Max(Selectable)
  BY <1>1, <1>t, MaxOfBounded
<1>3. Tip \in Selectable /\ \A k \in Selectable : k <= Tip
  BY <1>2 DEF Tip
<1>4. Tip \in DOMAIN backups /\ ~ backups[Tip].selective
  BY <1>3, <1>t DEF Selectable
<1>5. \A l \in Tip + 1 .. Len(backups) : backups[l].selective
  <2>. SUFFICES ASSUME NEW l \in Tip + 1 .. Len(backups), ~ backups[l].selective PROVE FALSE
    <3>1. \A l \in Tip + 1 .. Len(backups) : l \in DOMAIN backups
      BY <1>4, <1>t
    <3>2. \A l \in DOMAIN backups : backups[l].selective \in BOOLEAN
      BY <1>t, MongoManifestFacts
    <3>. QED
      BY <3>1, <3>2
  <2>1. l \in Selectable
    BY <1>4, <1>t DEF Selectable
  <2>. QED
    BY <2>1, <1>3, <1>4, <1>t
<1>6. FollowsTip(backups, Len(backups), BaseAt(backups, Tip), backups[Tip].end)
  BY <1>4, <1>5, <1>t DEF FollowsTip
<1>7. BaseAt(backups, Tip) \in BasesAt(backups)
  <2>1. backups[Tip].kind \in {"full", "incr"}
    BY <1>4, <1>t, MongoManifestFacts
  <2>2. ManifestIsSound(backups, txn, rolled, Top, Tip)
    BY <1>4 DEF MongoInv, BackupsAreSound
  <2>. QED
    BY <2>1, <2>2, <1>4 DEF BaseAt, BasesAt, ManifestIsSound
<1>. QED
  BY <1>4, <1>6, <1>7

\* An increment starts where the tip ends.
LEMMA StartIncrStep ==
    ASSUME MongoInv, StartIncr
    PROVE  MongoInv'
<1>. DEFINE b == BaseAt(backups, Tip)
            n == backups[Tip].end
<1>1. /\ stage' = "gap" /\ cur' = [NoRun EXCEPT !.base = b, !.start = n]
      /\ UNCHANGED <<log, txn, low, backups, rolled>> /\ Selectable # {}
  BY DEF StartIncr, BaseOfIncr, BaseAt
<1>2. /\ Tip \in DOMAIN backups /\ FollowsTip(backups, Len(backups), b, n) /\ b \in BasesAt(backups)
  BY <1>1, TipFacts
<1>3. b \in Nat /\ n \in Nat
  <2>1. backups \in Seq(Manifests) /\ DOMAIN backups = 1 .. Len(backups)
    BY MongoTypes DEF MongoInv
  <2>2. backups[Tip] \in Manifests
    BY <2>1, <1>2
  <2>3. n \in Nat
    BY <2>2, MongoManifestFacts
  <2>. QED
    BY <2>1, <2>3, <1>2 DEF BasesAt
<1>. HIDE DEF b, n
<1>4. cur' \in Curs /\ cur'.base = b /\ cur'.start = n
  BY <1>1, <1>3, NoRunFacts DEF NoRun, Curs
<1>5. CaptureIsSound'
  BY <1>1, <1>2, <1>4 DEF CaptureIsSound
<1>. QED
  BY <1>1, <1>4, <1>5, CommandMoves

\* The gap check, and the check of the cursor: the run goes on or becomes a full
\* backup.
LEMMA DetectGapStep ==
    ASSUME MongoInv, DetectGap
    PROVE  MongoInv'
<1>t. cur \in Curs /\ cur.start \in Nat /\ low \in Nat
  BY MongoTypes DEF MongoInv
<1>1. stage = "gap" /\ UNCHANGED <<log, txn, low, backups, rolled>>
  BY DEF DetectGap
<1>2. CASE detect_gap
  BY <1>1, <1>2, BeginFullFacts DEF DetectGap, promote_to_full
<1>3. CASE ~ detect_gap
  <2>1. stage' = "upper" /\ cur' = cur /\ ~ (cur.start < low)
    BY <1>3 DEF DetectGap, detect_gap
  <2>2. cur.start + 1 .. low - 1 = {}
    BY <2>1, <1>t
  <2>3. CaptureIsSound'
    BY <2>1, <2>2, <1>1 DEF MongoInv, CaptureIsSound
  <2>. QED
    BY <2>1, <2>3, <1>1, <1>t, CommandMoves
<1>. QED
  BY <1>2, <1>3

\* The cursor is read to its end, or was overtaken and a full backup begins.
LEMMA DrainStep ==
    ASSUME MongoInv, Drain
    PROVE  MongoInv'
<1>t. cur \in Curs
  BY MongoTypes DEF MongoInv
<1>1. stage = "drain" /\ UNCHANGED <<log, txn, low, backups, rolled>>
  BY DEF Drain
<1>2. CASE \E n \in cur.data : n < low
  BY <1>1, <1>2, BeginFullFacts DEF Drain, promote_to_full
<1>3. CASE ~ \E n \in cur.data : n < low
  <2>1. stage' = "save" /\ cur' = cur
    BY <1>3 DEF Drain
  <2>2. Top' = Top
    BY <1>1 DEF Top
  <2>3. CaptureIsSound'
    BY <2>1, <2>2, <1>1 DEF MongoInv, CaptureIsSound
  <2>. QED
    BY <2>1, <2>3, <1>1, <1>t, CommandMoves
<1>. QED
  BY <1>2, <1>3

\* A slice is recorded.
LEMMA RecordSliceFacts ==
    ASSUME MongoInv, stage \in {"upper", "save"}, UNCHANGED <<log, txn, low, rolled>>,
           NEW end \in Nat, NEW data \in SUBSET Nat, RecordSlice(end, data),
           cur.start <= end, end <= Top, RangeIsSound(rolled, cur.start, end, data)
    PROVE  MongoInv'
<1>t. /\ Top \in Nat /\ txn \in Txns /\ backups \in Seq(Manifests)
      /\ cur.base \in Nat /\ cur.start \in Nat
  BY MongoTypes DEF MongoInv
<1>. DEFINE m == [kind |-> "incr", selective |-> FALSE, base |-> cur.base,
                   start |-> cur.start, end |-> end, data |-> data]
<1>1. backups' = Append(backups, m) /\ stage' = "idle" /\ cur' = NoRun
  BY DEF RecordSlice
<1>2. m \in Manifests /\ m.kind = "incr" /\ m.start = cur.start /\ m.end = end
      /\ ~ m.selective /\ m.data = data /\ m.base = cur.base
  BY <1>t DEF Manifests
<1>. HIDE DEF m
<1>3. FollowsTip(backups, Len(backups), cur.base, cur.start) /\ cur.base \in BasesAt(backups)
  BY DEF MongoInv, CaptureIsSound
<1>4. BackupsAreSound(Append(backups, m), txn, rolled, Top)
  <2>1. BackupsAreSound(backups, txn, rolled, Top)
    BY DEF MongoInv
  <2>. QED
    BY <2>1, <1>2, <1>3, <1>t, MongoAppendSlice
<1>. QED
  BY <1>1, <1>2, <1>4, CommandPublishes

\* An empty slice is sound.
LEMMA EmptySliceFacts ==
    ASSUME NEW trimmed, NEW n \in Nat
    PROVE  RangeIsSound(trimmed, n, n, {})
<1>1. n + 1 .. n = {}
  OBVIOUS
<1>. QED
  BY <1>1 DEF RangeIsSound

\* Nothing new is an empty slice; otherwise the range gets its end.
LEMMA ResolveUpperStep ==
    ASSUME MongoInv, ResolveUpper
    PROVE  MongoInv'
<1>t. /\ Top \in Nat /\ cur \in Curs /\ cur.start \in Nat /\ backups \in Seq(Manifests)
      /\ DOMAIN backups = 1 .. Len(backups) /\ Len(backups) \in Nat
  BY MongoTypes DEF MongoInv
<1>1. stage = "upper" /\ UNCHANGED <<log, txn, low, rolled>>
  BY DEF ResolveUpper
<1>2. CASE Top <= cur.start
  <2>1. RecordSlice(cur.start, {})
    BY <1>2 DEF ResolveUpper, resolve_upper_bound
  <2>2. cur.start <= Top
    <3>1. PICK j \in 1 .. Len(backups) : backups[j].end = cur.start
      BY <1>1 DEF MongoInv, CaptureIsSound, FollowsTip
    <3>2. ManifestIsSound(backups, txn, rolled, Top, j)
      BY <1>t DEF MongoInv, BackupsAreSound
    <3>. QED
      BY <3>1, <3>2 DEF ManifestIsSound
  <2>. QED
    BY <2>1, <2>2, <1>1, <1>t, EmptySliceFacts, RecordSliceFacts
<1>3. CASE ~ (Top <= cur.start)
  <2>1. /\ cur' = [cur EXCEPT !.end = Top] /\ stage' = "find" /\ backups' = backups
    BY <1>3 DEF ResolveUpper, resolve_upper_bound
  <2>2. cur' \in Curs /\ cur'.end = Top /\ cur'.start = cur.start /\ cur'.base = cur.base
    BY <2>1, <1>t DEF Curs
  <2>3. Top' = Top
    BY <1>1 DEF Top
  <2>4. CaptureIsSound'
    BY <2>1, <2>2, <2>3, <1>1, <1>3, <1>t DEF MongoInv, CaptureIsSound
  <2>. QED
    BY <2>1, <2>2, <2>4, <1>1, CommandMoves
<1>. QED
  BY <1>2, <1>3

\* The cursor meets what the oplog still has of the range.
LEMMA OpenCursorStep ==
    ASSUME MongoInv, OpenCursor
    PROVE  MongoInv'
<1>t. /\ Top \in Nat /\ cur \in Curs /\ cur.start \in Nat /\ cur.end \in Nat /\ low \in Nat
  BY MongoTypes DEF MongoInv
<1>. DEFINE data == {n \in cur.start + 1 .. cur.end : n >= low}
<1>1. /\ stage = "find" /\ stage' = "drain" /\ cur' = [cur EXCEPT !.data = data]
      /\ UNCHANGED <<log, txn, low, backups, rolled>>
  BY DEF OpenCursor
<1>2. data \in SUBSET Nat
  BY <1>t
<1>3. RangeIsSound(rolled, cur.start, cur.end, data)
  <2>1. \A n \in (cur.start + 1 .. cur.end) \ data : n \in cur.start + 1 .. low - 1
    BY <1>t
  <2>2. \A n \in cur.start + 1 .. low - 1 : n \in rolled
    BY <1>1 DEF MongoInv, CaptureIsSound
  <2>3. \A m \in data : \A n \in cur.start + 1 .. cur.end : m <= n => n \in data
    BY <1>t
  <2>. QED
    BY <2>1, <2>2, <2>3 DEF RangeIsSound
<1>. HIDE DEF data
<1>4. /\ cur' \in Curs /\ cur'.data = data /\ cur'.start = cur.start /\ cur'.end = cur.end
      /\ cur'.base = cur.base
  BY <1>1, <1>2, <1>t DEF Curs
<1>5. Top' = Top
  BY <1>1 DEF Top
<1>6. CaptureIsSound'
  BY <1>1, <1>3, <1>4, <1>5 DEF MongoInv, CaptureIsSound
<1>. QED
  BY <1>1, <1>4, <1>6, CommandMoves

\* The manifest of a slice.
LEMMA SaveSliceStep ==
    ASSUME MongoInv, SaveSlice
    PROVE  MongoInv'
<1>t. /\ Top \in Nat /\ cur.start \in Nat /\ cur.end \in Nat /\ cur.data \in SUBSET Nat
  BY MongoTypes DEF MongoInv
<1>1. stage = "save" /\ UNCHANGED <<log, txn, low, rolled>>
  BY DEF SaveSlice
<1>2. /\ cur.start <= cur.end /\ cur.end <= Top
      /\ RangeIsSound(rolled, cur.start, cur.end, cur.data)
  BY <1>1 DEF MongoInv, CaptureIsSound
<1>3. CASE cur.data = {}
  <2>1. RecordSlice(cur.start, {})
    BY <1>3 DEF SaveSlice
  <2>2. cur.start <= Top
    BY <1>2, <1>t
  <2>. QED
    BY <2>1, <2>2, <1>1, <1>t, EmptySliceFacts, RecordSliceFacts
<1>4. CASE cur.data # {}
  <2>1. RecordSlice(cur.end, cur.data)
    BY <1>4 DEF SaveSlice
  <2>. QED
    BY <2>1, <1>1, <1>2, <1>t, RecordSliceFacts
<1>. QED
  BY <1>3, <1>4

\* The invariant of the oplog chains: every manifest's data is right for its range, the
\* slices of a base lie end to end, and what a capture missed was rolled over.
THEOREM MongoInvariance == MongoSpec => []MongoInv
<1>1. MongoInit => MongoInv
  BY MongoInitInv
<1>2. MongoInv /\ [MongoNext]_mongoVars => MongoInv'
  <2>. SUFFICES ASSUME MongoInv, [MongoNext]_mongoVars PROVE MongoInv'
    OBVIOUS
  <2>1. CASE UNCHANGED mongoVars
    BY <2>1 DEF mongoVars, MongoInv, MongoTypeOK, Top, CaptureIsSound
  <2>2. CASE \E c \in Colls : Write(c) \/ TxnPiece(c)
    BY <2>2, HistoryStep
  <2>3. CASE \E c \in Colls : DumpCollection(c)
    BY <2>3, DumpCollectionStep
  <2>4. CASE \E c \in Colls, aborted \in BOOLEAN : TxnEnd(c, aborted)
    BY <2>4, HistoryStep
  <2>5. CASE Trim
    BY <2>5, TrimStep
  <2>6. CASE StartFull
    BY <2>6, BeginFullFacts DEF StartFull
  <2>7. CASE FinishFull
    BY <2>7, FinishFullStep
  <2>8. CASE StartIncr
    BY <2>8, StartIncrStep
  <2>9. CASE DetectGap
    BY <2>9, DetectGapStep
  <2>10. CASE ResolveUpper
    BY <2>10, ResolveUpperStep
  <2>11. CASE OpenCursor
    BY <2>11, OpenCursorStep
  <2>12. CASE Drain
    BY <2>12, DrainStep
  <2>13. CASE SaveSlice
    BY <2>13, SaveSliceStep
  <2>14. CASE Abort
    <3>1. /\ stage' = "idle" /\ cur' = NoRun /\ UNCHANGED <<log, txn, low, backups, rolled>>
      BY <2>14 DEF Abort
    <3>2. CaptureIsSound'
      BY <3>1 DEF CaptureIsSound
    <3>. QED
      BY <3>1, <3>2, NoRunFacts, CommandMoves
  <2>. QED
    BY <2>1, <2>2, <2>3, <2>4, <2>5, <2>6, <2>7, <2>8, <2>9, <2>10, <2>11, <2>12, <2>13, <2>14
       DEF MongoNext
<1>. QED
  BY <1>1, <1>2, PTL DEF MongoSpec

\* The chains of the model are the chains of its manifests.
LEMMA MongoChainFacts ==
    ASSUME MongoInv
    PROVE  Bases = BasesAt(backups) /\ \A b : SlicesOf(b) = SlicesAt(backups, b)
<1>1. DOMAIN backups = 1 .. Len(backups)
  BY MongoTypes DEF MongoInv
<1>. QED
  BY <1>1 DEF Bases, Selectable, BasesAt, SlicesOf, SlicesAt

\* What the invariant says of one manifest.
LEMMA OneManifest ==
    ASSUME MongoInv, NEW i \in DOMAIN backups
    PROVE  /\ i \in Nat /\ backups[i].start \in Nat /\ backups[i].end \in Nat
           /\ backups[i].data \in SUBSET Nat
           /\ ManifestIsSound(backups, txn, rolled, Top, i)
<1>1. backups \in Seq(Manifests) /\ DOMAIN backups = 1 .. Len(backups)
  BY MongoTypes DEF MongoInv
<1>2. backups[i] \in Manifests
  BY <1>1
<1>. QED
  BY <1>1, <1>2, MongoManifestFacts DEF MongoInv, BackupsAreSound

\* What it says of a slice and its base.
LEMMA OneSlice ==
    ASSUME MongoInv, NEW b \in Bases, NEW i \in SlicesOf(b)
    PROVE  /\ b \in DOMAIN backups /\ i \in DOMAIN backups /\ b < i
           /\ backups[b].kind = "full" /\ ~ backups[b].selective
           /\ backups[i].kind = "incr" /\ backups[i].base = b
           /\ backups[b].end <= backups[i].start
           /\ \A j \in SlicesOf(b) : j < i => backups[j].end <= backups[i].start
           /\ \A n \in backups[b].end + 1 .. backups[i].end :
                \E j \in SlicesOf(b) : j <= i /\ n \in backups[j].start + 1 .. backups[j].end
<1>1. b \in BasesAt(backups) /\ SlicesOf(b) = SlicesAt(backups, b)
  BY MongoChainFacts
<1>2. SlicesLieInOrder(backups)
  BY DEF MongoInv, BackupsAreSound
<1>3. /\ b < i /\ backups[b].end <= backups[i].start
      /\ \A j \in SlicesAt(backups, b) : j < i => backups[j].end <= backups[i].start
      /\ \A n \in backups[b].end + 1 .. backups[i].end :
           \E j \in SlicesAt(backups, b) : j <= i /\ n \in backups[j].start + 1 .. backups[j].end
  BY <1>1, <1>2 DEF SlicesLieInOrder
<1>4. /\ b \in DOMAIN backups /\ i \in DOMAIN backups
      /\ backups[b].kind = "full" /\ ~ backups[b].selective
      /\ backups[i].kind = "incr" /\ backups[i].base = b
  BY <1>1 DEF BasesAt, SlicesAt
<1>. QED
  BY <1>1, <1>3, <1>4

\* What has its effect in a stream.
LEMMA PlainInStream ==
    ASSUME NEW t, NEW E, NEW n \in E, Plain(t, n)
    PROVE  n \in StreamOf(t, E)
  BY DEF Plain, StreamOf

\* So has the piece of a committed transaction, with its last entry.
LEMMA PieceInStream ==
    ASSUME NEW t, NEW E, NEW n \in E, n = t.piece, t.last \in E, ~ t.aborted
    PROVE  n \in StreamOf(t, E)
  BY DEF StreamOf

--------------------------------------------------------------------------------
(* The slices join *)

\* The manifest of the chain before a slice ends where the slice starts.
LEMMA SliceFollows ==
    ASSUME MongoInv, NEW b \in Bases, NEW i \in SlicesOf(b)
    PROVE  \E j \in {b} \cup {k \in SlicesOf(b) : k < i} :
              /\ \A k \in {b} \cup {l \in SlicesOf(b) : l < i} : k <= j
              /\ backups[i].start = backups[j].end
<1>1. /\ i \in DOMAIN backups /\ b \in DOMAIN backups /\ backups[i].kind = "incr" /\ backups[i].base = b
      /\ i \in Nat /\ b \in Nat
  BY OneSlice, OneManifest
<1>2. ManifestIsSound(backups, txn, rolled, Top, i)
  BY <1>1, OneManifest
<1>3. PICK j \in 1 .. (i - 1) :
        /\ ~ backups[j].selective /\ BaseAt(backups, j) = b /\ backups[j].end = backups[i].start
        /\ \A l \in j + 1 .. (i - 1) : backups[l].selective
  BY <1>1, <1>2 DEF ManifestIsSound, FollowsTip
<1>4. DOMAIN backups = 1 .. Len(backups) /\ Len(backups) \in Nat /\ backups \in Seq(Manifests)
  BY MongoTypes DEF MongoInv
<1>5. j \in DOMAIN backups /\ j < i /\ j \in Nat
  BY <1>1, <1>3, <1>4
<1>6. j = b \/ j \in SlicesOf(b)
  <2>1. backups[j] \in Manifests
    BY <1>4, <1>5
  <2>2. backups[j].kind \in {"full", "incr"}
    BY <2>1, MongoManifestFacts
  <2>. QED
    BY <2>2, <1>3, <1>4, <1>5 DEF BaseAt, SlicesOf
<1>7. b <= j
  <2>1. \A k \in SlicesOf(b) : b < k
    BY OneSlice
  <2>. QED
    BY <2>1, <1>1, <1>5, <1>6
<1>8. ASSUME NEW k \in SlicesOf(b), k < i
      PROVE  k <= j
  <2>. SUFFICES ASSUME ~ (k <= j) PROVE FALSE
    OBVIOUS
  <2>1. k \in DOMAIN backups /\ k \in Nat /\ backups[k].kind = "incr"
    BY OneSlice, OneManifest
  <2>2. ~ backups[k].selective
    BY <2>1, OneManifest DEF ManifestIsSound
  <2>3. k \in j + 1 .. (i - 1)
    BY <2>1, <1>1, <1>5, <1>8
  <2>. QED
    BY <2>2, <2>3, <1>3
<1>. QED
  BY <1>3, <1>5, <1>6, <1>7, <1>8

\* The largest manifest before a slice is the one it follows.
LEMMA SoundChainsJoin == MongoInv => ChainsJoin
<1>. SUFFICES ASSUME MongoInv, NEW b \in Bases, NEW i \in SlicesOf(b)
              PROVE  LET before == {b} \cup {j \in SlicesOf(b) : j < i}
                         prev == CHOOSE j \in before : \A k \in before : k <= j
                     IN  b < i /\ backups[i].start = backups[prev].end
  BY DEF ChainsJoin
<1>. DEFINE before == {b} \cup {j \in SlicesOf(b) : j < i}
            prev == CHOOSE j \in before : \A k \in before : k <= j
<1>1. PICK j \in before : (\A k \in before : k <= j) /\ backups[i].start = backups[j].end
  BY SliceFollows
<1>2. \A k \in before : k \in Nat
  <2>1. b \in Nat
    BY OneSlice, OneManifest
  <2>2. \A k \in SlicesOf(b) : k \in Nat
    BY OneSlice, OneManifest
  <2>. QED
    BY <2>1, <2>2
<1>. HIDE DEF before
<1>3. prev \in before /\ \A k \in before : k <= prev
  BY <1>1
<1>4. prev = j
  <2>. HIDE DEF prev
  <2>. QED
    BY <1>1, <1>2, <1>3
<1>5. b < i
  BY OneSlice
<1>. QED
  BY <1>1, <1>4, <1>5 DEF before

\* Every chain a destination ever holds passes the join check of verify and pitr.
THEOREM MongoChainsJoin == MongoSpec => []ChainsJoin
  BY MongoInvariance, SoundChainsJoin, PTL

--------------------------------------------------------------------------------
(* What a chain loses *)

\* The slices of a chain cover what lies between its base and its end.
LEMMA ChainCovers ==
    ASSUME MongoInv, NEW b \in Bases
    PROVE  /\ b \in DOMAIN backups /\ ChainEnd(b) \in Nat /\ ChainEnd(b) <= Top
           /\ \A n \in backups[b].end + 1 .. ChainEnd(b) :
                \E j \in SlicesOf(b) : n \in backups[j].start + 1 .. backups[j].end
<1>1. b \in BasesAt(backups)
  BY MongoChainFacts
<1>2. b \in DOMAIN backups
  BY <1>1 DEF BasesAt
<1>3. CASE SlicesOf(b) = {}
  <2>1. ChainEnd(b) = backups[b].end
    BY <1>3 DEF ChainEnd
  <2>2. backups[b].end \in Nat /\ backups[b].end <= Top
    BY <1>2, OneManifest DEF ManifestIsSound
  <2>3. backups[b].end + 1 .. backups[b].end = {}
    BY <2>2
  <2>. QED
    BY <2>1, <2>2, <2>3, <1>2
<1>4. CASE SlicesOf(b) # {}
  <2>1. DOMAIN backups = 1 .. Len(backups) /\ Len(backups) \in Nat
    BY MongoTypes DEF MongoInv
  <2>2. SlicesOf(b) \in SUBSET (0 .. Len(backups))
    BY <2>1 DEF SlicesOf
  <2>. DEFINE l == CHOOSE i \in SlicesOf(b) : \A j \in SlicesOf(b) : j <= i
  <2>3. l \in SlicesOf(b)
    BY <2>1, <2>2, <1>4, MaxOfBounded
  <2>4. ChainEnd(b) = backups[l].end
    BY <1>4 DEF ChainEnd
  <2>. HIDE DEF l
  <2>5. l \in DOMAIN backups
    BY <2>3, OneSlice
  <2>6. backups[l].end \in Nat /\ backups[l].end <= Top
    BY <2>5, OneManifest DEF ManifestIsSound
  <2>7. \A n \in backups[b].end + 1 .. backups[l].end :
            \E j \in SlicesOf(b) : n \in backups[j].start + 1 .. backups[j].end
    BY <2>3, OneSlice
  <2>. QED
    BY <2>4, <2>6, <2>7, <1>2
<1>. QED
  BY <1>3, <1>4

\* Of the writes that lie in a part S of the history, which has no gap before it, a
\* chain restored up to S lacks only what is excused.
LEMMA ChainLosesOnlyExcused ==
    ASSUME MongoInv, NEW b \in Bases, NEW S \in SUBSET Nat,
           \A m \in Nat : \A n \in S : m <= n => m \in S,
           NEW n \in StreamOf(txn, (1 .. ChainEnd(b)) \cap S),
           n \notin backups[b].data,
           \A i \in SlicesOf(b) : n \notin StreamOf(txn, backups[i].data \cap S)
    PROVE  n \in Excused(b)
<1>t. /\ txn \in Txns /\ txn.piece \in Nat /\ txn.last \in Nat /\ Top \in Nat
      /\ TxnIsSound(txn, Top)
  BY MongoTypes DEF MongoInv
<1>b. /\ b \in DOMAIN backups /\ ChainEnd(b) \in Nat /\ ChainEnd(b) <= Top
      /\ \A k \in backups[b].end + 1 .. ChainEnd(b) :
           \E j \in SlicesOf(b) : k \in backups[j].start + 1 .. backups[j].end
  BY ChainCovers
<1>1. n \in 1 .. ChainEnd(b) /\ n \in S /\ (Plain(txn, n) \/ n = txn.piece)
  BY <1>t, StreamFacts
<1>2. n \in 1 .. Top
  BY <1>1, <1>b, <1>t
<1>3. /\ backups[b].start \in Nat /\ backups[b].end \in Nat
      /\ StreamOf(txn, 1 .. backups[b].start) \subseteq backups[b].data
  <2>1. b \in BasesAt(backups)
    BY MongoChainFacts
  <2>2. backups[b].kind = "full" /\ ~ backups[b].selective
    BY <2>1 DEF BasesAt
  <2>3. ManifestIsSound(backups, txn, rolled, Top, b)
    BY <1>b, OneManifest
  <2>. QED
    BY <2>2, <2>3, <1>b, OneManifest DEF ManifestIsSound, DumpIsSound
<1>4. ASSUME NEW i \in SlicesOf(b)
      PROVE  /\ backups[i].start \in Nat /\ backups[i].end \in Nat /\ i \in Nat
             /\ RangeIsSound(rolled, backups[i].start, backups[i].end, backups[i].data)
  <2>1. i \in DOMAIN backups /\ backups[i].kind = "incr"
    BY OneSlice
  <2>. QED
    BY <2>1, OneManifest DEF ManifestIsSound
<1>5. CASE Plain(txn, n)
  <2>1. EffectiveAt(n) = n
    BY <1>5 DEF Plain, EffectiveAt
  <2>2. CASE n <= backups[b].start
    <3>1. n \in 1 .. backups[b].start
      BY <2>2, <1>1, <1>3, <1>b
    <3>2. n \in StreamOf(txn, 1 .. backups[b].start)
      BY <3>1, <1>5, PlainInStream
    <3>. QED
      BY <3>2, <1>3
  <2>3. CASE n \in backups[b].start + 1 .. backups[b].end
    BY <2>1, <2>3, <1>2 DEF Excused
  <2>4. CASE n \in backups[b].end + 1 .. ChainEnd(b)
    <3>1. PICK j \in SlicesOf(b) : n \in backups[j].start + 1 .. backups[j].end
      BY <2>4, <1>b
    <3>2. n \notin backups[j].data
      <4>. SUFFICES ASSUME n \in backups[j].data PROVE FALSE
        OBVIOUS
      <4>1. n \in backups[j].data \cap S
        BY <1>1
      <4>. QED
        BY <4>1, <1>5, PlainInStream
    <3>3. n \in rolled
      BY <3>1, <3>2, <1>4 DEF RangeIsSound
    <3>. QED
      BY <3>3, <1>2 DEF Excused
  <2>. QED
    BY <2>2, <2>3, <2>4, <1>1, <1>3, <1>b
<1>6. CASE n = txn.piece
  <2>1. /\ txn.last \in 1 .. ChainEnd(b) /\ txn.last \in S /\ ~ txn.aborted
    BY <1>6, <1>t, StreamFacts
  <2>2. n < txn.last /\ EffectiveAt(n) = txn.last
    BY <2>1, <1>6, <1>t, <1>b DEF TxnIsSound, EffectiveAt
  <2>3. CASE txn.last <= backups[b].start
    <3>1. n \in 1 .. backups[b].start /\ txn.last \in 1 .. backups[b].start
      BY <2>1, <2>2, <2>3, <1>1, <1>3, <1>b, <1>t
    <3>2. n \in StreamOf(txn, 1 .. backups[b].start)
      BY <3>1, <2>1, <1>6, PieceInStream
    <3>. QED
      BY <3>2, <1>3
  <2>4. CASE txn.last \in backups[b].start + 1 .. backups[b].end
    BY <2>2, <2>4, <1>2 DEF Excused
  <2>5. CASE txn.last \in backups[b].end + 1 .. ChainEnd(b)
    <3>1. CASE n <= backups[b].end
      <4>1. backups[b].end < txn.last
        BY <2>5, <1>3, <1>b
      <4>. QED
        BY <3>1, <4>1, <1>2, <1>6 DEF Excused
    <3>2. CASE ~ (n <= backups[b].end)
      <4>1. n \in backups[b].end + 1 .. ChainEnd(b)
        BY <3>2, <1>1, <1>3, <1>b
      <4>2. PICK p \in SlicesOf(b) : n \in backups[p].start + 1 .. backups[p].end
        BY <4>1, <1>b
      <4>3. PICK q \in SlicesOf(b) : txn.last \in backups[q].start + 1 .. backups[q].end
        BY <2>5, <1>b
      <4>4. CASE p = q
        <5>1. n \notin backups[p].data
          <6>. SUFFICES ASSUME n \in backups[p].data PROVE FALSE
            OBVIOUS
          <6>1. txn.last \in backups[p].data
            BY <2>2, <4>3, <4>4, <1>4, <1>t DEF RangeIsSound
          <6>2. n \in backups[p].data \cap S /\ txn.last \in backups[p].data \cap S
            BY <6>1, <2>1, <1>1
          <6>. QED
            BY <6>2, <2>1, <1>6, PieceInStream
        <5>2. n \in rolled
          BY <4>2, <5>1, <1>4 DEF RangeIsSound
        <5>. QED
          BY <5>2, <1>2 DEF Excused
      <4>5. CASE p < q
        <5>1. backups[p].end <= backups[q].start
          BY <4>5, OneSlice
        <5>2. n <= backups[p].end /\ backups[p].end < txn.last
          BY <4>2, <4>3, <5>1, <1>4, <1>t
        <5>. QED
          BY <5>2, <1>2, <1>6 DEF Excused
      <4>6. CASE q < p
        <5>1. backups[q].end <= backups[p].start
          BY <4>6, OneSlice
        <5>. QED
          BY <5>1, <4>2, <4>3, <2>2, <1>4, <1>t, <1>1, <1>b
      <4>. QED
        BY <4>4, <4>5, <4>6, <1>4
    <3>. QED
      BY <3>1, <3>2
  <2>. QED
    BY <2>1, <2>3, <2>4, <2>5, <1>3, <1>b
<1>. QED
  BY <1>1, <1>5, <1>6

\* A stream of the model is a stream of its transaction.
LEMMA StreamsOfTheModel ==
    ASSUME NEW E
    PROVE  apply_stream(E) = StreamOf(txn, E)
  BY DEF apply_stream, StreamOf

\* The whole chain is the chain restored up to the end of time.
LEMMA SoundChainsLoseOnlyExcused == MongoInv => LostOnlyInWindows
<1>. SUFFICES ASSUME MongoInv, NEW b \in Bases,
                     NEW n \in apply_stream(1 .. ChainEnd(b)), n \notin Restored(b)
              PROVE  n \in Excused(b)
  BY DEF LostOnlyInWindows
<1>1. ChainEnd(b) \in Nat
  BY ChainCovers
<1>2. n \in StreamOf(txn, (1 .. ChainEnd(b)) \cap Nat)
  <2>1. (1 .. ChainEnd(b)) \cap Nat = 1 .. ChainEnd(b)
    BY <1>1
  <2>. QED
    BY <2>1, StreamsOfTheModel
<1>3. n \notin backups[b].data
  BY DEF Restored
<1>4. ASSUME NEW i \in SlicesOf(b)
      PROVE  n \notin StreamOf(txn, backups[i].data \cap Nat)
  <2>1. i \in DOMAIN backups
    BY OneSlice
  <2>2. backups[i].data \cap Nat = backups[i].data
    BY <2>1, OneManifest
  <2>3. n \notin apply_stream(backups[i].data)
    BY DEF Restored
  <2>. QED
    BY <2>2, <2>3, StreamsOfTheModel
<1>. QED
  BY <1>2, <1>3, <1>4, ChainLosesOnlyExcused

\* Whatever was promoted, aborted, empty or trimmed in between, a restored chain
\* lacks only what took effect during the base's dump, was rolled over between a gap
\* check and its find, or belongs to a transaction that two slices share.
THEOREM MongoLosesOnlyInWindows == MongoSpec => []LostOnlyInWindows
  BY MongoInvariance, SoundChainsLoseOnlyExcused, PTL

--------------------------------------------------------------------------------
(* A restore to a second *)

\* Division keeps the order.
LEMMA DivMonotone ==
    ASSUME NEW p \in Nat \ {0}, NEW a \in Nat, NEW b \in Nat, a <= b
    PROVE  a \div p <= b \div p /\ a \div p \in Nat /\ b \div p \in Nat
  OBVIOUS

\* Time does not run backwards.
LEMMA SecMonotone ==
    ASSUME NEW m \in Nat, NEW n \in Nat, m <= n
    PROVE  Sec(m) <= Sec(n) /\ Sec(m) \in Nat /\ Sec(n) \in Nat
<1>1. PerSecond \in Nat \ {0}
  BY MongoAssumption
<1>. DEFINE x == m + PerSecond - 1
            y == n + PerSecond - 1
<1>2. x \in Nat /\ y \in Nat /\ x <= y
  BY <1>1
<1>. HIDE DEF x, y
<1>3. x \div PerSecond <= y \div PerSecond /\ x \div PerSecond \in Nat /\ y \div PerSecond \in Nat
  BY <1>1, <1>2, DivMonotone
<1>. QED
  BY <1>3 DEF Sec, x, y

\* What has an effect in a stream has it by an entry of the stream.
LEMMA EffectInStream ==
    ASSUME NEW E, NEW n \in StreamOf(txn, E)
    PROVE  EffectiveAt(n) \in E
  BY DEF StreamOf, EffectiveAt

\* The restore begins at a base that ends by the second.
LEMMA SelectedBase ==
    ASSUME MongoInv, NEW s \in Nat, BasesBefore(s) # {}
    PROVE  select_base_before(s) \in BasesBefore(s)
<1>. DEFINE T == BasesBefore(s)
            key == [c \in T |-> backups[c].end]
<1>1. DOMAIN backups = 1 .. Len(backups) /\ Len(backups) \in Nat /\ Top \in Nat
  BY MongoTypes DEF MongoInv
<1>2. T \subseteq Bases
  BY DEF BasesBefore
<1>3. T \in SUBSET (1 .. Len(backups))
  BY <1>2 DEF Bases, Selectable
<1>4. \A c \in T : backups[c].end \in 0 .. Top
  <2>. SUFFICES ASSUME NEW c \in T PROVE backups[c].end \in 0 .. Top
    OBVIOUS
  <2>1. c \in DOMAIN backups
    BY <1>1, <1>3
  <2>. QED
    BY <2>1, <1>1, OneManifest DEF ManifestIsSound
<1>5. PICK n \in Nat : n >= Top /\ n >= Len(backups)
  BY <1>1
<1>6. T \in SUBSET (1 .. n) /\ key \in [T -> 0 .. n]
  BY <1>1, <1>3, <1>4, <1>5
<1>7. T # {}
  OBVIOUS
<1>. HIDE DEF T
<1>8. PICK h \in T : \A c \in T : key[c] < key[h] \/ (key[c] = key[h] /\ c <= h)
  <2>. HIDE DEF key
  <2>. QED
    BY <1>5, <1>6, <1>7, GreatestByKey
<1>9. \A c \in T : backups[c].end < backups[h].end \/ (backups[c].end = backups[h].end /\ c <= h)
  BY <1>8
<1>. QED
  BY <1>8, <1>9 DEF select_base_before, T

\* The entries of the history up to a second.
UpTo(s) == {n \in Nat : Sec(n) <= s}

\* With an entry of the second come all the entries before it.
LEMMA UpToIsFull ==
    ASSUME NEW s \in Nat
    PROVE  UpTo(s) \in SUBSET Nat /\ \A m \in Nat : \A n \in UpTo(s) : m <= n => m \in UpTo(s)
<1>. SUFFICES ASSUME NEW m \in Nat, NEW n \in UpTo(s), m <= n PROVE m \in UpTo(s)
  BY DEF UpTo
<1>1. Sec(m) <= Sec(n) /\ Sec(m) \in Nat /\ Sec(n) \in Nat
  BY SecMonotone DEF UpTo
<1>2. Sec(n) <= s
  BY DEF UpTo
<1>. QED
  BY <1>1, <1>2 DEF UpTo

\* A slice that is replayed whole lies within the second.
LEMMA WholeSliceFacts ==
    ASSUME MongoInv, NEW s \in Nat, NEW b \in Bases, NEW i \in WholeSlices(b, s)
    PROVE  i \in SlicesOf(b) /\ backups[i].data \cap UpTo(s) = backups[i].data
<1>1. i \in SlicesOf(b)
  BY DEF WholeSlices
<1>2. i \in DOMAIN backups /\ backups[i].kind = "incr"
  BY <1>1, OneSlice
<1>3. backups[i].end \in Nat /\ backups[i].start \in Nat /\ i \in Nat
      /\ RangeIsSound(rolled, backups[i].start, backups[i].end, backups[i].data)
  BY <1>2, OneManifest DEF ManifestIsSound
<1>4. Sec(backups[i].end) <= s
  BY <1>1, <1>3 DEF WholeSlices
<1>5. ASSUME NEW n \in backups[i].data
      PROVE  n \in UpTo(s)
  <2>1. n \in Nat /\ n <= backups[i].end
    BY <1>3 DEF RangeIsSound
  <2>2. Sec(n) <= Sec(backups[i].end) /\ Sec(n) \in Nat /\ Sec(backups[i].end) \in Nat
    BY <2>1, <1>3, SecMonotone
  <2>. QED
    BY <2>1, <2>2, <1>4 DEF UpTo
<1>. QED
  BY <1>1, <1>5

\* A slice with an entry of the second is replayed, whole or up to the limit.
LEMMA ReplayedSlices ==
    ASSUME MongoInv, NEW s \in Nat, NEW b \in Bases, NEW i \in SlicesOf(b),
           NEW n \in backups[i].data \cap UpTo(s)
    PROVE  i \in WholeSlices(b, s) \cup LimitSlice(b, s)
<1>1. i \in DOMAIN backups /\ backups[i].kind = "incr"
      /\ \A j \in SlicesOf(b) : j < i => backups[j].end <= backups[i].start
  BY OneSlice
<1>2. backups[i].end \in Nat /\ backups[i].start \in Nat /\ i \in Nat
      /\ RangeIsSound(rolled, backups[i].start, backups[i].end, backups[i].data)
  BY <1>1, OneManifest DEF ManifestIsSound
<1>3. n \in Nat /\ backups[i].start < n /\ Sec(n) <= s
  BY <1>2 DEF RangeIsSound, UpTo
<1>4. Sec(backups[i].start) <= s
  <2>1. Sec(backups[i].start) <= Sec(n) /\ Sec(backups[i].start) \in Nat /\ Sec(n) \in Nat
    BY <1>2, <1>3, SecMonotone
  <2>. QED
    BY <2>1, <1>3
<1>5. ASSUME NEW j \in SlicesOf(b), j < i
      PROVE  Sec(backups[j].end) <= s /\ j \in Nat
  <2>1. j \in DOMAIN backups /\ backups[j].end <= backups[i].start
    BY <1>1, <1>5, OneSlice
  <2>2. backups[j].end \in Nat /\ j \in Nat
    BY <2>1, OneManifest
  <2>3. /\ Sec(backups[j].end) <= Sec(backups[i].start)
        /\ Sec(backups[j].end) \in Nat /\ Sec(backups[i].start) \in Nat
    BY <2>1, <2>2, <1>2, SecMonotone
  <2>. QED
    BY <2>2, <2>3, <1>4
<1>6. \A j \in SlicesOf(b) : j \in Nat
  BY OneSlice, OneManifest
<1>7. \A j \in SlicesOf(b) : j < i => j \in WholeSlices(b, s)
  BY <1>2, <1>5, <1>6 DEF WholeSlices
<1>. QED
  BY <1>4, <1>7 DEF LimitSlice

\* The part of a slice before the limit of a second.
CutAt(s, i) == {n \in backups[i].data : Sec(n) < oplog_limit_for_second(s)}

\* The restore to a second is the base and, of every slice, the entries up to it.
LEMMA RestoredToSecond ==
    ASSUME MongoInv, NEW s \in Nat, BasesBefore(s) # {}
    PROVE  LET b == select_base_before(s)
           IN  /\ \A n \in RestoredAt(s) :
                    n \in backups[b].data \/ \E i \in SlicesOf(b) : n \in StreamOf(txn, backups[i].data \cap UpTo(s))
               /\ backups[b].data \subseteq RestoredAt(s)
               /\ \A i \in SlicesOf(b) : StreamOf(txn, backups[i].data \cap UpTo(s)) \subseteq RestoredAt(s)
<1>. DEFINE b == select_base_before(s)
<1>1. b \in Bases
  BY SelectedBase DEF BasesBefore
<1>2. RestoredAt(s) = (backups[b].data
          \cup (UNION {apply_stream(backups[i].data) : i \in WholeSlices(b, s)}))
        \cup UNION {apply_stream(CutAt(s, i)) : i \in LimitSlice(b, s)}
  BY DEF RestoredAt, CutAt
<1>. HIDE DEF b
<1>3. ASSUME NEW i \in WholeSlices(b, s)
      PROVE  i \in SlicesOf(b) /\ apply_stream(backups[i].data) = StreamOf(txn, backups[i].data \cap UpTo(s))
  BY <1>1, WholeSliceFacts, StreamsOfTheModel
<1>4. ASSUME NEW i \in LimitSlice(b, s)
      PROVE  i \in SlicesOf(b) /\ apply_stream(CutAt(s, i)) = StreamOf(txn, backups[i].data \cap UpTo(s))
  <2>1. i \in SlicesOf(b)
    BY DEF LimitSlice
  <2>2. backups[i].data \in SUBSET Nat
    BY <1>1, <2>1, OneSlice, OneManifest
  <2>3. \A n \in backups[i].data : Sec(n) \in Nat
    BY <2>2, SecMonotone
  <2>4. CutAt(s, i) = backups[i].data \cap UpTo(s)
    BY <2>2, <2>3 DEF UpTo, CutAt, oplog_limit_for_second
  <2>. QED
    BY <2>1, <2>4, StreamsOfTheModel
<1>m. ASSUME NEW n
      PROVE  n \in RestoredAt(s) <=>
               \/ n \in backups[b].data
               \/ \E i \in WholeSlices(b, s) : n \in apply_stream(backups[i].data)
               \/ \E i \in LimitSlice(b, s) : n \in apply_stream(CutAt(s, i))
  BY <1>2
<1>5. ASSUME NEW n \in RestoredAt(s)
      PROVE  n \in backups[b].data \/ \E i \in SlicesOf(b) : n \in StreamOf(txn, backups[i].data \cap UpTo(s))
  <2>1. \/ n \in backups[b].data
        \/ \E i \in WholeSlices(b, s) : n \in apply_stream(backups[i].data)
        \/ \E i \in LimitSlice(b, s) : n \in apply_stream(CutAt(s, i))
    BY <1>m
  <2>. QED
    BY <2>1, <1>3, <1>4
<1>6. backups[b].data \subseteq RestoredAt(s)
  BY <1>m
<1>7. ASSUME NEW i \in SlicesOf(b), NEW n \in StreamOf(txn, backups[i].data \cap UpTo(s))
      PROVE  n \in RestoredAt(s)
  <2>1. n \in backups[i].data \cap UpTo(s)
    BY DEF StreamOf
  <2>2. i \in WholeSlices(b, s) \cup LimitSlice(b, s)
    BY <2>1, <1>1, ReplayedSlices
  <2>3. CASE i \in WholeSlices(b, s)
    BY <2>3, <1>m, <1>3
  <2>4. CASE i \in LimitSlice(b, s)
    BY <2>4, <1>m, <1>4
  <2>. QED
    BY <2>2, <2>3, <2>4
<1>. QED
  BY <1>5, <1>6, <1>7 DEF b

\* The selected base and the entries up to the second hold just that.
LEMMA SoundChainsRestoreSeconds == MongoInv => RestoreToSecond
<1>. SUFFICES ASSUME MongoInv, NEW s \in 1 .. Sec(Top), BasesBefore(s) # {}
              PROVE  LET b == select_base_before(s)
                         wanted == apply_stream({n \in 1 .. ChainEnd(b) : Sec(n) <= s})
                     IN  /\ \A n \in RestoredAt(s) : Sec(EffectiveAt(n)) <= s
                         /\ wanted \ RestoredAt(s) \subseteq Excused(b)
  BY DEF RestoreToSecond
<1>t. s \in Nat /\ txn \in Txns
  <2>1. Top \in Nat /\ txn \in Txns
    BY MongoTypes DEF MongoInv
  <2>2. Sec(Top) \in Nat
    BY <2>1, SecMonotone
  <2>. QED
    BY <2>1, <2>2
<1>. DEFINE b == select_base_before(s)
            wanted == apply_stream({n \in 1 .. ChainEnd(b) : Sec(n) <= s})
<1>1. b \in Bases /\ Sec(backups[b].end) <= s
  BY <1>t, SelectedBase DEF BasesBefore
<1>2. /\ \A n \in RestoredAt(s) :
           n \in backups[b].data \/ \E i \in SlicesOf(b) : n \in StreamOf(txn, backups[i].data \cap UpTo(s))
      /\ backups[b].data \subseteq RestoredAt(s)
      /\ \A i \in SlicesOf(b) : StreamOf(txn, backups[i].data \cap UpTo(s)) \subseteq RestoredAt(s)
  BY <1>t, RestoredToSecond
<1>. HIDE DEF b
<1>3. ChainEnd(b) \in Nat /\ b \in DOMAIN backups
  BY <1>1, ChainCovers
<1>4. \A n \in RestoredAt(s) : Sec(EffectiveAt(n)) <= s
  <2>. SUFFICES ASSUME NEW n \in RestoredAt(s) PROVE Sec(EffectiveAt(n)) <= s
    OBVIOUS
  <2>1. CASE n \in backups[b].data
    <3>1. backups[b].data \subseteq StreamOf(txn, 1 .. backups[b].end)
      <4>1. b \in BasesAt(backups)
        BY <1>1, MongoChainFacts
      <4>2. backups[b].kind = "full" /\ ~ backups[b].selective
        BY <4>1 DEF BasesAt
      <4>3. ManifestIsSound(backups, txn, rolled, Top, b)
        BY <1>3, OneManifest
      <4>. QED
        BY <4>2, <4>3 DEF ManifestIsSound, DumpIsSound
    <3>2. EffectiveAt(n) \in 1 .. backups[b].end
      BY <2>1, <3>1, EffectInStream
    <3>3. backups[b].end \in Nat
      BY <1>3, OneManifest
    <3>4. EffectiveAt(n) \in Nat /\ EffectiveAt(n) <= backups[b].end
      BY <3>2, <3>3
    <3>5. /\ Sec(EffectiveAt(n)) <= Sec(backups[b].end)
          /\ Sec(EffectiveAt(n)) \in Nat /\ Sec(backups[b].end) \in Nat
      BY <3>3, <3>4, SecMonotone
    <3>. QED
      BY <3>5, <1>1, <1>t
  <2>2. CASE \E i \in SlicesOf(b) : n \in StreamOf(txn, backups[i].data \cap UpTo(s))
    <3>1. PICK i \in SlicesOf(b) : n \in StreamOf(txn, backups[i].data \cap UpTo(s))
      BY <2>2
    <3>2. EffectiveAt(n) \in UpTo(s)
      BY <3>1, EffectInStream
    <3>. QED
      BY <3>2 DEF UpTo
  <2>. QED
    BY <2>1, <2>2, <1>2
<1>5. ASSUME NEW n \in wanted, n \notin RestoredAt(s)
      PROVE  n \in Excused(b)
  <2>1. n \in StreamOf(txn, (1 .. ChainEnd(b)) \cap UpTo(s))
    <3>1. {k \in 1 .. ChainEnd(b) : Sec(k) <= s} = (1 .. ChainEnd(b)) \cap UpTo(s)
      BY <1>3 DEF UpTo
    <3>. QED
      BY <3>1, StreamsOfTheModel
  <2>2. n \notin backups[b].data
    BY <1>2, <1>5
  <2>3. \A i \in SlicesOf(b) : n \notin StreamOf(txn, backups[i].data \cap UpTo(s))
    BY <1>2, <1>5
  <2>4. UpTo(s) \in SUBSET Nat /\ \A m \in Nat : \A k \in UpTo(s) : m <= k => m \in UpTo(s)
    BY <1>t, UpToIsFull
  <2>. QED
    BY <2>1, <2>2, <2>3, <2>4, <1>1, ChainLosesOnlyExcused
<1>. QED
  BY <1>4, <1>5 DEF b

\* A restore to a second holds nothing of a later one, and every write of the chain up
\* to it that is not excused, wherever the writes of the second were split.
THEOREM MongoRestoresToSecond == MongoSpec => []RestoreToSecond
  BY MongoInvariance, SoundChainsRestoreSeconds, PTL

================================================================================
