------------------------ MODULE RecorderNode_proofs ------------------------
(***************************************************************************)
(* Proofs about RecorderNode for every number of nodes and of events: what *)
(* the recorder writes for the player's rewinding and seeking is exact.    *)
(***************************************************************************)
EXTENDS RecorderNode, SequenceTheorems, TLAPS

-----------------------------------------------------------------------------
(* The inductive invariant, in named parts *)

EntryType == [config : Nat, pos : Nat]
RecType ==
  [type : {"added", "prop", "ready", "begin", "data", "removed", "table", "end"},
   node : Nat, undo : Nat, num : Nat, table : Nat, index : Seq(EntryType)]
InfoType ==
  [addedPos : Nat, gotData : BOOLEAN, prop : Nat, data : Nat, index : Seq(EntryType)]

RecorderTypes ==
  /\ file \in Seq(RecType) /\ header \in Int /\ numNodes \in Nat /\ configID \in Nat
  /\ DOMAIN recorded \subseteq 1..numNodes
  /\ recorded \in [DOMAIN recorded -> InfoType]
  /\ announcing \in DOMAIN recorded \cup {0}
  /\ stage \in {"recording", "finalizing", "done", "crashed"}
  /\ stage \in {"finalizing", "done"} => announcing = 0

\* Place m of the records f is the last one of a kind and node before place p, or 0.
IsLastRec(f, type, n, p, m) ==
  /\ m = 0 \/ (m \in 1..(p - 1) /\ f[m].type = type /\ f[m].node = n)
  /\ \A k \in 1..(p - 1) : f[k].type = type /\ f[k].node = n => k <= m

\* Records are of nodes that were added; a node that is recorded is known by
\* the record that added it, has no table yet, and knows its last records.
NodesKnown ==
  /\ \A k \in 1..Len(file) : file[k].node <= numNodes
  /\ \A n \in DOMAIN recorded :
       LET info == recorded[n]
       IN  /\ info.addedPos \in 1..Len(file)
           /\ file[info.addedPos].type = "added" /\ file[info.addedPos].node = n
           /\ IsLastRec(file, "prop", n, Len(file) + 1, info.prop)
           /\ IsLastRec(file, "data", n, Len(file) + 1, info.data)
  /\ \A p \in 1..Len(file) : HasTable(file[p]) => file[p].node \notin DOMAIN recorded

UndosExact ==
  \A k \in 1..Len(file) : file[k].type \in {"prop", "data"} =>
    IsLastRec(file, file[k].type, file[k].node, k, file[k].undo)

\* Entries are made for places in the file and for configurations up to the
\* present one; since an entry of the present one nothing but frames was
\* recorded.
EntriesPlaced ==
  /\ \A e \in Entries : e.config <= configID /\ e.pos \in 1..Len(file)
  /\ stage = "recording" =>
       \A e \in Entries : e.config = configID =>
         \A k \in e.pos..Len(file) : file[k].type \in {"data", "begin", "table"}

\* Each node with frames still knows of them or has its table, and only a file
\* without recorded nodes gets a valid header.
TablesKept ==
  /\ \A p \in 1..Len(file) : HasTable(file[p]) => file[p].table \in 1..Len(file)
  /\ \A k \in 1..Len(file) : file[k].type = "data" =>
       \/ file[k].node \in DOMAIN recorded /\ recorded[file[k].node].gotData
       \/ \E p \in 1..Len(file) : HasTable(file[p]) /\ file[p].node = file[k].node
  /\ header # InvalidNodeID => stage = "done"
  /\ stage = "done" => DOMAIN recorded = {}

RecorderInv ==
  /\ RecorderTypes /\ NodesKnown /\ UndosExact /\ EntriesPlaced
  /\ SameConfigurationSameState /\ TablesExact /\ TablesKept

-----------------------------------------------------------------------------
(* Records and how the file grows *)

\* A plain record.
LEMMA RecFacts ==
  ASSUME NEW type \in {"added", "prop", "ready", "begin", "data", "removed", "table", "end"},
         NEW n \in Nat, NEW undo \in Nat
  PROVE  /\ Rec(type, n, undo) \in RecType
         /\ Rec(type, n, undo).type = type /\ Rec(type, n, undo).node = n
         /\ Rec(type, n, undo).undo = undo /\ Rec(type, n, undo).table = 0
         /\ Rec(type, n, undo).index = <<>>
<1>1. <<>> \in Seq(EntryType)
  OBVIOUS
<1> QED BY <1>1 DEF Rec, RecType

\* The file keeps its records, up to the table of an added one, and gets new ones.
Grown(recs) ==
  /\ recs \in Seq(RecType) /\ file' \in Seq(RecType) /\ Len(file') = Len(file) + Len(recs)
  /\ \A k \in 1..Len(file) : /\ file'[k].type = file[k].type /\ file'[k].node = file[k].node
                             /\ file'[k].undo = file[k].undo /\ file'[k].index = file[k].index
                             /\ file[k].type # "added" => file'[k] = file[k]
  /\ \A k \in 1..Len(recs) : file'[Len(file) + k] = recs[k]

\* Records are written at the end of the file.
LEMMA WriteGrown ==
  ASSUME file \in Seq(RecType), NEW recs \in Seq(RecType), Write(recs)
  PROVE  Grown(recs) /\ \A k \in 1..Len(file) : file'[k] = file[k]
<1>1. Len(file) \in Nat /\ Len(recs) \in Nat
  BY LenProperties
<1>2. /\ file \o recs \in Seq(RecType) /\ Len(file \o recs) = Len(file) + Len(recs)
      /\ \A i \in 1..(Len(file) + Len(recs)) :
            (file \o recs)[i] = IF i <= Len(file) THEN file[i] ELSE recs[i - Len(file)]
  BY ConcatProperties
<1>3. /\ file' \in Seq(RecType) /\ Len(file') = Len(file) + Len(recs)
      /\ \A i \in 1..(Len(file) + Len(recs)) :
            file'[i] = IF i <= Len(file) THEN file[i] ELSE recs[i - Len(file)]
  BY <1>2 DEF Write
<1>4. \A k \in 1..Len(file) : file'[k] = file[k]
  BY <1>1, <1>3
<1>5. ASSUME NEW k \in 1..Len(recs) PROVE file'[Len(file) + k] = recs[k]
  <2>1. /\ Len(file) + k \in 1..(Len(file) + Len(recs)) /\ ~(Len(file) + k <= Len(file))
        /\ (Len(file) + k) - Len(file) = k
    BY <1>1
  <2>2. file'[Len(file) + k] = recs[(Len(file) + k) - Len(file)]
    BY <1>3, <2>1
  <2> QED BY <2>1, <2>2
<1> QED BY <1>3, <1>4, <1>5 DEF Grown

\* The sequence of one record.
LEMMA OneRecord ==
  ASSUME NEW r \in RecType
  PROVE  <<r>> \in Seq(RecType) /\ Len(<<r>>) = 1 /\ <<r>>[1] = r
OBVIOUS

\* The sequence of two.
LEMMA TwoRecords ==
  ASSUME NEW q \in RecType, NEW r \in RecType
  PROVE  /\ <<q>> \o <<r>> = <<q, r>> /\ Len(<<q>>) = 1
         /\ <<q, r>> \in Seq(RecType) /\ Len(<<q, r>>) = 2 /\ <<q, r>>[1] = q /\ <<q, r>>[2] = r
<1>1. /\ <<q>> \in Seq(RecType) /\ Len(<<q>>) = 1 /\ <<q>>[1] = q
      /\ <<r>> \in Seq(RecType) /\ Len(<<r>>) = 1 /\ <<r>>[1] = r
      /\ <<q, r>> \in Seq(RecType) /\ Len(<<q, r>>) = 2 /\ <<q, r>>[1] = q /\ <<q, r>>[2] = r
  OBVIOUS
<1> DEFINE a == <<q>>
           b == <<r>>
<1> HIDE DEF a, b
<1>2. a \in Seq(RecType) /\ Len(a) = 1 /\ a[1] = q /\ b \in Seq(RecType) /\ Len(b) = 1 /\ b[1] = r
  BY <1>1 DEF a, b
<1>3. /\ a \o b \in Seq(RecType) /\ Len(a \o b) = 2
      /\ (a \o b)[1] = q /\ (a \o b)[2] = r
  <2>1. /\ a \o b \in Seq(RecType) /\ Len(a \o b) = Len(a) + Len(b)
        /\ \A i \in 1..(Len(a) + Len(b)) : (a \o b)[i] = IF i <= Len(a) THEN a[i] ELSE b[i - Len(a)]
    BY <1>2, ConcatProperties
  <2>2. (a \o b)[1] = a[1]
    BY <1>2, <2>1
  <2>3. (a \o b)[2] = b[1]
    BY <1>2, <2>1
  <2> QED BY <1>2, <2>1, <2>2, <2>3
<1>4. \A i \in 1..2 : i = 1 \/ i = 2
  OBVIOUS
<1>5. \A i \in 1..Len(a \o b) : (a \o b)[i] = <<q, r>>[i]
  BY <1>1, <1>3, <1>4
<1>6. a \o b = <<q, r>>
  BY <1>1, <1>3, <1>5, SeqEqual
<1> QED BY <1>1, <1>6 DEF a, b

\* Records that are written in two steps.
LEMMA ThreeParts ==
  ASSUME NEW f \in Seq(RecType), NEW u \in Seq(RecType), NEW v \in Seq(RecType)
  PROVE  (f \o u) \o v = f \o (u \o v)
BY ConcatAssociative

\* The last record of a kind before a place stays the last one before it.
LEMMA LastStays ==
  ASSUME file \in Seq(RecType), NEW recs, Grown(recs), NEW type, NEW n, NEW m,
         NEW p \in 1..(Len(file) + 1), IsLastRec(file, type, n, p, m)
  PROVE  IsLastRec(file', type, n, p, m)
<1>1. \A k \in 1..(p - 1) : k \in 1..Len(file)
  BY LenProperties
<1> QED BY <1>1 DEF Grown, IsLastRec

\* It stays the last one over new records of other kinds or nodes ...
LEMMA LastPassed ==
  ASSUME file \in Seq(RecType), NEW recs, Grown(recs), NEW type, NEW n, NEW m,
         IsLastRec(file, type, n, Len(file) + 1, m), NEW q \in 0..Len(recs),
         \A k \in 1..q : ~(recs[k].type = type /\ recs[k].node = n)
  PROVE  IsLastRec(file', type, n, Len(file) + q + 1, m)
<1>1. Len(file) \in Nat /\ Len(recs) \in Nat
  BY LenProperties DEF Grown
<1>2. ASSUME NEW k \in 1..(Len(file) + q), file'[k].type = type, file'[k].node = n
      PROVE  k \in 1..Len(file) /\ file[k].type = type /\ file[k].node = n
  <2>1. CASE k <= Len(file)
    BY <1>1, <1>2, <2>1 DEF Grown
  <2>2. CASE k > Len(file)
    <3>1. k - Len(file) \in 1..q /\ k - Len(file) \in 1..Len(recs) /\ Len(file) + (k - Len(file)) = k
      BY <1>1, <2>2
    <3>2. file'[Len(file) + (k - Len(file))] = recs[k - Len(file)]
      BY <3>1 DEF Grown
    <3>3. file'[k] = recs[k - Len(file)]
      BY <3>1, <3>2
    <3> QED BY <1>2, <3>1, <3>3
  <2> QED BY <1>1, <2>1, <2>2
<1>3. (Len(file) + q + 1) - 1 = Len(file) + q /\ (Len(file) + 1) - 1 = Len(file)
  BY <1>1
<1>4. m = 0 \/ (m \in 1..(Len(file) + q) /\ file'[m].type = type /\ file'[m].node = n)
  BY <1>1, <1>3 DEF IsLastRec, Grown
<1>5. \A k \in 1..Len(file) : file[k].type = type /\ file[k].node = n => k <= m
  BY <1>3 DEF IsLastRec
<1>6. \A k \in 1..(Len(file) + q) : file'[k].type = type /\ file'[k].node = n => k <= m
  BY <1>2, <1>5
<1> QED BY <1>3, <1>4, <1>6 DEF IsLastRec

\* ... and a new one of the kind is the last one behind it.
LEMMA LastNew ==
  ASSUME file \in Seq(RecType), NEW recs, Grown(recs), NEW q \in 1..Len(recs)
  PROVE  IsLastRec(file', recs[q].type, recs[q].node, Len(file) + q + 1, Len(file) + q)
<1>1. Len(file) \in Nat /\ Len(recs) \in Nat
  BY LenProperties DEF Grown
<1>2. (Len(file) + q + 1) - 1 = Len(file) + q /\ Len(file) + q \in 1..(Len(file) + q)
  BY <1>1
<1>3. file'[Len(file) + q] = recs[q]
  BY DEF Grown
<1>4. \A k \in 1..(Len(file) + q) : k <= Len(file) + q
  BY <1>1
<1> QED BY <1>2, <1>3, <1>4 DEF IsLastRec

\* A place is the last one of a kind in one way only.
LEMMA LastIs ==
  ASSUME NEW type, NEW n, NEW p \in Nat, NEW m, IsLastRec(file, type, n, p, m)
  PROVE  LastRec(type, n, p) = m
<1> DEFINE S == {0} \cup {k \in 1..(p-1) : file[k].type = type /\ file[k].node = n}
           x == Max(S)
<1>1. m \in S /\ S \subseteq Int
  BY DEF IsLastRec
<1>2. \A y \in S : m >= y
  BY <1>1 DEF IsLastRec
<1>3. x \in S /\ \A y \in S : x >= y
  BY <1>1, <1>2 DEF Max
<1> HIDE DEF x, S
<1>4. x = m
  BY <1>1, <1>2, <1>3
<1> QED BY <1>4 DEF LastRec, x, S

\* The undo places of new records are the last ones of their kind.
LEMMA UndosGrow ==
  ASSUME file \in Seq(RecType), UndosExact, NEW recs, Grown(recs),
         \A q \in 1..Len(recs) : recs[q].type \in {"prop", "data"} =>
            IsLastRec(file', recs[q].type, recs[q].node, Len(file) + q, recs[q].undo)
  PROVE  UndosExact'
<1>1. Len(file) \in Nat /\ Len(recs) \in Nat /\ Len(file') = Len(file) + Len(recs)
  BY LenProperties DEF Grown
<1>2. ASSUME NEW k \in 1..Len(file'), file'[k].type \in {"prop", "data"}
      PROVE  IsLastRec(file', file'[k].type, file'[k].node, k, file'[k].undo)
  <2>1. CASE k <= Len(file)
    <3>1. k \in 1..Len(file) /\ k \in 1..(Len(file) + 1) /\ file'[k] = file[k]
      BY <1>1, <1>2, <2>1 DEF Grown
    <3>2. IsLastRec(file, file[k].type, file[k].node, k, file[k].undo)
      BY <1>2, <3>1 DEF UndosExact
    <3>3. IsLastRec(file', file[k].type, file[k].node, k, file[k].undo)
      BY <3>1, <3>2, LastStays
    <3> QED BY <1>2, <3>1, <3>3 DEF Grown
  <2>2. CASE k > Len(file)
    <3>1. k - Len(file) \in 1..Len(recs) /\ Len(file) + (k - Len(file)) = k
      BY <1>1, <2>2
    <3>2. file'[k] = recs[k - Len(file)]
      BY <3>1 DEF Grown
    <3>3. /\ recs[k - Len(file)].type \in {"prop", "data"}
          /\ LET q == k - Len(file)
             IN  IsLastRec(file', recs[q].type, recs[q].node, Len(file) + q, recs[q].undo)
      BY <1>2, <3>1, <3>2
    <3> QED BY <3>1, <3>2, <3>3
  <2> QED BY <1>1, <2>1, <2>2
<1> QED BY <1>2 DEF UndosExact

-----------------------------------------------------------------------------
(* The entries of the seek tables *)

\* The entries of the tables being made and of those in the file.
LEMMA EntryIn ==
  ASSUME NEW e
  PROVE  e \in Entries <=>
           \/ \E n \in DOMAIN recorded : e \in Range(recorded[n].index)
           \/ \E k \in DOMAIN file : e \in Range(file[k].index)
BY DEF Entries, Indexes

\* The fields of the records and of the node infos.
LEMMA FieldTypes ==
  ASSUME RecorderTypes
  PROVE  /\ Len(file) \in Nat /\ DOMAIN file = 1..Len(file)
         /\ \A k \in 1..Len(file) :
              /\ file[k] \in RecType /\ file[k].index \in Seq(EntryType)
              /\ file[k].node \in Nat /\ file[k].undo \in Nat /\ file[k].table \in Nat
         /\ \A n \in DOMAIN recorded :
              /\ recorded[n] \in InfoType /\ recorded[n].index \in Seq(EntryType)
              /\ recorded[n].prop \in Nat /\ recorded[n].data \in Nat
              /\ recorded[n].addedPos \in Nat /\ recorded[n].gotData \in BOOLEAN
<1>1. Len(file) \in Nat /\ DOMAIN file = 1..Len(file)
  BY LenProperties DEF RecorderTypes
<1>2. \A k \in 1..Len(file) : file[k] \in RecType
  BY ElementOfSeq DEF RecorderTypes
<1>3. \A n \in DOMAIN recorded : recorded[n] \in InfoType
  BY DEF RecorderTypes
<1>4. \A r \in RecType : r.index \in Seq(EntryType) /\ r.node \in Nat /\ r.undo \in Nat /\ r.table \in Nat
  BY DEF RecType
<1>5. \A i \in InfoType : /\ i.index \in Seq(EntryType) /\ i.prop \in Nat /\ i.data \in Nat
                          /\ i.addedPos \in Nat /\ i.gotData \in BOOLEAN
  BY DEF InfoType
<1> QED BY <1>1, <1>2, <1>3, <1>4, <1>5

\* Every entry has its fields.
LEMMA EntriesType ==
  ASSUME RecorderTypes
  PROVE  Entries \subseteq EntryType
<1>1. \A index \in Seq(EntryType) : Range(index) \subseteq EntryType
  BY DEF Range
<1>2. \A n \in DOMAIN recorded : recorded[n].index \in Seq(EntryType)
  BY FieldTypes
<1>3. \A k \in DOMAIN file : file[k].index \in Seq(EntryType)
  BY FieldTypes
<1> QED BY <1>1, <1>2, <1>3, EntryIn

\* No new entry comes from records without a table and infos that keep theirs.
LEMMA NoNewEntry ==
  ASSUME file \in Seq(RecType), NEW recs, Grown(recs),
         \A q \in 1..Len(recs) : Range(recs[q].index) \subseteq Entries,
         \A n \in DOMAIN recorded' : Range(recorded'[n].index) \subseteq Entries
  PROVE  Entries' \subseteq Entries
<1>1. Len(file) \in Nat /\ Len(recs) \in Nat /\ Len(file') = Len(file) + Len(recs)
      /\ DOMAIN file = 1..Len(file) /\ DOMAIN file' = 1..Len(file')
  BY LenProperties DEF Grown
<1>2. ASSUME NEW k \in DOMAIN file' PROVE Range(file'[k].index) \subseteq Entries
  <2>1. CASE k <= Len(file)
    <3>1. k \in DOMAIN file /\ file'[k].index = file[k].index
      BY <1>1, <2>1 DEF Grown
    <3> QED BY <3>1, EntryIn
  <2>2. CASE k > Len(file)
    <3>1. k - Len(file) \in 1..Len(recs) /\ Len(file) + (k - Len(file)) = k
      BY <1>1, <2>2
    <3>2. file'[k] = recs[k - Len(file)]
      BY <3>1 DEF Grown
    <3> QED BY <3>1, <3>2
  <2> QED BY <1>1, <2>1, <2>2
<1>3. ASSUME NEW e \in Entries'
      PROVE  \/ \E n \in DOMAIN recorded' : e \in Range(recorded'[n].index)
             \/ \E k \in DOMAIN file' : e \in Range(file'[k].index)
  BY <1>3 DEF Entries, Indexes
<1> QED BY <1>2, <1>3

\* Without a new entry, a new configuration or the end of the recording keeps
\* what the entries say.
LEMMA EntriesKept ==
  ASSUME RecorderTypes, EntriesPlaced, SameConfigurationSameState, NEW recs, Grown(recs),
         Entries' \subseteq Entries, configID' \in Nat, configID' >= configID,
         stage' = "recording" => configID' > configID
  PROVE  EntriesPlaced' /\ SameConfigurationSameState'
<1>1. Len(file) \in Nat /\ Len(recs) \in Nat /\ Len(file') = Len(file) + Len(recs) /\ configID \in Nat
  BY LenProperties DEF Grown, RecorderTypes
<1>2. \A e \in Entries : e.config \in Nat /\ e.pos \in 1..Len(file) /\ e.config <= configID
  BY EntriesType DEF EntryType, EntriesPlaced
<1>3. \A e \in Entries' : e.config <= configID' /\ e.pos \in 1..Len(file')
  BY <1>1, <1>2
<1>4. stage' = "recording" => \A e \in Entries' : e.config # configID'
  BY <1>1, <1>2
<1>5. EntriesPlaced'
  BY <1>3, <1>4 DEF EntriesPlaced
<1>6. ASSUME NEW d \in Entries', NEW e \in Entries', d.config = e.config, NEW k \in d.pos..e.pos
      PROVE  file'[k].type \in {"data", "begin", "table"}
  <2>1. k \in 1..Len(file)
    BY <1>1, <1>2
  <2>2. file[k].type \in {"data", "begin", "table"}
    BY <1>6 DEF SameConfigurationSameState
  <2> QED BY <2>1, <2>2 DEF Grown
<1> QED BY <1>5, <1>6 DEF SameConfigurationSameState

-----------------------------------------------------------------------------
(* The indexes *)

\* An index stays one over records that are no frames of its node.
LEMMA IndexStays ==
  ASSUME file \in Seq(RecType), NEW recs, Grown(recs), NEW n, NEW index \in Seq(EntryType),
         \A k \in DOMAIN index : index[k].pos \in 1..Len(file),
         \A q \in 1..Len(recs) : ~(recs[q].type = "data" /\ recs[q].node = n),
         IsIndexOf(file, index, n)
  PROVE  IsIndexOf(file', index, n)
<1>1. Len(file) \in Nat /\ Len(recs) \in Nat /\ Len(file') = Len(file) + Len(recs)
      /\ DOMAIN file = 1..Len(file) /\ DOMAIN file' = 1..Len(file')
  BY LenProperties DEF Grown
<1>2. ASSUME NEW k \in DOMAIN index
      PROVE  LET r == file'[index[k].pos] IN r.type = "data" /\ r.node = n /\ r.num = k
  <2>1. LET r == file[index[k].pos] IN r.type = "data" /\ r.node = n /\ r.num = k
    BY DEF IsIndexOf
  <2>2. file'[index[k].pos] = file[index[k].pos]
    BY <2>1 DEF Grown
  <2> QED BY <2>1, <2>2
<1>3. ASSUME NEW p \in DOMAIN file', file'[p].type = "data", file'[p].node = n
      PROVE  \E k \in DOMAIN index : index[k].pos = p
  <2>1. CASE p <= Len(file)
    <3>1. p \in DOMAIN file /\ file[p].type = "data" /\ file[p].node = n
      BY <1>1, <1>3, <2>1 DEF Grown
    <3> QED BY <3>1 DEF IsIndexOf
  <2>2. CASE p > Len(file)
    <3>1. p - Len(file) \in 1..Len(recs) /\ Len(file) + (p - Len(file)) = p
      BY <1>1, <2>2
    <3>2. file'[p] = recs[p - Len(file)]
      BY <3>1 DEF Grown
    <3> QED BY <1>3, <3>1, <3>2
  <2> QED BY <1>1, <2>1, <2>2
<1>4. \A j, k \in DOMAIN index : j < k => index[j].pos < index[k].pos
  BY DEF IsIndexOf
<1> QED BY <1>2, <1>3, <1>4 DEF IsIndexOf

\* The places an index of the file or of a recorded node names.
LEMMA IndexPlaces ==
  ASSUME RecorderTypes, EntriesPlaced
  PROVE  /\ \A n \in DOMAIN recorded :
              /\ recorded[n].index \in Seq(EntryType)
              /\ \A k \in DOMAIN recorded[n].index : recorded[n].index[k].pos \in 1..Len(file)
         /\ \A p \in 1..Len(file) :
              /\ file[p].index \in Seq(EntryType)
              /\ \A k \in DOMAIN file[p].index : file[p].index[k].pos \in 1..Len(file)
<1>1. /\ \A n \in DOMAIN recorded : recorded[n].index \in Seq(EntryType)
      /\ \A p \in 1..Len(file) : file[p].index \in Seq(EntryType)
      /\ DOMAIN file = 1..Len(file)
  BY FieldTypes
<1>2. /\ \A n \in DOMAIN recorded : Range(recorded[n].index) \subseteq Entries
      /\ \A p \in 1..Len(file) : Range(file[p].index) \subseteq Entries
  BY <1>1, EntryIn
<1> QED BY <1>1, <1>2 DEF EntriesPlaced, Range

-----------------------------------------------------------------------------
(* One record that is no frame and no table *)

\* A step that writes one such record, and adds at most new nodes.
PlainStep(r) ==
  /\ Write(<<r>>) /\ r \in RecType
  /\ r.type # "data" /\ r.table = 0 /\ r.index = <<>>
  /\ UNCHANGED header /\ stage = "recording" /\ stage' \in {"recording", "finalizing"}
  /\ numNodes' \in Nat /\ numNodes' >= numNodes
  /\ DOMAIN recorded \subseteq DOMAIN recorded'
  /\ \A n \in DOMAIN recorded : /\ recorded'[n].index = recorded[n].index
                                /\ recorded'[n].gotData = recorded[n].gotData
                                /\ recorded'[n].addedPos = recorded[n].addedPos
                                /\ recorded'[n].data = recorded[n].data
                                /\ recorded'[n].prop = IF r.type = "prop" /\ r.node = n
                                                       THEN Len(file) + 1 ELSE recorded[n].prop
  /\ \A n \in DOMAIN recorded' \ DOMAIN recorded :
       /\ recorded'[n] = NewInfo(Len(file) + 1) /\ n \in Nat /\ n > numNodes
       /\ r.type = "added" /\ r.node = n
  /\ r.node <= numNodes'
  /\ r.type = "prop" => r.node \in DOMAIN recorded /\ r.undo = recorded[r.node].prop
  /\ configID' \in Nat /\ configID' >= configID
  /\ stage' = "recording" => configID' > configID

\* It keeps the file, what its entries say, and the tables.
LEMMA PlainKeeps ==
  ASSUME RecorderInv, NEW r, PlainStep(r)
  PROVE  /\ Grown(<<r>>) /\ \A k \in 1..Len(file) : file'[k] = file[k]
         /\ Len(file') = Len(file) + 1 /\ file'[Len(file) + 1] = r
         /\ EntriesPlaced' /\ SameConfigurationSameState' /\ TablesExact' /\ TablesKept'
<1>1. file \in Seq(RecType) /\ <<r>> \in Seq(RecType) /\ Len(<<r>>) = 1 /\ <<r>>[1] = r
      /\ Len(file) \in Nat /\ DOMAIN file = 1..Len(file)
  BY OneRecord, LenProperties DEF RecorderInv, RecorderTypes, PlainStep
<1>2. Grown(<<r>>) /\ \A k \in 1..Len(file) : file'[k] = file[k]
  BY <1>1, WriteGrown DEF PlainStep
<1>3. Len(file') = Len(file) + 1 /\ file'[Len(file) + 1] = r /\ DOMAIN file' = 1..Len(file')
      /\ \A q \in 1..Len(<<r>>) : <<r>>[q] = r
  BY <1>1, <1>2, LenProperties DEF Grown
<1>4. \A k \in 1..Len(file') : k \in 1..Len(file) \/ k = Len(file) + 1
  BY <1>1, <1>3
<1>5. EntriesPlaced' /\ SameConfigurationSameState'
  <2>1. Range(<<>>) = {}
    BY DEF Range
  <2>2. \A n \in DOMAIN recorded : Range(recorded[n].index) \subseteq Entries
    BY EntryIn
  <2>3. \A n \in DOMAIN recorded' : Range(recorded'[n].index) \subseteq Entries
    BY <2>1, <2>2 DEF PlainStep, NewInfo
  <2>4. \A q \in 1..Len(<<r>>) : Range(<<r>>[q].index) \subseteq Entries
    BY <1>3, <2>1 DEF PlainStep
  <2>5. Entries' \subseteq Entries
    BY <1>1, <1>2, <2>3, <2>4, NoNewEntry
  <2> QED BY <1>2, <2>5, EntriesKept DEF PlainStep, RecorderInv
<1>6. \A q \in 1..Len(<<r>>) : <<r>>[q].type # "data"
  BY <1>3 DEF PlainStep
<1>7. \A p \in 1..Len(file') : HasTable(file'[p]) <=> p \in 1..Len(file) /\ HasTable(file[p])
  BY <1>1, <1>2, <1>3, <1>4 DEF HasTable, PlainStep
<1>8. ASSUME NEW n \in DOMAIN recorded' PROVE IsIndexOf(file', recorded'[n].index, n)
  <2>1. CASE n \in DOMAIN recorded
    <3>1. /\ recorded[n].index \in Seq(EntryType) /\ IsIndexOf(file, recorded[n].index, n)
          /\ \A k \in DOMAIN recorded[n].index : recorded[n].index[k].pos \in 1..Len(file)
          /\ recorded'[n].index = recorded[n].index
      BY <2>1, IndexPlaces DEF RecorderInv, TablesExact, PlainStep
    <3>2. IsIndexOf(file', recorded[n].index, n)
      BY <1>1, <1>2, <1>6, <3>1, IndexStays
    <3> QED BY <3>1, <3>2
  <2>2. CASE n \notin DOMAIN recorded
    <3>1. recorded'[n].index = <<>> /\ n \in Nat /\ n > numNodes
      BY <2>2 DEF PlainStep, NewInfo
    <3>2. \A k \in 1..Len(file) : file[k].node <= numNodes /\ file[k].node \in Nat
      BY <1>1, FieldTypes DEF RecorderInv, NodesKnown
    <3>3. \A k \in 1..Len(file') : ~(file'[k].type = "data" /\ file'[k].node = n)
      <4>1. ASSUME NEW k \in 1..Len(file) PROVE file[k].node # n
        <5>1. numNodes \in Nat /\ n \in Int
          BY <2>2 DEF RecorderInv, RecorderTypes, PlainStep
        <5> QED BY <3>1, <3>2, <5>1
      <4> QED BY <1>2, <1>3, <1>4, <4>1 DEF PlainStep
    <3> QED BY <1>3, <3>1, <3>3 DEF IsIndexOf
  <2> QED BY <2>1, <2>2
<1>9. ASSUME NEW p \in 1..Len(file'), HasTable(file'[p])
      PROVE  LET t == file'[file'[p].table]
             IN  t.type = "table" /\ IsIndexOf(file', t.index, file'[p].node) /\ file'[p].num = Len(t.index)
                 /\ file'[p].table \in 1..Len(file')
  <2>1. p \in 1..Len(file) /\ HasTable(file[p]) /\ file'[p] = file[p]
    BY <1>2, <1>7, <1>9
  <2> DEFINE t == file[file[p].table]
  <2>2. file[p].table \in 1..Len(file) /\ t.type = "table" /\ IsIndexOf(file, t.index, file[p].node)
        /\ file[p].num = Len(t.index)
    BY <1>1, <2>1 DEF RecorderInv, TablesExact, TablesKept
  <2>3. file'[file'[p].table] = t
    BY <1>2, <2>1, <2>2
  <2>4. t.index \in Seq(EntryType) /\ \A k \in DOMAIN t.index : t.index[k].pos \in 1..Len(file)
    BY <2>2, IndexPlaces DEF RecorderInv
  <2>5. IsIndexOf(file', t.index, file[p].node)
    BY <1>1, <1>2, <1>6, <2>2, <2>4, IndexStays
  <2> QED BY <1>1, <1>3, <2>1, <2>2, <2>3, <2>5
<1>10. header' = InvalidNodeID
  BY DEF PlainStep, RecorderInv, TablesKept
<1>11. TablesExact'
  BY <1>3, <1>8, <1>9, <1>10 DEF TablesExact
<1>12. TablesKept'
  <2>1. ASSUME NEW k \in 1..Len(file'), file'[k].type = "data"
        PROVE  \/ file'[k].node \in DOMAIN recorded' /\ recorded'[file'[k].node].gotData
               \/ \E p \in 1..Len(file') : HasTable(file'[p]) /\ file'[p].node = file'[k].node
    <3>1. k \in 1..Len(file) /\ file'[k] = file[k]
      BY <1>2, <1>3, <1>4, <2>1 DEF PlainStep
    <3>2. CASE file[k].node \in DOMAIN recorded /\ recorded[file[k].node].gotData
      BY <3>1, <3>2 DEF PlainStep
    <3>3. CASE \E p \in 1..Len(file) : HasTable(file[p]) /\ file[p].node = file[k].node
      <4>1. PICK p \in 1..Len(file) : HasTable(file[p]) /\ file[p].node = file[k].node
        BY <3>3
      <4>2. p \in 1..Len(file') /\ file'[p] = file[p] /\ HasTable(file'[p])
        BY <1>1, <1>2, <1>3, <1>7, <4>1
      <4> QED BY <3>1, <4>1, <4>2
    <3> QED BY <2>1, <3>1, <3>2, <3>3 DEF RecorderInv, TablesKept
  <2>2. stage' # "done"
    BY DEF PlainStep
  <2> QED BY <1>9, <1>10, <2>1, <2>2 DEF TablesKept
<1> QED BY <1>2, <1>3, <1>5, <1>11, <1>12

\* It is written for a node that was added, and its undo place is right.
LEMMA PlainKnown ==
  ASSUME RecorderInv, NEW r, PlainStep(r)
  PROVE  NodesKnown' /\ UndosExact'
<1>1. /\ Grown(<<r>>) /\ \A k \in 1..Len(file) : file'[k] = file[k]
      /\ Len(file') = Len(file) + 1 /\ file'[Len(file) + 1] = r
  BY PlainKeeps
<1>2. file \in Seq(RecType) /\ Len(file) \in Nat /\ Len(<<r>>) = 1 /\ <<r>>[1] = r /\ r.node \in Nat
      /\ numNodes \in Nat
  BY FieldTypes, OneRecord DEF RecorderInv, RecorderTypes, PlainStep, RecType
<1>3. \A k \in 1..Len(file') : k \in 1..Len(file) \/ k = Len(file) + 1
  BY <1>1, <1>2
<1>4. \A k \in 1..Len(file) : file[k].node \in Nat /\ file[k].node <= numNodes
  BY FieldTypes DEF RecorderInv, NodesKnown
<1>5. \A k \in 1..Len(file') : file'[k].node <= numNodes'
  <2> SUFFICES ASSUME NEW k \in 1..Len(file')
               PROVE  file'[k].node <= numNodes'
    OBVIOUS
  <2>1. numNodes' \in Nat /\ numNodes' >= numNodes /\ r.node <= numNodes'
    BY DEF PlainStep
  <2>2. CASE k \in 1..Len(file)
    BY <1>1, <1>2, <1>4, <2>1, <2>2
  <2>3. CASE k = Len(file) + 1
    BY <1>1, <2>1, <2>3
  <2> QED BY <1>3, <2>2, <2>3
<1>6. ASSUME NEW n \in DOMAIN recorded'
      PROVE  /\ recorded'[n].addedPos \in 1..Len(file')
             /\ file'[recorded'[n].addedPos].type = "added" /\ file'[recorded'[n].addedPos].node = n
             /\ IsLastRec(file', "prop", n, Len(file') + 1, recorded'[n].prop)
             /\ IsLastRec(file', "data", n, Len(file') + 1, recorded'[n].data)
  <2>1. Len(file') + 1 = Len(file) + 1 + 1
    BY <1>1
  <2>2. CASE n \in DOMAIN recorded
    <3>1. /\ recorded[n].addedPos \in 1..Len(file)
          /\ file[recorded[n].addedPos].type = "added" /\ file[recorded[n].addedPos].node = n
          /\ IsLastRec(file, "prop", n, Len(file) + 1, recorded[n].prop)
          /\ IsLastRec(file, "data", n, Len(file) + 1, recorded[n].data)
      BY <2>2 DEF RecorderInv, NodesKnown
    <3>2. recorded'[n].addedPos = recorded[n].addedPos /\ recorded'[n].data = recorded[n].data
      BY <2>2 DEF PlainStep
    <3>3. IsLastRec(file', "data", n, Len(file') + 1, recorded'[n].data)
      <4>1. 1 \in 0..Len(<<r>>) /\ \A k \in 1..1 : ~(<<r>>[k].type = "data" /\ <<r>>[k].node = n)
        BY <1>2 DEF PlainStep
      <4>2. IsLastRec(file, "data", n, Len(file) + 1, recorded[n].data)
        BY <3>1
      <4>3. IsLastRec(file', "data", n, Len(file) + 1 + 1, recorded[n].data)
        BY <1>1, <1>2, <4>1, <4>2, LastPassed
      <4> QED BY <2>1, <3>2, <4>3
    <3>4. IsLastRec(file', "prop", n, Len(file') + 1, recorded'[n].prop)
      <4>1. CASE r.type = "prop" /\ r.node = n
        <5>1. 1 \in 1..Len(<<r>>) /\ recorded'[n].prop = Len(file) + 1
          BY <1>2, <2>2, <4>1 DEF PlainStep
        <5>2. IsLastRec(file', <<r>>[1].type, <<r>>[1].node, Len(file) + 1 + 1, Len(file) + 1)
          BY <1>1, <1>2, <5>1, LastNew
        <5> QED BY <1>2, <2>1, <4>1, <5>1, <5>2
      <4>2. CASE ~(r.type = "prop" /\ r.node = n)
        <5>1. 1 \in 0..Len(<<r>>) /\ \A k \in 1..1 : ~(<<r>>[k].type = "prop" /\ <<r>>[k].node = n)
          BY <1>2, <4>2
        <5>2. recorded'[n].prop = recorded[n].prop
          BY <2>2, <4>2 DEF PlainStep
        <5>3. IsLastRec(file, "prop", n, Len(file) + 1, recorded[n].prop)
          BY <3>1
        <5>4. IsLastRec(file', "prop", n, Len(file) + 1 + 1, recorded[n].prop)
          BY <1>1, <1>2, <5>1, <5>3, LastPassed
        <5> QED BY <2>1, <5>2, <5>4
      <4> QED BY <4>1, <4>2
    <3> QED BY <1>1, <1>2, <3>1, <3>2, <3>3, <3>4
  <2>3. CASE n \notin DOMAIN recorded
    <3>1. /\ recorded'[n] = NewInfo(Len(file) + 1) /\ n > numNodes /\ n \in Nat
          /\ r.type = "added" /\ r.node = n
      BY <2>3 DEF PlainStep
    <3>2. recorded'[n].addedPos = Len(file) + 1 /\ recorded'[n].prop = 0 /\ recorded'[n].data = 0
      BY <3>1 DEF NewInfo
    <3>3. \A k \in 1..Len(file') : file'[k].node = n => file'[k].type = "added"
      <4>1. \A k \in 1..Len(file) : file[k].node # n
        BY <1>2, <1>4, <3>1
      <4> QED BY <1>1, <1>3, <3>1, <4>1
    <3>4. (Len(file') + 1) - 1 = Len(file')
      BY <1>1, <1>2
    <3> QED BY <1>1, <1>2, <3>1, <3>2, <3>3, <3>4 DEF IsLastRec
  <2> QED BY <2>2, <2>3
<1>7. ASSUME NEW p \in 1..Len(file'), HasTable(file'[p])
      PROVE  file'[p].node \notin DOMAIN recorded'
  <2>1. p \in 1..Len(file) /\ file'[p] = file[p]
    BY <1>1, <1>3, <1>7 DEF HasTable, PlainStep
  <2>2. file[p].node \notin DOMAIN recorded
    BY <1>7, <2>1 DEF RecorderInv, NodesKnown
  <2> QED BY <1>2, <1>4, <2>1, <2>2 DEF PlainStep
<1>8. NodesKnown'
  BY <1>5, <1>6, <1>7 DEF NodesKnown
<1>9. UndosExact'
  <2> SUFFICES ASSUME NEW q \in 1..Len(<<r>>), <<r>>[q].type \in {"prop", "data"}
               PROVE  IsLastRec(file', <<r>>[q].type, <<r>>[q].node, Len(file) + q, <<r>>[q].undo)
    BY <1>1, <1>2, UndosGrow DEF RecorderInv
  <2>1. q = 1 /\ <<r>>[q] = r
    BY <1>2
  <2>2. r.type = "prop" /\ r.node \in DOMAIN recorded /\ r.undo = recorded[r.node].prop
    BY <2>1 DEF PlainStep
  <2>3. IsLastRec(file, "prop", r.node, Len(file) + 1, r.undo)
    BY <2>2 DEF RecorderInv, NodesKnown
  <2>4. IsLastRec(file', "prop", r.node, Len(file) + 1, r.undo)
    <3>1. Len(file) + 1 \in 1..(Len(file) + 1)
      BY <1>2
    <3> QED BY <1>1, <1>2, <2>3, <3>1, LastStays
  <2> QED BY <2>1, <2>2, <2>4
<1> QED BY <1>8, <1>9

\* The notifications of a node being added, of a property, of a node that is
\* ready, and the end of the records.
LEMMA PlainActions ==
  ASSUME RecorderInv,
         OnNodeAdded \/ FinalizeEnd
           \/ \E n \in DOMAIN recorded : OnNodePropChanged(n) \/ OnNodeStateReady(n)
  PROVE  RecorderInv'
<1>1. Len(file) \in Nat /\ numNodes \in Nat /\ configID \in Nat /\ DOMAIN recorded \subseteq 1..numNodes
      /\ recorded \in [DOMAIN recorded -> InfoType] /\ header \in Int
  BY FieldTypes DEF RecorderInv, RecorderTypes
<1>2. \A n \in DOMAIN recorded : n \in Nat /\ n <= numNodes /\ recorded[n].prop \in Nat
  BY <1>1, FieldTypes DEF RecorderInv
<1>3. ASSUME NEW r, PlainStep(r), recorded' \in [DOMAIN recorded' -> InfoType],
             DOMAIN recorded' \subseteq 1..numNodes', announcing' \in DOMAIN recorded' \cup {0},
             stage' = "finalizing" => announcing' = 0
      PROVE  RecorderInv'
  <2>1. file' \in Seq(RecType)
    BY <1>3, PlainKeeps DEF Grown
  <2>2. RecorderTypes'
    BY <1>1, <1>3, <2>1 DEF RecorderTypes, PlainStep
  <2> QED BY <1>3, <2>2, PlainKeeps, PlainKnown DEF RecorderInv
<1>4. CASE OnNodeAdded
  <2> DEFINE N == numNodes + 1
             r == Rec("added", N, 0)
  <2>1. /\ r \in RecType /\ r.type = "added" /\ r.node = N /\ r.table = 0 /\ r.index = <<>>
        /\ N \in Nat
    <3>1. N \in Nat /\ 0 \in Nat
      BY <1>1
    <3> HIDE DEF N
    <3>2. "added" \in {"added", "prop", "ready", "begin", "data", "removed", "table", "end"}
      OBVIOUS
    <3> QED BY <3>1, <3>2, RecFacts
  <2>2. /\ stage = "recording" /\ stage' = stage /\ header' = header /\ numNodes' = N
        /\ configID' = configID + 1 /\ Write(<<r>>) /\ announcing' = N
        /\ recorded' = [n \in DOMAIN recorded \cup {N} |->
                          IF n = N THEN NewInfo(Len(file) + 1) ELSE recorded[n]]
    BY <1>4 DEF OnNodeAdded, Tell
  <2>3. NewInfo(Len(file) + 1) \in InfoType
    <3>1. <<>> \in Seq(EntryType)
      OBVIOUS
    <3> QED BY <1>1, <3>1 DEF NewInfo, InfoType
  <2>4. N \notin DOMAIN recorded
    BY <1>1, <1>2
  <2> HIDE DEF r
  <2>5. PlainStep(r)
    BY <1>1, <2>1, <2>2, <2>4 DEF PlainStep
  <2>6. recorded' \in [DOMAIN recorded' -> InfoType]
    BY <1>1, <2>2, <2>3
  <2>7. DOMAIN recorded' \subseteq 1..numNodes' /\ announcing' \in DOMAIN recorded' \cup {0}
    BY <1>1, <2>2
  <2> QED BY <1>3, <2>2, <2>5, <2>6, <2>7
<1>5. CASE FinalizeEnd
  <2> DEFINE r == Rec("end", 0, 0)
  <2>1. r \in RecType /\ r.type = "end" /\ r.node = 0 /\ r.table = 0 /\ r.index = <<>>
    BY RecFacts
  <2>2. /\ stage = "recording" /\ stage' = "finalizing" /\ Write(<<r>>) /\ announcing = 0
        /\ UNCHANGED <<header, recorded, numNodes, configID, announcing>>
    BY <1>5 DEF FinalizeEnd
  <2> HIDE DEF r
  <2>3. PlainStep(r)
    BY <1>1, <2>1, <2>2 DEF PlainStep
  <2> QED BY <1>1, <1>3, <2>2, <2>3 DEF RecorderInv, RecorderTypes
<1>6. ASSUME NEW n \in DOMAIN recorded, OnNodeStateReady(n)
      PROVE  RecorderInv'
  <2> DEFINE r == Rec("ready", n, 0)
  <2>1. r \in RecType /\ r.type = "ready" /\ r.node = n /\ r.table = 0 /\ r.index = <<>>
    BY <1>2, RecFacts
  <2>2. /\ stage = "recording" /\ stage' = stage /\ Write(<<r>>) /\ configID' = configID + 1
        /\ announcing' = 0 /\ UNCHANGED <<header, recorded, numNodes>>
    BY <1>6 DEF OnNodeStateReady
  <2> HIDE DEF r
  <2>3. PlainStep(r)
    BY <1>1, <1>2, <2>1, <2>2 DEF PlainStep
  <2> QED BY <1>1, <1>3, <2>2, <2>3 DEF RecorderInv, RecorderTypes
<1>7. ASSUME NEW n \in DOMAIN recorded, OnNodePropChanged(n)
      PROVE  RecorderInv'
  <2> DEFINE r == Rec("prop", n, recorded[n].prop)
  <2>1. /\ r \in RecType /\ r.type = "prop" /\ r.node = n /\ r.table = 0 /\ r.index = <<>>
        /\ r.undo = recorded[n].prop
    BY <1>2, RecFacts
  <2>2. /\ stage = "recording" /\ stage' = stage /\ Write(<<r>>) /\ configID' = configID + 1
        /\ recorded' = [recorded EXCEPT ![n].prop = Len(file) + 1]
        /\ UNCHANGED <<header, announcing, numNodes>>
    BY <1>7 DEF OnNodePropChanged, Tell
  <2>3. /\ DOMAIN recorded' = DOMAIN recorded
        /\ \A i \in DOMAIN recorded :
             recorded'[i] = IF i = n THEN [recorded[n] EXCEPT !.prop = Len(file) + 1] ELSE recorded[i]
    BY <1>1, <2>2
  <2>4. recorded[n] \in InfoType /\ [recorded[n] EXCEPT !.prop = Len(file) + 1] \in InfoType
        /\ LET new == [recorded[n] EXCEPT !.prop = Len(file) + 1]
           IN  /\ new.prop = Len(file) + 1 /\ new.data = recorded[n].data /\ new.index = recorded[n].index
               /\ new.gotData = recorded[n].gotData /\ new.addedPos = recorded[n].addedPos
    <3>1. recorded[n] \in InfoType /\ Len(file) + 1 \in Nat
      BY <1>1
    <3>2. ASSUME NEW i \in InfoType, NEW x \in Nat
          PROVE  LET new == [i EXCEPT !.prop = x]
                 IN  /\ new \in InfoType /\ new.prop = x /\ new.data = i.data /\ new.index = i.index
                     /\ new.gotData = i.gotData /\ new.addedPos = i.addedPos
      BY DEF InfoType
    <3> QED BY <3>1, <3>2
  <2> HIDE DEF r
  <2>5. PlainStep(r)
    BY <1>1, <1>2, <2>1, <2>2, <2>3, <2>4 DEF PlainStep
  <2>6. recorded' \in [DOMAIN recorded' -> InfoType]
    BY <1>1, <2>2, <2>4
  <2> QED BY <1>1, <1>3, <2>2, <2>3, <2>5, <2>6 DEF RecorderInv, RecorderTypes
<1> QED BY <1>4, <1>5, <1>6, <1>7

-----------------------------------------------------------------------------
(* The frames of a node *)

\* A step that writes a frame of node n, behind the record that says that its
\* data begin where this is the first one.
FrameStep(n, recs) ==
  /\ stage = "recording" /\ n \in DOMAIN recorded /\ Write(recs) /\ recs \in Seq(RecType)
  /\ Len(recs) = IF recorded[n].gotData THEN 1 ELSE 2
  /\ \A q \in 1..Len(recs) : /\ recs[q].table = 0 /\ recs[q].index = <<>> /\ recs[q].node = n
                             /\ recs[q].type = IF q = Len(recs) THEN "data" ELSE "begin"
  /\ LET frame == recs[Len(recs)]
     IN  frame.undo = recorded[n].data /\ frame.num = Len(recorded[n].index) + 1
  /\ DOMAIN recorded' = DOMAIN recorded
  /\ \A i \in DOMAIN recorded \ {n} : recorded'[i] = recorded[i]
  /\ recorded'[n] \in InfoType
  /\ recorded'[n].addedPos = recorded[n].addedPos /\ recorded'[n].prop = recorded[n].prop
  /\ recorded'[n].gotData /\ recorded'[n].data = Len(file) + Len(recs)
  /\ recorded'[n].index = Append(recorded[n].index,
                                 [config |-> configID, pos |-> Len(file) + Len(recs)])
  /\ UNCHANGED <<header, numNodes, configID, announcing, stage>>

\* Where its records are.
LEMMA FrameGrown ==
  ASSUME RecorderInv, NEW n, NEW recs, FrameStep(n, recs)
  PROVE  /\ Len(file) \in Nat /\ Len(file') = Len(file) + Len(recs)
         /\ DOMAIN file = 1..Len(file) /\ DOMAIN file' = 1..Len(file')
         /\ Grown(recs) /\ \A k \in 1..Len(file) : file'[k] = file[k]
         /\ file'[Len(file')] = recs[Len(recs)] /\ Len(recs) \in 1..Len(recs)
         /\ \A k \in 1..Len(file') : \/ k \in 1..Len(file)
                                     \/ /\ k - Len(file) \in 1..Len(recs)
                                        /\ file'[k] = recs[k - Len(file)]
<1>1. file \in Seq(RecType) /\ Len(file) \in Nat /\ DOMAIN file = 1..Len(file)
  BY FieldTypes DEF RecorderInv, RecorderTypes
<1>2. Grown(recs) /\ \A k \in 1..Len(file) : file'[k] = file[k]
  BY <1>1, WriteGrown DEF FrameStep
<1>3. /\ Len(file') = Len(file) + Len(recs) /\ Len(recs) \in 1..Len(recs)
      /\ DOMAIN file' = 1..Len(file')
  <2>1. Len(recs) = 1 \/ Len(recs) = 2
    BY DEF FrameStep
  <2>2. file' \in Seq(RecType) /\ Len(file') = Len(file) + Len(recs)
    BY <1>2 DEF Grown
  <2>3. DOMAIN file' = 1..Len(file')
    BY <2>2, LenProperties
  <2> QED BY <2>1, <2>2, <2>3
<1>4. file'[Len(file) + Len(recs)] = recs[Len(recs)]
  BY <1>2, <1>3 DEF Grown
<1>5. ASSUME NEW k \in 1..Len(file'), k \notin 1..Len(file)
      PROVE  k - Len(file) \in 1..Len(recs) /\ file'[k] = recs[k - Len(file)]
  <2>1. k - Len(file) \in 1..Len(recs) /\ Len(file) + (k - Len(file)) = k
    BY <1>1, <1>3, <1>5 DEF FrameStep
  <2>2. file'[Len(file) + (k - Len(file))] = recs[k - Len(file)]
    BY <1>2, <2>1 DEF Grown
  <2> QED BY <2>1, <2>2
<1> QED BY <1>1, <1>2, <1>3, <1>4, <1>5

\* It keeps what nodes are known by, and its undo place is the last frame.
LEMMA FrameKnown ==
  ASSUME RecorderInv, NEW n, NEW recs, FrameStep(n, recs)
  PROVE  NodesKnown' /\ UndosExact'
<1>1. /\ Len(file) \in Nat /\ Len(file') = Len(file) + Len(recs)
      /\ Grown(recs) /\ \A k \in 1..Len(file) : file'[k] = file[k]
      /\ Len(recs) \in 1..Len(recs) /\ file \in Seq(RecType)
      /\ \A k \in 1..Len(file') : \/ k \in 1..Len(file)
                                  \/ /\ k - Len(file) \in 1..Len(recs)
                                     /\ file'[k] = recs[k - Len(file)]
  BY FrameGrown DEF RecorderInv, RecorderTypes
<1>2. n \in Nat /\ n <= numNodes /\ DOMAIN recorded \subseteq 1..numNodes /\ numNodes \in Nat
  BY DEF FrameStep, RecorderInv, RecorderTypes
<1>3. \A k \in 1..Len(file') : file'[k].node <= numNodes'
  <2> SUFFICES ASSUME NEW k \in 1..Len(file')
               PROVE  file'[k].node <= numNodes
    BY DEF FrameStep
  <2>1. CASE k \in 1..Len(file)
    BY <1>1, <2>1 DEF RecorderInv, NodesKnown
  <2>2. CASE k - Len(file) \in 1..Len(recs) /\ file'[k] = recs[k - Len(file)]
    <3>1. recs[k - Len(file)].node = n
      BY <2>2 DEF FrameStep
    <3> QED BY <1>2, <2>2, <3>1
  <2> QED BY <1>1, <2>1, <2>2
<1>4. ASSUME NEW i \in DOMAIN recorded'
      PROVE  /\ recorded'[i].addedPos \in 1..Len(file')
             /\ file'[recorded'[i].addedPos].type = "added" /\ file'[recorded'[i].addedPos].node = i
             /\ IsLastRec(file', "prop", i, Len(file') + 1, recorded'[i].prop)
             /\ IsLastRec(file', "data", i, Len(file') + 1, recorded'[i].data)
  <2>1. i \in DOMAIN recorded
    BY DEF FrameStep
  <2>2. /\ recorded[i].addedPos \in 1..Len(file)
        /\ file[recorded[i].addedPos].type = "added" /\ file[recorded[i].addedPos].node = i
        /\ IsLastRec(file, "prop", i, Len(file) + 1, recorded[i].prop)
        /\ IsLastRec(file, "data", i, Len(file) + 1, recorded[i].data)
    BY <2>1 DEF RecorderInv, NodesKnown
  <2>3. recorded'[i].addedPos = recorded[i].addedPos /\ recorded'[i].prop = recorded[i].prop
    BY <2>1 DEF FrameStep
  <2>4. Len(file') + 1 = Len(file) + Len(recs) + 1 /\ Len(recs) \in 0..Len(recs)
    BY <1>1
  <2>5. IsLastRec(file', "prop", i, Len(file') + 1, recorded[i].prop)
    <3>1. \A k \in 1..Len(recs) : ~(recs[k].type = "prop" /\ recs[k].node = i)
      BY DEF FrameStep
    <3> QED BY <1>1, <2>2, <2>4, <3>1, LastPassed
  <2>6. IsLastRec(file', "data", i, Len(file') + 1, recorded'[i].data)
    <3>1. CASE i = n
      <4>1. recs[Len(recs)].type = "data" /\ recs[Len(recs)].node = n
            /\ recorded'[i].data = Len(file) + Len(recs)
        BY <1>1, <3>1 DEF FrameStep
      <4>2. IsLastRec(file', recs[Len(recs)].type, recs[Len(recs)].node,
                      Len(file) + Len(recs) + 1, Len(file) + Len(recs))
        <5>1. file \in Seq(RecType) /\ Grown(recs) /\ Len(recs) \in 1..Len(recs)
          BY <1>1
        <5> QED BY <5>1, LastNew
      <4> QED BY <2>4, <3>1, <4>1, <4>2
    <3>2. CASE i # n
      <4>1. recorded'[i].data = recorded[i].data
        BY <2>1, <3>2 DEF FrameStep
      <4>2. \A k \in 1..Len(recs) : ~(recs[k].type = "data" /\ recs[k].node = i)
        BY <3>2 DEF FrameStep
      <4>3. IsLastRec(file', "data", i, Len(file) + Len(recs) + 1, recorded[i].data)
        <5>1. file \in Seq(RecType) /\ Grown(recs)
          BY <1>1
        <5>2. IsLastRec(file, "data", i, Len(file) + 1, recorded[i].data) /\ Len(recs) \in 0..Len(recs)
          BY <2>2, <2>4
        <5> QED BY <4>2, <5>1, <5>2, LastPassed
      <4> QED BY <2>4, <4>1, <4>3
    <3> QED BY <3>1, <3>2
  <2> QED BY <1>1, <2>2, <2>3, <2>5, <2>6
<1>5. ASSUME NEW p \in 1..Len(file'), HasTable(file'[p])
      PROVE  file'[p].node \notin DOMAIN recorded'
  <2>1. p \in 1..Len(file) /\ file'[p] = file[p]
    BY <1>1, <1>5 DEF HasTable, FrameStep
  <2> QED BY <1>5, <2>1 DEF RecorderInv, NodesKnown, FrameStep
<1>6. NodesKnown'
  BY <1>3, <1>4, <1>5 DEF NodesKnown
<1>7. UndosExact'
  <2> SUFFICES ASSUME NEW q \in 1..Len(recs), recs[q].type \in {"prop", "data"}
               PROVE  IsLastRec(file', recs[q].type, recs[q].node, Len(file) + q, recs[q].undo)
    BY <1>1, UndosGrow DEF RecorderInv
  <2>1. q = Len(recs) /\ recs[q].type = "data" /\ recs[q].node = n /\ recs[q].undo = recorded[n].data
    BY DEF FrameStep
  <2>2. IsLastRec(file, "data", n, Len(file) + 1, recorded[n].data)
    BY DEF FrameStep, RecorderInv, NodesKnown
  <2>3. q - 1 \in 0..Len(recs) /\ Len(file) + (q - 1) + 1 = Len(file) + q
    BY <1>1
  <2>4. \A k \in 1..(q - 1) : ~(recs[k].type = "data" /\ recs[k].node = n)
    BY <2>1 DEF FrameStep
  <2>5. IsLastRec(file', "data", n, Len(file) + (q - 1) + 1, recorded[n].data)
    BY <1>1, <2>2, <2>3, <2>4, LastPassed
  <2> QED BY <2>1, <2>3, <2>5
<1> QED BY <1>6, <1>7

\* The one new entry is that of the frame.
LEMMA FrameEntries ==
  ASSUME RecorderInv, NEW n, NEW recs, FrameStep(n, recs)
  PROVE  EntriesPlaced' /\ SameConfigurationSameState'
<1> DEFINE new == [config |-> configID, pos |-> Len(file')]
<1>1. /\ Len(file) \in Nat /\ Len(file') = Len(file) + Len(recs) /\ Len(recs) \in 1..Len(recs)
      /\ DOMAIN file = 1..Len(file) /\ DOMAIN file' = 1..Len(file')
      /\ \A k \in 1..Len(file) : file'[k] = file[k]
      /\ \A k \in 1..Len(file') : \/ k \in 1..Len(file)
                                  \/ /\ k - Len(file) \in 1..Len(recs)
                                     /\ file'[k] = recs[k - Len(file)]
  BY FrameGrown
<1>2. configID \in Nat /\ configID' = configID /\ stage = "recording" /\ stage' = "recording"
  BY DEF RecorderInv, RecorderTypes, FrameStep
<1>3. \A k \in 1..Len(file') : k > Len(file) => file'[k].type \in {"data", "begin"}
  BY <1>1 DEF FrameStep
<1>4. Entries' \subseteq Entries \cup {new}
  <2>1. Range(<<>>) = {}
    BY DEF Range
  <2>2. ASSUME NEW k \in DOMAIN file' PROVE Range(file'[k].index) \subseteq Entries
    <3>1. CASE k \in 1..Len(file)
      BY <1>1, <3>1, EntryIn
    <3>2. CASE k \notin 1..Len(file)
      BY <1>1, <2>1, <3>2 DEF FrameStep
    <3> QED BY <3>1, <3>2
  <2>3. ASSUME NEW i \in DOMAIN recorded' PROVE Range(recorded'[i].index) \subseteq Entries \cup {new}
    <3>1. i \in DOMAIN recorded /\ Range(recorded[i].index) \subseteq Entries
      BY EntryIn DEF FrameStep
    <3>2. CASE i = n
      <4>1. recorded[n].index \in Seq(EntryType) /\ recorded'[n].index = Append(recorded[n].index, new)
        BY <1>1, <3>1, <3>2, FieldTypes DEF RecorderInv, FrameStep
      <4>2. \A s \in Seq(EntryType) : Range(Append(s, new)) \subseteq Range(s) \cup {new}
        <5> HIDE DEF new
        <5> QED BY DEF Range
      <4> QED BY <3>1, <3>2, <4>1, <4>2
    <3>3. CASE i # n
      BY <3>1, <3>3 DEF FrameStep
    <3> QED BY <3>2, <3>3
  <2>4. ASSUME NEW e \in Entries'
        PROVE  \/ \E i \in DOMAIN recorded' : e \in Range(recorded'[i].index)
               \/ \E k \in DOMAIN file' : e \in Range(file'[k].index)
    BY <2>4 DEF Entries, Indexes
  <2> QED BY <2>2, <2>3, <2>4
<1>5. \A e \in Entries : e.config \in Nat /\ e.pos \in 1..Len(file) /\ e.config <= configID
  BY EntriesType DEF EntryType, RecorderInv, EntriesPlaced
<1>6. new.config = configID /\ new.pos = Len(file')
  OBVIOUS
<1> HIDE DEF new
<1>7. \A e \in Entries' : e.config <= configID' /\ e.pos \in 1..Len(file')
  BY <1>1, <1>2, <1>4, <1>5, <1>6
<1>8. ASSUME NEW e \in Entries', e.config = configID', NEW k \in e.pos..Len(file')
      PROVE  file'[k].type \in {"data", "begin", "table"}
  <2>1. k \in 1..Len(file')
    BY <1>1, <1>7
  <2>2. CASE k > Len(file)
    BY <1>3, <2>1, <2>2
  <2>3. CASE k <= Len(file)
    <3>1. e # new
      BY <1>1, <1>6, <2>3 DEF FrameStep
    <3>2. e \in Entries /\ k \in e.pos..Len(file) /\ k \in 1..Len(file)
      BY <1>1, <1>4, <1>5, <2>1, <2>3, <3>1
    <3>3. file[k].type \in {"data", "begin", "table"}
      BY <1>2, <1>8, <3>2 DEF RecorderInv, EntriesPlaced
    <3> QED BY <1>1, <3>2, <3>3
  <2> QED BY <1>1, <2>1, <2>2, <2>3
<1>9. EntriesPlaced'
  BY <1>7, <1>8 DEF EntriesPlaced
<1>10. ASSUME NEW d \in Entries', NEW e \in Entries', d.config = e.config, NEW k \in d.pos..e.pos
       PROVE  file'[k].type \in {"data", "begin", "table"}
  <2>1. k \in 1..Len(file') /\ k \in d.pos..Len(file')
    BY <1>1, <1>7
  <2>2. CASE e = new
    BY <1>2, <1>6, <1>8, <1>10, <2>1, <2>2
  <2>3. CASE e # new
    <3>1. e \in Entries /\ e.pos \in 1..Len(file)
      BY <1>4, <1>5, <2>3
    <3>2. d # new
      BY <1>1, <1>6, <1>10, <3>1 DEF FrameStep
    <3>3. d \in Entries /\ k \in 1..Len(file)
      BY <1>1, <1>4, <1>5, <2>1, <3>1, <3>2
    <3>4. file[k].type \in {"data", "begin", "table"}
      BY <1>10, <3>1, <3>3 DEF RecorderInv, SameConfigurationSameState
    <3> QED BY <1>1, <3>3, <3>4
  <2> QED BY <2>2, <2>3
<1> QED BY <1>9, <1>10 DEF SameConfigurationSameState

\* The index of the node gets the frame as its next, and the others stay.
LEMMA FrameTables ==
  ASSUME RecorderInv, NEW n, NEW recs, FrameStep(n, recs)
  PROVE  TablesExact' /\ TablesKept'
<1> DEFINE index == recorded[n].index
           new == [config |-> configID, pos |-> Len(file')]
<1>1. /\ Len(file) \in Nat /\ Len(file') = Len(file) + Len(recs) /\ Len(recs) \in 1..Len(recs)
      /\ DOMAIN file = 1..Len(file) /\ DOMAIN file' = 1..Len(file')
      /\ Grown(recs) /\ \A k \in 1..Len(file) : file'[k] = file[k]
      /\ file'[Len(file')] = recs[Len(recs)]
      /\ \A k \in 1..Len(file') : \/ k \in 1..Len(file)
                                  \/ /\ k - Len(file) \in 1..Len(recs)
                                     /\ file'[k] = recs[k - Len(file)]
  BY FrameGrown
<1>2. /\ index \in Seq(EntryType) /\ Len(index) \in Nat /\ DOMAIN index = 1..Len(index)
      /\ IsIndexOf(file, index, n) /\ \A k \in 1..Len(index) : index[k].pos \in 1..Len(file)
  <2>1. n \in DOMAIN recorded
    BY DEF FrameStep
  <2>2. index \in Seq(EntryType) /\ \A k \in DOMAIN index : index[k].pos \in 1..Len(file)
    BY <2>1, IndexPlaces DEF RecorderInv
  <2>3. Len(index) \in Nat /\ DOMAIN index = 1..Len(index)
    BY <2>2, LenProperties
  <2> QED BY <2>1, <2>2, <2>3 DEF RecorderInv, TablesExact
<1>3. new \in EntryType /\ new.pos = Len(file')
  BY <1>1 DEF EntryType, RecorderInv, RecorderTypes, FrameStep
<1>4. recorded'[n].index = Append(index, new)
  BY <1>1 DEF FrameStep
<1>5. /\ file'[Len(file')].type = "data" /\ file'[Len(file')].node = n
      /\ file'[Len(file')].num = Len(index) + 1
      /\ \A k \in 1..Len(file') : k > Len(file) /\ k # Len(file') => file'[k].type = "begin"
      /\ \A k \in 1..Len(file') : k > Len(file) => file'[k].node = n /\ file'[k].table = 0
  <2>1. file'[Len(file')].type = "data" /\ file'[Len(file')].node = n
        /\ file'[Len(file')].num = Len(index) + 1
    BY <1>1 DEF FrameStep
  <2>2. ASSUME NEW k \in 1..Len(file'), k > Len(file), k # Len(file') PROVE file'[k].type = "begin"
    <3>1. k - Len(file) # Len(recs) /\ k \notin 1..Len(file)
      BY <1>1, <2>2
    <3> QED BY <1>1, <3>1 DEF FrameStep
  <2>3. ASSUME NEW k \in 1..Len(file'), k > Len(file) PROVE file'[k].node = n /\ file'[k].table = 0
    <3>1. k \notin 1..Len(file)
      BY <1>1, <2>3
    <3> QED BY <1>1, <3>1 DEF FrameStep
  <2> QED BY <2>1, <2>2, <2>3
<1> HIDE DEF index, new
<1>6. LET longer == Append(index, new)
      IN  /\ DOMAIN longer = 1..(Len(index) + 1) /\ longer[Len(index) + 1] = new
          /\ \A k \in 1..Len(index) : longer[k] = index[k]
  BY <1>2, <1>3, AppendProperties
<1>7. IsIndexOf(file', Append(index, new), n)
  <2> DEFINE longer == Append(index, new)
             N == Len(index) + 1
  <2>1. /\ DOMAIN longer = 1..N /\ longer[N] = new /\ \A k \in 1..Len(index) : longer[k] = index[k]
    BY <1>6
  <2> HIDE DEF longer
  <2>2. \A k \in 1..N : k \in 1..Len(index) \/ k = N
    BY <1>2
  <2>3. ASSUME NEW k \in 1..N
        PROVE  LET r == file'[longer[k].pos] IN r.type = "data" /\ r.node = n /\ r.num = k
    <3>1. CASE k = N
      BY <1>3, <1>5, <2>1, <3>1
    <3>2. CASE k \in 1..Len(index)
      <4>1. longer[k] = index[k] /\ index[k].pos \in 1..Len(file)
        BY <1>2, <2>1, <3>2
      <4>2. LET r == file[index[k].pos] IN r.type = "data" /\ r.node = n /\ r.num = k
        BY <1>2, <3>2 DEF IsIndexOf
      <4>3. file'[longer[k].pos] = file[index[k].pos]
        BY <1>1, <4>1
      <4> QED BY <4>2, <4>3
    <3> QED BY <2>2, <3>1, <3>2
  <2>4. ASSUME NEW p \in 1..Len(file'), file'[p].type = "data", file'[p].node = n
        PROVE  \E k \in 1..N : longer[k].pos = p
    <3>1. CASE p \in 1..Len(file)
      <4>1. file[p].type = "data" /\ file[p].node = n
        BY <1>1, <2>4, <3>1
      <4>2. PICK k \in 1..Len(index) : index[k].pos = p
        BY <1>1, <1>2, <3>1, <4>1 DEF IsIndexOf
      <4>3. k \in 1..N /\ longer[k].pos = p
        BY <1>2, <2>1, <4>2
      <4> QED BY <4>3
    <3>2. CASE p \notin 1..Len(file)
      <4>1. p = Len(file')
        BY <1>1, <1>5, <2>4, <3>2
      <4>2. N \in 1..N /\ longer[N].pos = p
        BY <1>2, <1>3, <2>1, <4>1
      <4> QED BY <4>2
    <3> QED BY <3>1, <3>2
  <2>5. ASSUME NEW j \in 1..N, NEW k \in 1..N, j < k
        PROVE  longer[j].pos < longer[k].pos
    <3>1. j \in 1..Len(index)
      BY <1>2, <2>5
    <3>2. longer[j].pos = index[j].pos /\ index[j].pos \in 1..Len(file)
      BY <1>2, <2>1, <3>1
    <3>3. CASE k = N
      <4>1. longer[k].pos = Len(file')
        BY <1>3, <2>1, <3>3
      <4> QED BY <1>1, <3>2, <4>1
    <3>4. CASE k \in 1..Len(index)
      <4>1. longer[k].pos = index[k].pos
        BY <2>1, <3>4
      <4> QED BY <1>2, <2>5, <3>1, <3>2, <3>4, <4>1 DEF IsIndexOf
    <3> QED BY <2>2, <3>3, <3>4
  <2>6. IsIndexOf(file', longer, n)
    BY <1>1, <2>1, <2>3, <2>4, <2>5 DEF IsIndexOf
  <2> QED BY <2>6 DEF longer
<1>8. ASSUME NEW i, i # n, NEW ix \in Seq(EntryType), \A k \in DOMAIN ix : ix[k].pos \in 1..Len(file),
             IsIndexOf(file, ix, i)
      PROVE  IsIndexOf(file', ix, i)
  <2>1. \A q \in 1..Len(recs) : ~(recs[q].type = "data" /\ recs[q].node = i)
    BY <1>8 DEF FrameStep
  <2> QED BY <1>1, <1>8, <2>1, IndexStays DEF RecorderInv, RecorderTypes
<1>9. ASSUME NEW i \in DOMAIN recorded' PROVE IsIndexOf(file', recorded'[i].index, i)
  <2>1. CASE i = n
    BY <1>4, <1>7, <2>1
  <2>2. CASE i # n
    <3>1. i \in DOMAIN recorded /\ recorded'[i] = recorded[i]
      BY <2>2 DEF FrameStep
    <3>2. /\ IsIndexOf(file, recorded[i].index, i) /\ recorded[i].index \in Seq(EntryType)
          /\ \A k \in DOMAIN recorded[i].index : recorded[i].index[k].pos \in 1..Len(file)
      BY <3>1, IndexPlaces DEF RecorderInv, TablesExact
    <3>3. IsIndexOf(file', recorded[i].index, i)
      BY <1>8, <2>2, <3>2
    <3> QED BY <3>1, <3>3
  <2> QED BY <2>1, <2>2
<1>10. ASSUME NEW p \in 1..Len(file'), HasTable(file'[p])
       PROVE  LET t == file'[file'[p].table]
              IN  t.type = "table" /\ IsIndexOf(file', t.index, file'[p].node) /\ file'[p].num = Len(t.index)
                  /\ file'[p].table \in 1..Len(file')
  <2>1. p \in 1..Len(file) /\ HasTable(file[p]) /\ file'[p] = file[p]
    BY <1>1, <1>5, <1>10 DEF HasTable
  <2> DEFINE t == file[file[p].table]
  <2>2. file[p].table \in 1..Len(file) /\ t.type = "table" /\ IsIndexOf(file, t.index, file[p].node)
        /\ file[p].num = Len(t.index)
    BY <1>1, <2>1 DEF RecorderInv, TablesExact, TablesKept
  <2>3. file'[file'[p].table] = t
    BY <1>1, <2>1, <2>2
  <2>4. t.index \in Seq(EntryType) /\ \A k \in DOMAIN t.index : t.index[k].pos \in 1..Len(file)
    BY <2>2, IndexPlaces DEF RecorderInv
  <2>5. file[p].node # n
    BY <2>1 DEF RecorderInv, NodesKnown, FrameStep
  <2>6. IsIndexOf(file', t.index, file[p].node)
    BY <1>8, <2>2, <2>4, <2>5
  <2> QED BY <1>1, <2>1, <2>2, <2>3, <2>6
<1>11. header' = InvalidNodeID /\ stage' = "recording"
  BY DEF FrameStep, RecorderInv, TablesKept
<1>12. TablesExact'
  BY <1>1, <1>9, <1>10, <1>11 DEF TablesExact
<1>13. TablesKept'
  <2>1. ASSUME NEW k \in 1..Len(file'), file'[k].type = "data"
        PROVE  \/ file'[k].node \in DOMAIN recorded' /\ recorded'[file'[k].node].gotData
               \/ \E p \in 1..Len(file') : HasTable(file'[p]) /\ file'[p].node = file'[k].node
    <3>1. CASE file'[k].node = n
      BY <3>1 DEF FrameStep
    <3>2. CASE file'[k].node # n
      <4>1. k \in 1..Len(file) /\ file'[k] = file[k]
        <5>1. ~(k > Len(file))
          BY <1>5, <3>2
        <5> QED BY <1>1, <5>1
      <4>2. CASE file[k].node \in DOMAIN recorded /\ recorded[file[k].node].gotData
        BY <3>2, <4>1, <4>2 DEF FrameStep
      <4>3. CASE \E p \in 1..Len(file) : HasTable(file[p]) /\ file[p].node = file[k].node
        <5>1. PICK p \in 1..Len(file) : HasTable(file[p]) /\ file[p].node = file[k].node
          BY <4>3
        <5>2. p \in 1..Len(file') /\ file'[p] = file[p]
          BY <1>1, <5>1
        <5> QED BY <4>1, <5>1, <5>2
      <4> QED BY <2>1, <4>1, <4>2, <4>3 DEF RecorderInv, TablesKept
    <3> QED BY <3>1, <3>2
  <2> QED BY <1>10, <1>11, <2>1 DEF TablesKept
<1> QED BY <1>12, <1>13

\* OnNodeNewData writes such a frame.
LEMMA FrameAction ==
  ASSUME RecorderInv, NEW n \in DOMAIN recorded, OnNodeNewData(n)
  PROVE  RecorderInv' /\ \E recs : FrameStep(n, recs)
<1> DEFINE info == recorded[n]
           begin == IF info.gotData THEN <<>> ELSE <<Rec("begin", n, 0)>>
           pos == Tell + Len(begin)
           frame == Len(info.index) + 1
           data == [Rec("data", n, info.data) EXCEPT !.num = frame]
           recs == begin \o <<data>>
           entry == [config |-> configID, pos |-> pos]
           new == [info EXCEPT !.gotData = TRUE, !.data = pos, !.index = Append(@, entry)]
<1>1. /\ file \in Seq(RecType) /\ Len(file) \in Nat /\ configID \in Nat /\ n \in Nat /\ info \in InfoType
      /\ info.index \in Seq(EntryType) /\ info.data \in Nat /\ Len(info.index) \in Nat
      /\ recorded \in [DOMAIN recorded -> InfoType]
  BY FieldTypes, LenProperties DEF RecorderInv, RecorderTypes
<1>2. /\ stage = "recording" /\ announcing = 0 /\ Write(recs)
      /\ recorded' = [recorded EXCEPT ![n] = new]
      /\ UNCHANGED <<header, numNodes, configID, announcing, stage>>
  BY DEF OnNodeNewData
<1>3. /\ data \in RecType /\ data.type = "data" /\ data.node = n /\ data.undo = info.data
      /\ data.num = frame /\ data.table = 0 /\ data.index = <<>>
  <2>1. /\ Rec("data", n, info.data) \in RecType /\ frame \in Nat
        /\ Rec("data", n, info.data).type = "data" /\ Rec("data", n, info.data).node = n
        /\ Rec("data", n, info.data).undo = info.data /\ Rec("data", n, info.data).table = 0
        /\ Rec("data", n, info.data).index = <<>>
    BY <1>1, RecFacts
  <2>2. ASSUME NEW r \in RecType, NEW x \in Nat
        PROVE  LET d == [r EXCEPT !.num = x]
               IN  /\ d \in RecType /\ d.type = r.type /\ d.node = r.node /\ d.undo = r.undo
                   /\ d.num = x /\ d.table = r.table /\ d.index = r.index
    BY DEF RecType
  <2> QED BY <2>1, <2>2
<1>4. /\ Rec("begin", n, 0) \in RecType /\ Rec("begin", n, 0).type = "begin"
      /\ Rec("begin", n, 0).node = n /\ Rec("begin", n, 0).table = 0 /\ Rec("begin", n, 0).index = <<>>
  <2>1. n \in Nat /\ 0 \in Nat
    BY <1>1
  <2> HIDE DEF info
  <2> QED BY <2>1, RecFacts
<1> HIDE DEF data
<1>5. /\ recs \in Seq(RecType) /\ Len(recs) = (IF info.gotData THEN 1 ELSE 2)
      /\ pos = Len(file) + Len(recs)
      /\ recs[Len(recs)] = data
      /\ \A q \in 1..Len(recs) : /\ recs[q].table = 0 /\ recs[q].index = <<>> /\ recs[q].node = n
                                 /\ recs[q].type = IF q = Len(recs) THEN "data" ELSE "begin"
  <2>1. CASE info.gotData
    <3>1. recs = <<data>> /\ Len(begin) = 0
      BY <1>3, <2>1
    <3>2. <<data>> \in Seq(RecType) /\ Len(<<data>>) = 1 /\ <<data>>[1] = data
      BY <1>3
    <3>3. \A q \in 1..Len(recs) : q = Len(recs) /\ recs[q] = data
      BY <3>1, <3>2
    <3> QED BY <1>1, <1>3, <2>1, <3>1, <3>2, <3>3 DEF Tell
  <2>2. CASE ~info.gotData
    <3> DEFINE b == Rec("begin", n, 0)
    <3> HIDE DEF b
    <3>1. b \in RecType /\ begin = <<b>>
      BY <1>4, <2>2 DEF b
    <3>2. <<b>> \o <<data>> = <<b, data>> /\ Len(<<b>>) = 1
      <4> HIDE DEF begin
      <4> QED BY <1>3, <3>1, TwoRecords
    <3>3. recs = <<b, data>> /\ Len(begin) = 1
      BY <3>1, <3>2
    <3>4. <<b, data>> \in Seq(RecType) /\ Len(<<b, data>>) = 2 /\ <<b, data>>[1] = b /\ <<b, data>>[2] = data
      BY <1>3, <3>1
    <3> HIDE DEF begin, recs
    <3>5. \A q \in 1..Len(recs) : (q = 1 /\ recs[q] = b) \/ (q = 2 /\ recs[q] = data)
      BY <3>3, <3>4
    <3>6. b.type = "begin" /\ b.node = n /\ b.table = 0 /\ b.index = <<>>
      BY <1>4 DEF b
    <3> QED BY <1>1, <1>3, <2>2, <3>3, <3>4, <3>5, <3>6 DEF Tell
  <2> QED BY <2>1, <2>2
<1>6. entry \in EntryType /\ pos \in Nat
  <2>1. pos \in Nat
    BY <1>1, <1>5
  <2> QED BY <1>1, <2>1 DEF EntryType
<1> HIDE DEF recs, pos, frame, begin
<1>7. /\ new \in InfoType /\ new.addedPos = info.addedPos /\ new.prop = info.prop
      /\ new.gotData /\ new.data = pos /\ new.index = Append(info.index, entry)
  <2> DEFINE longer == Append(info.index, entry)
  <2>1. longer \in Seq(EntryType)
    BY <1>1, <1>6
  <2>2. new = [info EXCEPT !.gotData = TRUE, !.data = pos, !.index = longer]
    BY <1>1 DEF InfoType
  <2> HIDE DEF longer, new, info
  <2>3. info \in [addedPos : Nat, gotData : BOOLEAN, prop : Nat, data : Nat, index : Seq(EntryType)]
    BY <1>1 DEF InfoType
  <2>4. /\ new \in InfoType /\ new.addedPos = info.addedPos /\ new.prop = info.prop
        /\ new.gotData /\ new.data = pos /\ new.index = longer
    BY <1>6, <2>1, <2>2, <2>3 DEF InfoType
  <2> QED BY <2>4 DEF longer
<1> HIDE DEF new
<1>8. /\ DOMAIN recorded' = DOMAIN recorded /\ recorded'[n] = new
      /\ \A i \in DOMAIN recorded \ {n} : recorded'[i] = recorded[i]
      /\ recorded' \in [DOMAIN recorded' -> InfoType]
  BY <1>1, <1>2, <1>7
<1>9. FrameStep(n, recs)
  BY <1>2, <1>3, <1>5, <1>7, <1>8 DEF FrameStep, frame
<1>10. RecorderTypes'
  <2>1. file' \in Seq(RecType)
    BY <1>9, FrameGrown DEF Grown
  <2> QED BY <1>2, <1>8, <2>1 DEF RecorderInv, RecorderTypes
<1>11. RecorderInv'
  BY <1>9, <1>10, FrameKnown, FrameEntries, FrameTables DEF RecorderInv
<1> QED BY <1>9, <1>11

-----------------------------------------------------------------------------
(* The removal of a node *)

\* What RemoveNode leaves of node n: its record of the removal and, if it had
\* frames, its table, which its added record now knows.
Removed(n, recs) ==
  LET info == recorded[n]
      last == Len(file) + Len(recs)
  IN
  /\ n \in DOMAIN recorded
  /\ Grown(recs) /\ Len(recs) \in {1, 2}
  /\ \A q \in 1..Len(recs) :
       /\ recs[q].type = (IF q = 1 THEN "removed" ELSE "table")
       /\ recs[q].node = n /\ recs[q].table = 0
       /\ recs[q].index \in {<<>>, info.index}
  /\ \A k \in 1..Len(file) : HasTable(file[k]) => file'[k] = file[k]
  /\ \A k \in 1..Len(file) : HasTable(file'[k]) => HasTable(file[k]) \/ k = info.addedPos
  /\ HasTable(file'[info.addedPos]) =>
       /\ file'[info.addedPos].table = last /\ file'[info.addedPos].num = Len(info.index)
       /\ file'[last].type = "table" /\ file'[last].index = info.index
  /\ info.gotData => HasTable(file'[info.addedPos])
  /\ DOMAIN recorded' = DOMAIN recorded \ {n}
  /\ \A i \in DOMAIN recorded \ {n} : recorded'[i] = recorded[i]

\* Records that replace others, up to their tables, and are written behind.
LEMMA RewriteGrown ==
  ASSUME file \in Seq(RecType), NEW f \in Seq(RecType), Len(f) = Len(file),
         \A k \in 1..Len(file) :
            /\ f[k].type = file[k].type /\ f[k].node = file[k].node
            /\ f[k].undo = file[k].undo /\ f[k].index = file[k].index
            /\ file[k].type # "added" => f[k] = file[k],
         NEW recs \in Seq(RecType), file' = f \o recs
  PROVE  Grown(recs) /\ \A k \in 1..Len(file) : file'[k] = f[k]
<1>1. Len(file) \in Nat /\ Len(recs) \in Nat
  BY LenProperties
<1>2. /\ f \o recs \in Seq(RecType) /\ Len(f \o recs) = Len(file) + Len(recs)
      /\ \A i \in 1..(Len(file) + Len(recs)) :
            (f \o recs)[i] = IF i <= Len(file) THEN f[i] ELSE recs[i - Len(file)]
  <2>1. /\ f \o recs \in Seq(RecType) /\ Len(f \o recs) = Len(f) + Len(recs)
        /\ \A i \in 1..(Len(f) + Len(recs)) :
              (f \o recs)[i] = IF i <= Len(f) THEN f[i] ELSE recs[i - Len(f)]
    BY ConcatProperties
  <2>2. Len(f) = Len(file)
    OBVIOUS
  <2> QED BY <2>1, <2>2
<1>3. /\ file' \in Seq(RecType) /\ Len(file') = Len(file) + Len(recs)
      /\ \A i \in 1..(Len(file) + Len(recs)) :
            file'[i] = IF i <= Len(file) THEN f[i] ELSE recs[i - Len(file)]
  BY <1>2
<1>4. \A k \in 1..Len(file) : file'[k] = f[k]
  BY <1>1, <1>3
<1>5. ASSUME NEW k \in 1..Len(recs) PROVE file'[Len(file) + k] = recs[k]
  <2>1. /\ Len(file) + k \in 1..(Len(file) + Len(recs)) /\ ~(Len(file) + k <= Len(file))
        /\ (Len(file) + k) - Len(file) = k
    BY <1>1
  <2>2. file'[Len(file) + k] = recs[(Len(file) + k) - Len(file)]
    BY <1>3, <2>1
  <2> QED BY <2>1, <2>2
<1> QED BY <1>3, <1>4, <1>5 DEF Grown

\* RemoveNode does leave that.
LEMMA NodeRemoved ==
  ASSUME RecorderInv, NEW n \in DOMAIN recorded, RemoveNode(n)
  PROVE  \E recs : Removed(n, recs)
<1> DEFINE info == recorded[n]
           rem == Rec("removed", n, info.addedPos)
           table == [Rec("table", n, 0) EXCEPT !.index = info.index]
           added == file[info.addedPos]
<1>1. /\ file \in Seq(RecType) /\ Len(file) \in Nat /\ n \in Nat /\ info \in InfoType
      /\ info.index \in Seq(EntryType) /\ Len(info.index) \in Nat /\ info.addedPos \in Nat
      /\ info.gotData \in BOOLEAN
      /\ recorded \in [DOMAIN recorded -> InfoType] /\ DOMAIN file = 1..Len(file)
  BY FieldTypes, LenProperties DEF RecorderInv, RecorderTypes
<1>2. info.addedPos \in 1..Len(file) /\ added.type = "added" /\ added.node = n
  BY DEF RecorderInv, NodesKnown
<1>3. added \in RecType /\ added.table \in Nat /\ ~HasTable(added)
  <2>1. added \in RecType /\ added.table \in Nat
    BY <1>2, FieldTypes DEF RecorderInv
  <2>2. ~HasTable(added)
    BY <1>2 DEF RecorderInv, NodesKnown
  <2> QED BY <2>1, <2>2
<1>4. /\ rem \in RecType /\ rem.type = "removed" /\ rem.node = n /\ rem.table = 0 /\ rem.index = <<>>
  BY <1>1, RecFacts
<1>5. /\ table \in RecType /\ table.type = "table" /\ table.node = n /\ table.table = 0
      /\ table.index = info.index
  <2> DEFINE plain == Rec("table", n, 0)
             ix == info.index
  <2>1. plain \in RecType /\ plain.type = "table" /\ plain.node = n /\ plain.table = 0
    <3>1. n \in Nat /\ 0 \in Nat
      BY <1>1
    <3> HIDE DEF info
    <3> QED BY <3>1, RecFacts
  <2>2. ASSUME NEW r \in RecType, NEW s \in Seq(EntryType)
        PROVE  LET t == [r EXCEPT !.index = s]
               IN  /\ t \in RecType /\ t.type = r.type /\ t.node = r.node /\ t.table = r.table
                   /\ t.index = s
    BY DEF RecType
  <2>3. ix \in Seq(EntryType)
    BY <1>1
  <2> HIDE DEF plain, ix
  <2>4. LET t == [plain EXCEPT !.index = ix]
        IN  /\ t \in RecType /\ t.type = "table" /\ t.node = n /\ t.table = 0 /\ t.index = ix
    BY <2>1, <2>2, <2>3
  <2> QED BY <2>4 DEF plain, ix
<1>6. /\ file' = IF info.gotData
                 THEN [file EXCEPT ![info.addedPos].num = Len(info.index),
                                   ![info.addedPos].table = Tell + 1] \o <<rem>> \o <<table>>
                 ELSE file \o <<rem>>
      /\ recorded' = Restrict(recorded, DOMAIN recorded \ {n})
  BY DEF RemoveNode
<1> HIDE DEF rem, table
<1>7. /\ DOMAIN recorded' = DOMAIN recorded \ {n}
      /\ \A i \in DOMAIN recorded \ {n} : recorded'[i] = recorded[i]
  BY <1>6 DEF Restrict
<1>8. CASE ~info.gotData
  <2>1. /\ <<rem>> \in Seq(RecType) /\ Len(<<rem>>) = 1 /\ <<rem>>[1] = rem
        /\ file' = file \o <<rem>>
    BY <1>4, <1>6, <1>8, OneRecord
  <2>2. Grown(<<rem>>) /\ \A k \in 1..Len(file) : file'[k] = file[k]
    BY <1>1, <2>1, WriteGrown DEF Write
  <2>3. \A q \in 1..Len(<<rem>>) : q = 1 /\ <<rem>>[q] = rem
    BY <2>1
  <2>4. ~HasTable(file'[info.addedPos])
    BY <1>2, <1>3, <2>2
  <2>5. Removed(n, <<rem>>)
    BY <1>4, <1>7, <1>8, <2>1, <2>2, <2>3, <2>4 DEF Removed
  <2> QED BY <2>5
<1>9. CASE info.gotData
  <2> DEFINE p == info.addedPos
             x == Len(info.index)
             y == Len(file) + 2
             r == [added EXCEPT !.num = x, !.table = y]
             f == [file EXCEPT ![p] = r]
             recs == <<rem, table>>
  <2>1. recs \in Seq(RecType) /\ Len(recs) = 2 /\ recs[1] = rem /\ recs[2] = table
    BY <1>4, <1>5, TwoRecords
  <2>2. /\ r \in RecType /\ r.type = "added" /\ r.node = n /\ r.undo = added.undo
        /\ r.index = added.index /\ r.num = x /\ r.table = y
    <3>1. x \in Nat /\ y \in Nat
      BY <1>1
    <3>2. added \in [type : {"added", "prop", "ready", "begin", "data", "removed", "table", "end"},
                     node : Nat, undo : Nat, num : Nat, table : Nat, index : Seq(EntryType)]
      BY <1>3 DEF RecType
    <3> HIDE DEF x, y, info, added
    <3>3. /\ r \in RecType /\ r.type = added.type /\ r.node = added.node /\ r.undo = added.undo
          /\ r.index = added.index /\ r.num = x /\ r.table = y
      BY <3>1, <3>2 DEF RecType
    <3> QED BY <1>2, <3>3
  <2>3. file' = f \o <<rem>> \o <<table>>
    <3>1. (Len(file) + 1) + 1 = y
      BY <1>1
    <3>2. [file EXCEPT ![p].num = x, ![p].table = (Len(file) + 1) + 1]
            = [file EXCEPT ![p] = [added EXCEPT !.num = x, !.table = (Len(file) + 1) + 1]]
      BY <1>1, <1>2
    <3> QED BY <1>6, <1>9, <3>1, <3>2 DEF Tell
  <2> HIDE DEF r
  <2>4. /\ f \in Seq(RecType) /\ Len(f) = Len(file) /\ f[p] = r
        /\ \A k \in 1..Len(file) : k # p => f[k] = file[k]
    BY <1>1, <1>2, <2>2, ExceptSeq
  <2> HIDE DEF f, p
  <2>5. file' = f \o recs
    <3> DEFINE u == <<rem>>
               v == <<table>>
    <3>1. u \in Seq(RecType) /\ v \in Seq(RecType) /\ u \o v = recs /\ f \in Seq(RecType)
      BY <1>4, <1>5, <2>4, OneRecord, TwoRecords
    <3>2. file' = (f \o u) \o v
      BY <2>3
    <3> HIDE DEF u, v, recs
    <3>3. (f \o u) \o v = f \o (u \o v)
      BY <3>1, ThreeParts
    <3> QED BY <3>1, <3>2, <3>3
  <2>6. \A k \in 1..Len(file) :
          /\ f[k].type = file[k].type /\ f[k].node = file[k].node
          /\ f[k].undo = file[k].undo /\ f[k].index = file[k].index
          /\ file[k].type # "added" => f[k] = file[k]
    BY <1>2, <2>2, <2>4 DEF p
  <2> HIDE DEF recs
  <2>7. Grown(recs) /\ \A k \in 1..Len(file) : file'[k] = f[k]
    BY <1>1, <2>1, <2>4, <2>5, <2>6, RewriteGrown
  <2>8. \A q \in 1..Len(recs) : (q = 1 /\ recs[q] = rem) \/ (q = 2 /\ recs[q] = table)
    BY <2>1
  <2>9. Len(file) + Len(recs) = y /\ file'[y] = table
    <3>1. 2 \in 1..Len(recs)
      BY <2>1
    <3>2. file'[Len(file) + 2] = recs[2]
      BY <2>7, <3>1 DEF Grown
    <3> QED BY <2>1, <3>2
  <2>10. file'[p] = r /\ HasTable(r) /\ p \in 1..Len(file)
    <3>1. p \in 1..Len(file)
      BY <1>2 DEF p
    <3> QED BY <1>1, <2>2, <2>4, <2>7, <3>1 DEF HasTable
  <2>11. \A k \in 1..Len(file) : k # p => file'[k] = file[k]
    BY <2>4, <2>7
  <2>12. \A k \in 1..Len(file) : HasTable(file[k]) => k # p
    BY <1>3 DEF p
  <2>13. Removed(n, recs)
    BY <1>4, <1>5, <1>7, <1>9, <2>1, <2>2, <2>7, <2>8, <2>9, <2>10, <2>11, <2>12 DEF Removed, p
  <2> QED BY <2>13
<1> QED BY <1>1, <1>8, <1>9

\* The removal leaves what the other nodes are known by, and the undo places.
LEMMA RemovedKnown ==
  ASSUME RecorderInv, NEW n, NEW recs, Removed(n, recs), numNodes' = numNodes
  PROVE  NodesKnown' /\ UndosExact'
<1>1. /\ file \in Seq(RecType) /\ Len(file) \in Nat /\ Grown(recs)
      /\ Len(recs) \in Nat /\ Len(recs) \in 0..Len(recs)
      /\ Len(file') = Len(file) + Len(recs) /\ Len(file') + 1 = Len(file) + Len(recs) + 1
      /\ numNodes \in Nat /\ n \in 1..numNodes
  <2>1. file \in Seq(RecType) /\ Len(file) \in Nat /\ numNodes \in Nat /\ n \in 1..numNodes
    BY FieldTypes DEF RecorderInv, RecorderTypes, Removed
  <2>2. Grown(recs) /\ Len(file') = Len(file) + Len(recs) /\ (Len(recs) = 1 \/ Len(recs) = 2)
    BY DEF Grown, Removed
  <2> QED BY <2>1, <2>2
<1>2. ASSUME NEW k \in 1..Len(file'), k \notin 1..Len(file)
      PROVE  file'[k].type \in {"removed", "table"} /\ file'[k].node = n /\ file'[k].table = 0
  <2>1. k - Len(file) \in 1..Len(recs) /\ Len(file) + (k - Len(file)) = k
    BY <1>1, <1>2
  <2>2. file'[Len(file) + (k - Len(file))] = recs[k - Len(file)]
    BY <1>1, <2>1 DEF Grown
  <2>3. file'[k] = recs[k - Len(file)]
    BY <2>1, <2>2
  <2> QED BY <2>1, <2>3 DEF Removed
<1>3. \A k \in 1..Len(file') : file'[k].node <= numNodes'
  <2>1. \A k \in 1..Len(file) : file'[k].node = file[k].node
    BY <1>1 DEF Grown
  <2> QED BY <1>1, <1>2, <2>1 DEF RecorderInv, NodesKnown
<1>4. ASSUME NEW i \in DOMAIN recorded'
      PROVE  /\ recorded'[i].addedPos \in 1..Len(file')
             /\ file'[recorded'[i].addedPos].type = "added" /\ file'[recorded'[i].addedPos].node = i
             /\ IsLastRec(file', "prop", i, Len(file') + 1, recorded'[i].prop)
             /\ IsLastRec(file', "data", i, Len(file') + 1, recorded'[i].data)
  <2>1. i \in DOMAIN recorded /\ recorded'[i] = recorded[i]
    BY DEF Removed
  <2>2. /\ recorded[i].addedPos \in 1..Len(file)
        /\ file[recorded[i].addedPos].type = "added" /\ file[recorded[i].addedPos].node = i
        /\ IsLastRec(file, "prop", i, Len(file) + 1, recorded[i].prop)
        /\ IsLastRec(file, "data", i, Len(file) + 1, recorded[i].data)
    BY <2>1 DEF RecorderInv, NodesKnown
  <2>3. \A q \in 1..Len(recs) : recs[q].type # "prop" /\ recs[q].type # "data"
    BY DEF Removed
  <2>4. IsLastRec(file', "prop", i, Len(file) + Len(recs) + 1, recorded[i].prop)
    BY <1>1, <2>2, <2>3, LastPassed
  <2>5. IsLastRec(file', "data", i, Len(file) + Len(recs) + 1, recorded[i].data)
    BY <1>1, <2>2, <2>3, LastPassed
  <2>6. recorded[i].addedPos \in 1..Len(file')
    BY <1>1, <2>2
  <2>7. /\ file'[recorded[i].addedPos].type = "added" /\ file'[recorded[i].addedPos].node = i
    BY <1>1, <2>2 DEF Grown
  <2> QED BY <1>1, <2>1, <2>4, <2>5, <2>6, <2>7
<1>5. ASSUME NEW p \in 1..Len(file'), HasTable(file'[p])
      PROVE  file'[p].node \notin DOMAIN recorded'
  <2>1. p \in 1..Len(file)
    BY <1>2, <1>5 DEF HasTable
  <2>2. file'[p].node = file[p].node
    BY <1>1, <2>1 DEF Grown
  <2>3. CASE HasTable(file[p])
    BY <2>1, <2>2, <2>3 DEF RecorderInv, NodesKnown, Removed
  <2>4. CASE p = recorded[n].addedPos
    <3>1. file[p].node = n
      BY <2>4 DEF RecorderInv, NodesKnown, Removed
    <3> QED BY <2>2, <3>1 DEF Removed
  <2> QED BY <1>5, <2>1, <2>3, <2>4 DEF Removed
<1>6. NodesKnown'
  BY <1>3, <1>4, <1>5 DEF NodesKnown
<1>7. \A q \in 1..Len(recs) : recs[q].type \notin {"prop", "data"}
  BY DEF Removed
<1>8. UndosExact'
  BY <1>1, <1>7, UndosGrow DEF RecorderInv
<1> QED BY <1>6, <1>8

\* It moves the entries of the node from its index to its table.
LEMMA RemovedEntries ==
  ASSUME RecorderInv, NEW n, NEW recs, Removed(n, recs),
         configID' \in Nat, configID' >= configID, stage' = "recording" => configID' > configID
  PROVE  EntriesPlaced' /\ SameConfigurationSameState'
<1>1. Range(<<>>) = {}
  BY DEF Range
<1>2. \A i \in DOMAIN recorded : Range(recorded[i].index) \subseteq Entries
  BY EntryIn
<1>3. \A q \in 1..Len(recs) : Range(recs[q].index) \subseteq Entries
  BY <1>1, <1>2 DEF Removed
<1>4. \A i \in DOMAIN recorded' : Range(recorded'[i].index) \subseteq Entries
  BY <1>2 DEF Removed
<1>5. file \in Seq(RecType) /\ Grown(recs)
  BY DEF RecorderInv, RecorderTypes, Removed
<1>6. Entries' \subseteq Entries
  BY <1>3, <1>4, <1>5, NoNewEntry
<1> QED BY <1>5, <1>6, EntriesKept DEF RecorderInv

\* Its index becomes its table, and the others stay.
LEMMA RemovedTables ==
  ASSUME RecorderInv, NEW n, NEW recs, Removed(n, recs), UNCHANGED <<header, stage>>,
         stage \in {"recording", "finalizing"}
  PROVE  TablesExact' /\ TablesKept'
<1>1. /\ file \in Seq(RecType) /\ Len(file) \in Nat /\ Grown(recs) /\ DOMAIN file = 1..Len(file)
      /\ Len(file') = Len(file) + Len(recs) /\ Len(recs) \in 1..Len(recs)
      /\ DOMAIN file' = 1..Len(file') /\ n \in DOMAIN recorded
  <2>1. file \in Seq(RecType) /\ Len(file) \in Nat /\ DOMAIN file = 1..Len(file)
    BY FieldTypes DEF RecorderInv, RecorderTypes
  <2>2. /\ Grown(recs) /\ Len(file') = Len(file) + Len(recs) /\ file' \in Seq(RecType)
        /\ (Len(recs) = 1 \/ Len(recs) = 2) /\ n \in DOMAIN recorded
    BY DEF Grown, Removed
  <2>3. DOMAIN file' = 1..Len(file')
    BY <2>2, LenProperties
  <2>4. Len(recs) \in 1..Len(recs)
    <3>1. Len(recs) = 1 \/ Len(recs) = 2
      BY <2>2
    <3> QED BY <3>1
  <2> QED BY <2>1, <2>2, <2>3, <2>4
<1>2. ASSUME NEW k \in 1..Len(file'), k \notin 1..Len(file)
      PROVE  file'[k].type \in {"removed", "table"}
  <2>1. k - Len(file) \in 1..Len(recs) /\ Len(file) + (k - Len(file)) = k
    <3>1. Len(file) \in Nat /\ Len(recs) \in Nat /\ Len(file') = Len(file) + Len(recs)
      BY <1>1
    <3> QED BY <1>2, <3>1
  <2>2. file'[Len(file) + (k - Len(file))] = recs[k - Len(file)]
    BY <1>1, <2>1 DEF Grown
  <2>3. file'[k] = recs[k - Len(file)]
    BY <2>1, <2>2
  <2> QED BY <2>1, <2>3 DEF Removed
<1>3. ASSUME NEW i, NEW ix \in Seq(EntryType), \A k \in DOMAIN ix : ix[k].pos \in 1..Len(file),
             IsIndexOf(file, ix, i)
      PROVE  IsIndexOf(file', ix, i)
  <2>1. \A q \in 1..Len(recs) : recs[q].type # "data"
    BY DEF Removed
  <2> QED BY <1>1, <1>3, <2>1, IndexStays
<1>4. \A i \in DOMAIN recorded : IsIndexOf(file', recorded[i].index, i)
  <2> TAKE i \in DOMAIN recorded
  <2>1. /\ IsIndexOf(file, recorded[i].index, i) /\ recorded[i].index \in Seq(EntryType)
        /\ \A k \in DOMAIN recorded[i].index : recorded[i].index[k].pos \in 1..Len(file)
    BY IndexPlaces DEF RecorderInv, TablesExact
  <2> QED BY <1>3, <2>1
<1>5. ASSUME NEW p \in 1..Len(file'), HasTable(file'[p])
      PROVE  LET t == file'[file'[p].table]
             IN  t.type = "table" /\ IsIndexOf(file', t.index, file'[p].node) /\ file'[p].num = Len(t.index)
                 /\ file'[p].table \in 1..Len(file')
  <2>1. p \in 1..Len(file)
    BY <1>2, <1>5 DEF HasTable
  <2>2. CASE HasTable(file[p])
    <3> DEFINE t == file[file[p].table]
    <3>1. file'[p] = file[p]
      BY <2>1, <2>2 DEF Removed
    <3>2. file[p].table \in 1..Len(file) /\ t.type = "table" /\ IsIndexOf(file, t.index, file[p].node)
          /\ file[p].num = Len(t.index)
      BY <1>1, <2>1, <2>2 DEF RecorderInv, TablesExact, TablesKept
    <3>3. file'[file'[p].table] = t
      BY <1>1, <3>1, <3>2 DEF Grown
    <3>4. t.index \in Seq(EntryType) /\ \A k \in DOMAIN t.index : t.index[k].pos \in 1..Len(file)
      BY <3>2, IndexPlaces DEF RecorderInv
    <3>5. IsIndexOf(file', t.index, file[p].node)
      BY <1>3, <3>2, <3>4
    <3>6. file[p].table \in 1..Len(file')
      BY <1>1, <3>2
    <3> QED BY <3>1, <3>2, <3>3, <3>5, <3>6
  <2>3. CASE ~HasTable(file[p])
    <3>1. p = recorded[n].addedPos
      BY <1>5, <2>1, <2>3 DEF Removed
    <3>2. file'[p].node = n
      <4>1. file[p].node = n
        BY <1>1, <3>1 DEF RecorderInv, NodesKnown
      <4> QED BY <1>1, <2>1, <4>1 DEF Grown
    <3>3. /\ file'[p].table = Len(file') /\ file'[p].num = Len(recorded[n].index)
          /\ file'[Len(file')].type = "table" /\ file'[Len(file')].index = recorded[n].index
      BY <1>1, <1>5, <3>1 DEF Removed
    <3>4. Len(file') \in 1..Len(file')
      BY <1>1
    <3> QED BY <1>1, <1>4, <3>2, <3>3, <3>4
  <2> QED BY <2>2, <2>3
<1>6. header' = InvalidNodeID /\ stage' # "done"
  BY DEF RecorderInv, TablesKept
<1>7. TablesExact'
  <2>1. \A i \in DOMAIN recorded' : i \in DOMAIN recorded /\ recorded'[i] = recorded[i]
    BY DEF Removed
  <2> QED BY <1>1, <1>4, <1>5, <1>6, <2>1 DEF TablesExact
<1>8. ASSUME NEW k \in 1..Len(file'), file'[k].type = "data"
      PROVE  \/ file'[k].node \in DOMAIN recorded' /\ recorded'[file'[k].node].gotData
             \/ \E p \in 1..Len(file') : HasTable(file'[p]) /\ file'[p].node = file'[k].node
  <2>1. k \in 1..Len(file)
    BY <1>2, <1>8
  <2>2. file'[k].node = file[k].node /\ file[k].type = "data"
    BY <1>1, <1>8, <2>1 DEF Grown
  <2>3. CASE \E p \in 1..Len(file) : HasTable(file[p]) /\ file[p].node = file[k].node
    <3>1. PICK p \in 1..Len(file) : HasTable(file[p]) /\ file[p].node = file[k].node
      BY <2>3
    <3>2. p \in 1..Len(file') /\ file'[p] = file[p]
      BY <1>1, <3>1 DEF Removed
    <3> QED BY <2>2, <3>1, <3>2
  <2>4. CASE file[k].node \in DOMAIN recorded /\ recorded[file[k].node].gotData
    <3>1. CASE file[k].node # n
      BY <2>2, <2>4, <3>1 DEF Removed
    <3>2. CASE file[k].node = n
      <4> DEFINE p == recorded[n].addedPos
      <4>1. p \in 1..Len(file) /\ file[p].node = n
        BY <1>1 DEF RecorderInv, NodesKnown
      <4>2. HasTable(file'[p])
        BY <2>4, <3>2 DEF Removed
      <4>3. p \in 1..Len(file') /\ file'[p].node = n
        BY <1>1, <4>1 DEF Grown
      <4> QED BY <2>2, <3>2, <4>2, <4>3
    <3> QED BY <3>1, <3>2
  <2> QED BY <2>1, <2>2, <2>3, <2>4 DEF RecorderInv, TablesKept
<1>9. TablesKept'
  BY <1>5, <1>6, <1>8 DEF TablesKept
<1> QED BY <1>7, <1>9

\* OnNodeRemoved while recording, and the removals of FinalizeStream.
LEMMA RemoveActions ==
  ASSUME RecorderInv, NEW n \in DOMAIN recorded, OnNodeRemoved(n) \/ FinalizeNode(n)
  PROVE  RecorderInv'
<1>1. configID \in Nat
  BY DEF RecorderInv, RecorderTypes
<1>2. /\ RemoveNode(n) /\ UNCHANGED <<header, numNodes, announcing, stage>>
      /\ stage \in {"recording", "finalizing"} /\ announcing = 0
      /\ configID' \in Nat /\ configID' >= configID
      /\ stage' = "recording" => configID' > configID
  BY <1>1 DEF OnNodeRemoved, FinalizeNode, RecorderInv, RecorderTypes
<1>3. PICK recs : Removed(n, recs)
  BY <1>2, NodeRemoved
<1>4. RecorderTypes'
  <2>1. file' \in Seq(RecType)
    BY <1>3 DEF Removed, Grown
  <2>2. /\ DOMAIN recorded' \subseteq DOMAIN recorded
        /\ \A i \in DOMAIN recorded' : recorded'[i] \in InfoType
    BY <1>3 DEF RecorderInv, RecorderTypes, Removed
  <2>3. recorded' = [i \in DOMAIN recorded' |-> recorded'[i]]
    BY <1>2 DEF RemoveNode, Restrict
  <2>4. recorded' \in [DOMAIN recorded' -> InfoType]
    BY <2>2, <2>3
  <2> QED BY <1>2, <2>1, <2>2, <2>4 DEF RecorderInv, RecorderTypes
<1>5. NodesKnown' /\ UndosExact'
  BY <1>2, <1>3, RemovedKnown
<1>6. EntriesPlaced' /\ SameConfigurationSameState'
  BY <1>2, <1>3, RemovedEntries
<1>7. TablesExact' /\ TablesKept'
  BY <1>2, <1>3, RemovedTables
<1> QED BY <1>4, <1>5, <1>6, <1>7 DEF RecorderInv

-----------------------------------------------------------------------------
(* The theorem *)

\* Nothing is written when the header is completed, when the process dies, or
\* in a step of others.
LEMMA FileStays ==
  ASSUME RecorderInv, FinalizeHeader \/ Crash \/ UNCHANGED recorderVars
  PROVE  RecorderInv'
<1>1. UNCHANGED <<file, recorded, numNodes, configID, announcing>>
  BY DEF FinalizeHeader, Crash, recorderVars
<1>2. Entries' = Entries
  BY <1>1 DEF Entries, Indexes
<1>3. stage' = "recording" => stage = "recording"
  BY DEF FinalizeHeader, Crash, recorderVars
<1>4. EntriesPlaced'
  BY <1>1, <1>2, <1>3 DEF RecorderInv, EntriesPlaced
<1>5. SameConfigurationSameState'
  BY <1>1, <1>2 DEF RecorderInv, SameConfigurationSameState
<1>6. NodesKnown' /\ UndosExact'
  BY <1>1 DEF RecorderInv, NodesKnown, UndosExact
<1>7. DOMAIN file = 1..Len(file)
  BY FieldTypes DEF RecorderInv
<1>8. CASE FinalizeHeader
  <2>1. /\ stage = "finalizing" /\ stage' = "done" /\ header' = numNodes /\ DOMAIN recorded = {}
    BY <1>8 DEF FinalizeHeader
  <2>2. RecorderTypes' /\ TablesKept'
    BY <1>1, <2>1 DEF RecorderInv, RecorderTypes, TablesKept
  <2>3. TablesExact'
    BY <1>1, <1>7, <2>1 DEF RecorderInv, TablesExact, TablesKept
  <2> QED BY <1>4, <1>5, <1>6, <2>2, <2>3 DEF RecorderInv
<1>9. CASE Crash
  <2>1. stage \in {"recording", "finalizing"} /\ stage' = "crashed" /\ header' = header
    BY <1>9 DEF Crash
  <2>2. RecorderTypes' /\ TablesKept' /\ TablesExact'
    BY <1>1, <2>1 DEF RecorderInv, RecorderTypes, TablesKept, TablesExact
  <2> QED BY <1>4, <1>5, <1>6, <2>2 DEF RecorderInv
<1>10. CASE UNCHANGED recorderVars
  <2>1. RecorderTypes' /\ TablesKept' /\ TablesExact'
    BY <1>10 DEF recorderVars, RecorderInv, RecorderTypes, TablesKept, TablesExact
  <2> QED BY <1>4, <1>5, <1>6, <2>1 DEF RecorderInv
<1> QED BY <1>8, <1>9, <1>10

\* An empty file, and no node.
LEMMA RecorderStarts ==
  ASSUME RecorderInit
  PROVE  RecorderInv
<1>1. /\ file \in Seq(RecType) /\ Len(file) = 0 /\ DOMAIN file = {} /\ DOMAIN recorded = {}
      /\ recorded \in [DOMAIN recorded -> InfoType]
      /\ header = InvalidNodeID /\ numNodes = 0 /\ configID = 0 /\ announcing = 0
      /\ stage = "recording"
  BY DEF RecorderInit
<1>2. InvalidNodeID \in Int
  BY DEF InvalidNodeID
<1>3. Entries = {}
  BY <1>1 DEF Entries, Indexes
<1>4. \A k \in 1..Len(file) : FALSE
  BY <1>1
<1>5. RecorderTypes
  BY <1>1, <1>2 DEF RecorderTypes
<1>6. NodesKnown /\ UndosExact /\ EntriesPlaced /\ SameConfigurationSameState
  BY <1>1, <1>3, <1>4 DEF NodesKnown, UndosExact, EntriesPlaced, SameConfigurationSameState
<1>7. TablesExact /\ TablesKept
  BY <1>1, <1>4 DEF TablesExact, TablesKept
<1> QED BY <1>5, <1>6, <1>7 DEF RecorderInv

\* Every step of the recorder keeps the invariant.
LEMMA RecorderStep == RecorderInv /\ [RecorderNext]_recorderVars => RecorderInv'
<1> SUFFICES ASSUME RecorderInv, [RecorderNext]_recorderVars PROVE RecorderInv'
  OBVIOUS
<1>1. CASE OnNodeAdded \/ FinalizeEnd
            \/ \E n \in DOMAIN recorded : OnNodePropChanged(n) \/ OnNodeStateReady(n)
  BY <1>1, PlainActions
<1>2. CASE \E n \in DOMAIN recorded : OnNodeNewData(n)
  BY <1>2, FrameAction
<1>3. CASE \E n \in DOMAIN recorded : OnNodeRemoved(n) \/ FinalizeNode(n)
  BY <1>3, RemoveActions
<1>4. CASE FinalizeHeader \/ Crash \/ UNCHANGED recorderVars
  BY <1>4, FileStays
<1> QED BY <1>1, <1>2, <1>3, <1>4 DEF RecorderNext

\* The invariant says that the file is exact.
LEMMA ExactFile == RecorderInv => FileExact
<1> SUFFICES ASSUME RecorderInv PROVE FileExact
  OBVIOUS
<1>1. DOMAIN file = 1..Len(file) /\ Len(file) \in Nat
  BY FieldTypes DEF RecorderInv
<1>2. ASSUME NEW k \in DOMAIN file, file[k].type \in {"prop", "data"}
      PROVE  file[k].undo = LastRec(file[k].type, file[k].node, k)
  <2>1. k \in Nat /\ IsLastRec(file, file[k].type, file[k].node, k, file[k].undo)
    BY <1>1, <1>2 DEF RecorderInv, UndosExact
  <2> QED BY <2>1, LastIs
<1>3. UndoExact
  BY <1>2 DEF UndoExact
<1> QED BY <1>3 DEF FileExact, RecorderInv

\* At any time, and so also after a crash, what the recorder has written of its
\* file is exact: the undo places (UpdateNodePropInfo, nLastDataPos) are the last
\* records of their kind and node, frames of one configuration ID have no
\* change between them, and the seek tables (UpdateNodeSeekInfo) list exactly
\* the frames of their nodes.
THEOREM RecordedExact == RecorderSpec => []FileExact
<1>1. RecorderInit => RecorderInv
  BY RecorderStarts
<1>2. RecorderInv /\ [RecorderNext]_recorderVars => RecorderInv'
  BY RecorderStep
<1>3. RecorderInv => FileExact
  BY ExactFile
<1> QED BY <1>1, <1>2, <1>3, PTL DEF RecorderSpec
=============================================================================
