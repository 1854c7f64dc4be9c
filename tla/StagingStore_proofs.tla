------------------------- MODULE StagingStore_proofs -------------------------
(****************************************************************************)
(* The methods of the staging store keep its two maps well typed and never  *)
(* leave a record that its index cannot find.                               *)
(****************************************************************************)
EXTENDS StagingStore, FiniteSets, FiniteSetTheorems, TLAPS

IndexSpace == Tenants \X CorrelationKinds \X Ids

\* A staged record is filed under (tenant, kind, id) triples.
LEMMA IndexKeysType ==
  ASSUME NEW rec \in StagedRecord
  PROVE  IndexKeys(rec) \subseteq IndexSpace
<1>1. rec.event.tenant \in Tenants /\ rec.pending \subseteq Lookups
  BY DEF StagedRecord, DfcEvent
<1> QED BY <1>1 DEF IndexKeys, Lookups, IndexSpace

\* take and purge_expired: the records of K go, the others stay as they are.
LEMMA WithoutRecords ==
  ASSUME NEW st, NEW K
  PROVE  LET w == Without(st, K)
         IN  /\ DOMAIN w.byIdempotency = DOMAIN st.byIdempotency \ K
             /\ w.byIdempotency =
                  [k \in DOMAIN w.byIdempotency |-> w.byIdempotency[k]]
             /\ \A k \in DOMAIN w.byIdempotency :
                  w.byIdempotency[k] = st.byIdempotency[k]
BY DEF Without

\* The index only shrinks, and only by the keys of K.
LEMMA WithoutIndex ==
  ASSUME NEW st, NEW K
  PROVE  LET w == Without(st, K)
         IN  /\ DOMAIN w.byPending \subseteq DOMAIN st.byPending
             /\ w.byPending = [i \in DOMAIN w.byPending |-> w.byPending[i]]
             /\ \A i \in DOMAIN w.byPending :
                  w.byPending[i] \subseteq st.byPending[i]
             /\ \A i \in DOMAIN st.byPending : \A k \in st.byPending[i] \ K :
                  i \in DOMAIN w.byPending /\ k \in w.byPending[i]
BY DEF Without, Unindexed

\* Removing records leaves a store.
LEMMA WithoutType ==
  ASSUME NEW st, NEW K, IsStore(st)
  PROVE  IsStore(Without(st, K))
<1> DEFINE w == Without(st, K)
<1>1. w = [byIdempotency |-> w.byIdempotency, byPending |-> w.byPending]
  BY DEF Without
<1>2. /\ DOMAIN w.byIdempotency = DOMAIN st.byIdempotency \ K
      /\ w.byIdempotency =
           [k \in DOMAIN w.byIdempotency |-> w.byIdempotency[k]]
      /\ \A k \in DOMAIN w.byIdempotency :
           w.byIdempotency[k] = st.byIdempotency[k]
  BY WithoutRecords
<1>3. /\ DOMAIN w.byPending \subseteq DOMAIN st.byPending
      /\ w.byPending = [i \in DOMAIN w.byPending |-> w.byPending[i]]
      /\ \A i \in DOMAIN w.byPending : w.byPending[i] \subseteq st.byPending[i]
  BY WithoutIndex
<1> HIDE DEF w
<1>4. \A k \in DOMAIN w.byIdempotency : w.byIdempotency[k] \in StagedRecord
  BY <1>2 DEF IsStore
<1>5. w.byIdempotency \in [DOMAIN w.byIdempotency -> StagedRecord]
  BY <1>2, <1>4
<1>6. \A i \in DOMAIN w.byPending : w.byPending[i] \in SUBSET (Tenants \X Keys)
  BY <1>3 DEF IsStore
<1>7. w.byPending \in [DOMAIN w.byPending -> SUBSET (Tenants \X Keys)]
  BY <1>3, <1>6
<1>8. /\ DOMAIN w.byIdempotency \subseteq Tenants \X Keys
      /\ DOMAIN w.byPending \subseteq Tenants \X CorrelationKinds \X Ids
  BY <1>2, <1>3 DEF IsStore
<1>9. IsStore(w)
  BY <1>1, <1>5, <1>7, <1>8 DEF IsStore
<1> QED BY <1>9 DEF w

\* take and purge_expired keep every other record findable.
LEMMA WithoutFindable ==
  ASSUME NEW st, NEW K, Findable(st)
  PROVE  Findable(Without(st, K))
<1> DEFINE w == Without(st, K)
<1>1. /\ DOMAIN w.byIdempotency = DOMAIN st.byIdempotency \ K
      /\ \A k \in DOMAIN w.byIdempotency :
           w.byIdempotency[k] = st.byIdempotency[k]
  BY WithoutRecords
<1>2. \A i \in DOMAIN st.byPending : \A k \in st.byPending[i] \ K :
        i \in DOMAIN w.byPending /\ k \in w.byPending[i]
  BY WithoutIndex
<1> HIDE DEF w
<1>3. ASSUME NEW k \in DOMAIN w.byIdempotency,
             NEW i \in IndexKeys(w.byIdempotency[k])
      PROVE  k \in FiledUnder(w, i)
  <2>1. /\ k \in DOMAIN st.byIdempotency /\ k \notin K
        /\ w.byIdempotency[k] = st.byIdempotency[k]
    BY <1>1
  <2>2. k \in FiledUnder(st, i)
    BY <2>1 DEF Findable
  <2>3. i \in DOMAIN st.byPending /\ k \in st.byPending[i]
    BY <2>2 DEF FiledUnder
  <2> QED BY <1>2, <2>1, <2>3 DEF FiledUnder
<1>4. Findable(w)
  BY <1>3 DEF Findable
<1> QED BY <1>4 DEF w

\* stage keeps the store well typed.
LEMMA StageType ==
  ASSUME NEW st, NEW e \in DfcEvent, NEW pending \in SUBSET Lookups,
         NEW expires \in Nat, IsStore(st)
  PROVE  IsStore(stage(st, e, pending, expires))
<1> DEFINE k   == <<e.tenant, e.key>>
           rec == [event |-> e, pending |-> pending, expires |-> expires]
           s   == stage(st, e, pending, expires)
<1>1. k \in Tenants \X Keys
  BY DEF DfcEvent
<1>2. rec \in StagedRecord
  BY DEF StagedRecord
<1>3. IndexKeys(rec) \subseteq IndexSpace
  BY <1>2, IndexKeysType
<1>4. /\ s = [byIdempotency |-> s.byIdempotency, byPending |-> s.byPending]
      /\ DOMAIN s.byIdempotency = DOMAIN st.byIdempotency \cup {k}
      /\ s.byIdempotency =
           [j \in DOMAIN s.byIdempotency |-> s.byIdempotency[j]]
      /\ s.byIdempotency[k] = rec
      /\ \A j \in DOMAIN st.byIdempotency \ {k} :
           s.byIdempotency[j] = st.byIdempotency[j]
  BY DEF stage
<1>5. /\ DOMAIN s.byPending = DOMAIN st.byPending \cup IndexKeys(rec)
      /\ s.byPending = [i \in DOMAIN s.byPending |-> s.byPending[i]]
      /\ \A i \in DOMAIN s.byPending :
           s.byPending[i] = IF i \in IndexKeys(rec)
                            THEN FiledUnder(st, i) \cup {k}
                            ELSE st.byPending[i]
  BY DEF stage
<1> HIDE DEF s, rec, k
<1>6. \A j \in DOMAIN s.byIdempotency : s.byIdempotency[j] \in StagedRecord
  BY <1>2, <1>4 DEF IsStore
<1>7. \A i \in DOMAIN s.byPending :
        s.byPending[i] \in SUBSET (Tenants \X Keys)
  <2>1. \A i \in DOMAIN st.byPending : st.byPending[i] \in SUBSET (Tenants \X Keys)
    BY DEF IsStore
  <2>2. \A i : FiledUnder(st, i) \in SUBSET (Tenants \X Keys)
    BY <2>1 DEF FiledUnder
  <2>3. ASSUME NEW i \in DOMAIN s.byPending
        PROVE  s.byPending[i] \in SUBSET (Tenants \X Keys)
    <3>1. CASE i \in IndexKeys(rec)
      <4>1. s.byPending[i] = FiledUnder(st, i) \cup {k}
        BY <1>5, <3>1
      <4> QED BY <1>1, <2>2, <4>1
    <3>2. CASE i \notin IndexKeys(rec)
      <4>1. i \in DOMAIN st.byPending /\ s.byPending[i] = st.byPending[i]
        BY <1>5, <3>2
      <4> QED BY <2>1, <4>1
    <3> QED BY <3>1, <3>2
  <2> QED BY <2>3
<1>8. /\ DOMAIN s.byIdempotency \subseteq Tenants \X Keys
      /\ DOMAIN s.byPending \subseteq Tenants \X CorrelationKinds \X Ids
  BY <1>1, <1>3, <1>4, <1>5 DEF IsStore, IndexSpace
<1>9. s.byIdempotency \in [DOMAIN s.byIdempotency -> StagedRecord]
  BY <1>4, <1>6
<1>10. s.byPending \in [DOMAIN s.byPending -> SUBSET (Tenants \X Keys)]
  BY <1>5, <1>7
<1>11. IsStore(s)
  BY <1>4, <1>8, <1>9, <1>10 DEF IsStore
<1> QED BY <1>11 DEF s

\* A staged record is findable, and no other record is lost from the index,
\* even when the record overwrites another one under its key.
LEMMA StageFindable ==
  ASSUME NEW st, NEW e, NEW pending, NEW expires, Findable(st)
  PROVE  Findable(stage(st, e, pending, expires))
<1> DEFINE k   == <<e.tenant, e.key>>
           rec == [event |-> e, pending |-> pending, expires |-> expires]
           s   == stage(st, e, pending, expires)
<1>1. /\ DOMAIN s.byIdempotency = DOMAIN st.byIdempotency \cup {k}
      /\ s.byIdempotency[k] = rec
      /\ \A j \in DOMAIN st.byIdempotency \ {k} :
           s.byIdempotency[j] = st.byIdempotency[j]
  BY DEF stage
<1>2. /\ DOMAIN s.byPending = DOMAIN st.byPending \cup IndexKeys(rec)
      /\ \A i \in DOMAIN s.byPending :
           s.byPending[i] = IF i \in IndexKeys(rec)
                            THEN FiledUnder(st, i) \cup {k}
                            ELSE st.byPending[i]
  BY DEF stage
<1> HIDE DEF s, rec, k
<1>3. ASSUME NEW j \in DOMAIN s.byIdempotency,
             NEW i \in IndexKeys(s.byIdempotency[j])
      PROVE  j \in FiledUnder(s, i)
  <2>1. CASE j = k
    BY <1>1, <1>2, <2>1 DEF FiledUnder
  <2>2. CASE j # k
    <3>1. j \in DOMAIN st.byIdempotency /\ i \in IndexKeys(st.byIdempotency[j])
      BY <1>1, <2>2
    <3>2. i \in DOMAIN st.byPending /\ j \in st.byPending[i]
      BY <3>1 DEF Findable, FiledUnder
    <3> QED BY <1>2, <3>2 DEF FiledUnder
  <2> QED BY <2>1, <2>2
<1>4. Findable(s)
  BY <1>3 DEF Findable
<1> QED BY <1>4 DEF s

\* The empty store is a store, and loses nothing.
LEMMA EmptyStoreType == IsStore(EmptyStore) /\ Findable(EmptyStore)
BY DEF IsStore, EmptyStore, Findable

\* take and purge_expired leave no entry of a record that goes.
LEMMA WithoutTight ==
  ASSUME NEW st, NEW K, NothingStale(st)
  PROVE  NothingStale(Without(st, K))
<1> DEFINE gone    == K \cap DOMAIN st.byIdempotency
           left(i) == {k \in st.byPending[i] :
                         ~(k \in gone /\ i \in IndexKeys(st.byIdempotency[k]))}
           w       == Without(st, K)
<1>1. /\ DOMAIN w.byIdempotency = DOMAIN st.byIdempotency \ gone
      /\ \A k \in DOMAIN w.byIdempotency :
           w.byIdempotency[k] = st.byIdempotency[k]
  BY DEF Without
<1>2. /\ DOMAIN w.byPending = {i \in DOMAIN st.byPending : left(i) # {}}
      /\ \A i \in DOMAIN w.byPending : w.byPending[i] = left(i)
  BY DEF Without, Unindexed
<1> HIDE DEF w, gone
<1>3. ASSUME NEW i \in DOMAIN w.byPending, NEW k \in w.byPending[i]
      PROVE  /\ k \in DOMAIN w.byIdempotency
             /\ i \in IndexKeys(w.byIdempotency[k])
  <2>1. /\ i \in DOMAIN st.byPending /\ k \in st.byPending[i]
        /\ ~(k \in gone /\ i \in IndexKeys(st.byIdempotency[k]))
    BY <1>2
  <2>2. k \in DOMAIN st.byIdempotency /\ i \in IndexKeys(st.byIdempotency[k])
    BY <2>1 DEF NothingStale
  <2> QED BY <1>1, <2>1, <2>2
<1>4. NothingStale(w)
  BY <1>2, <1>3 DEF NothingStale
<1> QED BY <1>4 DEF w

\* stage leaves none either, if a record it overwrites was filed alike.
LEMMA StageTight ==
  ASSUME NEW st, NEW e, NEW pending, NEW expires, NothingStale(st),
         <<e.tenant, e.key>> \in DOMAIN st.byIdempotency =>
           IndexKeys(st.byIdempotency[<<e.tenant, e.key>>])
             = {<<e.tenant, p[1], p[2]>> : p \in pending}
  PROVE  NothingStale(stage(st, e, pending, expires))
<1> DEFINE k   == <<e.tenant, e.key>>
           rec == [event |-> e, pending |-> pending, expires |-> expires]
           s   == stage(st, e, pending, expires)
<1>1. /\ DOMAIN s.byIdempotency = DOMAIN st.byIdempotency \cup {k}
      /\ s.byIdempotency[k] = rec
      /\ \A j \in DOMAIN st.byIdempotency \ {k} :
           s.byIdempotency[j] = st.byIdempotency[j]
  BY DEF stage
<1>2. /\ DOMAIN s.byPending = DOMAIN st.byPending \cup IndexKeys(rec)
      /\ \A i \in DOMAIN s.byPending :
           s.byPending[i] = IF i \in IndexKeys(rec)
                            THEN FiledUnder(st, i) \cup {k}
                            ELSE st.byPending[i]
  BY DEF stage
<1>3. k \in DOMAIN st.byIdempotency =>
        IndexKeys(st.byIdempotency[k]) = IndexKeys(rec)
  BY DEF IndexKeys
<1> HIDE DEF s, rec, k
<1>4. ASSUME NEW i \in DOMAIN s.byPending
      PROVE  /\ s.byPending[i] # {}
             /\ \A j \in s.byPending[i] : /\ j \in DOMAIN s.byIdempotency
                                          /\ i \in IndexKeys(s.byIdempotency[j])
  <2>1. \A j \in FiledUnder(st, i) : /\ j \in DOMAIN st.byIdempotency
                                     /\ i \in IndexKeys(st.byIdempotency[j])
    BY DEF NothingStale, FiledUnder
  <2>2. CASE i \in IndexKeys(rec)
    BY <1>1, <1>2, <2>1, <2>2
  <2>3. CASE i \notin IndexKeys(rec)
    <3>1. i \in DOMAIN st.byPending /\ s.byPending[i] = st.byPending[i]
      BY <1>2, <2>3
    <3>2. FiledUnder(st, i) = s.byPending[i] /\ s.byPending[i] # {}
      BY <3>1 DEF FiledUnder, NothingStale
    <3> QED BY <1>1, <1>3, <2>1, <2>3, <3>2
  <2> QED BY <2>2, <2>3
<1>5. NothingStale(s)
  BY <1>4 DEF NothingStale
<1> QED BY <1>5 DEF s

-----------------------------------------------------------------------------
(* What is listed is finite *)

FiniteIndex(st) == \A i \in DOMAIN st.byPending : IsFiniteSet(st.byPending[i])

LEMMA EmptyStoreFinite == FiniteIndex(EmptyStore)
BY DEF FiniteIndex, EmptyStore

\* take and purge_expired only take keys away.
LEMMA WithoutFinite ==
  ASSUME NEW st, NEW K, FiniteIndex(st)
  PROVE  FiniteIndex(Without(st, K))
<1> DEFINE w == Without(st, K)
<1>1. /\ DOMAIN w.byPending \subseteq DOMAIN st.byPending
      /\ \A i \in DOMAIN w.byPending : w.byPending[i] \subseteq st.byPending[i]
  BY WithoutIndex
<1> HIDE DEF w
<1>2. ASSUME NEW i \in DOMAIN w.byPending PROVE IsFiniteSet(w.byPending[i])
  <2>1. IsFiniteSet(st.byPending[i]) /\ w.byPending[i] \subseteq st.byPending[i]
    BY <1>1 DEF FiniteIndex
  <2> QED BY <2>1, FS_Subset
<1>3. FiniteIndex(w)
  BY <1>2 DEF FiniteIndex
<1> QED BY <1>3 DEF w

\* stage adds one key to the entries it files the record under.
LEMMA StageFinite ==
  ASSUME NEW st, NEW e, NEW pending, NEW expires, FiniteIndex(st)
  PROVE  FiniteIndex(stage(st, e, pending, expires))
<1> DEFINE k   == <<e.tenant, e.key>>
           rec == [event |-> e, pending |-> pending, expires |-> expires]
           s   == stage(st, e, pending, expires)
<1>1. /\ DOMAIN s.byPending = DOMAIN st.byPending \cup IndexKeys(rec)
      /\ \A i \in DOMAIN s.byPending :
           s.byPending[i] = IF i \in IndexKeys(rec)
                            THEN FiledUnder(st, i) \cup {k}
                            ELSE st.byPending[i]
  BY DEF stage
<1> HIDE DEF k, rec, s
<1>2. ASSUME NEW i PROVE IsFiniteSet(FiledUnder(st, i) \cup {k})
  <2>1. IsFiniteSet(FiledUnder(st, i))
    BY FS_EmptySet DEF FiledUnder, FiniteIndex
  <2> QED BY <2>1, FS_AddElement
<1>3. ASSUME NEW i \in DOMAIN s.byPending PROVE IsFiniteSet(s.byPending[i])
  BY <1>1, <1>2 DEF FiniteIndex
<1>4. FiniteIndex(s)
  BY <1>3 DEF FiniteIndex
<1> QED BY <1>4 DEF s
=============================================================================
