---------------------------- MODULE StagingStore ----------------------------
(****************************************************************************)
(* The in-memory staging store of EventIngestService: accepted events that  *)
(* wait for a correlation, found by idempotency key (byIdempotency) or by   *)
(* the (tenant, kind, id) they wait for (byPending).  The operators are the *)
(* store's methods as functions from one store value to the next; the lock  *)
(* around it makes each call one step.                                      *)
(****************************************************************************)
EXTENDS DfcCore, Naturals

StagedRecord ==
  [event : DfcEvent, pending : SUBSET Lookups, expires : Nat]

EmptyStore == [byIdempotency |-> [k \in {} |-> None],
               byPending     |-> [i \in {} |-> {}]]

IsStore(st) ==
  /\ st = [byIdempotency |-> st.byIdempotency, byPending |-> st.byPending]
  /\ DOMAIN st.byIdempotency \subseteq Tenants \X Keys
  /\ st.byIdempotency \in [DOMAIN st.byIdempotency -> StagedRecord]
  /\ DOMAIN st.byPending \subseteq Tenants \X CorrelationKinds \X Ids
  /\ st.byPending \in [DOMAIN st.byPending -> SUBSET (Tenants \X Keys)]

\* The index keys a record is filed under.
IndexKeys(rec) == {<<rec.event.tenant, p[1], p[2]>> : p \in rec.pending}

\* The keys filed under i.
FiledUnder(st, i) ==
  IF i \in DOMAIN st.byPending THEN st.byPending[i] ELSE {}

\* Faulty: the index is left as it is.
IndexKept(st, K) == st.byPending

\* Faulty: a whole index entry goes with the first record it files.
EntryDropped(st, K) ==
  LET hit == UNION {IndexKeys(st.byIdempotency[k]) : k \in K}
  IN  [i \in DOMAIN st.byPending \ hit |-> st.byPending[i]]

\* The index without the entries of the records of K; emptied sets go.
Unindexed(st, K) ==
  LET left(i) == {k \in st.byPending[i] :
                    ~(k \in K /\ i \in IndexKeys(st.byIdempotency[k]))}
  IN  [i \in {j \in DOMAIN st.byPending : left(j) # {}} |-> left(i)]

\* remove_staged and take: the records of K leave both maps.
Without(st, K) ==
  LET gone == K \cap DOMAIN st.byIdempotency
  IN  [byIdempotency |-> [k \in DOMAIN st.byIdempotency \ gone |->
                            st.byIdempotency[k]],
       byPending     |-> Unindexed(st, gone)]

take(st, k) == Without(st, {k})

\* Faulty: what has not expired is purged.
ExpiredFlipped(st, now) ==
  {k \in DOMAIN st.byIdempotency : st.byIdempotency[k].expires >= now}

Expired(st, now) ==
  {k \in DOMAIN st.byIdempotency : st.byIdempotency[k].expires <= now}

purge_expired(st, now) == Without(st, Expired(st, now))

\* A record already there under the same key is overwritten, and its index
\* entries are left as they are.
stage(st, e, pending, expires) ==
  LET k   == <<e.tenant, e.key>>
      rec == [event |-> e, pending |-> pending, expires |-> expires]
  IN  [byIdempotency |->
         [j \in DOMAIN st.byIdempotency \cup {k} |->
            IF j = k THEN rec ELSE st.byIdempotency[j]],
       byPending |->
         [i \in DOMAIN st.byPending \cup IndexKeys(rec) |->
            IF i \in IndexKeys(rec) THEN FiledUnder(st, i) \cup {k}
                                    ELSE st.byPending[i]]]

keys_for(st, tenant, p) == FiledUnder(st, <<tenant, p[1], p[2]>>)

-----------------------------------------------------------------------------
(* Every staged record can be found from what it waits for: a record the    *)
(* index has lost is never reconciled.                                      *)
Findable(st) ==
  \A k \in DOMAIN st.byIdempotency :
    \A i \in IndexKeys(st.byIdempotency[k]) : k \in FiledUnder(st, i)

\* The index files nothing else: no entry outlives its record.
NothingStale(st) ==
  \A i \in DOMAIN st.byPending :
    /\ st.byPending[i] # {}
    /\ \A k \in st.byPending[i] :
         k \in DOMAIN st.byIdempotency
           /\ i \in IndexKeys(st.byIdempotency[k])
=============================================================================
