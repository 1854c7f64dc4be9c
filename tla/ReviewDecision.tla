---------------------------- MODULE ReviewDecision ----------------------------
(****************************************************************************)
(* Human review behind POST /v1/hitl/reviews/:id/decision, GET              *)
(* /v1/hitl/reviews/:id and, for what a review is mapped to, POST           *)
(* /v1/correlate.  A decision is three awaited writes: the human event to   *)
(* data-fabric, the review's revision raised, the decision submitted to     *)
(* aivcs-api.  A view reads four things at once and answers with an ETag    *)
(* made of the revision.                                                    *)
(*                                                                          *)
(* A call may be sent again by the client's retry loop (RetryCall): what    *)
(* that means here is that its effect may be carried out more than once     *)
(* while the handler waits.  Comments and reviewers are left out, and so is *)
(* reconcile_record after a correlate (EventIngest).                        *)
(****************************************************************************)
EXTENDS DataFabric, Naturals, FiniteSets

CONSTANTS
  Tasks,        \* one per request handled
  Requests,     \* the requests callers may send
  Attempts,     \* how often the client sends a call; 1 for the in-process one
  MaxInFlight,  \* bound: handlers running at once
  MaxFaults     \* bound: handlers cut short, replies lost, calls sent again

Decisions == {"approved", "rejected", "requested_changes", "escalated"}

data_fabric_event_type ==
  [approved |-> "human.approved", rejected |-> "human.rejected",
   requested_changes |-> "human.requested_changes",
   escalated |-> "human.escalated"]

\* A review is absent when validate_route_id refuses the one in the path.
ReviewDecisionRequest ==
  [api : {"decision"}, header : Opt(Tenants), review : Opt(Ids),
   key : Opt(Keys), decision : Decisions]
ViewRequest == [api : {"view"}, header : Opt(Tenants), review : Opt(Ids)]

ASSUME RequestsAssumption ==
  Requests \subseteq ReviewDecisionRequest \cup ViewRequest \cup CorrelateRequest

ASSUME BoundsAssumption == {Attempts, MaxInFlight, MaxFaults} \subseteq Nat

VARIABLES
  revisions,    \* data-fabric's review_revisions: <<tenant, review>> -> Nat
  submissions,  \* the decisions aivcs-api has been told of
  pc, req,      \* where each task's handler is, and the request it serves
  corr,         \* the review's correlation as the handler read it
  stored,       \* a decision's event as data-fabric holds it
  left,         \* the reads of a view that have not returned
  frag, rev,    \* what the others returned: fragments and revision
  match,        \* the revision in a view's If-None-Match, 0 when absent
  tries,        \* how often the call awaited has been sent without success
  before,       \* history: the views and decisions answered before it came
  answer,       \* the response prepared; the caller has it once pc is "done"
  faults        \* used up so far

review == <<revisions, submissions>>
job    == <<corr, stored, left, frag, rev, match>>
vars   == <<upstream, review, pc, req, job, tries, before, answer, faults>>

Labels == {"idle", "store", "correlation", "ingest", "bump", "submit",
           "reading", "assemble", "done"}

Reads == {"correlation", "fragments", "fabric", "revision"}

Submission == [tenant : Tenants, review : Ids, key : Keys,
               decision : Decisions, run : Opt(Ids), task : Opt(Ids)]

Contents == [correlation : CorrelationRecord, fragments : SUBSET Decisions]

NoEvent    == [tenant |-> None]
Decided(e) == [status |-> "decided", event |-> e]
Correlated == [status |-> "correlated"]
Failed     == [status |-> "error"]
NoAnswer   == [status |-> "none"]

\* A 304 has no body: its contents are history, what a 200 would have said.
Answers ==
  [status : {"decided"}, event : DfcEvent]
    \cup [status : {"bundle", "not_modified"}, etag : Nat, contents : Contents]
    \cup {Correlated, Failed, NoAnswer}

TypeOK ==
  /\ UpstreamTypeOK
  /\ DOMAIN revisions \subseteq Tenants \X Ids
  /\ revisions \in [DOMAIN revisions -> Nat]
  /\ submissions \subseteq Submission
  /\ pc \in [Tasks -> Labels]
  /\ req \in [Tasks -> Requests \cup {None}]
  /\ corr \in [Tasks -> CorrelationRecord \cup {None}]
  /\ stored \in [Tasks -> DfcEvent \cup {NoEvent}]
  /\ left \in [Tasks -> SUBSET Reads]
  /\ frag \in [Tasks -> SUBSET Decisions]
  /\ rev \in [Tasks -> Nat]
  /\ match \in [Tasks -> Nat]
  /\ tries \in [Tasks -> Nat]
  /\ before \in [Tasks -> SUBSET Tasks]
  /\ answer \in [Tasks -> Answers]
  /\ faults \in Nat

Init ==
  /\ UpstreamInit
  /\ revisions = [k \in {} |-> None]
  /\ submissions = {}
  /\ pc = [t \in Tasks |-> "idle"]
  /\ req = [t \in Tasks |-> None]
  /\ corr = [t \in Tasks |-> None]
  /\ stored = [t \in Tasks |-> NoEvent]
  /\ left = [t \in Tasks |-> Reads]
  /\ frag = [t \in Tasks |-> {}]
  /\ rev = [t \in Tasks |-> 0]
  /\ match = [t \in Tasks |-> 0]
  /\ tries = [t \in Tasks |-> 0]
  /\ before = [t \in Tasks |-> {}]
  /\ answer = [t \in Tasks |-> NoAnswer]
  /\ faults = 0

-----------------------------------------------------------------------------
(* Helpers *)

Goto(t, l) == pc' = [pc EXCEPT ![t] = l]
Finish(t, a) == Goto(t, "done") /\ answer' = [answer EXCEPT ![t] = a]

\* The call awaited has succeeded; the next one has not been sent yet.
Proceed(t, l) == Goto(t, l) /\ tries' = [tries EXCEPT ![t] = 0]

Running  == {t \in Tasks : pc[t] \notin {"idle", "done"}}
Answered ==
  {t \in Tasks : answer[t].status \in {"decided", "bundle", "not_modified"}}

\* Faulty: a decision without a key is let through.
AcceptedKeyless(r) ==
  IF r.api = "correlate" THEN WellFormed(r) ELSE r.header # None /\ r.review # None

\* What is not a 400 before anything is read.
Accepted(r) ==
  CASE r.api = "correlate" -> WellFormed(r)
    [] r.api = "view"      -> r.header # None /\ r.review # None
    [] r.api = "decision"  -> r.header # None /\ r.review # None /\ r.key # None

FirstLabel(r) == CASE r.api = "correlate" -> "store"
                   [] r.api = "view"      -> "reading"
                   [] r.api = "decision"  -> "correlation"

ReviewLookup(r) == <<"review", r.review>>
ReviewKey(r)    == <<r.header, r.review>>

\* review_revision
Revision(k) == IF k \in DOMAIN revisions THEN revisions[k] ELSE 1

\* Faulty: the first bump starts below what an unseen review reads as.
BumpedFromZero(k) == IF k \in DOMAIN revisions THEN revisions[k] + 1 ELSE 1

\* bump_review_revision
Bumped(k) == IF k \in DOMAIN revisions THEN revisions[k] + 1 ELSE 2

\* The event's dependency is what the handler has looked up before.
DecisionEvent(r, rec) ==
  [tenant |-> r.header, key |-> r.key,
   type |-> data_fabric_event_type[r.decision], system |-> "aivcs_hitl",
   run |-> rec.run, task |-> rec.task, ref |-> None,
   meta |-> [snapshot |-> None, parent |-> None, branch |-> None,
             review |-> r.review, session |-> None, pr |-> None],
   waits |-> {ReviewLookup(r)}]

ReviewDecisionPayload(r, rec) ==
  [tenant |-> r.header, review |-> r.review, key |-> r.key,
   decision |-> r.decision, run |-> rec.run, task |-> rec.task]

\* fetch_review_fragments: what aivcs-api shows of a review depends on the
\* decisions it was told of.
Fragments(k) ==
  {s.decision : s \in {x \in submissions : <<x.tenant, x.review>> = k}}

\* The bundle, its revision apart; every bundle has the same validation result.
BundleContents(t) == [correlation |-> corr[t], fragments |-> frag[t]]

\* What a view's If-None-Match may name: the ETag of a bundle its caller has.
Offered(r) ==
  {0} \cup {answer[u].etag : u \in {x \in Tasks :
              /\ answer[x].status = "bundle" /\ r.api = "view"
              /\ ReviewKey(req[x]) = ReviewKey(r)}}

-----------------------------------------------------------------------------
(* The request arrives; a correlate is one store *)

Arrive(t, r) ==
  /\ pc[t] = "idle"
  /\ Cardinality(Running) < MaxInFlight
  /\ req' = [req EXCEPT ![t] = r]
  /\ before' = [before EXCEPT ![t] = Answered]
  /\ IF Accepted(r)
     THEN /\ \E m \in Offered(r) : match' = [match EXCEPT ![t] = m]
          /\ Goto(t, FirstLabel(r))
          /\ UNCHANGED answer
     ELSE Finish(t, Failed) /\ UNCHANGED match
  /\ UNCHANGED <<upstream, review, corr, stored, left, frag, rev, tries, faults>>

\* correlate_create, up to its reconcile.
Store(t) ==
  /\ pc[t] = "store"
  /\ IF StoreConflicts(RecordOf(req[t]))
     THEN Finish(t, Failed) /\ UNCHANGED upstream
     ELSE store_correlation(RecordOf(req[t])) /\ Finish(t, Correlated)
  /\ UNCHANGED <<review, req, job, tries, before, faults>>

-----------------------------------------------------------------------------
(* hitl_review_decision *)

\* get_correlation: NotFound and TenantMismatch end the request.
GetCorrelation(t) ==
  /\ pc[t] = "correlation"
  /\ LET r == req[t]
     IN  IF Resolves(r.header, ReviewLookup(r))
         THEN /\ corr' = [corr EXCEPT ![t] = Correlation(r.header, ReviewLookup(r))]
              /\ Goto(t, "ingest")
              /\ UNCHANGED answer
         ELSE Finish(t, Failed) /\ UNCHANGED corr
  /\ UNCHANGED <<upstream, review, req, stored, left, frag, rev, match, tries,
                 before, faults>>

\* Faulty: an event that could not be written does not stop the decision.
IngestRegardless(t) ==
  /\ pc[t] = "ingest"
  /\ LET e == DecisionEvent(req[t], corr[t])
     IN  /\ ingest_event(e) \/ UNCHANGED upstream
         /\ stored' = [stored EXCEPT ![t] = Stored(e)]
  /\ Proceed(t, "bump")
  /\ UNCHANGED <<review, req, corr, left, frag, rev, match, before, answer, faults>>

Ingest(t) ==
  /\ pc[t] = "ingest"
  /\ LET e == DecisionEvent(req[t], corr[t])
     IN  /\ ingest_event(e)
         /\ stored' = [stored EXCEPT ![t] = Stored(e)]
  /\ Proceed(t, "bump")
  /\ UNCHANGED <<review, req, corr, left, frag, rev, match, before, answer, faults>>

RaiseRevision(k) ==
  /\ revisions' = Overwritten(revisions, {k}, Bumped(k))
  /\ UNCHANGED submissions

\* Faulty: a decision that finds the review already decided is refused here.
BumpUnlessDecided(t) ==
  /\ pc[t] = "bump"
  /\ IF ReviewKey(req[t]) \in DOMAIN revisions
     THEN Finish(t, Failed) /\ UNCHANGED <<review, tries>>
     ELSE RaiseRevision(ReviewKey(req[t])) /\ Proceed(t, "submit")
                                           /\ UNCHANGED answer
  /\ UNCHANGED <<upstream, req, job, before, faults>>

\* Whatever event was stored: a duplicate raises the revision again.
Bump(t) ==
  /\ pc[t] = "bump"
  /\ RaiseRevision(ReviewKey(req[t]))
  /\ Proceed(t, "submit")
  /\ UNCHANGED <<upstream, req, job, before, answer, faults>>

\* The caller's own decision is submitted; the answer names the event stored.
Tell(t) ==
  /\ submissions' = submissions \cup {ReviewDecisionPayload(req[t], corr[t])}
  /\ UNCHANGED revisions

Submit(t) ==
  /\ pc[t] = "submit"
  /\ Tell(t)
  /\ Finish(t, Decided(stored[t]))
  /\ UNCHANGED <<upstream, req, job, tries, before, faults>>

-----------------------------------------------------------------------------
(* hitl_review_get *)

\* One of the four joined reads returns; a review without a correlation is
\* refused once all have.
Read(t) ==
  /\ pc[t] = "reading"
  /\ LET k == ReviewKey(req[t])
         p == ReviewLookup(req[t])
     IN  \E x \in left[t] :
           /\ left' = [left EXCEPT ![t] = @ \ {x}]
           /\ corr' = IF x = "correlation" /\ Resolves(k[1], p)
                      THEN [corr EXCEPT ![t] = Correlation(k[1], p)] ELSE corr
           /\ frag' = IF x = "fragments"
                      THEN [frag EXCEPT ![t] = Fragments(k)] ELSE frag
           /\ rev' = IF x = "revision"
                     THEN [rev EXCEPT ![t] = Revision(k)] ELSE rev
           /\ IF left[t] = {x} THEN Goto(t, "assemble") ELSE UNCHANGED pc
  /\ UNCHANGED <<upstream, review, req, stored, match, tries, before, answer,
                 faults>>

\* build_bundle, etag, and the comparison with If-None-Match: on locals only.
Assemble(t) ==
  /\ pc[t] = "assemble"
  /\ IF corr[t] = None THEN Finish(t, Failed)
     ELSE Finish(t, [status |-> IF match[t] = rev[t] THEN "not_modified"
                                                     ELSE "bundle",
                     etag |-> rev[t], contents |-> BundleContents(t)])
  /\ UNCHANGED <<upstream, review, req, job, tries, before, faults>>

-----------------------------------------------------------------------------
(* Faults *)

\* The write the handler awaits.
Effect(t) ==
  \/ pc[t] = "store" /\ store_correlation(RecordOf(req[t])) /\ UNCHANGED review
  \/ pc[t] = "ingest" /\ ingest_event(DecisionEvent(req[t], corr[t]))
                      /\ UNCHANGED review
  \/ pc[t] = "bump" /\ RaiseRevision(ReviewKey(req[t])) /\ UNCHANGED upstream
  \/ pc[t] = "submit" /\ Tell(t) /\ UNCHANGED upstream

\* The write is carried out, a 5xx comes back, and the retry loop will send
\* it again; the aivcs-api client has no such loop.
Repeated(t) ==
  /\ pc[t] \in {"store", "ingest", "bump"}
  /\ faults < MaxFaults /\ tries[t] + 1 < Attempts
  /\ faults' = faults + 1
  /\ tries' = [tries EXCEPT ![t] = @ + 1]
  /\ Effect(t)
  /\ UNCHANGED <<pc, req, job, before, answer>>

\* The handler stops at an await: the call failed for good, the caller is gone
\* and the handler is dropped, or the process has died.
CutShort(t) ==
  /\ t \in Running /\ faults < MaxFaults
  /\ faults' = faults + 1
  /\ Effect(t) \/ UNCHANGED <<upstream, review>>
  /\ Finish(t, Failed)
  /\ UNCHANGED <<req, job, tries, before>>

Terminated ==
  /\ \A t \in Tasks : pc[t] = "done"
  /\ UNCHANGED vars

Step(t) == \/ Store(t) \/ GetCorrelation(t) \/ Ingest(t) \/ Bump(t)
           \/ Submit(t) \/ Read(t) \/ Assemble(t)

Next ==
  \/ \E t \in Tasks : \/ Step(t) \/ Repeated(t) \/ CutShort(t)
                      \/ \E r \in Requests : Arrive(t, r)
  \/ Terminated

Spec == Init /\ [][Next]_vars

-----------------------------------------------------------------------------
\* No key is used for two decisions.
KeysNameOne ==
  \A r, s \in Requests :
    /\ r.api = "decision" /\ s.api = "decision" /\ r.key = s.key
    /\ r.header = s.header
    => r.review = s.review /\ r.decision = s.decision

Quiescent == Running = {}

(* Safety *)

\* aivcs-api is told of no decision but the one data-fabric holds under its
\* key ("decision fanout writes human event and calls aivcs"), retries,
\* duplicates and abandoned requests included.  Holds where KeysNameOne does.
DecisionOnRecord ==
  \A s \in submissions :
    LET k == <<s.tenant, s.key>>
    IN  /\ k \in DOMAIN events
        /\ events[k].meta.review = s.review
        /\ events[k].type = data_fabric_event_type[s.decision]

\* aivcs-api has been told of the decision recorded under k.
Submitted(k) ==
  \E s \in submissions :
    /\ <<s.tenant, s.key>> = k /\ s.review = events[k].meta.review
    /\ data_fabric_event_type[s.decision] = events[k].type

\* Task t was sent the decision recorded under k.
Carries(t, k) == /\ req[t].api = "decision" /\ <<req[t].header, req[t].key>> = k
                 /\ req[t].review = events[k].meta.review
                 /\ data_fabric_event_type[req[t].decision] = events[k].type

OnItsWay(k) ==
  \E t \in Tasks : pc[t] \in {"ingest", "bump", "submit"} /\ Carries(t, k)

\* The decisions recorded that aivcs-api will not be told of as things stand.
LeftOut == {k \in DOMAIN events : ~Submitted(k) /\ ~OnItsWay(k)}

\* Every human event in data-fabric has reached aivcs-api or is on its way
\* there, but for one per fault: no interleaving of decisions leaves one system
\* behind.  What a fault leaves out a caller has been told an error about, and
\* so may send again.
RecordedIsSubmitted ==
  /\ Cardinality(LeftOut) <= faults
  /\ \A k \in LeftOut : \E t \in Tasks : answer[t] = Failed /\ Carries(t, k)

\* The decisions on review k whose bump has returned to their handler.
PastBump(k) ==
  {t \in Tasks : /\ pc[t] = "submit" \/ answer[t].status = "decided"
                 /\ ReviewKey(req[t]) = k}

\* No decision's bump is lost to another's, and none is counted twice but by a
\* call cut short or sent again: the revision stands at one more than the
\* decisions past their bump.
NoBumpLost ==
  \A k \in Tenants \X Ids :
    LET n == Cardinality(PastBump(k))
    IN  Revision(k) - 1 \in n .. n + faults

\* A decision acknowledged between two views changes the ETag: what a caller
\* was given before it is never confirmed as current after it.
EtagMovesOn ==
  \A u, d, w \in Tasks :
    /\ answer[u].status \in {"bundle", "not_modified"}
    /\ answer[d].status = "decided"
    /\ answer[w].status \in {"bundle", "not_modified"}
    /\ u \in before[d] /\ d \in before[w]
    /\ ReviewKey(req[u]) = ReviewKey(req[d])
    /\ ReviewKey(req[w]) = ReviewKey(req[d])
    => answer[w].etag > answer[u].etag

\* A 304 says that what the caller holds under the ETag is what a 200 would
\* have sent it.
NotModifiedIsTrue ==
  \A u, w \in Tasks :
    /\ answer[w].status = "not_modified" /\ answer[u].status = "bundle"
    /\ ReviewKey(req[u]) = ReviewKey(req[w]) /\ answer[u].etag = answer[w].etag
    => answer[u].contents = answer[w].contents

-----------------------------------------------------------------------------
(* Refinement *)

\* The event each caller's decision was recorded as.
Told == [t \in Tasks |-> IF pc[t] = "done" /\ answer[t].status = "decided"
                         THEN answer[t].event ELSE None]

Ledger == INSTANCE EventLedger WITH
  linked <- DOMAIN correlations, ledger <- events, told <- Told

\* Decisions keep the promise of EventLedger too: one human event per key,
\* kept for ever, written for a review its tenant has mapped, and what callers
\* are told of is what the ledger says.
KeepsLedger == Ledger!Spec
=============================================================================
