-------------------------- MODULE EventIngestHistory --------------------------
(****************************************************************************)
(* EventIngest with two history variables.  They remember which handlers    *)
(* met, so that what goes wrong only when handlers meet can be told from    *)
(* what must never go wrong: the counter is exact unless two handlers were  *)
(* on one new key at once, and a staged event whose correlation is known is *)
(* forwarded unless the correlation came at one of three unlucky moments.   *)
(* Handlers run in any number; no action reads the history.                 *)
(****************************************************************************)
EXTENDS EventIngest

VARIABLES
  raced,   \* keys two handlers were at work on before the backend knew them
  missed   \* slots of correlations whose arrival a waiting event can miss

history == <<raced, missed>>
hvars   == <<vars, history>>

\* A handler at one of these has an event in hand, its own or a staged one.
EventLabels == {"enrich", "check", "stage", "enrich_resolved", "register",
                "ingest", "record"}

\* The key t is at work on.
AtWork(t) ==
  IF pc[t] \in {"lookup", "lookup_staged"} THEN {RequestKey(req[t])}
  ELSE IF pc[t] \in EventLabels THEN {EventKey(ev[t])} ELSE {}

\* Keys two handlers are at work on though the backend does not answer for
\* them: both lookups may miss.
Clashing ==
  {k \in UNION {AtWork(t) : t \in Tasks} :
     /\ k \notin DOMAIN KnownEvents
     /\ \E t, u \in Tasks : t # u /\ k \in AtWork(t) /\ k \in AtWork(u)}

NewlyKnown == DOMAIN correlations' \ DOMAIN correlations

\* The first moment: an event that waits for it has been found pending and
\* has not got the staging lock (the await at ingest.rs:180).
Overtaken ==
  {x \in NewlyKnown :
     \E t \in Tasks : pc[t] = "stage"
                        /\ \E p \in wait[t] : Slot(ev[t].tenant, p) = x}

\* The slots a handler about to store a correlation is to reconcile: those of
\* the run, snapshot and review fields of a mapping (not of a canonical
\* source or target alone), and of the snapshot its own event announces.
ToReconcile(t) ==
  LET named == CASE pc[t] = "store" ->
                      {<<"run", req[t].run>>, <<"snapshot", req[t].snapshot>>,
                       <<"review", req[t].meta.review>>}
                 [] pc[t] = "register" /\ ~held[t] ->
                      {<<"snapshot", snapshot_id_from_event(ev[t])>>}
                 [] OTHER -> {}
  IN  {Slot(RequestTenant(t), p) : p \in named}

\* The second: it is stored under a name that its handler does not reconcile.
Unnamed ==
  {x \in NewlyKnown :
     \A t \in Tasks : pc'[t] # pc[t] => x \notin ToReconcile(t)}

\* The third: the event that was to announce it turns out to be stored under
\* its key already, announcing something else.
Supplanted ==
  {Slot(ev[t].tenant, <<"snapshot", snapshot_id_from_event(ev[t])>>) :
     t \in {u \in Tasks :
              /\ pc[u] = "ingest" /\ pc'[u] = "record"
              /\ snapshot_id_from_event(ev[u])
                   # snapshot_id_from_event(ev'[u])}}

HistoryInit == Init /\ raced = {} /\ missed = {}

HistoryNext ==
  /\ Next
  /\ raced'  = raced \cup Clashing'
  /\ missed' = missed \cup Overtaken \cup Unnamed \cup Supplanted

HistorySpec == HistoryInit /\ [][HistoryNext]_hvars

FairHistorySpec == HistorySpec /\ \A t \in Tasks : WF_vars(Step(t))
-----------------------------------------------------------------------------
(* Properties *)

\* dfc_events_ingested_total is the number of events data-fabric holds
\* whenever the server is at rest, whatever handlers ran beside one another,
\* reconciles included: unless a call failed, the process was restarted, a
\* backend entry expired, or two requests raced for one key nobody had stored.
CounterIsExact ==
  /\ Quiescent /\ faults = 0 /\ crashes = 0 /\ raced = {}
  /\ Backend = "data_fabric" \/ now < TTL
  => ingested = Cardinality(DOMAIN events)

\* The event staged under k, all it waits for being known.
Woken(k) ==
  /\ k \in DOMAIN staging.byIdempotency
  /\ LET rec == staging.byIdempotency[k]
     IN  Unresolved(rec.event.tenant, rec.pending) = {}

\* The slots that a known correlation of the event staged under k fills.
SlotsAwaited(k) ==
  {Slot(k[1], p) : p \in staging.byIdempotency[k].pending}

\* t's handler was refused (TenantMismatch) before it came to k.
Abandoned(t, k) ==
  /\ answer[t] = Failed
  /\ \/ k \in keys[t]
     \/ \E i \in DOMAIN todo[t] :
          Slot(RequestTenant(t), todo[t][i]) \in SlotsAwaited(k)

\* Why a woken event may stay staged.
LeftBehind(k) ==
  /\ k \in DOMAIN staging.byIdempotency
  /\ \/ SlotsAwaited(k) \cap missed # {}
     \/ \E t \in Tasks : Abandoned(t, k)

\* At rest no staged event has had its correlation registered without being
\* forwarded, but where the correlation came at one of the three moments above
\* or the reconcile was refused on its way: whatever else interleaves with
\* staging, listing, taking and putting back, no wake-up is lost.
NoOtherWakeupLost ==
  Quiescent /\ faults = 0 =>
    \A k \in DOMAIN staging.byIdempotency : Woken(k) => LeftBehind(k)

\* A staged event whose correlation becomes known is forwarded, with the same
\* exceptions, for requests no reconcile of which is refused.
WokenIsForwarded ==
  \A k \in EventKeys : Woken(k) ~> k \in DOMAIN events \/ LeftBehind(k)
=============================================================================
