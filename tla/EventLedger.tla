----------------------------- MODULE EventLedger -----------------------------
(****************************************************************************)
(* What the ingest service promises, without saying how: a ledger that only *)
(* grows, one event per (tenant, idempotency key), each written after every *)
(* correlation it depends on is linked; links that are never withdrawn and  *)
(* never shared by two tenants; and callers who, told that an event was     *)
(* ingested, were told what the ledger says for ever.                       *)
(****************************************************************************)
EXTENDS DfcCore

CONSTANT Tasks

VARIABLES
  linked,  \* set of <<tenant, kind, id>> that resolve
  ledger,  \* <<tenant, key>> -> DfcEvent
  told     \* task -> the event its caller was told of, or None

ledgerVars == <<linked, ledger, told>>

NotShared(links) ==
  \A k, l \in links : k[2] = l[2] /\ k[3] = l[3] => k[1] = l[1]

\* Every lookup event e was pending on is linked for its tenant.
MayAppend(e) == \A p \in e.waits : <<e.tenant, p[1], p[2]>> \in linked

Init ==
  /\ linked = {}
  /\ ledger = [k \in {} |-> None]
  /\ told = [t \in Tasks |-> None]

Link ==
  /\ linked \subseteq linked' /\ NotShared(linked')
  /\ UNCHANGED <<ledger, told>>

Append ==
  /\ \E k \in DOMAIN ledger' \ DOMAIN ledger :
       /\ k = <<ledger'[k].tenant, ledger'[k].key>>
       /\ MayAppend(ledger'[k])
       /\ ledger' = [j \in DOMAIN ledger \cup {k} |->
                       IF j = k THEN ledger'[k] ELSE ledger[j]]
  /\ UNCHANGED <<linked, told>>

Tell ==
  /\ \E t \in Tasks :
       /\ told[t] = None
       /\ \E k \in DOMAIN ledger : told' = [told EXCEPT ![t] = ledger[k]]
  /\ UNCHANGED <<linked, ledger>>

Next == Link \/ Append \/ Tell

Spec == Init /\ [][Next]_ledgerVars
=============================================================================
