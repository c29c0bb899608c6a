------------------------------ MODULE IngestDedup ------------------------------
(***************************************************************************)
(* The duplicate filter of Core's ingest endpoint,                         *)
(* core/modules/ingest_dedup.py: one OrderedDict, _recent, from the key of *)
(* an alert (source address, rule, timestamp to the second) to the         *)
(* monotonic time at which it was last let through.                        *)
(*                                                                         *)
(* The dict is held as the two things it is: a function from the live keys *)
(* to their times, and the order of its entries, a relation in which       *)
(* <<i, j>> says that i comes before j.                                    *)
(***************************************************************************)
EXTENDS Naturals, FiniteSets

CONSTANTS
  Keys,         \* the dedup keys that can occur
  Window,       \* INGEST_DEDUP_SECONDS, never below 1
  Stale,        \* _STALE_SECONDS
  MaxEntries,   \* _MAX_ENTRIES
  MaxTime       \* bound: the clock stops here

ASSUME DedupAssumption ==
  /\ Window \in Nat \ {0}
  /\ Stale \in Nat
  /\ Window <= Stale
  /\ MaxEntries \in Nat \ {0}
  /\ MaxTime \in Nat

VARIABLES
  now,        \* time.monotonic()
  recent,     \* _recent: live key -> time it was let through
  order,      \* _recent: the order of its entries
  accepted    \* history: key -> time of its last acceptance that the filter
              \* was not made to forget (eviction, reset, restart)

dedupVars == <<now, recent, order, accepted>>

Live == DOMAIN recent

DedupInit ==
  /\ now = 0
  /\ recent = << >>
  /\ order = {}
  /\ accepted = << >>

-----------------------------------------------------------------------------
(***************************************************************************)
(* Operators on the dict.                                                  *)
(***************************************************************************)
Only(f, S) == [k \in S |-> f[k]]

Put(f, k, t) == [j \in DOMAIN f \cup {k} |-> IF j = k THEN t ELSE f[j]]

\* The loop that drops entries from the front stops at the first one that is
\* not stale: an entry stays when it, or any entry before it, is not stale.
NotStale(k) == recent[k] + Stale >= now

\* Fault: the whole dict is cleared as soon as its front is stale.
KeptNoneIfStale == {k \in Live : \A j \in Live : NotStale(j)}

Kept == {k \in Live : \E j \in Live : NotStale(j) /\ (j = k \/ <<j, k>> \in order)}

OrderOn(S) == order \cap (S \X S)

MovedToEnd(S, k) == OrderOn(S \ {k}) \cup ((S \ {k}) \X {k})

\* Fault: the cap is tested before the insertion.
FullOffByOne(S) == Cardinality(S) > MaxEntries + 1

TooMany(S) == Cardinality(S) > MaxEntries

IsOldest(k, S, ord) == k \in S /\ \A j \in S \ {k} : <<k, j>> \in ord

-----------------------------------------------------------------------------
(***************************************************************************)
(* is_duplicate_wazuh_event answers True: the key was let through less     *)
(* than Window ago.  The entry moves to the end and keeps its time.        *)
(***************************************************************************)
Suppress(k) ==
  /\ k \in Kept
  /\ now < recent[k] + Window
  /\ recent' = Only(recent, Kept)
  /\ order' = MovedToEnd(Kept, k)
  /\ UNCHANGED <<now, accepted>>

(***************************************************************************)
(* is_duplicate_wazuh_event answers False: the key is entered with the     *)
(* present time, and the oldest entry leaves when there are too many.      *)
(***************************************************************************)
Accept(k) ==
  /\ k \in Kept => recent[k] + Window <= now
  /\ LET all == Kept \cup {k}
         entered == Put(Only(recent, Kept), k, now)
         moved == MovedToEnd(all, k)
         noted == Put(accepted, k, now)
     IN \/ /\ ~TooMany(all)
           /\ recent' = entered
           /\ order' = moved
           /\ accepted' = noted
        \/ /\ TooMany(all)
           /\ \E o \in all :
                /\ IsOldest(o, all, moved)
                /\ recent' = Only(entered, all \ {o})
                /\ order' = moved \cap ((all \ {o}) \X (all \ {o}))
                /\ accepted' = Only(noted, DOMAIN noted \ {o})
  /\ UNCHANGED now

\* reset(), called by POST /config/reset-feature-window; a restart of Core
\* empties the dict in the same way.
Forget ==
  /\ recent' = << >>
  /\ order' = {}
  /\ accepted' = << >>
  /\ UNCHANGED now

Tick ==
  /\ now < MaxTime
  /\ now' = now + 1
  /\ UNCHANGED <<recent, order, accepted>>

DedupNext ==
  \/ \E k \in Keys : Suppress(k) \/ Accept(k)
  \/ Forget
  \/ Tick

DedupSpec == DedupInit /\ [][DedupNext]_dedupVars

-----------------------------------------------------------------------------
(***************************************************************************)
(* Properties.                                                             *)
(***************************************************************************)

\* The state has its type, and the order relates live keys only.
DedupTypeOK ==
  /\ now \in Nat
  /\ Live \subseteq Keys
  /\ recent \in [Live -> Nat]
  /\ order \subseteq Live \X Live
  /\ DOMAIN accepted \subseteq Keys
  /\ accepted \in [DOMAIN accepted -> Nat]

\* A key let through less than Window ago is still in the dict with that time,
\* so the next alert with the same key is a duplicate: neither the expiry loop
\* nor a re-ordering of the dict forgets it early (ingest_dedup.py:35-50).
RemembersWindow ==
  \A k \in DOMAIN accepted :
    now < accepted[k] + Window => k \in Live /\ recent[k] = accepted[k]

\* An alert is dropped as a duplicate only when a twin was let through less
\* than Window before: a steady stream of repeats cannot extend its own
\* suppression (ingest_dedup.py:43-45 moves the entry and keeps its time).
SuppressedHasTwin ==
  [][\A k \in Keys :
        Suppress(k) => k \in DOMAIN accepted /\ now < accepted[k] + Window]_dedupVars

\* The dict never holds more than MaxEntries keys (ingest_dedup.py:14-16,
\* INV-4 "Nothing grows without bound").
CapHolds == Cardinality(Live) <= MaxEntries

\* The order of the dict follows the entries' times up to one Window: a
\* duplicate moves an entry to the end without refreshing its time, but only
\* while the entry is younger than Window.
NearlySorted ==
  \A i, j \in Live : <<i, j>> \in order => recent[i] < recent[j] + Window

\* Expiry from the front is enough all the same: after any call no entry is
\* Stale + Window old, so the dict drains although its front is not always
\* its oldest entry.
ExpiryComplete ==
  [][(\E k \in Keys : Suppress(k) \/ Accept(k))
       => \A j \in DOMAIN recent' : now < recent'[j] + Stale + Window]_dedupVars
=============================================================================
