------------------------------ MODULE IngestProofs ------------------------------
(***************************************************************************)
(* Proofs about the duplicate filter, module IngestDedup, for every set of *)
(* keys, every window and stale time, every cap and clock bound, and, on   *)
(* top of them, about the way of an alert into the database, module        *)
(* Ingest: for every set of alerts, every number of attempts, any number   *)
(* of crashes and resets, both orders of commit and reply, and every       *)
(* filter.                                                                 *)
(***************************************************************************)
EXTENDS Ingest, FiniteSetTheorems, TLAPS

(***************************************************************************)
(* The filter.  RemembersWindow speaks of the history only;                *)
(* that the expiry loop spares the entries it needs follows when every     *)
(* live entry carries the time of its own acceptance (EntriesNoted).       *)
(* NearlySorted is kept by move_to_end because no entry is dated in the    *)
(* future (NotFuture).                                                     *)
(***************************************************************************)
EntriesNoted == \A k \in Live : k \in DOMAIN accepted /\ recent[k] = accepted[k]

NotFuture == \A k \in DOMAIN accepted : accepted[k] <= now

DedupInv ==
  /\ DedupTypeOK
  /\ EntriesNoted
  /\ NotFuture
  /\ RemembersWindow
  /\ NearlySorted

-----------------------------------------------------------------------------
(***************************************************************************)
(* Lemmas about the operators on the dict.                                 *)
(***************************************************************************)

\* Restricting does what its name says, and keeps the type.
LEMMA OnlyProperties ==
  ASSUME NEW f, NEW S, S \subseteq DOMAIN f, f \in [DOMAIN f -> Nat]
  PROVE  /\ DOMAIN Only(f, S) = S
         /\ Only(f, S) \in [S -> Nat]
         /\ \A k \in S : Only(f, S)[k] = f[k]
BY DEF Only

\* An entry that leaves in the expiry loop is Stale seconds old, so it is
\* past the window, and so is a Stale + Window old one that stays behind.
LEMMA ExpiryLoop ==
  ASSUME DedupTypeOK, NearlySorted
  PROVE  /\ Kept \subseteq Live
         /\ \A k \in Live : now < recent[k] + Window => k \in Kept
         /\ \A k \in Kept : now < recent[k] + Stale + Window
<1>1. Kept \subseteq Live
  BY DEF Kept
<1>2. ASSUME NEW k \in Live, now < recent[k] + Window
      PROVE  k \in Kept
  BY <1>2, DedupAssumption DEF Kept, NotStale, DedupTypeOK
<1>3. ASSUME NEW k \in Kept
      PROVE  now < recent[k] + Stale + Window
  <2>1. PICK j \in Live : NotStale(j) /\ (j = k \/ <<j, k>> \in order)
    BY DEF Kept
  <2>2. /\ now \in Nat /\ recent[j] \in Nat /\ recent[k] \in Nat
        /\ Stale \in Nat /\ Window \in Nat \ {0}
    BY <1>1, DedupAssumption DEF DedupTypeOK
  <2>3. recent[j] < recent[k] + Window
    BY <1>1, <2>1, <2>2 DEF NearlySorted
  <2> QED
    BY <2>1, <2>2, <2>3 DEF NotStale
<1> QED
  BY <1>1, <1>2, <1>3

\* Moving an entry to the end adds only pairs that end in it.
LEMMA MovedToEndProperties ==
  ASSUME NEW S, NEW k \in S
  PROVE  /\ MovedToEnd(S, k) \subseteq S \X S
         /\ \A i, j : <<i, j>> \in MovedToEnd(S, k) =>
              \/ j = k /\ i \in S \ {k}
              \/ <<i, j>> \in order /\ i \in S \ {k} /\ j \in S \ {k}
BY DEF MovedToEnd, OrderOn

-----------------------------------------------------------------------------
(***************************************************************************)
(* The invariant holds initially and is kept by every action.              *)
(***************************************************************************)
LEMMA DedupInvInit == DedupInit => DedupInv
<1> SUFFICES ASSUME DedupInit
             PROVE  DedupInv
  OBVIOUS
<1>1. Live = {} /\ DOMAIN accepted = {}
  BY DEF DedupInit, Live
<1>2. DedupTypeOK
  BY <1>1 DEF DedupInit, DedupTypeOK, Live
<1> QED
  BY <1>1, <1>2 DEF DedupInv, EntriesNoted, NotFuture, RemembersWindow, NearlySorted

LEMMA SuppressKeepsInv ==
  ASSUME DedupInv, NEW k \in Keys, Suppress(k)
  PROVE  DedupInv'
<1> USE DEF DedupInv
<1>1. /\ Kept \subseteq Live
      /\ \A j \in Live : now < recent[j] + Window => j \in Kept
  BY ExpiryLoop
<1>2. /\ k \in Kept /\ now < recent[k] + Window
      /\ now' = now /\ accepted' = accepted
      /\ order' = MovedToEnd(Kept, k)
  BY DEF Suppress
<1>3. /\ Live' = Kept
      /\ recent' \in [Kept -> Nat]
      /\ \A j \in Kept : recent'[j] = recent[j]
  BY <1>1, OnlyProperties DEF Suppress, DedupTypeOK, Live
<1>4. DedupTypeOK'
  BY <1>1, <1>2, <1>3, MovedToEndProperties DEF DedupTypeOK
<1>5. EntriesNoted' /\ NotFuture'
  BY <1>1, <1>2, <1>3 DEF EntriesNoted, NotFuture
<1>6. RemembersWindow'
  BY <1>1, <1>2, <1>3 DEF RemembersWindow
<1>7. NearlySorted'
  <2> SUFFICES ASSUME NEW i \in Kept, NEW j \in Kept, <<i, j>> \in order'
               PROVE  recent[i] < recent[j] + Window
    BY <1>3 DEF NearlySorted
  <2>1. CASE j = k
    <3>1. recent[i] <= now
      BY <1>1 DEF EntriesNoted, NotFuture
    <3> QED
      BY <1>1, <1>2, <2>1, <3>1, DedupAssumption DEF DedupTypeOK
  <2>2. CASE j # k
    BY <1>1, <1>2, <2>2, MovedToEndProperties DEF NearlySorted
  <2> QED
    BY <2>1, <2>2
<1> QED
  BY <1>4, <1>5, <1>6, <1>7

LEMMA AcceptKeepsInv ==
  ASSUME DedupInv, NEW k \in Keys, Accept(k)
  PROVE  DedupInv'
<1> USE DEF DedupInv
<1> DEFINE all == Kept \cup {k}
           entered == Put(Only(recent, Kept), k, now)
           moved == MovedToEnd(all, k)
           noted == Put(accepted, k, now)
<1>1. /\ Kept \subseteq Live
      /\ \A j \in Live : now < recent[j] + Window => j \in Kept
  BY ExpiryLoop
<1>2. now' = now /\ now \in Nat /\ (k \in Kept => recent[k] + Window <= now)
  BY DEF Accept, DedupTypeOK
<1>3. /\ DOMAIN entered = all
      /\ entered \in [all -> Nat]
      /\ entered[k] = now
      /\ \A j \in Kept : j # k => entered[j] = recent[j]
  <2>1. /\ DOMAIN Only(recent, Kept) = Kept
        /\ Only(recent, Kept) \in [Kept -> Nat]
        /\ \A j \in Kept : Only(recent, Kept)[j] = recent[j]
    BY <1>1, OnlyProperties DEF DedupTypeOK, Live
  <2> QED
    BY <1>2, <2>1 DEF Put
<1>4. /\ DOMAIN noted = DOMAIN accepted \cup {k}
      /\ noted \in [DOMAIN accepted \cup {k} -> Nat]
      /\ noted[k] = now
      /\ \A j \in DOMAIN accepted : j # k => noted[j] = accepted[j]
  <2>1. accepted \in [DOMAIN accepted -> Nat]
    BY DEF DedupTypeOK
  <2> QED
    BY <1>2, <2>1 DEF Put
<1>5. all \subseteq Keys /\ moved \subseteq all \X all
  BY <1>1, MovedToEndProperties DEF DedupTypeOK
<1>6. \A i, j \in all : <<i, j>> \in moved => entered[i] < entered[j] + Window
  <2> SUFFICES ASSUME NEW i \in all, NEW j \in all, <<i, j>> \in moved
               PROVE  entered[i] < entered[j] + Window
    OBVIOUS
  <2>1. i # k /\ i \in Kept /\ entered[i] = recent[i] /\ recent[i] <= now
    BY <1>1, <1>3, MovedToEndProperties DEF EntriesNoted, NotFuture
  <2>2. CASE j = k
    BY <1>1, <1>2, <1>3, <2>1, <2>2, DedupAssumption DEF DedupTypeOK
  <2>3. CASE j # k
    BY <1>1, <1>3, <2>1, <2>3, MovedToEndProperties DEF NearlySorted
  <2> QED
    BY <2>2, <2>3
<1>7. /\ \A j \in all : j \in DOMAIN noted /\ entered[j] = noted[j]
      /\ \A j \in DOMAIN noted : noted[j] <= now
  BY <1>1, <1>2, <1>3, <1>4 DEF EntriesNoted, NotFuture
<1>8. \A j \in DOMAIN noted :
        now < noted[j] + Window => j \in all /\ entered[j] = noted[j]
  BY <1>1, <1>3, <1>4 DEF RemembersWindow
<1>9. CASE ~TooMany(all)
  <2>1. recent' = entered /\ order' = moved /\ accepted' = noted
    BY <1>9 DEF Accept
  <2>2. DedupTypeOK'
    BY <1>2, <1>3, <1>4, <1>5, <2>1 DEF DedupTypeOK, Live
  <2>3. EntriesNoted' /\ NotFuture' /\ RemembersWindow' /\ NearlySorted'
    BY <1>2, <1>3, <1>6, <1>7, <1>8, <2>1
       DEF EntriesNoted, NotFuture, RemembersWindow, NearlySorted, Live
  <2> QED
    BY <2>2, <2>3
<1>10. CASE TooMany(all)
  <2>1. PICK o \in all :
          /\ recent' = Only(entered, all \ {o})
          /\ order' = moved \cap ((all \ {o}) \X (all \ {o}))
          /\ accepted' = Only(noted, DOMAIN noted \ {o})
    BY <1>10 DEF Accept
  <2>2. /\ Live' = all \ {o}
        /\ recent' \in [all \ {o} -> Nat]
        /\ \A j \in all \ {o} : recent'[j] = entered[j]
    BY <1>3, <2>1, OnlyProperties DEF Live
  <2>3. /\ DOMAIN accepted' = DOMAIN noted \ {o}
        /\ accepted' \in [DOMAIN noted \ {o} -> Nat]
        /\ \A j \in DOMAIN noted \ {o} : accepted'[j] = noted[j]
    BY <1>4, <2>1, OnlyProperties
  <2>4. DedupTypeOK'
    BY <1>2, <1>4, <1>5, <2>1, <2>2, <2>3 DEF DedupTypeOK
  <2>5. EntriesNoted' /\ NotFuture' /\ RemembersWindow'
    BY <1>2, <1>7, <1>8, <2>2, <2>3 DEF EntriesNoted, NotFuture, RemembersWindow
  <2>6. NearlySorted'
    BY <1>6, <2>1, <2>2 DEF NearlySorted
  <2> QED
    BY <2>4, <2>5, <2>6
<1> QED
  BY <1>9, <1>10

LEMMA ForgetKeepsInv == ASSUME DedupInv, Forget PROVE DedupInv'
<1>1. Live' = {} /\ DOMAIN accepted' = {} /\ order' = {} /\ now' = now
  BY DEF Forget, Live
<1>2. DedupTypeOK'
  BY <1>1 DEF DedupInv, DedupTypeOK, Forget, Live
<1> QED
  BY <1>1, <1>2 DEF DedupInv, EntriesNoted, NotFuture, RemembersWindow, NearlySorted

LEMMA TickKeepsInv == ASSUME DedupInv, Tick PROVE DedupInv'
<1> USE DEF DedupInv
<1>1. /\ now \in Nat /\ now' = now + 1
      /\ UNCHANGED <<recent, order, accepted>> /\ Live' = Live
  BY DEF Tick, DedupTypeOK, Live
<1>2. DedupTypeOK'
  BY <1>1 DEF DedupTypeOK
<1>3. EntriesNoted' /\ NearlySorted'
  BY <1>1 DEF EntriesNoted, NearlySorted
<1>4. NotFuture' /\ RemembersWindow'
  BY <1>1, DedupAssumption DEF NotFuture, RemembersWindow, DedupTypeOK
<1> QED
  BY <1>2, <1>3, <1>4

LEMMA DedupInvStep == DedupInv /\ [DedupNext]_dedupVars => DedupInv'
<1> SUFFICES ASSUME DedupInv, [DedupNext]_dedupVars
             PROVE  DedupInv'
  OBVIOUS
<1>1. ASSUME NEW k \in Keys, Suppress(k) PROVE DedupInv'
  BY <1>1, SuppressKeepsInv
<1>2. ASSUME NEW k \in Keys, Accept(k) PROVE DedupInv'
  BY <1>2, AcceptKeepsInv
<1>3. CASE Forget
  BY <1>3, ForgetKeepsInv
<1>4. CASE Tick
  BY <1>4, TickKeepsInv
<1>5. CASE UNCHANGED dedupVars
  BY <1>5 DEF dedupVars, DedupInv, DedupTypeOK, EntriesNoted, NotFuture,
              RemembersWindow, NearlySorted, Live
<1> QED
  BY <1>1, <1>2, <1>3, <1>4, <1>5 DEF DedupNext

\* The inductive invariant holds in every state of the filter.
THEOREM DedupInvariant == DedupSpec => []DedupInv
BY DedupInvInit, DedupInvStep, PTL DEF DedupSpec

-----------------------------------------------------------------------------
(***************************************************************************)
(* What it gives.                                                          *)
(***************************************************************************)

\* Every state of the filter has its type.
THEOREM DedupTypeCorrect == DedupSpec => []DedupTypeOK
<1>1. DedupInv => DedupTypeOK
  BY DEF DedupInv
<1> QED
  BY <1>1, DedupInvariant, PTL

\* For every cap, window and stale time, expiry and re-ordering never make the
\* filter forget an acceptance before its window is over.
THEOREM WindowIsRemembered == DedupSpec => []RemembersWindow
<1>1. DedupInv => RemembersWindow
  BY DEF DedupInv
<1> QED
  BY <1>1, DedupInvariant, PTL

\* The order of the dict follows the entries' times up to one window.
THEOREM OrderIsNearlySorted == DedupSpec => []NearlySorted
<1>1. DedupInv => NearlySorted
  BY DEF DedupInv
<1> QED
  BY <1>1, DedupInvariant, PTL

\* An alert is suppressed only for a twin let through less than a window ago.
THEOREM SuppressionHasTwin == DedupSpec => SuppressedHasTwin
<1>1. ASSUME DedupInv, NEW k \in Keys, Suppress(k)
      PROVE  k \in DOMAIN accepted /\ now < accepted[k] + Window
  BY <1>1, ExpiryLoop DEF Suppress, DedupInv, EntriesNoted
<1>2. DedupInv /\ [DedupNext]_dedupVars
        => [\A k \in Keys :
              Suppress(k) => k \in DOMAIN accepted /\ now < accepted[k] + Window]_dedupVars
  BY <1>1
<1> QED
  BY <1>2, DedupInvariant, PTL DEF DedupSpec, SuppressedHasTwin

\* Expiry from the front of a nearly sorted dict leaves nothing behind that is
\* Stale + Window seconds old.
THEOREM ExpiryIsComplete == DedupSpec => ExpiryComplete
<1>1. ASSUME DedupInv, NEW k \in Keys, Suppress(k) \/ Accept(k)
      PROVE  \A j \in DOMAIN recent' : now < recent'[j] + Stale + Window
  <2>1. /\ Kept \subseteq Live
        /\ \A j \in Kept : now < recent[j] + Stale + Window
    BY <1>1, ExpiryLoop DEF DedupInv
  <2>2. now \in Nat /\ Stale \in Nat /\ Window \in Nat \ {0} /\ recent \in [Live -> Nat]
    BY <1>1, DedupAssumption DEF DedupInv, DedupTypeOK
  <2>3. ASSUME NEW j \in DOMAIN recent'
        PROVE  recent'[j] = now \/ (j \in Kept /\ recent'[j] = recent[j])
    <3>1. CASE Suppress(k)
      BY <2>3, <3>1 DEF Suppress, Only
    <3>2. CASE Accept(k)
      BY <2>3, <3>2 DEF Accept, Only, Put
    <3> QED
      BY <1>1, <3>1, <3>2
  <2> QED
    BY <2>1, <2>2, <2>3
<1>2. DedupInv /\ [DedupNext]_dedupVars
        => [(\E k \in Keys : Suppress(k) \/ Accept(k))
              => \A j \in DOMAIN recent' : now < recent'[j] + Stale + Window]_dedupVars
  BY <1>1
<1> QED
  BY <1>2, DedupInvariant, PTL DEF DedupSpec, ExpiryComplete

-----------------------------------------------------------------------------
(***************************************************************************)
(* The cap.                                                                *)
(***************************************************************************)
Capped == IsFiniteSet(Live) /\ CapHolds

LEMMA CappedStep == DedupInv /\ Capped /\ [DedupNext]_dedupVars => Capped'
<1> SUFFICES ASSUME DedupInv, Capped, [DedupNext]_dedupVars
             PROVE  Capped'
  OBVIOUS
<1>1. MaxEntries \in Nat /\ Kept \subseteq Live
  BY ExpiryLoop, DedupAssumption DEF DedupInv
<1>2. /\ IsFiniteSet(Kept)
      /\ Cardinality(Kept) \in Nat /\ Cardinality(Kept) <= MaxEntries
  BY <1>1, FS_Subset, FS_CardinalityType DEF Capped, CapHolds
<1>3. ASSUME NEW k \in Keys, Suppress(k) PROVE Capped'
  <2>1. Live' = Kept
    BY <1>3 DEF Suppress, Only, Live
  <2> QED
    BY <1>2, <2>1 DEF Capped, CapHolds
<1>4. ASSUME NEW k \in Keys, Accept(k) PROVE Capped'
  <2> DEFINE all == Kept \cup {k}
  <2>1. /\ IsFiniteSet(all)
        /\ Cardinality(all) \in Nat /\ Cardinality(all) <= MaxEntries + 1
    <3>1. /\ IsFiniteSet(all)
          /\ Cardinality(all) = IF k \in Kept THEN Cardinality(Kept)
                                ELSE Cardinality(Kept) + 1
      BY <1>2, FS_AddElement
    <3> QED
      BY <1>1, <1>2, <3>1
  <2>2. CASE ~TooMany(all)
    <3>1. Live' = all
      BY <1>4, <2>2 DEF Accept, Only, Put, Live
    <3> QED
      BY <1>1, <2>1, <2>2, <3>1 DEF TooMany, Capped, CapHolds
  <2>3. CASE TooMany(all)
    <3>1. PICK o \in all : Live' = all \ {o}
      BY <1>4, <2>3 DEF Accept, Only, Live
    <3>2. IsFiniteSet(all \ {o}) /\ Cardinality(all \ {o}) = Cardinality(all) - 1
      BY <2>1, FS_RemoveElement
    <3> QED
      BY <1>1, <2>1, <3>1, <3>2 DEF Capped, CapHolds
  <2> QED
    BY <2>2, <2>3
<1>5. CASE Forget
  <2>1. Live' = {}
    BY <1>5 DEF Forget, Live
  <2> QED
    BY <1>1, <2>1, FS_EmptySet DEF Capped, CapHolds
<1>6. CASE Tick \/ UNCHANGED dedupVars
  BY <1>6 DEF Tick, dedupVars, Capped, CapHolds, Live
<1> QED
  BY <1>3, <1>4, <1>5, <1>6 DEF DedupNext

\* The dict never holds more than MaxEntries keys, whatever the key set.
THEOREM CapIsKept == DedupSpec => []CapHolds
<1>1. DedupInit => Capped
  <2> SUFFICES ASSUME DedupInit PROVE Capped
    OBVIOUS
  <2>1. Live = {}
    BY DEF DedupInit, Live
  <2> QED
    BY <2>1, FS_EmptySet, DedupAssumption DEF Capped, CapHolds
<1>2. Capped => CapHolds
  BY DEF Capped
<1> QED
  BY <1>1, <1>2, CappedStep, DedupInvariant, PTL DEF DedupSpec

-----------------------------------------------------------------------------
(***************************************************************************)
(* The way of an alert into the database: its inductive invariant, part by *)
(* part.                                                                   *)
(***************************************************************************)
HookStates == {"idle", "waiting", "backoff", "delivered", "lost"}

RequestStates ==
  {"none", "sent", "rejected", "dup", "ok"} \cup Running \cup {"gone"} \cup Failure

IngestTypeOK ==
  /\ commitFirst \in BOOLEAN
  /\ hook \in [Alerts -> HookStates]
  /\ attempt \in [Alerts -> 0..MaxAttempts]
  /\ request \in [Requests -> RequestStates]
  /\ stored \subseteq Requests
  /\ up \in BOOLEAN
  /\ outages \in 0..MaxOutages
  /\ DOMAIN born \subseteq Requests
  /\ born \in [DOMAIN born -> [at : Nat, era : Nat]]
  /\ era \in Nat

\* A hook goes back to sleep only with an attempt left, so the attempt it
\* makes next is one of its requests, and a new one.
AttemptsLeft ==
  \A a \in Alerts :
    /\ hook[a] = "idle" <=> attempt[a] = 0
    /\ hook[a] = "backoff" => attempt[a] < MaxAttempts
    /\ \A n \in 1..MaxAttempts : n > attempt[a] => request[<<a, n>>] = "none"

\* A hook that has given up asking was told so by its last request.
DeliveredWasTold ==
  \A a \in Alerts : hook[a] = "delivered" => request[Current(a)] \in Success

\* Where get_db closes before the reply, no reply precedes its commit.
NoEarlyReply ==
  commitFirst => \A r \in Requests : request[r] \notin {"acked", "gone"}

StoredAreOk == stored = {r \in Requests : request[r] = "ok"}

\* The filter has let in exactly the requests that came to run.
BornHaveBegun ==
  /\ \A r \in DOMAIN born : request[r] \notin {"none", "sent"}
  /\ \A r \in Requests : request[r] \in Running \cup {"ok"} => r \in DOMAIN born

\* What was let in in the present era is remembered, with a time not earlier.
BornIsRemembered ==
  \A r \in DOMAIN born :
    /\ born[r].era <= era
    /\ born[r].era = era =>
         /\ KeyOfRequest(r) \in DOMAIN accepted
         /\ born[r].at <= accepted[KeyOfRequest(r)]

Apart(s, t) == s + Window <= t \/ t + Window <= s

\* RowsApart, of all requests that were let in, committed or not.
BornApart ==
  \A r, s \in DOMAIN born :
    r # s /\ KeyOfRequest(r) = KeyOfRequest(s) /\ born[r].era = born[s].era
      => Apart(born[r].at, born[s].at)

\* A request with key k has its row, or is on its way to it.
HasRow(k) ==
  \E r \in Requests : KeyOfRequest(r) = k /\ request[r] \in Running \cup {"ok"}

\* While nothing fails, a key in the filter and a request told "deduplicated"
\* each rest on such a request.
NothingLost ==
  Undisturbed =>
    /\ \A k \in DOMAIN accepted : HasRow(k)
    /\ \A r \in Requests : request[r] = "dup" => HasRow(KeyOfRequest(r))

IngestInv ==
  /\ DedupInv
  /\ IngestTypeOK
  /\ AttemptsLeft
  /\ DeliveredWasTold
  /\ NoEarlyReply
  /\ StoredAreOk
  /\ BornHaveBegun
  /\ BornIsRemembered
  /\ BornApart
  /\ NothingLost

-----------------------------------------------------------------------------
(***************************************************************************)
(* Lemmas.                                                                 *)
(***************************************************************************)
LEMMA RequestKeys == \A r \in Requests : KeyOfRequest(r) \in Keys
BY IngestAssumption DEF Requests, KeyOfRequest

LEMMA CurrentRequest ==
  ASSUME IngestTypeOK, AttemptsLeft, NEW a \in Alerts, hook[a] # "idle"
  PROVE  Current(a) \in Requests
BY IngestAssumption DEF IngestTypeOK, AttemptsLeft, Current, Requests

\* A step that leaves the filter alone keeps what was proved of it.
LEMMA FilterUntouched == DedupInv /\ UNCHANGED dedupVars => DedupInv'
BY DedupInvStep

LEMMA IngestInvInit == Init => IngestInv
<1> SUFFICES ASSUME Init PROVE IngestInv
  OBVIOUS
<1>1. DedupInv
  BY DedupInvInit DEF Init
<1>2. IngestTypeOK
  BY IngestAssumption DEF Init, IngestTypeOK, HookStates, RequestStates
<1>3. AttemptsLeft
  BY IngestAssumption DEF Init, AttemptsLeft, Requests
<1>4. /\ DeliveredWasTold /\ NoEarlyReply /\ StoredAreOk
      /\ BornHaveBegun /\ BornIsRemembered /\ BornApart
  BY DEF Init, DeliveredWasTold, NoEarlyReply, StoredAreOk, BornHaveBegun,
         BornIsRemembered, BornApart, Running
<1>5. NothingLost
  BY DEF Init, DedupInit, NothingLost
<1> QED
  BY <1>1, <1>2, <1>3, <1>4, <1>5 DEF IngestInv

-----------------------------------------------------------------------------
(***************************************************************************)
(* The steps of a hook.                                                    *)
(***************************************************************************)

\* Reading an answer, or waiting no longer for one, changes the hook only.
LEMMA HookReads ==
  ASSUME IngestInv, NEW a \in Alerts, UNCHANGED commitFirst,
         \/ ReadSuccess(a)
         \/ ReadRejection(a)
         \/ ReadFailure(a)
         \/ Timeout(a)
  PROVE  IngestInv'
<1> USE DEF IngestInv
<1>1. /\ hook[a] = "waiting" /\ hook'[a] \in {"delivered", "lost", "backoff"}
      /\ hook'[a] = "delivered" => request[Current(a)] \in Success
      /\ hook'[a] = "backoff" => attempt[a] < MaxAttempts
      /\ \A b \in Alerts : b # a => hook'[b] = hook[b]
      /\ hook' \in [Alerts -> HookStates]
  BY DEF ReadSuccess, ReadRejection, ReadFailure, Timeout, Answered, AfterFailure,
         IngestTypeOK, HookStates
<1>2. UNCHANGED <<dedupVars, commitFirst, attempt, request, coreVars>>
  BY DEF ReadSuccess, ReadRejection, ReadFailure, Timeout
<1>3. DedupInv'
  BY <1>2, FilterUntouched
<1>4. IngestTypeOK'
  BY <1>1, <1>2 DEF IngestTypeOK, coreVars
<1>5. AttemptsLeft'
  BY <1>1, <1>2 DEF AttemptsLeft
<1>6. DeliveredWasTold'
  BY <1>1, <1>2 DEF DeliveredWasTold, Current
<1>7. /\ NoEarlyReply' /\ StoredAreOk' /\ BornHaveBegun' /\ BornIsRemembered'
      /\ BornApart' /\ NothingLost'
  BY <1>2 DEF NoEarlyReply, StoredAreOk, BornHaveBegun, BornIsRemembered, BornApart,
              NothingLost, Undisturbed, HasRow, coreVars, dedupVars
<1> QED
  BY <1>3, <1>4, <1>5, <1>6, <1>7

\* An attempt takes a request that was not made before.
LEMMA PostKeepsInv ==
  ASSUME IngestInv, NEW a \in Alerts, Post(a), UNCHANGED commitFirst
  PROVE  IngestInv'
<1> USE DEF IngestInv
<1> DEFINE r == <<a, attempt[a] + 1>>
           to == IF up THEN "sent" ELSE "err"
<1>1. /\ hook[a] \in {"idle", "backoff"}
      /\ attempt[a] \in Nat /\ attempt[a] < MaxAttempts /\ MaxAttempts \in Nat
  BY IngestAssumption DEF Post, AttemptsLeft, IngestTypeOK
<1>2. r \in Requests /\ request[r] = "none"
  BY <1>1 DEF Requests, AttemptsLeft
<1>3. /\ request' \in [Requests -> RequestStates]
      /\ request'[r] = to /\ to \in {"sent", "err"}
      /\ \A s \in Requests : s # r => request'[s] = request[s]
  BY <1>2 DEF Post, IngestTypeOK, RequestStates, Failure
<1>4. /\ hook' = [hook EXCEPT ![a] = "waiting"]
      /\ attempt' = [attempt EXCEPT ![a] = @ + 1]
      /\ UNCHANGED <<dedupVars, commitFirst, coreVars>>
  BY DEF Post
<1>5. DedupInv'
  BY <1>4, FilterUntouched
<1>6. IngestTypeOK'
  BY <1>1, <1>3, <1>4 DEF IngestTypeOK, HookStates, coreVars
<1>7. AttemptsLeft'
  <2> SUFFICES ASSUME NEW b \in Alerts
               PROVE  /\ (hook[b] = "idle" <=> attempt[b] = 0)'
                      /\ (hook[b] = "backoff" => attempt[b] < MaxAttempts)'
                      /\ \A n \in 1..MaxAttempts :
                           n > attempt'[b] => request'[<<b, n>>] = "none"
    BY DEF AttemptsLeft
  <2>1. CASE b = a
    BY <1>1, <1>3, <1>4, <2>1 DEF AttemptsLeft, IngestTypeOK, Requests
  <2>2. CASE b # a
    BY <1>1, <1>3, <1>4, <2>2 DEF AttemptsLeft, IngestTypeOK, Requests
  <2> QED
    BY <2>1, <2>2
<1>8. DeliveredWasTold'
  <2> SUFFICES ASSUME NEW b \in Alerts, hook'[b] = "delivered"
               PROVE  request'[<<b, attempt'[b]>>] \in Success
    BY DEF DeliveredWasTold, Current
  <2>1. b # a /\ hook[b] = "delivered" /\ attempt'[b] = attempt[b]
    BY <1>4 DEF IngestTypeOK
  <2>2. Current(b) \in Requests /\ Current(b) # r
    BY <2>1, CurrentRequest DEF Current
  <2> QED
    BY <1>3, <2>1, <2>2 DEF DeliveredWasTold, Current
<1>9. NoEarlyReply' /\ StoredAreOk' /\ BornHaveBegun'
  <2> HIDE DEF r, to
  <2>1. NoEarlyReply'
    BY <1>3, <1>4 DEF NoEarlyReply
  <2>2. StoredAreOk'
    BY <1>2, <1>3, <1>4 DEF StoredAreOk, coreVars
  <2>3. BornHaveBegun'
    BY <1>2, <1>3, <1>4 DEF BornHaveBegun, Running, coreVars, IngestTypeOK
  <2> QED
    BY <2>1, <2>2, <2>3
<1>10. BornIsRemembered' /\ BornApart'
  BY <1>4 DEF BornIsRemembered, BornApart, coreVars, dedupVars
<1>11. NothingLost'
  BY <1>2, <1>3, <1>4
     DEF NothingLost, Undisturbed, HasRow, Running, coreVars, dedupVars
<1> QED
  BY <1>5, <1>6, <1>7, <1>8, <1>9, <1>10, <1>11

-----------------------------------------------------------------------------
(***************************************************************************)
(* The steps of a request.                                                 *)
(***************************************************************************)
Moves ==
  {<<"sent", "rejected">>, <<"sent", "err">>, <<"open", "err">>,
   <<"open", "flushed">>, <<"open", "acked">>, <<"flushed", "ok">>,
   <<"acked", "ok">>, <<"flushed", "err">>, <<"acked", "gone">>}

\* A request moves on and the filter has no part in it.
LEMMA MoveKeepsInv ==
  ASSUME IngestInv, NEW r \in Requests, NEW from, NEW to,
         <<from, to>> \in Moves,
         Goes(r, from, to),
         to = "acked" => ~commitFirst,
         stored' = IF to = "ok" THEN stored \cup {r} ELSE stored,
         UNCHANGED <<dedupVars, commitFirst, hookVars, up, outages, born, era>>
  PROVE  IngestInv'
<1> USE DEF IngestInv
<1>1. /\ request[r] = from
      /\ request'[r] = to
      /\ \A s \in Requests : s # r => request'[s] = request[s]
      /\ request' \in [Requests -> RequestStates]
  BY DEF Goes, IngestTypeOK, Moves, RequestStates, Running, Failure
<1>2. DedupInv'
  BY FilterUntouched
<1>3. IngestTypeOK' /\ AttemptsLeft'
  BY <1>1 DEF IngestTypeOK, AttemptsLeft, hookVars, Moves, Requests
<1>4. DeliveredWasTold'
  <2> SUFFICES ASSUME NEW a \in Alerts, hook[a] = "delivered"
               PROVE  request'[Current(a)] \in Success
    BY DEF DeliveredWasTold, Current, hookVars
  <2>1. Current(a) \in Requests /\ request[Current(a)] \in Success
    BY CurrentRequest DEF DeliveredWasTold
  <2> QED
    BY <1>1, <2>1 DEF Moves, Success
<1>5. NoEarlyReply' /\ StoredAreOk' /\ BornHaveBegun'
  <2>1. NoEarlyReply'
    BY <1>1 DEF NoEarlyReply, Moves
  <2>2. StoredAreOk'
    BY <1>1 DEF StoredAreOk, Moves
  <2>3. BornHaveBegun'
    BY <1>1 DEF BornHaveBegun, Moves, Running, IngestTypeOK
  <2> QED
    BY <2>1, <2>2, <2>3
<1>6. BornIsRemembered' /\ BornApart'
  BY DEF BornIsRemembered, BornApart, dedupVars
<1>7. NothingLost'
  <2> SUFFICES ASSUME Undisturbed'
               PROVE  /\ \A k \in DOMAIN accepted : HasRow(k)'
                      /\ \A s \in Requests : request'[s] = "dup" => HasRow(KeyOfRequest(s))'
    BY DEF NothingLost, dedupVars
  <2>1. to \notin {"err", "gone"} /\ Undisturbed
    BY <1>1 DEF Undisturbed, Moves
  <2>2. ASSUME NEW k, HasRow(k)
        PROVE  HasRow(k)'
    BY <1>1, <2>1, <2>2 DEF HasRow, Moves, Running
  <2> QED
    BY <1>1, <2>1, <2>2 DEF NothingLost, Moves
<1> QED
  BY <1>2, <1>3, <1>4, <1>5, <1>6, <1>7

LEMMA DeduplicateKeepsInv ==
  ASSUME IngestInv, NEW r \in Requests, Deduplicate(r), UNCHANGED commitFirst
  PROVE  IngestInv'
<1> USE DEF IngestInv
<1> DEFINE k == KeyOfRequest(r)
<1>1. /\ request[r] = "sent"
      /\ request'[r] = "dup"
      /\ \A s \in Requests : s # r => request'[s] = request[s]
      /\ request' \in [Requests -> RequestStates]
  BY DEF Deduplicate, Goes, IngestTypeOK, RequestStates
<1>2. /\ Suppress(k) /\ k \in Keys
      /\ UNCHANGED <<commitFirst, hookVars, coreVars, now, accepted>>
  BY RequestKeys DEF Deduplicate, Suppress
<1>3. DedupInv'
  BY <1>2, SuppressKeepsInv
<1>4. IngestTypeOK' /\ AttemptsLeft'
  BY <1>1, <1>2 DEF IngestTypeOK, AttemptsLeft, hookVars, coreVars, Requests
<1>5. DeliveredWasTold'
  <2> SUFFICES ASSUME NEW a \in Alerts, hook[a] = "delivered"
               PROVE  request'[Current(a)] \in Success
    BY <1>2 DEF DeliveredWasTold, Current, hookVars
  <2>1. Current(a) \in Requests /\ request[Current(a)] \in Success
    BY CurrentRequest DEF DeliveredWasTold
  <2> QED
    BY <1>1, <2>1 DEF Success
<1>6. NoEarlyReply' /\ StoredAreOk' /\ BornHaveBegun'
  BY <1>1, <1>2
     DEF NoEarlyReply, StoredAreOk, BornHaveBegun, Running, IngestTypeOK, coreVars
<1>7. BornIsRemembered' /\ BornApart'
  BY <1>2 DEF BornIsRemembered, BornApart, coreVars
<1>8. NothingLost'
  <2> SUFFICES ASSUME Undisturbed'
               PROVE  /\ \A j \in DOMAIN accepted : HasRow(j)'
                      /\ \A s \in Requests : request'[s] = "dup" => HasRow(KeyOfRequest(s))'
    BY <1>2 DEF NothingLost
  <2>1. Undisturbed
    BY <1>1, <1>2 DEF Undisturbed, coreVars
  <2>2. ASSUME NEW j, HasRow(j)
        PROVE  HasRow(j)'
    BY <1>1, <2>2 DEF HasRow, Running
  <2>3. k \in DOMAIN accepted
    BY <1>2, ExpiryLoop DEF Suppress, EntriesNoted, DedupInv
  <2> QED
    BY <1>1, <2>1, <2>2, <2>3 DEF NothingLost
<1> QED
  BY <1>3, <1>4, <1>5, <1>6, <1>7, <1>8

\* What a request let in leaves behind in the filter: either its key with the
\* present time, or, when an older key had to go, a new era.
LEMMA AcceptRemembers ==
  ASSUME DedupInv, NEW k \in Keys, Accept(k)
  PROVE  /\ k \in DOMAIN accepted => accepted[k] + Window <= now
         /\ k \in DOMAIN accepted' /\ accepted'[k] = now
         /\ DOMAIN accepted' \subseteq DOMAIN accepted \cup {k}
         /\ \A j \in DOMAIN accepted' : j # k => accepted'[j] = accepted[j]
<1> USE DEF DedupInv
<1> DEFINE all == Kept \cup {k}
           moved == MovedToEnd(all, k)
           noted == Put(accepted, k, now)
<1>1. /\ Kept \subseteq Live
      /\ \A j \in Live : now < recent[j] + Window => j \in Kept
  BY ExpiryLoop
<1>2. ASSUME k \in DOMAIN accepted
      PROVE  accepted[k] + Window <= now
  <2>1. now \in Nat /\ accepted[k] \in Nat /\ Window \in Nat
    BY <1>2, DedupAssumption DEF DedupTypeOK
  <2> SUFFICES ASSUME now < accepted[k] + Window PROVE FALSE
    BY <2>1
  <2>2. k \in Kept /\ recent[k] = accepted[k]
    BY <1>1, <1>2 DEF RemembersWindow
  <2> QED
    BY <2>1, <2>2 DEF Accept
<1>3. /\ DOMAIN noted = DOMAIN accepted \cup {k}
      /\ noted[k] = now
      /\ \A j \in DOMAIN accepted : j # k => noted[j] = accepted[j]
  BY DEF Put
<1>4. CASE ~TooMany(all)
  <2>1. accepted' = noted
    BY <1>4 DEF Accept
  <2> QED
    BY <1>2, <1>3, <2>1
<1>5. CASE TooMany(all)
  <2>1. PICK o \in all :
          /\ IsOldest(o, all, moved)
          /\ accepted' = Only(noted, DOMAIN noted \ {o})
    BY <1>5 DEF Accept
  <2>2. o # k
    <3> SUFFICES ASSUME o = k PROVE FALSE
      OBVIOUS
    <3>1. all = {k}
      <4>1. \A i, j : <<i, j>> \in moved => i \in all \ {k}
        BY MovedToEndProperties
      <4> QED
        BY <2>1, <4>1 DEF IsOldest
    <3> QED
      BY <1>5, <3>1, FS_Singleton, DedupAssumption DEF TooMany
  <2>3. /\ DOMAIN accepted' = DOMAIN noted \ {o}
        /\ \A j \in DOMAIN noted \ {o} : accepted'[j] = noted[j]
    BY <2>1 DEF Only
  <2> QED
    BY <1>2, <1>3, <2>2, <2>3
<1> QED
  BY <1>4, <1>5

LEMMA BeginKeepsInv ==
  ASSUME IngestInv, NEW r \in Requests, Begin(r), UNCHANGED commitFirst
  PROVE  IngestInv'
<1> USE DEF IngestInv
<1> DEFINE k == KeyOfRequest(r)
<1>1. /\ request[r] = "sent"
      /\ request'[r] = "open"
      /\ \A s \in Requests : s # r => request'[s] = request[s]
      /\ request' \in [Requests -> RequestStates]
  BY DEF Begin, Goes, IngestTypeOK, RequestStates, Running
<1>2. /\ Accept(k) /\ k \in Keys
      /\ now' = now
      /\ UNCHANGED <<commitFirst, hookVars, stored, up, outages>>
  BY RequestKeys DEF Begin, Accept
<1>3. /\ k \in DOMAIN accepted => accepted[k] + Window <= now
      /\ k \in DOMAIN accepted' /\ accepted'[k] = now
      /\ DOMAIN accepted' \subseteq DOMAIN accepted \cup {k}
      /\ \A j \in DOMAIN accepted' : j # k => accepted'[j] = accepted[j]
  BY <1>2, AcceptRemembers
<1>4. /\ era \in Nat
      /\ era' = era \/ era' = era + 1
      /\ era' = era => DOMAIN accepted \subseteq DOMAIN accepted'
  BY DEF Begin, IngestTypeOK
<1>5. /\ now \in Nat /\ Window \in Nat
      /\ \A j \in DOMAIN accepted : accepted[j] \in Nat /\ accepted[j] <= now
  BY DedupAssumption DEF DedupTypeOK, DedupInv, NotFuture
<1>6. /\ r \notin DOMAIN born
      /\ \A s \in DOMAIN born : s \in Requests /\ born[s].at \in Nat /\ born[s].era \in Nat
  BY <1>1 DEF BornHaveBegun, IngestTypeOK
<1>7. /\ DOMAIN born' = DOMAIN born \cup {r}
      /\ born'[r].at = now /\ born'[r].era = era
      /\ \A s \in DOMAIN born : born'[s] = born[s]
  BY <1>6 DEF Begin, Put
<1>8. DedupInv'
  BY <1>2, AcceptKeepsInv
<1>9. IngestTypeOK'
  <2>1. born' \in [DOMAIN born' -> [at : Nat, era : Nat]]
    BY <1>4, <1>5 DEF Begin, Put, IngestTypeOK
  <2> QED
    BY <1>1, <1>2, <1>4, <1>7, <2>1 DEF IngestTypeOK, hookVars
<1>10. AttemptsLeft'
  BY <1>1, <1>2 DEF AttemptsLeft, hookVars, Requests
<1>11. DeliveredWasTold'
  <2> SUFFICES ASSUME NEW a \in Alerts, hook[a] = "delivered"
               PROVE  request'[Current(a)] \in Success
    BY <1>2 DEF DeliveredWasTold, Current, hookVars
  <2>1. Current(a) \in Requests /\ request[Current(a)] \in Success
    BY CurrentRequest DEF DeliveredWasTold
  <2> QED
    BY <1>1, <2>1 DEF Success
<1>12. NoEarlyReply' /\ StoredAreOk' /\ BornHaveBegun'
  <2>1. NoEarlyReply'
    BY <1>1, <1>2 DEF NoEarlyReply
  <2>2. StoredAreOk'
    BY <1>1, <1>2 DEF StoredAreOk
  <2>3. BornHaveBegun'
    BY <1>1, <1>6, <1>7 DEF BornHaveBegun
  <2> QED
    BY <2>1, <2>2, <2>3
<1>13. BornIsRemembered'
  <2> SUFFICES ASSUME NEW s \in DOMAIN born'
               PROVE  /\ born'[s].era <= era'
                      /\ born'[s].era = era' =>
                           /\ KeyOfRequest(s) \in DOMAIN accepted'
                           /\ born'[s].at <= accepted'[KeyOfRequest(s)]
    BY DEF BornIsRemembered
  <2>1. CASE s = r
    BY <1>3, <1>4, <1>5, <1>7, <2>1
  <2>2. CASE s # r
    <3>1. s \in DOMAIN born /\ born'[s] = born[s] /\ born[s].era <= era
      BY <1>7, <2>2 DEF BornIsRemembered
    <3>2. ASSUME born[s].era = era'
          PROVE  /\ KeyOfRequest(s) \in DOMAIN accepted'
                 /\ born[s].at <= accepted'[KeyOfRequest(s)]
      <4>1. /\ era' = era
            /\ KeyOfRequest(s) \in DOMAIN accepted
            /\ born[s].at <= accepted[KeyOfRequest(s)]
        BY <1>4, <1>6, <3>1, <3>2 DEF BornIsRemembered
      <4> QED
        BY <1>3, <1>4, <1>5, <1>6, <3>1, <4>1
    <3> QED
      BY <1>4, <1>6, <3>1, <3>2
  <2> QED
    BY <2>1, <2>2
<1>14. BornApart'
  <2>1. ASSUME NEW s \in DOMAIN born, KeyOfRequest(s) = k, born[s].era = era
        PROVE  born[s].at + Window <= now
    <3>1. k \in DOMAIN accepted /\ born[s].at <= accepted[k]
      BY <2>1 DEF BornIsRemembered
    <3> QED
      BY <1>3, <1>5, <1>6, <3>1
  <2> QED
    BY <1>7, <2>1 DEF BornApart, Apart
<1>15. NothingLost'
  <2> SUFFICES ASSUME Undisturbed'
               PROVE  /\ \A j \in DOMAIN accepted' : HasRow(j)'
                      /\ \A s \in Requests : request'[s] = "dup" => HasRow(KeyOfRequest(s))'
    BY DEF NothingLost
  <2>1. Undisturbed
    BY <1>1, <1>2 DEF Undisturbed
  <2>2. ASSUME NEW j, HasRow(j)
        PROVE  HasRow(j)'
    BY <1>1, <2>2 DEF HasRow, Running
  <2>3. HasRow(k)'
    BY <1>1 DEF HasRow, Running
  <2> QED
    BY <1>1, <1>3, <2>1, <2>2, <2>3 DEF NothingLost
<1> QED
  BY <1>8, <1>9, <1>10, <1>11, <1>12, <1>13, <1>14, <1>15

-----------------------------------------------------------------------------
(***************************************************************************)
(* Outages and the clock.                                                  *)
(***************************************************************************)

\* The filter is emptied, and a request that has no row yet may break off: in
\* a crash all of them, in a reset at most the one it meets in the filter.
BreaksOff(s, t) ==
  \/ t = s
  \/ s \in {"sent", "open", "flushed"} /\ t = "err"
  \/ s = "acked" /\ t = "gone"

LEMMA OutageKeepsInv ==
  ASSUME IngestInv, Forget, era' = era + 1,
         outages < MaxOutages, outages' = outages + 1,
         up' \in BOOLEAN,
         request' \in [Requests -> RequestStates],
         \A r \in Requests : BreaksOff(request[r], request'[r]),
         UNCHANGED <<commitFirst, hookVars, stored, born>>
  PROVE  IngestInv'
<1> USE DEF IngestInv
<1>1. outages \in Nat /\ outages' \in 0..MaxOutages /\ outages' # 0
  BY IngestAssumption DEF IngestTypeOK
<1>2. DedupInv'
  BY ForgetKeepsInv
<1>3. IngestTypeOK'
  BY <1>1 DEF IngestTypeOK, hookVars
<1>4. AttemptsLeft'
  <2> SUFFICES ASSUME NEW a \in Alerts, NEW n \in 1..MaxAttempts, n > attempt[a]
               PROVE  request'[<<a, n>>] = "none"
    BY DEF AttemptsLeft, hookVars
  <2>1. <<a, n>> \in Requests /\ request[<<a, n>>] = "none"
    BY DEF AttemptsLeft, Requests
  <2> QED
    BY <2>1 DEF BreaksOff
<1>5. DeliveredWasTold'
  <2> SUFFICES ASSUME NEW a \in Alerts, hook[a] = "delivered"
               PROVE  request'[Current(a)] \in Success
    BY DEF DeliveredWasTold, Current, hookVars
  <2>1. Current(a) \in Requests /\ request[Current(a)] \in Success
    BY CurrentRequest DEF DeliveredWasTold
  <2> QED
    BY <2>1 DEF Success, BreaksOff
<1>6. NoEarlyReply'
  BY DEF NoEarlyReply, BreaksOff
<1>7. StoredAreOk'
  <2>1. \A r \in Requests : request'[r] = "ok" <=> request[r] = "ok"
    BY DEF BreaksOff
  <2> QED
    BY <2>1 DEF StoredAreOk
<1>8. BornHaveBegun'
  <2>1. \A r \in Requests :
          request'[r] \in Running \cup {"ok"} => request[r] = request'[r]
    BY DEF BreaksOff, Running
  <2>2. \A r \in DOMAIN born : r \in Requests /\ request'[r] \notin {"none", "sent"}
    BY DEF BornHaveBegun, BreaksOff, IngestTypeOK
  <2> QED
    BY <2>1, <2>2 DEF BornHaveBegun
<1>9. BornIsRemembered'
  BY DEF BornIsRemembered, IngestTypeOK
<1>10. BornApart'
  BY DEF BornApart
<1>11. NothingLost'
  BY <1>1 DEF NothingLost, Undisturbed
<1> QED
  BY <1>2, <1>3, <1>4, <1>5, <1>6, <1>7, <1>8, <1>9, <1>10, <1>11

\* Time passing and Core coming back change nothing the invariant relates but
\* the clock and the flag.
LEMMA QuietKeepsInv ==
  ASSUME IngestInv, DedupInv', up' \in BOOLEAN,
         UNCHANGED <<accepted, commitFirst, hookVars, request, stored, outages, born, era>>
  PROVE  IngestInv'
<1> USE DEF IngestInv
<1>1. IngestTypeOK'
  BY DEF IngestTypeOK, hookVars
<1>2. AttemptsLeft' /\ DeliveredWasTold'
  BY DEF AttemptsLeft, DeliveredWasTold, Current, hookVars
<1>3. NoEarlyReply' /\ StoredAreOk' /\ BornHaveBegun'
  BY DEF NoEarlyReply, StoredAreOk, BornHaveBegun
<1>4. BornIsRemembered' /\ BornApart' /\ NothingLost'
  BY DEF BornIsRemembered, BornApart, NothingLost, Undisturbed, HasRow
<1> QED
  BY <1>1, <1>2, <1>3, <1>4

-----------------------------------------------------------------------------
LEMMA HookStepKeepsInv ==
  ASSUME IngestInv, NEW a \in Alerts, HookStep(a)
  PROVE  IngestInv'
<1>1. CASE Post(a)
  BY <1>1, PostKeepsInv DEF HookStep
<1>2. CASE ReadSuccess(a) \/ ReadRejection(a) \/ ReadFailure(a) \/ Timeout(a)
  BY <1>2, HookReads DEF HookStep
<1> QED
  BY <1>1, <1>2 DEF HookStep

LEMMA CoreStepKeepsInv ==
  ASSUME IngestInv, NEW r \in Requests, CoreStep(r)
  PROVE  IngestInv'
<1>1. UNCHANGED commitFirst
  BY DEF CoreStep
<1>2. CASE Deduplicate(r)
  BY <1>1, <1>2, DeduplicateKeepsInv
<1>3. CASE Begin(r)
  BY <1>1, <1>3, BeginKeepsInv
<1>4. ASSUME NEW from, NEW to, <<from, to>> \in Moves, Goes(r, from, to),
             to = "acked" => ~commitFirst,
             stored' = IF to = "ok" THEN stored \cup {r} ELSE stored,
             UNCHANGED <<dedupVars, hookVars, up, outages, born, era>>
      PROVE  IngestInv'
  BY <1>1, <1>4, MoveKeepsInv
<1>5. CASE Reject(r)
  <2>1. CASE Goes(r, "sent", "rejected")
    BY <1>4, <1>5, <2>1 DEF Reject, Moves, coreVars
  <2>2. CASE Goes(r, "sent", "err")
    BY <1>4, <1>5, <2>2 DEF Reject, Moves, coreVars
  <2> QED
    BY <1>5, <2>1, <2>2 DEF Reject
<1>6. CASE ProcessFails(r)
  BY <1>4, <1>6 DEF ProcessFails, Moves, coreVars
<1>7. CASE Finish(r)
  <2>1. CASE commitFirst
    BY <1>4, <1>7, <2>1 DEF Finish, Moves, coreVars
  <2>2. CASE ~commitFirst
    BY <1>4, <1>7, <2>2 DEF Finish, Moves, coreVars
  <2> QED
    BY <2>1, <2>2
<1>8. CASE Commit(r)
  <2>1. CASE Goes(r, "flushed", "ok")
    BY <1>4, <1>8, <2>1 DEF Commit, Moves
  <2>2. CASE Goes(r, "acked", "ok")
    BY <1>4, <1>8, <2>2 DEF Commit, Moves
  <2> QED
    BY <1>8, <2>1, <2>2 DEF Commit
<1>9. CASE CommitFails(r)
  <2>1. CASE Goes(r, "flushed", "err")
    BY <1>4, <1>9, <2>1 DEF CommitFails, Moves, coreVars
  <2>2. CASE Goes(r, "acked", "gone")
    BY <1>4, <1>9, <2>2 DEF CommitFails, Moves, coreVars
  <2> QED
    BY <1>9, <2>1, <2>2 DEF CommitFails
<1>10. CASE ResetUnder(r)
  <2>1. /\ request' \in [Requests -> RequestStates]
        /\ \A s \in Requests : BreaksOff(request[s], request'[s])
    BY <1>10 DEF ResetUnder, Goes, BreaksOff, IngestInv, IngestTypeOK,
                 RequestStates, Failure
  <2> QED
    BY <1>1, <1>10, <2>1, OutageKeepsInv DEF ResetUnder, IngestInv, IngestTypeOK
<1> QED
  BY <1>2, <1>3, <1>5, <1>6, <1>7, <1>8, <1>9, <1>10 DEF CoreStep

LEMMA OutsideKeepsInv == ASSUME IngestInv, Outside PROVE IngestInv'
<1>1. UNCHANGED commitFirst /\ DedupInv /\ up \in BOOLEAN
  BY DEF Outside, IngestInv, IngestTypeOK
<1>2. CASE Crash
  <2>1. /\ request' \in [Requests -> RequestStates]
        /\ \A s \in Requests : BreaksOff(request[s], request'[s])
    BY <1>2 DEF Crash, AfterCrash, BreaksOff, IngestInv, IngestTypeOK,
                RequestStates, Failure
  <2> QED
    BY <1>1, <1>2, <2>1, OutageKeepsInv DEF Crash
<1>3. CASE Restart
  <2>1. DedupInv'
    BY <1>1, <1>3, FilterUntouched DEF Restart
  <2> QED
    BY <1>1, <1>3, <2>1, QuietKeepsInv DEF Restart, dedupVars
<1>4. CASE ResetFilter
  <2>1. /\ request' \in [Requests -> RequestStates]
        /\ \A s \in Requests : BreaksOff(request[s], request'[s])
    BY <1>4 DEF ResetFilter, BreaksOff, IngestInv, IngestTypeOK
  <2> QED
    BY <1>1, <1>4, <2>1, OutageKeepsInv DEF ResetFilter
<1>5. CASE TimePasses
  <2>1. Tick /\ UNCHANGED <<accepted, hookVars, request, coreVars>>
    BY <1>5 DEF TimePasses, Tick
  <2>2. DedupInv' /\ up' \in BOOLEAN
    BY <1>1, <2>1, TickKeepsInv DEF coreVars
  <2>3. \A r \in DOMAIN born : born'[r] = born[r]
    BY <2>1 DEF coreVars
  <2> QED
    BY <1>1, <2>1, <2>2, QuietKeepsInv DEF coreVars
<1> QED
  BY <1>2, <1>3, <1>4, <1>5 DEF Outside

LEMMA IngestInvStep == IngestInv /\ [Next]_vars => IngestInv'
<1> SUFFICES ASSUME IngestInv, [Next]_vars
             PROVE  IngestInv'
  OBVIOUS
<1>1. CASE Next
  BY <1>1, HookStepKeepsInv, CoreStepKeepsInv, OutsideKeepsInv DEF Next
<1>2. CASE UNCHANGED vars
  <2>1. DedupInv'
    BY <1>2, FilterUntouched DEF vars, IngestInv
  <2> QED
    BY <1>2, <2>1, QuietKeepsInv
       DEF vars, dedupVars, coreVars, IngestInv, IngestTypeOK
<1> QED
  BY <1>1, <1>2

\* The inductive invariant holds in every state of hooks, Core and filter.
THEOREM IngestInvariant == Spec => []IngestInv
BY IngestInvInit, IngestInvStep, PTL DEF Spec

-----------------------------------------------------------------------------
(***************************************************************************)
(* What it gives.                                                          *)
(***************************************************************************)

\* Where the framework closes get_db before it replies, a hook that was told
\* "processed" has its row committed, whatever fails, times out or crashes.
THEOREM ProcessedAreCommitted == Spec => []ProcessedIsCommitted
<1>1. IngestInv => ProcessedIsCommitted
  <2> SUFFICES ASSUME IngestInv, commitFirst, NEW a \in Alerts,
                      hook[a] = "delivered", request[Current(a)] # "dup"
               PROVE  Current(a) \in stored
    BY DEF ProcessedIsCommitted
  <2>1. Current(a) \in Requests /\ request[Current(a)] \in Success
    BY CurrentRequest DEF IngestInv, DeliveredWasTold
  <2> QED
    BY <2>1 DEF IngestInv, NoEarlyReply, StoredAreOk, Success
<1> QED
  BY <1>1, IngestInvariant, PTL

\* Overlapping retries and twins never store an alert twice within a window
\* that the filter was not made to forget, for any number of hooks, attempts
\* and outages, and any cap.
THEOREM StoredRowsAreApart == Spec => []RowsApart
<1>1. IngestInv => RowsApart
  <2> SUFFICES ASSUME IngestInv
               PROVE  RowsApart
    OBVIOUS
  <2>1. stored \subseteq DOMAIN born
    BY DEF IngestInv, StoredAreOk, BornHaveBegun
  <2> QED
    BY <2>1 DEF IngestInv, BornApart, Apart, RowsApart
<1> QED
  BY <1>1, IngestInvariant, PTL

\* While Core does not fail, no alert is acknowledged for good without a
\* committed row under its key, although the filter answers before the first
\* copy is committed.
THEOREM AcknowledgedUnlessDisturbed == Spec => []AcknowledgedUnlessFault
<1>1. IngestInv => AcknowledgedUnlessFault
  <2> SUFFICES ASSUME IngestInv, Undisturbed, NEW a \in Alerts,
                      hook[a] = "delivered", ~InProgress(KeyOf(a))
               PROVE  \E r \in stored : KeyOfRequest(r) = KeyOf(a)
    BY DEF AcknowledgedUnlessFault, AcknowledgedIsCommitted
  <2> USE DEF IngestInv
  <2>1. /\ Current(a) \in Requests
        /\ request[Current(a)] \in Success
        /\ KeyOfRequest(Current(a)) = KeyOf(a)
    BY CurrentRequest DEF DeliveredWasTold, Current, KeyOfRequest
  <2>2. HasRow(KeyOf(a))
    <3>1. CASE request[Current(a)] = "dup"
      BY <2>1, <3>1 DEF NothingLost
    <3>2. CASE request[Current(a)] # "dup"
      BY <2>1, <3>2 DEF Success, Undisturbed, HasRow, Running
    <3> QED
      BY <3>1, <3>2
  <2> QED
    BY <2>2 DEF HasRow, InProgress, StoredAreOk
<1> QED
  BY <1>1, IngestInvariant, PTL
=============================================================================
