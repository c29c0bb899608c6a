------------------------------- MODULE Whitelist -------------------------------
(***************************************************************************)
(* Whitelisting an address.  The rows of the table whitelist are written   *)
(* by two programs:                                                        *)
(*                                                                         *)
(*   - the MCP server (lureguard_mcp/whitelist.py), each call in short     *)
(*     transactions of one statement: an agent recommends, a human         *)
(*     confirms by whitelist_id or removes;                                *)
(*   - Core: its admin API, in one transaction per request, and the import *)
(*     of config/whitelist.json when it starts.                            *)
(*                                                                         *)
(* Core works from a cache (core/runtime/whitelist.py), which a tick every *)
(* two seconds and each admin request replace by what they have read.  The *)
(* reading and the replacing are two steps, so ticks and requests overlap. *)
(***************************************************************************)
EXTENDS Naturals, Sequences

CONSTANTS
  IPs,        \* addresses
  SeedFile,   \* the addresses in config/whitelist.json, in its order
  Calls,      \* the calls of confirm_whitelist_ip
  MayFail,    \* may a statement of Core fail?
  MaxIds,     \* bound: rows ever created
  MaxRequests,\* bound: requests to the admin API
  MaxRestarts \* bound: restarts of Core

ASSUME WhitelistAssumption ==
  /\ IPs # {}
  /\ SeedFile \in Seq(IPs)
  /\ MayFail \in BOOLEAN
  /\ MaxIds \in Nat
  /\ MaxRequests \in Nat
  /\ MaxRestarts \in Nat

VARIABLES
  table,      \* committed rows: address -> row, or NoRow
  nextId,     \* a fresh whitelist_id
  call,       \* the confirmations
  cache,      \* _ips of Core
  tick,       \* the tick's snapshot, while it holds one
  admin,      \* the admin request at work, at most one
  requests,   \* admin requests so far
  restarts,   \* restarts so far
  decision,   \* history: the last human decision on each address that was written
  asked       \* history: the addresses a human ever asked to whitelist

mcpVars == <<call>>
coreVars == <<cache, tick, admin, requests, restarts>>
vars == <<table, nextId, mcpVars, coreVars, decision, asked>>

NoRow == [id |-> 0, active |-> FALSE]
Exists(t, ip) == t[ip] # NoRow

\* Fault: get_whitelist does not filter on executed.
Listed(t) == {ip \in IPs : Exists(t, ip)}

Active(t) == {ip \in IPs : Exists(t, ip) /\ t[ip].active}

NoTick == [busy |-> FALSE, ips |-> {}]

\* row: the row its SELECT has seen; ips: what it will put into the cache.
NoRequest == [pc |-> "idle", op |-> "none", ip |-> CHOOSE ip \in IPs : TRUE,
              row |-> NoRow, ips |-> {}]

Seeds == {SeedFile[i] : i \in 1..Len(SeedFile)}

Position(ip) == CHOOSE i \in 1..Len(SeedFile) : SeedFile[i] = ip

\* The rows of an import whose first row draws the id n.
SeedRows(n) ==
  [ip \in IPs |-> IF ip \in Seeds THEN [id |-> n + Position(ip) - 1, active |-> TRUE]
                  ELSE NoRow]

Empty(t) == \A ip \in IPs : ~Exists(t, ip)

\* Core has started for the first time.
Init ==
  /\ table = SeedRows(1)
  /\ nextId = Len(SeedFile) + 1
  /\ call = [c \in Calls |-> [pc |-> "idle", id |-> 0]]
  /\ cache = Seeds
  /\ tick = NoTick
  /\ admin = NoRequest
  /\ requests = 0
  /\ restarts = 0
  /\ decision = [ip \in IPs |-> IF ip \in Seeds THEN "approved" ELSE "none"]
  /\ asked = Seeds

Decided(ip, d) == decision' = [decision EXCEPT ![ip] = d]

\* The admin request has written ip's row and not yet committed: every other
\* writer of the row waits for it.
Locked(ip) ==
  /\ admin.pc \in {"written", "refreshed"}
  /\ admin.op # "none"
  /\ admin.ip = ip

IdsLeft(n) == nextId + n <= MaxIds + 1

-----------------------------------------------------------------------------
(***************************************************************************)
(* The MCP server.                                                         *)
(***************************************************************************)

\* add_whitelist_db: ON CONFLICT (ip) keeps the id and resets executed.
Pending(ip) ==
  [id |-> IF Exists(table, ip) THEN table[ip].id ELSE nextId, active |-> FALSE]

\* recommend_whitelist_ip.
Recommend(ip) ==
  /\ ~Locked(ip)
  /\ Exists(table, ip) \/ IdsLeft(1)
  /\ table' = [table EXCEPT ![ip] = Pending(ip)]
  /\ nextId' = IF Exists(table, ip) THEN nextId ELSE nextId + 1
  /\ UNCHANGED <<mcpVars, coreVars, decision, asked>>

\* confirm_whitelist_ip reads the row and finds it pending.
ConfirmCheck(c, ip) ==
  /\ call[c].pc = "idle"
  /\ Exists(table, ip) /\ ~table[ip].active
  /\ call' = [call EXCEPT ![c] = [pc |-> "checked", id |-> table[ip].id]]
  /\ asked' = asked \cup {ip}
  /\ UNCHANGED <<table, nextId, coreVars, decision>>

\* Fault: the row is looked up by any address that is pending.
ConfirmPending(c) ==
  /\ call[c].pc = "checked"
  /\ \E ip \in IPs :
       /\ ~Locked(ip)
       /\ Exists(table, ip)
       /\ table' = [table EXCEPT ![ip].active = TRUE]
  /\ call' = [call EXCEPT ![c].pc = "answered"]
  /\ UNCHANGED <<nextId, coreVars, decision, asked>>

\* confirm_whitelist_db: UPDATE ... WHERE id; the answer is "active" although
\* there may be no such row any more.
ConfirmWrite(c) ==
  /\ call[c].pc = "checked"
  /\ call' = [call EXCEPT ![c].pc = "answered"]
  /\ \/ \E ip \in IPs :
          /\ table[ip].id = call[c].id
          /\ ~Locked(ip)
          /\ table' = [table EXCEPT ![ip].active = TRUE]
          /\ Decided(ip, "approved")
     \/ /\ \A ip \in IPs : table[ip].id # call[c].id
        /\ UNCHANGED <<table, decision>>
  /\ UNCHANGED <<nextId, coreVars, asked>>

\* remove_whitelist_db.
Without(ip) == [table EXCEPT ![ip] = NoRow]

\* remove_whitelist_ip, by id or by address, of a row that exists.
Remove(ip) ==
  /\ ~Locked(ip)
  /\ Exists(table, ip)
  /\ table' = Without(ip)
  /\ Decided(ip, "revoked")
  /\ UNCHANGED <<nextId, mcpVars, coreVars, asked>>

-----------------------------------------------------------------------------
(***************************************************************************)
(* The admin API: SELECT; write and read the active rows; replace the      *)
(* cache; commit.                                                          *)
(***************************************************************************)
AdminSelect(op, ip) ==
  /\ admin.pc = "idle"
  /\ requests < MaxRequests
  /\ requests' = requests + 1
  /\ op = "remove" => Exists(table, ip)
  /\ admin' = [pc |-> "selected", op |-> op, ip |-> ip, row |-> table[ip], ips |-> {}]
  /\ asked' = IF op = "add" THEN asked \cup {ip} ELSE asked
  /\ UNCHANGED <<table, nextId, mcpVars, cache, tick, restarts, decision>>

\* The committed table with the change of request r.  An add that found the row
\* active does not write executed again: whoever has reset it since prevails.
With(r) ==
  [table EXCEPT ![r.ip] =
    IF r.op = "remove" THEN NoRow
    ELSE [id |-> r.row.id, active |-> IF r.row.active THEN @.active ELSE TRUE]]

\* The insert finds no row; the update or delete finds the row it has seen.
RowStillAsSeen == table[admin.ip].id = admin.row.id

\* A new row draws its id here.
AdminWrite ==
  /\ admin.pc = "selected"
  /\ RowStillAsSeen
  /\ LET new == admin.row = NoRow
         r == IF new THEN [admin EXCEPT !.row.id = nextId] ELSE admin
     IN /\ new => IdsLeft(1)
        /\ admin' = [r EXCEPT !.pc = "written", !.ips = Active(With(r))]
        /\ nextId' = IF new THEN nextId + 1 ELSE nextId
  /\ UNCHANGED <<table, mcpVars, cache, tick, requests, restarts, decision, asked>>

\* A delete of a row that is gone by now removes nothing and goes on.
AdminWriteNothing ==
  /\ admin.pc = "selected"
  /\ admin.op = "remove"
  /\ ~RowStillAsSeen
  /\ admin' = [admin EXCEPT !.pc = "written", !.op = "none", !.ips = Active(table)]
  /\ UNCHANGED <<table, nextId, mcpVars, cache, tick, requests, restarts, decision,
                 asked>>

AdminRefresh ==
  /\ admin.pc = "written"
  /\ cache' = admin.ips
  /\ admin' = [admin EXCEPT !.pc = "refreshed"]
  /\ UNCHANGED <<table, nextId, mcpVars, tick, requests, restarts, decision, asked>>

AdminCommit ==
  /\ admin.pc = "refreshed"
  /\ admin' = NoRequest
  /\ \/ /\ admin.op = "none"
        /\ UNCHANGED <<table, decision>>
     \/ /\ admin.op # "none"
        /\ table' = With(admin)
        /\ Decided(admin.ip, IF admin.op = "add" THEN "approved" ELSE "revoked")
  /\ UNCHANGED <<nextId, mcpVars, cache, tick, requests, restarts, asked>>

\* The row has changed under an add (IntegrityError, StaleDataError), or a
\* statement or the commit fails: rollback.  The cache keeps what it has.
AdminFails ==
  /\ admin.pc # "idle"
  /\ MayFail \/ (admin.pc = "selected" /\ admin.op = "add" /\ ~RowStillAsSeen)
  /\ admin' = NoRequest
  /\ UNCHANGED <<table, nextId, mcpVars, cache, tick, requests, restarts, decision,
                 asked>>

-----------------------------------------------------------------------------
(***************************************************************************)
(* Core's tick and its restart.                                            *)
(***************************************************************************)
TickRead ==
  /\ ~tick.busy
  /\ tick' = [busy |-> TRUE, ips |-> Active(table)]
  /\ UNCHANGED <<table, nextId, mcpVars, cache, admin, requests, restarts, decision,
                 asked>>

\* Fault: the tick adds to the cache instead of replacing it.
TickAdds ==
  /\ tick.busy
  /\ cache' = cache \cup tick.ips
  /\ tick' = NoTick
  /\ UNCHANGED <<table, nextId, mcpVars, admin, requests, restarts, decision, asked>>

TickWrite ==
  /\ tick.busy
  /\ cache' = tick.ips
  /\ tick' = NoTick
  /\ UNCHANGED <<table, nextId, mcpVars, admin, requests, restarts, decision, asked>>

TickFails ==
  /\ MayFail
  /\ tick.busy
  /\ tick' = NoTick
  /\ UNCHANGED <<table, nextId, mcpVars, cache, admin, requests, restarts, decision,
                 asked>>

\* Core dies, and its lifespan imports the file into an empty table and loads
\* the cache before anything else runs in it.  The file is the operator's, so
\* what it brings counts as approved, though a human may have removed it since.
Restart ==
  /\ restarts < MaxRestarts
  /\ restarts' = restarts + 1
  /\ \/ /\ Empty(table)
        /\ IdsLeft(Len(SeedFile))
        /\ table' = SeedRows(nextId)
        /\ nextId' = nextId + Len(SeedFile)
     \/ /\ ~Empty(table)
        /\ UNCHANGED <<table, nextId>>
  /\ decision' = [ip \in IPs |-> IF table'[ip] # table[ip] THEN "approved" ELSE decision[ip]]
  /\ cache' = Active(table')
  /\ tick' = NoTick
  /\ admin' = NoRequest
  /\ UNCHANGED <<mcpVars, requests, asked>>

AdminStep == AdminWrite \/ AdminWriteNothing \/ AdminRefresh \/ AdminCommit \/ AdminFails

Next ==
  \/ \E ip \in IPs : Recommend(ip) \/ Remove(ip)
  \/ \E c \in Calls : ConfirmWrite(c) \/ \E ip \in IPs : ConfirmCheck(c, ip)
  \/ \E op \in {"add", "remove"}, ip \in IPs : AdminSelect(op, ip)
  \/ AdminStep
  \/ TickRead \/ TickWrite \/ TickFails
  \/ Restart

Spec == Init /\ [][Next]_vars

\* Requests and calls go on, the tick is started again and again, and it does
\* not fail every time.
FairSpec ==
  /\ Spec
  /\ WF_vars(AdminStep)
  /\ \A c \in Calls : WF_vars(ConfirmWrite(c))
  /\ WF_vars(TickRead) /\ SF_vars(TickWrite)

-----------------------------------------------------------------------------
(***************************************************************************)
(* Properties.                                                             *)
(***************************************************************************)
\* Core never exempts an address that no human ever asked to whitelist,
\* although the cache is written from uncommitted and from outdated reads:
\* "Core ML cache loads executed whitelist rows only"
\* (docs/ARCHITECTURE.md:128).
CacheWasAsked == cache \subseteq asked

\* When the whitelist is left alone, Core's cache comes to agree with it,
\* whatever stale snapshots and rolled back requests left in it: "source of
\* truth is Postgres `whitelist` table" (core/runtime/whitelist.py:2).
CacheConverges == <>[](cache = Active(table))

Gate == INSTANCE HumanGate WITH
  Subjects <- IPs, LiftGated <- FALSE, inForce <- Active(table)

\* Whitelisting implements the gate on the way in: an entry becomes active by
\* a human's decision only.
ImplementsGate == Gate!GateSpec
=============================================================================
