----------------------------- MODULE WhitelistProofs -----------------------------
(***************************************************************************)
(* Proofs about whitelisting, module Whitelist: for every set of addresses *)
(* and seed file, any number of confirmations side by side, admin          *)
(* requests, ticks and restarts.                                           *)
(***************************************************************************)
EXTENDS Whitelist, TLAPS

(***************************************************************************)
(* The inductive invariant, part by part.                                  *)
(***************************************************************************)
Row == [id : Nat, active : BOOLEAN]

WhitelistTypeOK ==
  /\ table \in [IPs -> Row]
  /\ nextId \in Nat \ {0}
  /\ call \in [Calls -> [pc : {"idle", "checked", "answered"}, id : Nat]]
  /\ tick \in [busy : BOOLEAN, ips : SUBSET IPs]
  /\ admin \in [pc : {"idle", "selected", "written", "refreshed"},
                op : {"none", "add", "remove"}, ip : IPs, row : Row, ips : SUBSET IPs]
  /\ admin.pc = "selected" => admin.op # "none"
  /\ decision \in [IPs -> {"none", "approved", "revoked"}]

Drawn == 1..(nextId - 1)

\* What is or may come into the cache was asked for: the seeds, the active
\* rows, what a tick or a request has read, what a request is about to add.
AskedInTable == Seeds \cup Active(table) \subseteq asked

AskedInCore ==
  /\ cache \subseteq asked
  /\ tick.ips \subseteq asked
  /\ admin.ips \subseteq asked
  /\ admin.op = "add" => admin.ip \in asked

\* A row has a drawn id or is none at all; a request holds such a row, and
\* one it has written is a row.
IdsAreDrawn ==
  /\ \A ip \in IPs : Exists(table, ip) => table[ip].id \in Drawn
  /\ admin.row # NoRow => admin.row.id \in Drawn
  /\ admin.pc \in {"written", "refreshed"} /\ admin.op # "none" => admin.row.id \in Drawn
  /\ \A c \in Calls : call[c].pc = "checked" => call[c].id \in Drawn

\* Every id was drawn for one address: the row, the request and the
\* confirmation that hold it are about that address, and a confirmation is
\* about one that was asked for.  So no confirmation in flight can activate a
\* row other than the one its human saw, though rows come and go meanwhile.
OwnedBy(owner) ==
  /\ \A ip \in IPs : Exists(table, ip) => owner[table[ip].id] = ip
  /\ admin.row.id \in Drawn => owner[admin.row.id] = admin.ip
  /\ \A c \in Calls : call[c].pc = "checked" => owner[call[c].id] \in asked

IdsAreOwned == \E owner \in [Drawn -> IPs] : OwnedBy(owner)

WhitelistInv ==
  /\ WhitelistTypeOK
  /\ AskedInTable
  /\ AskedInCore
  /\ IdsAreDrawn
  /\ IdsAreOwned

-----------------------------------------------------------------------------
(***************************************************************************)
(* Lemmas.                                                                 *)
(***************************************************************************)
LEMMA SeedsAreAddresses == Seeds \subseteq IPs /\ Len(SeedFile) \in Nat
BY WhitelistAssumption DEF Seeds

LEMMA PositionOfSeed ==
  ASSUME NEW ip \in Seeds
  PROVE  Position(ip) \in 1..Len(SeedFile) /\ SeedFile[Position(ip)] = ip
BY DEF Seeds, Position

\* An import draws ids from n on, and its rows are the seeds, all active.
LEMMA SeedRowsProperties ==
  ASSUME NEW n \in Nat \ {0}
  PROVE  /\ SeedRows(n) \in [IPs -> Row]
         /\ Active(SeedRows(n)) = Seeds
         /\ \A ip \in IPs :
              Exists(SeedRows(n), ip) =>
                /\ SeedRows(n)[ip].id \in n..(n + Len(SeedFile) - 1)
                /\ SeedFile[SeedRows(n)[ip].id - n + 1] = ip
<1>1. /\ NoRow \in Row /\ NoRow.id = 0 /\ ~NoRow.active
      /\ Len(SeedFile) \in Nat
  BY SeedsAreAddresses DEF NoRow, Row
<1>2. \A ip \in Seeds :
        /\ Position(ip) \in 1..Len(SeedFile)
        /\ SeedFile[Position(ip)] = ip
        /\ n + Position(ip) - 1 \in Nat
  BY <1>1, PositionOfSeed
<1>3. /\ \A ip \in Seeds : /\ SeedRows(n)[ip].id = n + Position(ip) - 1
                          /\ SeedRows(n)[ip].active
      /\ \A ip \in IPs \ Seeds : SeedRows(n)[ip] = NoRow
  BY SeedsAreAddresses DEF SeedRows
<1>4. SeedRows(n) \in [IPs -> Row]
  BY <1>1, <1>2 DEF SeedRows, Row
<1>5. \A ip \in IPs : Exists(SeedRows(n), ip) <=> ip \in Seeds
  BY <1>1, <1>3 DEF Exists
<1>6. Active(SeedRows(n)) = Seeds
  BY <1>3, <1>5, SeedsAreAddresses DEF Active
<1>7. ASSUME NEW ip \in IPs, Exists(SeedRows(n), ip)
      PROVE  /\ SeedRows(n)[ip].id \in n..(n + Len(SeedFile) - 1)
             /\ SeedFile[SeedRows(n)[ip].id - n + 1] = ip
  <2>1. ip \in Seeds /\ SeedRows(n)[ip].id = n + Position(ip) - 1
    BY <1>3, <1>5, <1>7
  <2>2. SeedRows(n)[ip].id - n + 1 = Position(ip)
    BY <1>2, <2>1
  <2> QED
    BY <1>1, <1>2, <2>1, <2>2
<1> QED
  BY <1>4, <1>6, <1>7

LEMMA RequestType ==
  /\ NoRow \in Row
  /\ NoRequest \in [pc : {"idle", "selected", "written", "refreshed"},
                    op : {"none", "add", "remove"}, ip : IPs, row : Row, ips : SUBSET IPs]
  /\ NoRequest.pc = "idle" /\ NoRequest.op = "none"
  /\ NoRequest.row = NoRow /\ NoRow.id = 0
  /\ NoRequest.ips = {}
BY WhitelistAssumption DEF NoRequest, NoRow, Row

LEMMA WhitelistInvInit == Init => WhitelistInv
<1> SUFFICES ASSUME Init PROVE WhitelistInv
  OBVIOUS
<1>1. /\ table \in [IPs -> Row] /\ Active(table) = Seeds
      /\ nextId = Len(SeedFile) + 1 /\ Len(SeedFile) \in Nat
      /\ Drawn = 1..Len(SeedFile)
      /\ \A ip \in IPs :
           Exists(table, ip) => /\ table[ip].id \in Drawn
                                /\ SeedFile[table[ip].id] = ip
  <2>1. Len(SeedFile) \in Nat /\ Drawn = 1..Len(SeedFile)
    BY SeedsAreAddresses DEF Init, Drawn
  <2>2. \A ip \in IPs :
           Exists(table, ip) =>
             /\ table[ip].id \in 1..(1 + Len(SeedFile) - 1)
             /\ SeedFile[table[ip].id - 1 + 1] = ip
    BY SeedRowsProperties DEF Init
  <2>3. \A ip \in IPs : Exists(table, ip) => table[ip].id - 1 + 1 = table[ip].id
    BY <2>1, <2>2
  <2> QED
    BY <2>1, <2>2, <2>3, SeedRowsProperties DEF Init
<1>2. WhitelistTypeOK
  BY <1>1, RequestType DEF Init, WhitelistTypeOK, NoTick
<1>3. AskedInTable /\ AskedInCore
  BY <1>1, RequestType DEF Init, AskedInTable, AskedInCore, NoTick
<1>4. IdsAreDrawn
  BY <1>1, RequestType DEF Init, IdsAreDrawn
<1>5. IdsAreOwned
  <2>1. [i \in Drawn |-> SeedFile[i]] \in [Drawn -> IPs]
    BY <1>1, WhitelistAssumption
  <2>2. OwnedBy([i \in Drawn |-> SeedFile[i]])
    BY <1>1, RequestType DEF Init, OwnedBy
  <2> QED
    BY <2>1, <2>2 DEF IdsAreOwned
<1> QED
  BY <1>2, <1>3, <1>4, <1>5 DEF WhitelistInv

-----------------------------------------------------------------------------
(***************************************************************************)
(* The MCP server's steps.                                                 *)
(***************************************************************************)
\* A new id has no owner yet, so it can be given to the address it is for.
LEMMA DrawOne ==
  ASSUME WhitelistInv, nextId' = nextId + 1,
         NEW owner \in [Drawn -> IPs], NEW ip \in IPs
  PROVE  /\ Drawn' = Drawn \cup {nextId}
         /\ nextId \notin Drawn /\ nextId # 0
         /\ \E wider \in [Drawn' -> IPs] :
              /\ wider[nextId] = ip
              /\ \A i \in Drawn : wider[i] = owner[i]
<1> DEFINE w == [i \in Drawn' |-> IF i = nextId THEN ip ELSE owner[i]]
<1>1. /\ Drawn' = Drawn \cup {nextId}
      /\ nextId \notin Drawn /\ nextId # 0
  BY DEF WhitelistInv, WhitelistTypeOK, Drawn
<1>2. w \in [Drawn' -> IPs] /\ w[nextId] = ip /\ \A i \in Drawn : w[i] = owner[i]
  BY <1>1
<1> HIDE DEF w
<1> QED
  BY <1>1, <1>2

LEMMA RecommendKeepsInv ==
  ASSUME WhitelistInv, NEW ip \in IPs, Recommend(ip)
  PROVE  WhitelistInv'
<1> USE DEF WhitelistInv
<1>1. /\ table' = [table EXCEPT ![ip] = Pending(ip)]
      /\ Pending(ip) \in Row /\ ~Pending(ip).active
      /\ Pending(ip).id = IF Exists(table, ip) THEN table[ip].id ELSE nextId
      /\ UNCHANGED <<mcpVars, coreVars, decision, asked>>
  BY DEF Recommend, Pending, WhitelistTypeOK, Row
<1>2. /\ nextId \in Nat \ {0} /\ nextId' \in Nat \ {0}
      /\ nextId' = nextId \/ nextId' = nextId + 1
      /\ ~Exists(table, ip) => nextId' = nextId + 1
      /\ Drawn \subseteq Drawn'
  BY DEF Recommend, WhitelistTypeOK, Drawn
<1>3. /\ table' \in [IPs -> Row]
      /\ table'[ip] = Pending(ip)
      /\ \A jp \in IPs : jp # ip => table'[jp] = table[jp]
  BY <1>1 DEF WhitelistTypeOK
<1>4. Pending(ip).id \in Drawn'
  <2>1. CASE Exists(table, ip)
    BY <1>1, <1>2, <2>1 DEF IdsAreDrawn
  <2>2. CASE ~Exists(table, ip)
    <3>1. nextId \in Drawn'
      BY <1>2, <2>2 DEF Drawn
    <3>2. Pending(ip).id = nextId
      BY <1>1, <2>2
    <3> QED
      BY <3>1, <3>2
  <2> QED
    BY <2>1, <2>2
<1>5. WhitelistTypeOK'
  BY <1>1, <1>2, <1>3 DEF WhitelistTypeOK, mcpVars, coreVars
<1>6. AskedInTable' /\ AskedInCore'
  BY <1>1, <1>3 DEF AskedInTable, AskedInCore, Active, Exists, mcpVars, coreVars
<1>7. IdsAreDrawn'
  BY <1>1, <1>2, <1>3, <1>4 DEF IdsAreDrawn, Exists, mcpVars, coreVars
<1>8. IdsAreOwned'
  <2>1. PICK owner \in [Drawn -> IPs] : OwnedBy(owner)
    BY DEF IdsAreOwned
  <2>2. CASE Exists(table, ip)
    <3>1. Drawn' = Drawn
      BY <2>2 DEF Recommend, Drawn
    <3>2. OwnedBy(owner)'
      BY <1>1, <1>3, <2>1, <2>2, <3>1 DEF OwnedBy, Exists, mcpVars, coreVars
    <3> QED
      BY <3>1, <3>2 DEF IdsAreOwned
  <2>3. CASE ~Exists(table, ip)
    <3>1. Drawn' = Drawn \cup {nextId} /\ nextId \notin Drawn /\ nextId # 0
      BY <1>2, <2>1, <2>3, DrawOne
    <3>2. PICK wider \in [Drawn' -> IPs] :
            /\ wider[nextId] = ip
            /\ \A i \in Drawn : wider[i] = owner[i]
      BY <1>2, <2>1, <2>3, DrawOne
    <3>3. ASSUME NEW jp \in IPs, Exists(table', jp)
          PROVE  wider[table'[jp].id] = jp
      <4>1. CASE jp = ip
        BY <1>1, <1>3, <2>3, <3>2, <4>1
      <4>2. CASE jp # ip
        BY <1>3, <2>1, <3>2, <3>3, <4>2 DEF OwnedBy, Exists, IdsAreDrawn
      <4> QED
        BY <4>1, <4>2
    <3>4. admin'.row.id \in Drawn' => wider[admin'.row.id] = admin'.ip
      <4>1. admin.row.id = 0 \/ admin.row.id \in Drawn
        BY RequestType DEF IdsAreDrawn
      <4> QED
        BY <1>1, <2>1, <3>1, <3>2, <4>1 DEF OwnedBy, coreVars
    <3>5. \A c \in Calls : call'[c].pc = "checked" => wider[call'[c].id] \in asked'
      BY <1>1, <2>1, <3>2 DEF OwnedBy, IdsAreDrawn, mcpVars
    <3>6. OwnedBy(wider)'
      BY <3>3, <3>4, <3>5 DEF OwnedBy
    <3> QED
      BY <3>2, <3>6 DEF IdsAreOwned
  <2> QED
    BY <2>2, <2>3
<1> QED
  BY <1>5, <1>6, <1>7, <1>8

LEMMA ConfirmCheckKeepsInv ==
  ASSUME WhitelistInv, NEW c \in Calls, NEW ip \in IPs, ConfirmCheck(c, ip)
  PROVE  WhitelistInv'
<1> USE DEF WhitelistInv
<1>1. /\ Exists(table, ip)
      /\ call'[c] = [pc |-> "checked", id |-> table[ip].id]
      /\ \A d \in Calls : d # c => call'[d] = call[d]
      /\ call' \in [Calls -> [pc : {"idle", "checked", "answered"}, id : Nat]]
      /\ asked' = asked \cup {ip}
      /\ UNCHANGED <<table, nextId, coreVars, decision>>
      /\ Drawn' = Drawn
  BY DEF ConfirmCheck, WhitelistTypeOK, Row, Drawn
<1>2. WhitelistTypeOK'
  BY <1>1 DEF WhitelistTypeOK, coreVars
<1>3. AskedInTable' /\ AskedInCore'
  BY <1>1 DEF AskedInTable, AskedInCore, Active, coreVars
<1>4. IdsAreDrawn'
  BY <1>1 DEF IdsAreDrawn, coreVars
<1>5. IdsAreOwned'
  <2>1. PICK owner \in [Drawn -> IPs] : OwnedBy(owner)
    BY DEF IdsAreOwned
  <2>2. OwnedBy(owner)'
    BY <1>1, <2>1 DEF OwnedBy, coreVars
  <2> QED
    BY <1>1, <2>1, <2>2 DEF IdsAreOwned
<1> QED
  BY <1>2, <1>3, <1>4, <1>5

\* Whatever row carries the id by now, it is the one its human saw.
LEMMA ConfirmWriteKeepsInv ==
  ASSUME WhitelistInv, NEW c \in Calls, ConfirmWrite(c)
  PROVE  WhitelistInv'
<1> USE DEF WhitelistInv
<1>1. /\ call[c].pc = "checked" /\ call[c].id \in Drawn
      /\ call'[c].pc = "answered"
      /\ \A d \in Calls : d # c => call'[d] = call[d]
      /\ call' \in [Calls -> [pc : {"idle", "checked", "answered"}, id : Nat]]
      /\ UNCHANGED <<nextId, coreVars, asked>>
      /\ Drawn' = Drawn
  BY DEF ConfirmWrite, WhitelistTypeOK, IdsAreDrawn, Drawn
<1>2. PICK owner \in [Drawn -> IPs] : OwnedBy(owner)
  BY DEF IdsAreOwned
<1>3. CASE UNCHANGED <<table, decision>>
  <2>1. WhitelistTypeOK' /\ AskedInTable' /\ AskedInCore'
    BY <1>1, <1>3 DEF WhitelistTypeOK, AskedInTable, AskedInCore, Active, coreVars
  <2>2. IdsAreDrawn'
    BY <1>1, <1>3 DEF IdsAreDrawn, coreVars
  <2>3. OwnedBy(owner)'
    BY <1>1, <1>2, <1>3 DEF OwnedBy, coreVars
  <2> QED
    BY <1>1, <1>2, <2>1, <2>2, <2>3 DEF IdsAreOwned
<1>4. ASSUME NEW ip \in IPs, table[ip].id = call[c].id,
             table' = [table EXCEPT ![ip].active = TRUE],
             Decided(ip, "approved")
      PROVE  WhitelistInv'
  <2>1. /\ table' \in [IPs -> Row]
        /\ table'[ip].id = table[ip].id
        /\ \A jp \in IPs : jp # ip => table'[jp] = table[jp]
    BY <1>4 DEF WhitelistTypeOK, Row
  <2>2. Exists(table, ip)
    BY <1>1, <1>4 DEF Exists, NoRow, Drawn
  <2>3. owner[call[c].id] = ip /\ owner[call[c].id] \in asked
    BY <1>1, <1>2, <1>4, <2>2 DEF OwnedBy
  <2>4. WhitelistTypeOK'
    BY <1>1, <1>4, <2>1 DEF WhitelistTypeOK, Decided, coreVars
  <2>5. AskedInTable' /\ AskedInCore'
    BY <1>1, <2>1, <2>3 DEF AskedInTable, AskedInCore, Active, Exists, coreVars
  <2>6. IdsAreDrawn'
    BY <1>1, <2>1, <2>2 DEF IdsAreDrawn, Exists, coreVars
  <2>7. OwnedBy(owner)'
    BY <1>1, <1>2, <2>1, <2>2 DEF OwnedBy, Exists, coreVars
  <2> QED
    BY <1>1, <1>2, <2>4, <2>5, <2>6, <2>7 DEF IdsAreOwned
<1> QED
  BY <1>3, <1>4 DEF ConfirmWrite

LEMMA RemoveKeepsInv ==
  ASSUME WhitelistInv, NEW ip \in IPs, Remove(ip)
  PROVE  WhitelistInv'
<1> USE DEF WhitelistInv
<1>1. /\ table' \in [IPs -> Row]
      /\ table'[ip] = NoRow
      /\ \A jp \in IPs : jp # ip => table'[jp] = table[jp]
      /\ UNCHANGED <<nextId, mcpVars, coreVars, asked>>
      /\ Drawn' = Drawn
  BY RequestType DEF Remove, Without, WhitelistTypeOK, Drawn
<1>2. WhitelistTypeOK'
  BY <1>1 DEF WhitelistTypeOK, Remove, Decided, mcpVars, coreVars
<1>3. AskedInTable' /\ AskedInCore'
  BY <1>1 DEF AskedInTable, AskedInCore, Active, Exists, coreVars
<1>4. IdsAreDrawn'
  BY <1>1 DEF IdsAreDrawn, Exists, mcpVars, coreVars
<1>5. IdsAreOwned'
  <2>1. PICK owner \in [Drawn -> IPs] : OwnedBy(owner)
    BY DEF IdsAreOwned
  <2>2. OwnedBy(owner)'
    BY <1>1, <2>1 DEF OwnedBy, Exists, mcpVars, coreVars
  <2> QED
    BY <1>1, <2>1, <2>2 DEF IdsAreOwned
<1> QED
  BY <1>2, <1>3, <1>4, <1>5

-----------------------------------------------------------------------------
(***************************************************************************)
(* The steps of Core that leave the table and the ids alone: what they     *)
(* read is active or asked for, what they put into the cache was read.     *)
(***************************************************************************)
LEMMA CoreReadsKeepInv ==
  ASSUME WhitelistInv, WhitelistTypeOK', AskedInCore',
         asked \subseteq asked',
         admin'.row # NoRow => admin'.row.id \in Drawn,
         admin'.pc \in {"written", "refreshed"} /\ admin'.op # "none"
           => admin'.row.id \in Drawn,
         \A owner \in [Drawn -> IPs] :
           OwnedBy(owner) /\ admin'.row.id \in Drawn => owner[admin'.row.id] = admin'.ip,
         UNCHANGED <<table, nextId, call>>
  PROVE  WhitelistInv'
<1> USE DEF WhitelistInv
<1>1. Drawn' = Drawn
  BY DEF Drawn
<1>2. AskedInTable'
  BY DEF AskedInTable, Active
<1>3. IdsAreDrawn'
  BY <1>1 DEF IdsAreDrawn
<1>4. IdsAreOwned'
  <2>1. PICK owner \in [Drawn -> IPs] : OwnedBy(owner)
    BY DEF IdsAreOwned
  <2>2. OwnedBy(owner)'
    BY <1>1, <2>1 DEF OwnedBy
  <2> QED
    BY <1>1, <2>1, <2>2 DEF IdsAreOwned
<1> QED
  BY <1>2, <1>3, <1>4

LEMMA AdminSelectKeepsInv ==
  ASSUME WhitelistInv, NEW op \in {"add", "remove"}, NEW ip \in IPs, AdminSelect(op, ip)
  PROVE  WhitelistInv'
<1> USE DEF WhitelistInv
<1>1. /\ admin' = [pc |-> "selected", op |-> op, ip |-> ip, row |-> table[ip], ips |-> {}]
      /\ asked' = IF op = "add" THEN asked \cup {ip} ELSE asked
      /\ UNCHANGED <<table, nextId, mcpVars, cache, tick, decision>>
      /\ table[ip] \in Row
  BY DEF AdminSelect, WhitelistTypeOK
<1>2. WhitelistTypeOK'
  BY <1>1 DEF WhitelistTypeOK, mcpVars
<1>3. AskedInCore'
  BY <1>1 DEF AskedInCore
<1>4. /\ admin'.row = table[ip] /\ admin'.ip = ip /\ admin'.pc = "selected"
      /\ admin'.row # NoRow => admin'.row.id \in Drawn
  BY <1>1 DEF IdsAreDrawn, Exists
<1>5. ASSUME NEW owner \in [Drawn -> IPs], OwnedBy(owner), admin'.row.id \in Drawn
      PROVE  owner[admin'.row.id] = admin'.ip
  <2>1. Exists(table, ip)
    BY <1>4, <1>5 DEF Exists, NoRow, Drawn
  <2> QED
    BY <1>4, <1>5, <2>1 DEF OwnedBy
<1> QED
  BY <1>1, <1>2, <1>3, <1>4, <1>5, CoreReadsKeepInv DEF mcpVars

\* The rows a request reads back are the committed ones and its own.
LEMMA WithIsAsked ==
  ASSUME WhitelistInv, NEW n \in Nat,
         NEW r, r.ip = admin.ip, r.op = admin.op, r.row.id = n,
         admin.op \in {"add", "remove"}
  PROVE  Active(With(r)) \subseteq asked /\ With(r) \in [IPs -> Row]
<1> USE DEF WhitelistInv
<1>1. PICK b \in BOOLEAN :
        /\ With(r) = [table EXCEPT ![admin.ip] = IF admin.op = "remove" THEN NoRow
                                                 ELSE [id |-> n, active |-> b]]
        /\ admin.ip \in IPs
  BY DEF With, WhitelistTypeOK, Row
<1>2. With(r) \in [IPs -> Row]
  BY <1>1, RequestType DEF WhitelistTypeOK, Row
<1>3. \A ip \in IPs : ip # admin.ip => With(r)[ip] = table[ip]
  BY <1>1 DEF WhitelistTypeOK
<1>4. admin.op = "remove" => With(r)[admin.ip] = NoRow
  BY <1>1 DEF WhitelistTypeOK
<1> QED
  BY <1>2, <1>3, <1>4 DEF Active, Exists, AskedInTable, AskedInCore

\* A request that inserts a row draws its id, one that finds a row keeps it.
LEMMA AdminWriteKeepsInv == ASSUME WhitelistInv, AdminWrite PROVE WhitelistInv'
<1> USE DEF WhitelistInv
<1> DEFINE new == admin.row = NoRow
           r == IF new THEN [admin EXCEPT !.row.id = nextId] ELSE admin
<1>1. /\ admin.pc = "selected" /\ admin.op \in {"add", "remove"}
      /\ admin.row \in Row /\ admin.ip \in IPs /\ nextId \in Nat \ {0}
      /\ admin' = [r EXCEPT !.pc = "written", !.ips = Active(With(r))]
      /\ nextId' = IF new THEN nextId + 1 ELSE nextId
      /\ UNCHANGED <<table, mcpVars, cache, tick, decision, asked>>
  BY DEF AdminWrite, WhitelistTypeOK
<1>2. /\ r.ip = admin.ip /\ r.op = admin.op /\ r.row \in Row
      /\ r.row.id = IF new THEN nextId ELSE admin.row.id
      /\ r \in [pc : {"idle", "selected", "written", "refreshed"},
                op : {"none", "add", "remove"}, ip : IPs, row : Row, ips : SUBSET IPs]
  BY <1>1 DEF WhitelistTypeOK, Row
<1> HIDE DEF r
<1>3. Active(With(r)) \subseteq asked
  <2>1. r.row.id \in Nat
    BY <1>1, <1>2 DEF Row
  <2> QED
    BY <1>1, <1>2, <2>1, WithIsAsked
<1>4. /\ admin' \in [pc : {"idle", "selected", "written", "refreshed"},
                     op : {"none", "add", "remove"}, ip : IPs, row : Row,
                     ips : SUBSET IPs]
      /\ admin'.pc = "written" /\ admin'.op = admin.op /\ admin'.ip = admin.ip
      /\ admin'.row = r.row /\ admin'.ips = Active(With(r))
  BY <1>1, <1>2 DEF Active
<1>5. WhitelistTypeOK'
  BY <1>1, <1>4 DEF WhitelistTypeOK, mcpVars
<1>6. AskedInTable' /\ AskedInCore'
  BY <1>1, <1>3, <1>4 DEF AskedInTable, AskedInCore, Active
<1>7. Drawn \subseteq Drawn' /\ r.row.id \in Drawn'
  BY <1>1, <1>2 DEF Drawn, IdsAreDrawn
<1>8. IdsAreDrawn'
  BY <1>1, <1>4, <1>7 DEF IdsAreDrawn, mcpVars
<1>9. IdsAreOwned'
  <2>1. PICK owner \in [Drawn -> IPs] : OwnedBy(owner)
    BY DEF IdsAreOwned
  <2>2. CASE new
    <3>1. /\ Drawn' = Drawn \cup {nextId}
          /\ \E wider \in [Drawn' -> IPs] :
               /\ wider[nextId] = admin.ip
               /\ \A i \in Drawn : wider[i] = owner[i]
      BY <1>1, <2>1, <2>2, DrawOne
    <3>2. PICK wider \in [Drawn' -> IPs] :
            /\ wider[nextId] = admin.ip
            /\ \A i \in Drawn : wider[i] = owner[i]
      BY <3>1
    <3>3. OwnedBy(wider)'
      BY <1>1, <1>2, <1>4, <2>1, <2>2, <3>2 DEF OwnedBy, IdsAreDrawn, mcpVars
    <3> QED
      BY <3>2, <3>3 DEF IdsAreOwned
  <2>3. CASE ~new
    <3>1. Drawn' = Drawn
      BY <1>1, <2>3 DEF Drawn
    <3>2. OwnedBy(owner)'
      BY <1>1, <1>2, <1>4, <2>1, <2>3, <3>1 DEF OwnedBy, mcpVars
    <3> QED
      BY <3>1, <3>2 DEF IdsAreOwned
  <2> QED
    BY <2>2, <2>3
<1> QED
  BY <1>5, <1>6, <1>8, <1>9

\* A request that goes on without a write, that shows Core what it has read,
\* or that is rolled back; a tick.
LEMMA CoreStepsKeepInv ==
  ASSUME WhitelistInv,
         \/ AdminWriteNothing \/ AdminRefresh \/ AdminFails
         \/ TickRead \/ TickWrite \/ TickFails
  PROVE  WhitelistInv'
<1> USE DEF WhitelistInv
<1>1. /\ UNCHANGED <<table, nextId, mcpVars, decision, asked>>
      /\ Active(table) \subseteq asked /\ Active(table) \subseteq IPs
  BY DEF AdminWriteNothing, AdminRefresh, AdminFails, TickRead, TickWrite, TickFails,
         AskedInTable, Active
<1>2. CASE AdminWriteNothing
  <2>1. /\ admin'.row = admin.row /\ admin'.ip = admin.ip /\ admin'.op = "none"
        /\ admin'.pc = "written" /\ admin'.ips = Active(table)
        /\ UNCHANGED <<cache, tick>>
        /\ admin' \in [pc : {"idle", "selected", "written", "refreshed"},
                       op : {"none", "add", "remove"}, ip : IPs, row : Row,
                       ips : SUBSET IPs]
    BY <1>1, <1>2 DEF AdminWriteNothing, WhitelistTypeOK
  <2>2. WhitelistTypeOK' /\ AskedInCore'
    BY <1>1, <2>1 DEF WhitelistTypeOK, AskedInCore, mcpVars
  <2> QED
    BY <1>1, <2>1, <2>2, CoreReadsKeepInv DEF IdsAreDrawn, OwnedBy, mcpVars
<1>3. CASE AdminRefresh
  <2>1. /\ admin'.row = admin.row /\ admin'.ip = admin.ip /\ admin'.op = admin.op
        /\ admin.pc = "written" /\ admin'.pc = "refreshed"
        /\ admin'.ips = admin.ips /\ cache' = admin.ips /\ UNCHANGED tick
        /\ admin' \in [pc : {"idle", "selected", "written", "refreshed"},
                       op : {"none", "add", "remove"}, ip : IPs, row : Row,
                       ips : SUBSET IPs]
    BY <1>3 DEF AdminRefresh, WhitelistTypeOK
  <2>2. WhitelistTypeOK' /\ AskedInCore'
    BY <1>1, <2>1 DEF WhitelistTypeOK, AskedInCore, mcpVars
  <2> QED
    BY <1>1, <2>1, <2>2, CoreReadsKeepInv DEF IdsAreDrawn, OwnedBy, mcpVars
<1>4. CASE AdminFails
  <2>1. admin' = NoRequest /\ UNCHANGED <<cache, tick>>
    BY <1>4 DEF AdminFails
  <2>2. WhitelistTypeOK' /\ AskedInCore'
    BY <1>1, <2>1, RequestType DEF WhitelistTypeOK, AskedInCore, mcpVars
  <2>3. admin'.row.id \notin Drawn /\ admin'.row = NoRow /\ admin'.pc = "idle"
    BY <2>1, RequestType DEF Drawn
  <2> QED
    BY <1>1, <2>2, <2>3, CoreReadsKeepInv DEF mcpVars
<1>5. CASE TickRead \/ TickWrite \/ TickFails
  <2>1. UNCHANGED admin
    BY <1>5 DEF TickRead, TickWrite, TickFails
  <2>2. /\ tick' = NoTick \/ tick' = [busy |-> TRUE, ips |-> Active(table)]
        /\ cache' \in {cache, tick.ips}
    BY <1>5 DEF TickRead, TickWrite, TickFails
  <2>3. /\ tick' \in [busy : BOOLEAN, ips : SUBSET IPs]
        /\ tick'.ips \subseteq asked
    <3>1. CASE tick' = NoTick
      BY <3>1 DEF NoTick
    <3>2. CASE tick' = [busy |-> TRUE, ips |-> Active(table)]
      BY <1>1, <3>2
    <3> QED
      BY <2>2, <3>1, <3>2
  <2>4. WhitelistTypeOK' /\ AskedInCore'
    BY <1>1, <2>1, <2>2, <2>3 DEF WhitelistTypeOK, AskedInCore, mcpVars
  <2> QED
    BY <1>1, <2>1, <2>4, CoreReadsKeepInv DEF IdsAreDrawn, OwnedBy, mcpVars
<1> QED
  BY <1>2, <1>3, <1>4, <1>5

LEMMA AdminCommitKeepsInv == ASSUME WhitelistInv, AdminCommit PROVE WhitelistInv'
<1> USE DEF WhitelistInv
<1>1. /\ admin.pc = "refreshed" /\ admin' = NoRequest
      /\ UNCHANGED <<nextId, mcpVars, cache, tick, asked>>
      /\ Drawn' = Drawn
  BY DEF AdminCommit, Drawn
<1>2. /\ admin'.row = NoRow /\ admin'.pc = "idle" /\ admin'.op = "none"
      /\ admin'.row.id \notin Drawn
  BY <1>1, RequestType DEF Drawn
<1>3. CASE admin.op = "none"
  <2>1. UNCHANGED <<table, decision>>
    BY <1>3 DEF AdminCommit
  <2>2. WhitelistTypeOK' /\ AskedInCore'
    BY <1>1, <2>1, RequestType DEF WhitelistTypeOK, AskedInCore, mcpVars
  <2> QED
    BY <1>1, <1>2, <2>1, <2>2, CoreReadsKeepInv DEF mcpVars
<1>4. CASE admin.op # "none"
  <2>1. /\ table' = With(admin)
        /\ Decided(admin.ip, IF admin.op = "add" THEN "approved" ELSE "revoked")
        /\ admin.op \in {"add", "remove"} /\ admin.row.id \in Nat /\ admin.ip \in IPs
        /\ admin.row.id \in Drawn
    BY <1>1, <1>4 DEF AdminCommit, WhitelistTypeOK, Row, IdsAreDrawn
  <2>2. Active(table') \subseteq asked /\ table' \in [IPs -> Row]
    BY <2>1, WithIsAsked
  <2>3. \A ip \in IPs :
          \/ ip # admin.ip /\ table'[ip] = table[ip]
          \/ ip = admin.ip /\ table'[ip] = NoRow
          \/ ip = admin.ip /\ table'[ip].id = admin.row.id
    BY <2>1 DEF With, WhitelistTypeOK
  <2>4. WhitelistTypeOK'
    BY <1>1, <2>1, <2>2, RequestType DEF WhitelistTypeOK, Decided, mcpVars
  <2>5. AskedInTable' /\ AskedInCore'
    BY <1>1, <2>2, RequestType DEF AskedInTable, AskedInCore, Active
  <2>6. IdsAreDrawn'
    BY <1>1, <1>2, <2>1, <2>3 DEF IdsAreDrawn, Exists, mcpVars
  <2>7. IdsAreOwned'
    <3>1. PICK owner \in [Drawn -> IPs] : OwnedBy(owner)
      BY DEF IdsAreOwned
    <3>2. OwnedBy(owner)'
      BY <1>1, <1>2, <2>1, <2>3, <3>1 DEF OwnedBy, Exists, mcpVars
    <3> QED
      BY <1>1, <3>1, <3>2 DEF IdsAreOwned
  <2> QED
    BY <2>4, <2>5, <2>6, <2>7
<1> QED
  BY <1>3, <1>4

\* A restart that imports the seed draws an id for each of its addresses.
LEMMA RestartKeepsInv == ASSUME WhitelistInv, Restart PROVE WhitelistInv'
<1> USE DEF WhitelistInv
<1>1. /\ cache' = Active(table') /\ tick' = NoTick /\ admin' = NoRequest
      /\ decision' = [ip \in IPs |-> IF table'[ip] # table[ip] THEN "approved" ELSE decision[ip]]
      /\ UNCHANGED <<mcpVars, asked>>
      /\ nextId \in Nat \ {0} /\ Len(SeedFile) \in Nat
  BY SeedsAreAddresses DEF Restart, WhitelistTypeOK
<1>2. PICK owner \in [Drawn -> IPs] : OwnedBy(owner)
  BY DEF IdsAreOwned
<1>3. \/ UNCHANGED <<table, nextId>>
      \/ table' = SeedRows(nextId) /\ nextId' = nextId + Len(SeedFile)
  BY DEF Restart
<1>4. /\ table' \in [IPs -> Row]
      /\ nextId' \in Nat \ {0}
      /\ Seeds \cup Active(table') \subseteq asked
      /\ Active(table') \subseteq IPs
  BY <1>1, <1>3, SeedRowsProperties, SeedsAreAddresses
     DEF WhitelistTypeOK, AskedInTable, Active
<1>5. PICK wider \in [Drawn' -> IPs] :
        /\ Drawn \subseteq Drawn'
        /\ \A i \in Drawn : wider[i] = owner[i]
        /\ \A ip \in IPs :
             Exists(table', ip) => /\ table'[ip].id \in Drawn'
                                   /\ wider[table'[ip].id] = ip
  <2>1. CASE UNCHANGED <<table, nextId>>
    BY <1>2, <2>1 DEF Drawn, OwnedBy, IdsAreDrawn, Exists
  <2>2. CASE table' = SeedRows(nextId) /\ nextId' = nextId + Len(SeedFile)
    <3> DEFINE w == [i \in Drawn' |-> IF i \in Drawn THEN owner[i]
                                      ELSE SeedFile[i - nextId + 1]]
    <3>1. /\ Drawn \subseteq Drawn'
          /\ \A i \in nextId..(nextId + Len(SeedFile) - 1) : i \in Drawn' /\ i \notin Drawn
          /\ \A i \in Drawn' \ Drawn : i - nextId + 1 \in 1..Len(SeedFile)
      BY <1>1, <2>2 DEF Drawn
    <3>2. \A i \in 1..Len(SeedFile) : SeedFile[i] \in IPs
      BY WhitelistAssumption
    <3>3. w \in [Drawn' -> IPs] /\ \A i \in Drawn : w[i] = owner[i]
      BY <3>1, <3>2
    <3>4. ASSUME NEW ip \in IPs, Exists(table', ip)
          PROVE  table'[ip].id \in Drawn' /\ w[table'[ip].id] = ip
      <4>1. /\ table'[ip].id \in nextId..(nextId + Len(SeedFile) - 1)
            /\ SeedFile[table'[ip].id - nextId + 1] = ip
        BY <1>1, <2>2, <3>4, SeedRowsProperties
      <4> QED
        BY <3>1, <4>1
    <3> HIDE DEF w
    <3> QED
      BY <3>1, <3>3, <3>4
  <2> QED
    BY <1>3, <2>1, <2>2
<1>6. WhitelistTypeOK'
  <2>1. tick' \in [busy : BOOLEAN, ips : SUBSET IPs]
    BY <1>1 DEF NoTick
  <2>2. decision' \in [IPs -> {"none", "approved", "revoked"}]
    BY <1>1 DEF WhitelistTypeOK
  <2> QED
    BY <1>1, <1>4, <2>1, <2>2, RequestType DEF WhitelistTypeOK, mcpVars
<1>7. AskedInTable' /\ AskedInCore'
  <2>1. tick'.ips = {}
    BY <1>1 DEF NoTick
  <2> QED
    BY <1>1, <1>4, <2>1, RequestType DEF AskedInTable, AskedInCore, Active, Exists
<1>8. /\ admin'.row = NoRow /\ admin'.pc = "idle" /\ admin'.row.id \notin Drawn'
  BY <1>1, RequestType DEF Drawn
<1>9. IdsAreDrawn'
  BY <1>1, <1>5, <1>8 DEF IdsAreDrawn, Exists, mcpVars
<1>10. IdsAreOwned'
  <2>1. OwnedBy(wider)'
    BY <1>1, <1>2, <1>5, <1>8 DEF OwnedBy, IdsAreDrawn, Exists, mcpVars
  <2> QED
    BY <1>5, <2>1 DEF IdsAreOwned
<1> QED
  BY <1>6, <1>7, <1>9, <1>10

LEMMA WhitelistInvStep == WhitelistInv /\ [Next]_vars => WhitelistInv'
<1> SUFFICES ASSUME WhitelistInv, [Next]_vars
             PROVE  WhitelistInv'
  OBVIOUS
<1>1. CASE \E ip \in IPs : Recommend(ip) \/ Remove(ip)
  BY <1>1, RecommendKeepsInv, RemoveKeepsInv
<1>2. CASE \E c \in Calls : ConfirmWrite(c) \/ \E ip \in IPs : ConfirmCheck(c, ip)
  BY <1>2, ConfirmWriteKeepsInv, ConfirmCheckKeepsInv
<1>3. CASE \E op \in {"add", "remove"}, ip \in IPs : AdminSelect(op, ip)
  BY <1>3, AdminSelectKeepsInv
<1>4. CASE AdminStep \/ TickRead \/ TickWrite \/ TickFails
  BY <1>4, AdminWriteKeepsInv, AdminCommitKeepsInv, CoreStepsKeepInv DEF AdminStep
<1>5. CASE Restart
  BY <1>5, RestartKeepsInv
<1>6. CASE UNCHANGED vars
  <2>1. UNCHANGED <<table, nextId, call, cache, tick, admin, decision, asked>>
    BY <1>6 DEF vars, mcpVars, coreVars
  <2>2. WhitelistTypeOK' /\ AskedInCore'
    BY <2>1 DEF WhitelistInv, WhitelistTypeOK, AskedInCore
  <2> QED
    BY <2>1, <2>2, CoreReadsKeepInv DEF WhitelistInv, IdsAreDrawn, OwnedBy
<1> QED
  BY <1>1, <1>2, <1>3, <1>4, <1>5, <1>6 DEF Next

\* The inductive invariant holds in every state of the table, Core's cache and
\* the calls.
THEOREM WhitelistInvariant == Spec => []WhitelistInv
BY WhitelistInvInit, WhitelistInvStep, PTL DEF Spec

-----------------------------------------------------------------------------
(***************************************************************************)
(* What it gives.                                                          *)
(***************************************************************************)

\* Every variable of the whitelist has its type.
THEOREM WhitelistTypeCorrect == Spec => []WhitelistTypeOK
<1>1. WhitelistInv => WhitelistTypeOK
  BY DEF WhitelistInv
<1> QED
  BY <1>1, WhitelistInvariant, PTL

\* No id is ever shared by two rows or reused: what a request or a
\* confirmation holds is about one address for good.
THEOREM IdsHaveOneOwner == Spec => []IdsAreOwned
<1>1. WhitelistInv => IdsAreOwned
  BY DEF WhitelistInv
<1> QED
  BY <1>1, WhitelistInvariant, PTL

\* Core never exempts an address that no human asked for, for any number of
\* confirmations in flight, overlapping ticks, rollbacks and restarts.
THEOREM CachedWereAsked == Spec => []CacheWasAsked
<1>1. WhitelistInv => CacheWasAsked
  BY DEF WhitelistInv, AskedInCore, CacheWasAsked
<1> QED
  BY <1>1, WhitelistInvariant, PTL

-----------------------------------------------------------------------------
(***************************************************************************)
(* The refinement of HumanGate: the table's active rows are what is in     *)
(* force, and the abstract decisions are the model's own.                  *)
(***************************************************************************)
LEMMA InitIsGate == Init => Gate!GateInit
<1> SUFFICES ASSUME Init PROVE Gate!GateInit
  OBVIOUS
<1>1. Active(table) = Seeds /\ Seeds \subseteq IPs
  BY SeedRowsProperties, SeedsAreAddresses DEF Init
<1>2. decision = [ip \in IPs |-> IF ip \in Seeds THEN "approved" ELSE "none"]
  BY DEF Init
<1>3. decision \in [IPs -> {"none", "approved"}]
  BY <1>2
<1>4. Active(table) = {ip \in IPs : decision[ip] = "approved"}
  BY <1>1, <1>2
<1> QED
  BY <1>3, <1>4 DEF Gate!GateInit

\* A row whose change is announced as an approval adds at most its address, and
\* does not take it away.
LEMMA ApprovalIsGate ==
  ASSUME WhitelistTypeOK, NEW ip \in IPs, Decided(ip, "approved"),
         \A jp \in IPs : jp # ip => table'[jp] = table[jp],
         Exists(table', ip), table[ip].active => table'[ip].active
  PROVE  Gate!GateNext
<1>1. decision' = [jp \in IPs |-> IF jp \in {ip} THEN "approved" ELSE decision[jp]]
  BY DEF Decided, WhitelistTypeOK
<1>2. /\ Active(table) \subseteq Active(table')
      /\ Active(table') \subseteq Active(table) \cup {ip}
  BY DEF Active, Exists
<1>3. Gate!Approve({ip})
  BY <1>1, <1>2 DEF Gate!Approve, Active
<1> QED
  BY <1>3 DEF Gate!GateNext

\* A row that is removed, as a human decided, leaves force.
LEMMA RemovalIsGate ==
  ASSUME WhitelistTypeOK, NEW ip \in IPs, Decided(ip, "revoked"),
         \A jp \in IPs : jp # ip => table'[jp] = table[jp],
         table'[ip] = NoRow
  PROVE  Gate!GateNext
<1>1. Active(table') = Active(table) \ {ip}
  BY DEF Active, Exists
<1>2. Gate!Revoke(ip)
  BY <1>1 DEF Gate!Revoke, Decided, Active
<1> QED
  BY <1>2 DEF Gate!GateNext

LEMMA StepIsGate == WhitelistInv /\ [Next]_vars => [Gate!GateNext]_(Gate!gateVars)
<1> SUFFICES ASSUME WhitelistInv, [Next]_vars
             PROVE  Gate!GateNext \/ UNCHANGED Gate!gateVars
  OBVIOUS
<1> USE DEF WhitelistInv
<1>1. ASSUME NEW ip \in IPs, Recommend(ip) PROVE Gate!GateNext
  <2>1. /\ table' \in [IPs -> Row] /\ decision' = decision
        /\ \A jp \in IPs : jp # ip => table'[jp] = table[jp]
        /\ ~table'[ip].active
    BY <1>1 DEF Recommend, Pending, WhitelistTypeOK, Row
  <2>2. Active(table') = Active(table) \ {ip}
    BY <2>1 DEF Active, Exists
  <2>3. Gate!Lift(ip)
    BY <2>1, <2>2 DEF Gate!Lift, Active
  <2> QED
    BY <2>3 DEF Gate!GateNext
<1>2. ASSUME NEW ip \in IPs, Remove(ip) PROVE Gate!GateNext
  <2>1. /\ table'[ip] = NoRow /\ Decided(ip, "revoked")
        /\ \A jp \in IPs : jp # ip => table'[jp] = table[jp]
    BY <1>2 DEF Remove, Without, WhitelistTypeOK
  <2> QED
    BY <2>1, RemovalIsGate
<1>3. ASSUME NEW c \in Calls, ConfirmWrite(c)
      PROVE  Gate!GateNext \/ UNCHANGED Gate!gateVars
  <2>1. CASE UNCHANGED <<table, decision>>
    BY <2>1 DEF Gate!gateVars, Active
  <2>2. ASSUME NEW ip \in IPs, table[ip].id = call[c].id,
               table' = [table EXCEPT ![ip].active = TRUE], Decided(ip, "approved")
        PROVE  Gate!GateNext
    <3>1. /\ table'[ip].active /\ table'[ip].id = table[ip].id
          /\ \A jp \in IPs : jp # ip => table'[jp] = table[jp]
      BY <2>2 DEF WhitelistTypeOK, Row
    <3>2. Exists(table', ip)
      BY <1>3, <2>2, <3>1 DEF ConfirmWrite, IdsAreDrawn, Drawn, Exists, NoRow
    <3> QED
      BY <2>2, <3>1, <3>2, ApprovalIsGate
  <2> QED
    BY <1>3, <2>1, <2>2 DEF ConfirmWrite
<1>4. CASE AdminCommit
  <2>1. CASE admin.op = "none"
    BY <1>4, <2>1 DEF AdminCommit, Gate!gateVars, Active
  <2>2. CASE admin.op # "none"
    <3>1. /\ table' = With(admin)
          /\ Decided(admin.ip, IF admin.op = "add" THEN "approved" ELSE "revoked")
          /\ admin.op \in {"add", "remove"} /\ admin.ip \in IPs
      BY <1>4, <2>2 DEF AdminCommit, WhitelistTypeOK
    <3>2. \A jp \in IPs : jp # admin.ip => table'[jp] = table[jp]
      BY <3>1 DEF With, WhitelistTypeOK
    <3>3. CASE admin.op = "add"
      <4>1. table'[admin.ip] =
              [id |-> admin.row.id,
               active |-> IF admin.row.active THEN table[admin.ip].active ELSE TRUE]
        BY <3>1, <3>3 DEF With, WhitelistTypeOK
      <4>2. /\ table[admin.ip].active => table'[admin.ip].active
            /\ admin.row.id # 0
        BY <1>4, <2>2, <4>1 DEF AdminCommit, IdsAreDrawn, Drawn
      <4>3. Exists(table', admin.ip)
        BY <4>1, <4>2 DEF Exists, NoRow
      <4> QED
        BY <3>1, <3>2, <3>3, <4>2, <4>3, ApprovalIsGate
    <3>4. CASE admin.op = "remove"
      <4>1. table'[admin.ip] = NoRow
        BY <3>1, <3>4 DEF With, WhitelistTypeOK
      <4> QED
        BY <3>1, <3>2, <3>4, <4>1, RemovalIsGate
    <3> QED
      BY <3>1, <3>3, <3>4
  <2> QED
    BY <2>1, <2>2
<1>5. CASE Restart
  <2>1. CASE UNCHANGED <<table, nextId>>
    <3>1. decision' = decision
      BY <1>5, <2>1 DEF Restart, WhitelistTypeOK
    <3> QED
      BY <2>1, <3>1 DEF Gate!gateVars, Active
  <2>2. CASE Empty(table) /\ table' = SeedRows(nextId)
    <3> DEFINE S == {ip \in IPs : table'[ip] # table[ip]}
    <3>1. decision' = [ip \in IPs |-> IF ip \in S THEN "approved" ELSE decision[ip]]
      BY <1>5 DEF Restart
    <3>2. /\ Active(table) = {}
          /\ Active(table') \subseteq S
      BY <2>2 DEF Empty, Active, Exists
    <3>3. Gate!Approve(S)
      BY <3>1, <3>2 DEF Gate!Approve, Active
    <3> QED
      BY <3>3 DEF Gate!GateNext
  <2> QED
    BY <1>5, <2>1, <2>2 DEF Restart
<1>6. ASSUME UNCHANGED <<table, decision>> PROVE UNCHANGED Gate!gateVars
  BY <1>6 DEF Gate!gateVars, Active
<1>7. CASE \/ \E c \in Calls, ip \in IPs : ConfirmCheck(c, ip)
           \/ \E op \in {"add", "remove"}, ip \in IPs : AdminSelect(op, ip)
  BY <1>6, <1>7 DEF ConfirmCheck, AdminSelect
<1>8. CASE \/ AdminWrite \/ AdminWriteNothing \/ AdminRefresh \/ AdminFails
           \/ TickRead \/ TickWrite \/ TickFails
  BY <1>6, <1>8 DEF AdminWrite, AdminWriteNothing, AdminRefresh, AdminFails,
                    TickRead, TickWrite, TickFails
<1>9. CASE UNCHANGED vars
  BY <1>6, <1>9 DEF vars
<1> QED
  BY <1>1, <1>2, <1>3, <1>4, <1>5, <1>7, <1>8, <1>9 DEF Next, AdminStep

\* Whitelisting implements the human gate: an address becomes active by a
\* decision of a human or of the operator's file only, whatever confirmations
\* are in flight while rows are removed and recommended again.
THEOREM WhitelistingIsGated == Spec => ImplementsGate
BY InitIsGate, StepIsGate, WhitelistInvariant, PTL DEF Spec, ImplementsGate, Gate!GateSpec
=============================================================================
