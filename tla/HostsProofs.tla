------------------------------ MODULE HostsProofs ------------------------------
(***************************************************************************)
(* Proofs about the two components that act on the hosts over SSH:         *)
(* Blocklist, for every set of addresses, hosts and calls, and Onboarding, *)
(* for every set of machines, names and calls.                             *)
(***************************************************************************)
EXTENDS Blocklist, Onboarding, TLAPS

(***************************************************************************)
(* Blocking.  The invariants of Blocklist are not inductive by themselves: *)
(* when a call ends, they need to know what its set ok stands for.         *)
(* BlockInv adds that, and that rules and running calls belong to approved *)
(* addresses, which is what the refinement of HumanGate rests on.          *)
(***************************************************************************)

\* A host counted as done drops the call's address.
OkIsDropping == \A c \in Calls : \A h \in call[c].ok : <<h, call[c].ip>> \in rule

\* The answer "executed" is given when every host in scope is done.
ExecutedIsComplete ==
  \A c \in Calls : call[c].answer = "executed" => call[c].ok = call[c].scope

\* A call that has begun was a human's confirmation.
CallIsApproved == \A c \in Calls : call[c].pc # "idle" => call[c].ip \in approved

\* Only approved addresses are dropped.
RuleIsApproved == \A h \in Hosts, ip \in IPs : <<h, ip>> \in rule => ip \in approved

BlockInv ==
  /\ TypeOK
  /\ OkIsDropping
  /\ ExecutedIsComplete
  /\ CallIsApproved
  /\ RuleIsApproved
  /\ ExecutedHasRule

-----------------------------------------------------------------------------
(* Type correctness: one lemma for what each kind of step does to a call. *)

LEMMA InitEstablishes == Init => BlockInv
  <1> USE BlocklistAssumption DEF Init, NoCall
  <1> SUFFICES ASSUME Init PROVE BlockInv
    OBVIOUS
  <1>1. (CHOOSE ip \in IPs : TRUE) \in IPs
    OBVIOUS
  <1>2. TypeOK
    BY <1>1 DEF TypeOK, CallRecord, RowState, Answer
  <1>3. OkIsDropping /\ ExecutedIsComplete /\ CallIsApproved
    BY DEF OkIsDropping, ExecutedIsComplete, CallIsApproved
  <1>4. RuleIsApproved /\ ExecutedHasRule
    BY DEF RuleIsApproved, ExecutedHasRule
  <1> QED BY <1>2, <1>3, <1>4 DEF BlockInv

\* The hosts a confirmation works on are enrolled hosts.
LEMMA ScopesAreHosts ==
  ASSUME TypeOK, NEW ip \in IPs, NEW scope \in Scopes(ip)
  PROVE  scope \subseteq Hosts
  BY BlocklistAssumption DEF Scopes, Witnesses, TypeOK

\* A call that begins, for an address that a human approves by it.
LEMMA BeginPreserves ==
  ASSUME BlockInv, NEW c \in Calls, NEW ip \in IPs, NEW scope \in SUBSET Hosts,
         NEW pc \in {"ssh", "answered"},
         NEW answer \in {"none", "already", "needs_scope", "failed"},
         Begun(c, ip, scope, pc, answer),
         approved' = approved \cup {ip},
         UNCHANGED <<row, rule, active, flaps>>
  PROVE  BlockInv'
  <1> DEFINE new == [pc |-> pc, ip |-> ip, scope |-> scope, todo |-> scope,
                     ok |-> {}, answer |-> answer]
  <1>1. new \in CallRecord
    BY DEF CallRecord, Answer
  <1>2. call' = [call EXCEPT ![c] = new]
    BY DEF Begun
  <1>3. call \in [Calls -> CallRecord]
    BY DEF BlockInv, TypeOK
  <1>4. \A d \in Calls : call'[d] = IF d = c THEN new ELSE call[d]
    BY <1>2, <1>3
  <1>5. TypeOK'
    <2>1. call' \in [Calls -> CallRecord]
      BY <1>1, <1>2, <1>3
    <2>2. \A d \in Calls : call'[d].todo \cup call'[d].ok \subseteq call'[d].scope
      BY <1>4 DEF BlockInv, TypeOK
    <2> QED BY <2>1, <2>2 DEF BlockInv, TypeOK
  <1>6. OkIsDropping'
    BY <1>4 DEF BlockInv, OkIsDropping
  <1>7. ExecutedIsComplete'
    BY <1>4 DEF BlockInv, ExecutedIsComplete
  <1>8. CallIsApproved'
    BY <1>4 DEF BlockInv, CallIsApproved
  <1>9. RuleIsApproved' /\ ExecutedHasRule'
    BY DEF BlockInv, RuleIsApproved, ExecutedHasRule, Dropping
  <1> QED BY <1>5, <1>6, <1>7, <1>8, <1>9 DEF BlockInv

\* A call that ends with an answer, and leaves everything else alone.
LEMMA EndPreserves ==
  ASSUME BlockInv, NEW c \in Calls, NEW answer \in {"failed", "partial", "executed"},
         call[c].pc = "ssh",
         answer = "executed" => call[c].ok = call[c].scope,
         Ended(c, answer),
         UNCHANGED <<rule, active, approved, flaps>>,
         row' \in [IPs -> RowState],
         ExecutedHasRule'
  PROVE  BlockInv'
  <1> DEFINE new == [call[c] EXCEPT !.pc = "answered", !.answer = answer]
  <1>1. call \in [Calls -> CallRecord]
    BY DEF BlockInv, TypeOK
  <1>2. new \in CallRecord
    BY <1>1 DEF CallRecord, Answer
  <1>3. call' = [call EXCEPT ![c] = new]
    BY <1>1 DEF Ended
  <1>4. \A d \in Calls : call'[d] = IF d = c THEN new ELSE call[d]
    BY <1>1, <1>3
  <1>5. /\ new.ip = call[c].ip /\ new.ok = call[c].ok /\ new.scope = call[c].scope
        /\ new.todo = call[c].todo /\ new.answer = answer
    BY <1>1 DEF CallRecord
  <1>6. TypeOK'
    <2>1. call' \in [Calls -> CallRecord]
      BY <1>1, <1>2, <1>3
    <2>2. \A d \in Calls : call'[d].todo \cup call'[d].ok \subseteq call'[d].scope
      BY <1>4, <1>5 DEF BlockInv, TypeOK
    <2> QED BY <2>1, <2>2 DEF BlockInv, TypeOK
  <1>7. OkIsDropping'
    BY <1>4, <1>5 DEF BlockInv, OkIsDropping
  <1>8. ExecutedIsComplete'
    BY <1>4, <1>5 DEF BlockInv, ExecutedIsComplete
  <1>9. CallIsApproved'
    BY <1>4, <1>5 DEF BlockInv, CallIsApproved
  <1>10. RuleIsApproved'
    BY DEF BlockInv, RuleIsApproved
  <1> QED BY <1>6, <1>7, <1>8, <1>9, <1>10 DEF BlockInv

\* One host is worked through: rules are only added, and only for the call's
\* own, approved address.
LEMMA SshPreserves ==
  ASSUME BlockInv, NEW c \in Calls, NEW h \in Hosts, Ssh(c, h)
  PROVE  BlockInv'
  <1>1. PICK ran \in BOOLEAN, ok \in BOOLEAN :
          /\ ok => ran
          /\ rule' = IF ran THEN rule \cup {<<h, call[c].ip>>} ELSE rule
          /\ call' = [call EXCEPT ![c].todo = @ \ {h},
                                  ![c].ok = IF ok THEN @ \cup {h} ELSE @]
    BY DEF Ssh, RemoteShell
  <1> DEFINE new == [call[c] EXCEPT !.todo = @ \ {h},
                                    !.ok = IF ok THEN @ \cup {h} ELSE @]
  <1>2. call \in [Calls -> CallRecord]
    BY DEF BlockInv, TypeOK
  <1>3. call' = [call EXCEPT ![c] = new]
    BY <1>1, <1>2
  <1>4. new \in CallRecord
    BY <1>2 DEF CallRecord
  <1>5. \A d \in Calls : call'[d] = IF d = c THEN new ELSE call[d]
    BY <1>2, <1>3
  <1>6. /\ new.ip = call[c].ip /\ new.scope = call[c].scope /\ new.pc = call[c].pc
        /\ new.answer = call[c].answer /\ new.todo \subseteq call[c].todo
        /\ new.ok = IF ok THEN call[c].ok \cup {h} ELSE call[c].ok
    BY <1>2 DEF CallRecord
  <1> HIDE DEF new
  <1>7. call[c].ip \in IPs /\ call[c].pc = "ssh" /\ h \in call[c].todo
    BY <1>2 DEF Ssh, CallRecord
  <1>8. rule \subseteq rule' /\ (ok => <<h, call[c].ip>> \in rule')
    BY <1>1
  <1>u. UNCHANGED <<row, active, approved, flaps>>
    BY DEF Ssh
  <1>9. TypeOK'
    <2>1. call' \in [Calls -> CallRecord]
      BY <1>2, <1>3, <1>4
    <2>2. \A d \in Calls : call'[d].todo \cup call'[d].ok \subseteq call'[d].scope
      <3> SUFFICES ASSUME NEW d \in Calls
                   PROVE  call'[d].todo \cup call'[d].ok \subseteq call'[d].scope
        OBVIOUS
      <3>1. /\ call[d].todo \cup call[d].ok \subseteq call[d].scope
            /\ h \in call[c].scope
        BY <1>7 DEF BlockInv, TypeOK
      <3> QED BY <1>5, <1>6, <3>1
    <2>3. rule' \subseteq Hosts \X IPs
      BY <1>1, <1>7 DEF BlockInv, TypeOK
    <2> QED BY <2>1, <2>2, <2>3, <1>u DEF BlockInv, TypeOK
  <1>10. OkIsDropping'
    <2> SUFFICES ASSUME NEW d \in Calls, NEW g \in call'[d].ok
                 PROVE  <<g, call'[d].ip>> \in rule'
      BY DEF OkIsDropping
    <2>1. \A i \in call[d].ok : <<i, call[d].ip>> \in rule
      BY DEF BlockInv, OkIsDropping
    <2>2. g \in call[d].ok \/ (d = c /\ ok /\ g = h)
      BY <1>5, <1>6
    <2>3. call'[d].ip = call[d].ip
      BY <1>5, <1>6
    <2> QED BY <1>8, <2>1, <2>2, <2>3
  <1>11. ExecutedIsComplete'
    <2>1. call[c].answer = "executed" => call[c].ok = call[c].scope
      BY DEF BlockInv, ExecutedIsComplete
    <2>2. h \in call[c].scope
      BY <1>7 DEF BlockInv, TypeOK
    <2> QED BY <1>5, <1>6, <2>1, <2>2 DEF BlockInv, ExecutedIsComplete
  <1>12. CallIsApproved'
    BY <1>5, <1>6, <1>u DEF BlockInv, CallIsApproved
  <1>13. RuleIsApproved'
    <2>1. call[c].ip \in approved
      BY <1>7 DEF BlockInv, CallIsApproved
    <2> QED BY <1>1, <1>u, <2>1 DEF BlockInv, RuleIsApproved
  <1>14. ExecutedHasRule'
    BY <1>8, <1>u DEF BlockInv, ExecutedHasRule, Dropping
  <1> QED BY <1>9, <1>10, <1>11, <1>12, <1>13, <1>14 DEF BlockInv

\* The host that makes Finish mark its row as executed drops the address.
LEMMA FinishHasRule ==
  ASSUME BlockInv, NEW c \in Calls, Finish(c)
  PROVE  ExecutedHasRule' /\ row' \in [IPs -> RowState]
  <1>1. PICK h \in call[c].ok : TRUE
    BY DEF Finish
  <1>2. <<h, call[c].ip>> \in rule /\ h \in Hosts
    BY DEF BlockInv, OkIsDropping, TypeOK, CallRecord
  <1>3. row' = [row EXCEPT ![call[c].ip] = "executed"] /\ rule' = rule
    BY DEF Finish
  <1>4. row \in [IPs -> RowState]
    BY DEF BlockInv, TypeOK
  <1>5. ExecutedHasRule'
    BY <1>2, <1>3, <1>4 DEF BlockInv, ExecutedHasRule, Dropping
  <1> QED BY <1>3, <1>4, <1>5 DEF RowState

LEMMA StepPreserves == BlockInv /\ [Next]_vars => BlockInv'
  <1> SUFFICES ASSUME BlockInv, [Next]_vars PROVE BlockInv'
    OBVIOUS
  <1>1. ASSUME NEW ip \in IPs, Recommend(ip) PROVE BlockInv'
    <2>1. row' \in [IPs -> RowState] /\ row \in [IPs -> RowState]
      BY <1>1 DEF Recommend, Pending, BlockInv, TypeOK, RowState
    <2>2. TypeOK' /\ OkIsDropping' /\ ExecutedIsComplete' /\ CallIsApproved' /\ RuleIsApproved'
      BY <1>1, <2>1 DEF Recommend, Pending, BlockInv, TypeOK, OkIsDropping, ExecutedIsComplete,
           CallIsApproved, RuleIsApproved
    <2>3. ExecutedHasRule'
      BY <1>1, <2>1 DEF Recommend, Pending, BlockInv, ExecutedHasRule, Dropping
    <2> QED BY <2>2, <2>3 DEF BlockInv
  <1>2. ASSUME NEW c \in Calls, NEW ip \in IPs, ConfirmAgain(c, ip) PROVE BlockInv'
    BY <1>2, BeginPreserves DEF ConfirmAgain
  <1>3. ASSUME NEW c \in Calls, NEW ip \in IPs, Confirm(c, ip) PROVE BlockInv'
    <2>1. PICK scope \in Scopes(ip) :
            \/ Begun(c, ip, scope, "ssh", "none")
            \/ \E answer \in {"needs_scope", "failed"} :
                 Begun(c, ip, scope, "answered", answer)
      BY <1>3 DEF Confirm
    <2>2. scope \in SUBSET Hosts
      BY ScopesAreHosts DEF BlockInv
    <2> QED BY <1>3, <2>1, <2>2, BeginPreserves DEF Confirm
  <1>4. ASSUME NEW c \in Calls, NEW h \in Hosts, Ssh(c, h) PROVE BlockInv'
    BY <1>4, SshPreserves
  <1>5. ASSUME NEW c \in Calls, FinishFailed(c) PROVE BlockInv'
    <2>1. row' \in [IPs -> RowState] /\ ExecutedHasRule'
      BY <1>5 DEF FinishFailed, BlockInv, TypeOK, ExecutedHasRule, Dropping
    <2> QED BY <1>5, <2>1, EndPreserves DEF FinishFailed, Worked
  <1>6. ASSUME NEW c \in Calls, Finish(c) PROVE BlockInv'
    <2>1. row' \in [IPs -> RowState] /\ ExecutedHasRule'
      BY <1>6, FinishHasRule
    <2>2. CASE call[c].ok = call[c].scope
      <3>1. Ended(c, "executed")
        BY <1>6, <2>2 DEF Finish
      <3> QED BY <1>6, <2>1, <2>2, <3>1, EndPreserves DEF Finish, Worked
    <2>3. CASE call[c].ok # call[c].scope
      <3>1. Ended(c, "partial")
        BY <1>6, <2>3 DEF Finish
      <3> QED BY <1>6, <2>1, <3>1, EndPreserves DEF Finish, Worked
    <2> QED BY <2>2, <2>3
  <1>7. ASSUME NEW c \in Calls, Die(c) PROVE BlockInv'
    <2>1. call \in [Calls -> CallRecord]
      BY DEF BlockInv, TypeOK
    <2>2. \A d \in Calls : /\ call'[d] = IF d = c THEN [call[d] EXCEPT !.pc = "dead"]
                                         ELSE call[d]
                           /\ call'[d] \in CallRecord
      BY <1>7, <2>1 DEF Die, CallRecord
    <2>3. call' \in [Calls -> CallRecord]
      BY <1>7, <2>1, <2>2 DEF Die
    <2>4. \A d \in Calls : /\ call'[d].ip = call[d].ip /\ call'[d].scope = call[d].scope
                           /\ call'[d].ok = call[d].ok /\ call'[d].todo = call[d].todo
                           /\ call'[d].answer = call[d].answer
                           /\ call'[d].pc # "idle" => call[d].pc # "idle"
      BY <1>7, <2>1, <2>2 DEF Die, CallRecord
    <2>5. TypeOK'
      BY <1>7, <2>3, <2>4 DEF Die, BlockInv, TypeOK
    <2> QED BY <1>7, <2>4, <2>5 DEF Die, BlockInv, OkIsDropping, ExecutedIsComplete,
              CallIsApproved, RuleIsApproved, ExecutedHasRule, Dropping
  <1>8. ASSUME NEW h \in Hosts, Flap(h) PROVE BlockInv'
    <2>1. TypeOK'
      BY <1>8, BlocklistAssumption DEF Flap, BlockInv, TypeOK
    <2> QED BY <1>8, <2>1 DEF Flap, BlockInv, OkIsDropping, ExecutedIsComplete,
              CallIsApproved, RuleIsApproved, ExecutedHasRule, Dropping
  <1>9. CASE UNCHANGED vars
    BY <1>9 DEF vars, BlockInv, TypeOK, OkIsDropping, ExecutedIsComplete,
         CallIsApproved, RuleIsApproved, ExecutedHasRule, Dropping
  <1> QED BY <1>1, <1>2, <1>3, <1>4, <1>5, <1>6, <1>7, <1>8, <1>9
            DEF Next, Begin, Continue

-----------------------------------------------------------------------------
(* The theorems. *)

\* The inductive invariant of blocking: what a call counts as done is done,
\* and every rule goes back to a human's confirmation.
THEOREM BlocklistInvariant == Spec => []BlockInv
  BY InitEstablishes, StepPreserves, PTL DEF Spec

\* Type correctness, with every call's bookkeeping within its scope.
THEOREM BlocklistTypeCorrect == Spec => []TypeOK
  <1>1. BlockInv => TypeOK
    BY DEF BlockInv
  <1> QED BY <1>1, BlocklistInvariant, PTL

\* A row says "executed" only while some host drops the address.
THEOREM ExecutedIsEnforced == Spec => []ExecutedHasRule
  <1>1. BlockInv => ExecutedHasRule
    BY DEF BlockInv
  <1> QED BY <1>1, BlocklistInvariant, PTL

\* The answer "executed" is true of every host in the call's scope.
THEOREM AnswerIsTrue == Spec => []ExecutedAnswerIsTrue
  <1>1. BlockInv => ExecutedAnswerIsTrue
    <2> SUFFICES ASSUME BlockInv, NEW c \in Calls, call[c].answer = "executed",
                        NEW h \in call[c].scope
                 PROVE  h \in Dropping(call[c].ip)
      BY DEF ExecutedAnswerIsTrue
    <2>1. h \in call[c].ok
      BY DEF BlockInv, ExecutedIsComplete
    <2>2. h \in Hosts
      BY DEF BlockInv, TypeOK, CallRecord
    <2> QED BY <2>1, <2>2 DEF BlockInv, OkIsDropping, Dropping
  <1> QED BY <1>1, BlocklistInvariant, PTL

-----------------------------------------------------------------------------
(* The refinement of HumanGate. *)

LEMMA InitIsGate == Init => Gate!GateInit
  BY DEF Init, Gate!GateInit, Dropping

\* A confirmation approves its address and changes no rule.
LEMMA ConfirmIsApprove ==
  ASSUME NEW ip \in IPs, approved' = approved \cup {ip}, rule' = rule
  PROVE  Gate!Approve({ip})
  BY DEF Gate!Approve, Dropping

\* A host that is reached enforces an approved block.
LEMMA SshIsEnforce ==
  ASSUME BlockInv, NEW c \in Calls, NEW h \in Hosts, Ssh(c, h)
  PROVE  Gate!Enforce(call[c].ip) \/ UNCHANGED Gate!gateVars
  <1>1. PICK ran \in BOOLEAN :
          rule' = IF ran THEN rule \cup {<<h, call[c].ip>>} ELSE rule
    BY DEF Ssh, RemoteShell
  <1>2. call[c].ip \in IPs /\ call[c].ip \in approved /\ approved' = approved
    BY DEF Ssh, BlockInv, TypeOK, CallRecord, CallIsApproved
  <1>3. CASE ran
    <2>1. \A ip \in IPs : Dropping(ip)' # {} <=> Dropping(ip) # {} \/ ip = call[c].ip
      BY <1>1, <1>3 DEF Dropping
    <2> QED BY <1>2, <2>1 DEF Gate!Enforce
  <1>4. CASE ~ran
    BY <1>1, <1>2, <1>4 DEF Gate!gateVars, Dropping
  <1> QED BY <1>3, <1>4

LEMMA StepIsGate == BlockInv /\ [Next]_vars => [Gate!GateNext]_(Gate!gateVars)
  <1> SUFFICES ASSUME BlockInv, [Next]_vars
               PROVE  Gate!GateNext \/ UNCHANGED Gate!gateVars
    OBVIOUS
  <1>1. ASSUME NEW c \in Calls, NEW ip \in IPs, ConfirmAgain(c, ip) \/ Confirm(c, ip)
        PROVE  Gate!GateNext
    BY <1>1, ConfirmIsApprove DEF ConfirmAgain, Confirm, Gate!GateNext
  <1>2. ASSUME NEW c \in Calls, NEW h \in Hosts, Ssh(c, h)
        PROVE  Gate!GateNext \/ UNCHANGED Gate!gateVars
    <2>1. call[c].ip \in IPs
      BY DEF BlockInv, TypeOK, CallRecord
    <2> QED BY <1>2, <2>1, SshIsEnforce DEF Gate!GateNext
  <1>3. ASSUME rule' = rule, approved' = approved PROVE UNCHANGED Gate!gateVars
    BY <1>3 DEF Gate!gateVars, Dropping
  <1>4. CASE \E ip \in IPs : Recommend(ip)
    BY <1>3, <1>4 DEF Recommend
  <1>5. CASE \E c \in Calls : FinishFailed(c) \/ Finish(c) \/ Die(c)
    BY <1>3, <1>5 DEF FinishFailed, Finish, Die
  <1>6. CASE \E h \in Hosts : Flap(h)
    BY <1>3, <1>6 DEF Flap
  <1>7. CASE UNCHANGED vars
    BY <1>3, <1>7 DEF vars
  <1> QED BY <1>1, <1>2, <1>4, <1>5, <1>6, <1>7 DEF Next, Begin, Continue

\* Blocking implements the human gate: no host drops an address that no human
\* confirmed, and nothing but a human's decision lifts a block.
THEOREM BlockingIsGated == Spec => ImplementsGate
  BY InitIsGate, StepIsGate, BlocklistInvariant, PTL DEF Spec, ImplementsGate, Gate!GateSpec

-----------------------------------------------------------------------------
(***************************************************************************)
(* Onboarding, whatever breaks off, and however often connections and      *)
(* synchronisations fail: the inductive invariant, part by part.           *)
(***************************************************************************)
Statuses == {"never_connected", "active", "disconnected"}

Reports == {"none", "unknown", "active", "disconnected"}

Steps == {"idle", "find", "post", "connect", "write", "import", "depend",
          "restart", "look", "store", "ok", "error"}

Keys == Names \cup {Nobody}

Record == [pc : Steps, name : Names, on : Machines, imported : Keys, report : Reports]

OnboardTypeOK ==
  /\ status \in [Names -> Statuses \cup {"none"}]
  /\ machine \in [Machines -> [file : Keys, key : Keys, runs : Keys]]
  /\ hosts \in [Names -> {"absent", "unknown"} \cup Statuses]
  /\ onboard \in [Onboardings -> Record]
  /\ listing # << >> => \E A \in SUBSET Names : listing \in [A -> Statuses]
  /\ mishaps \in Nat
  /\ connected \subseteq Names \X Machines
  /\ beside \subseteq Onboardings \X Onboardings

HasBegun(c) == onboard[c].pc # "idle"

\* Some call was to onboard machine m as n.
MeantAs(n, m) == \E c \in Onboardings : HasBegun(c) /\ onboard[c].name = n /\ On(c) = m

\* ... and m has connected as n.
HasConnected(n) ==
  \E c \in Onboardings : HasBegun(c) /\ onboard[c].name = n /\ <<n, On(c)>> \in connected

\* No key strays: a name gets onto a machine only by a call for that machine.
KeysAreMeant ==
  \A m \in Machines, n \in Names :
    n \in {machine[m].file, machine[m].key, machine[m].runs} => MeantAs(n, m)

\* Whatever says "active", the manager, a list or a report still to be stored,
\* the table or an answer, says it of an agent that has connected.
ManagerIsRight == \A n \in Names : status[n] = "active" => HasConnected(n)

ListingIsRight ==
  listing # << >> => \A n \in DOMAIN listing : listing[n] = "active" => HasConnected(n)

ReportIsRight ==
  \A c \in Onboardings :
    /\ onboard[c].pc = "ok" \/ onboard[c].report = "active" => HasConnected(onboard[c].name)
    /\ onboard[c].report # "none" <=> onboard[c].pc = "store"

TableIsRight == \A n \in Names : hosts[n] = "active" => HasConnected(n)

\* The history tells of every two calls that run on one machine, and only of
\* calls that have begun.
BesideIsComplete ==
  /\ \A c, d \in Onboardings :
       c # d /\ InFlight(c) /\ InFlight(d) /\ On(c) = On(d) => <<c, d>> \in beside
  /\ \A c, d \in Onboardings : <<c, d>> \in beside => HasBegun(c) /\ HasBegun(d)

\* Key n is the key of call c or that of a call beside it.
Expected(c, n) ==
  \/ n = onboard[c].name
  \/ \E d \in Onboardings : <<c, d>> \in beside /\ onboard[d].name = n

\* What a call is about to import, and what it has imported.
FileIsExpected ==
  \A c \in Onboardings : onboard[c].pc = "import" => Expected(c, machine[On(c)].file)

ImportIsExpected ==
  \A c \in Onboardings :
    onboard[c].imported # Nobody => HasBegun(c) /\ Expected(c, onboard[c].imported)

OnboardInv ==
  /\ OnboardTypeOK
  /\ KeysAreMeant
  /\ ManagerIsRight
  /\ ListingIsRight
  /\ ReportIsRight
  /\ TableIsRight
  /\ BesideIsComplete
  /\ FileIsExpected
  /\ ImportIsExpected

-----------------------------------------------------------------------------
(***************************************************************************)
(* Lemmas.                                                                 *)
(***************************************************************************)
\* A call that has begun keeps its name and its machine, and what has happened
\* has happened.
GoesOn ==
  /\ \A c \in Onboardings :
       HasBegun(c) => /\ HasBegun(c)'
                   /\ onboard'[c].name = onboard[c].name
                   /\ onboard'[c].on = onboard[c].on
  /\ connected \subseteq connected'
  /\ beside \subseteq beside'

LEMMA InitialCalls ==
  NoOnboarding \in Record
BY OnboardingAssumption DEF NoOnboarding, Record, Steps, Keys, Reports

LEMMA OnboardInitInv == OnboardInit => OnboardInv
<1> SUFFICES ASSUME OnboardInit
             PROVE  OnboardInv
  OBVIOUS
<1> USE OnboardingAssumption DEF OnboardInit
<1>1. OnboardTypeOK
  BY InitialCalls DEF OnboardTypeOK, Keys, Statuses
<1>2. \A c \in Onboardings : ~HasBegun(c) /\ ~InFlight(c) /\ onboard[c].pc = "idle"
                            /\ onboard[c].imported = Nobody /\ onboard[c].report = "none"
  BY DEF HasBegun, InFlight, NoOnboarding
<1>3. KeysAreMeant /\ ManagerIsRight /\ ListingIsRight /\ TableIsRight
  BY DEF KeysAreMeant, ManagerIsRight, ListingIsRight, TableIsRight
<1>4. ReportIsRight /\ BesideIsComplete /\ FileIsExpected /\ ImportIsExpected
  BY <1>2 DEF ReportIsRight, BesideIsComplete, FileIsExpected, ImportIsExpected
<1> QED
  BY <1>1, <1>3, <1>4 DEF OnboardInv

\* What has been expected, meant or connected stays so.
LEMMA HistoryStays ==
  ASSUME OnboardInv, GoesOn
  PROVE  /\ \A n \in Names : HasConnected(n) => HasConnected(n)'
         /\ \A n \in Names, m \in Machines : MeantAs(n, m) => MeantAs(n, m)'
         /\ \A c \in Onboardings, n \in Keys : HasBegun(c) /\ Expected(c, n) => Expected(c, n)'
<1>1. \A n \in Names : HasConnected(n) => HasConnected(n)'
  BY DEF GoesOn, HasConnected, HasBegun, On
<1>2. \A n \in Names, m \in Machines : MeantAs(n, m) => MeantAs(n, m)'
  BY DEF GoesOn, MeantAs, HasBegun, On
<1>3. \A c \in Onboardings, n \in Keys : HasBegun(c) /\ Expected(c, n) => Expected(c, n)'
  BY DEF GoesOn, Expected, OnboardInv, BesideIsComplete, HasBegun
<1> QED
  BY <1>1, <1>2, <1>3

\* Call c goes on to record r, under its name and on its machine.
Moves(c, r) ==
  /\ HasBegun(c)
  /\ r \in Record /\ r.pc # "idle" /\ r.name = onboard[c].name /\ r.on = onboard[c].on
  /\ r.pc \notin {"ok", "error"} => InFlight(c)
  /\ r.report # "none" <=> r.pc = "store"
  /\ onboard' = [onboard EXCEPT ![c] = r]
  /\ UNCHANGED <<listing, mishaps, connected, beside>>

LEMMA MovesKeep ==
  ASSUME OnboardInv, NEW c \in Onboardings, NEW r, Moves(c, r)
  PROVE  /\ GoesOn
         /\ onboard' \in [Onboardings -> Record]
         /\ onboard'[c] = r
         /\ \A d \in Onboardings \ {c} : onboard'[d] = onboard[d]
         /\ \A d \in Onboardings : On(d)' = On(d)
         /\ BesideIsComplete'
         /\ ListingIsRight'
<1> USE DEF Moves
<1>1. /\ onboard' \in [Onboardings -> Record]
      /\ onboard'[c] = r
      /\ \A d \in Onboardings \ {c} : onboard'[d] = onboard[d]
  BY DEF OnboardInv, OnboardTypeOK
<1>2. \A d \in Onboardings :
        On(d)' = On(d) /\ (InFlight(d)' => InFlight(d)) /\ (HasBegun(d) => HasBegun(d)')
  BY <1>1 DEF On, InFlight, HasBegun
<1>3. GoesOn
  BY <1>1, <1>2 DEF GoesOn
<1>4. BesideIsComplete'
  BY <1>2 DEF OnboardInv, BesideIsComplete
<1>5. ListingIsRight'
  <2> SUFFICES ASSUME listing # << >>, NEW n \in DOMAIN listing, listing[n] = "active"
               PROVE  HasConnected(n)'
    BY DEF ListingIsRight
  <2>1. n \in Names /\ HasConnected(n)
    BY DEF OnboardInv, OnboardTypeOK, ListingIsRight
  <2> QED
    BY <1>3, <2>1, HistoryStays
<1> QED
  BY <1>1, <1>2, <1>3, <1>4, <1>5

\* A move keeps the invariant when what it adds is true of the state before.
LEMMA MoveKeepsInv ==
  ASSUME OnboardInv, NEW c \in Onboardings, NEW r, Moves(c, r),
         OnboardTypeOK',
         \A n \in Names : status'[n] = "active" \/ hosts'[n] = "active" => HasConnected(n),
         \A m \in Machines, n \in Names :
           n \in {machine'[m].file, machine'[m].key, machine'[m].runs} => MeantAs(n, m),
         \A d \in Onboardings :
           onboard'[d].pc = "import" => HasBegun(d) /\ Expected(d, machine'[On(d)].file),
         r.imported # Nobody => Expected(c, r.imported),
         r.pc = "ok" \/ r.report = "active" => HasConnected(onboard[c].name)
  PROVE  OnboardInv'
<1> USE DEF OnboardInv
<1>1. /\ GoesOn /\ BesideIsComplete' /\ ListingIsRight'
      /\ onboard'[c] = r
      /\ \A d \in Onboardings \ {c} : onboard'[d] = onboard[d]
      /\ \A d \in Onboardings : On(d)' = On(d)
  BY MovesKeep
<1>2. KeysAreMeant' /\ ManagerIsRight' /\ TableIsRight'
  BY <1>1, HistoryStays DEF KeysAreMeant, ManagerIsRight, TableIsRight
<1>3. ReportIsRight'
  BY <1>1, HistoryStays DEF ReportIsRight, OnboardTypeOK, Record, Moves
<1>4. FileIsExpected'
  <2> SUFFICES ASSUME NEW d \in Onboardings, onboard'[d].pc = "import"
               PROVE  Expected(d, machine[On(d)].file)'
    BY DEF FileIsExpected
  <2>1. HasBegun(d) /\ Expected(d, machine'[On(d)].file)
    OBVIOUS
  <2>2. machine'[On(d)].file \in Keys
    BY DEF OnboardTypeOK, Record, On
  <2> QED
    BY <1>1, <2>1, <2>2, HistoryStays
<1>5. ImportIsExpected'
  <2> SUFFICES ASSUME NEW d \in Onboardings, onboard'[d].imported # Nobody
               PROVE  (HasBegun(d) /\ Expected(d, onboard[d].imported))'
    BY DEF ImportIsExpected
  <2>1. onboard'[d].imported \in Keys
    BY DEF OnboardTypeOK, Record
  <2>2. HasBegun(d) /\ Expected(d, onboard'[d].imported)
    BY <1>1 DEF ImportIsExpected, Moves
  <2> QED
    BY <1>1, <2>1, <2>2, HistoryStays DEF GoesOn
<1> QED
  BY <1>1, <1>2, <1>3, <1>4, <1>5

\* A move that touches nothing outside the call, imports nothing and is not
\* about to import what it has not written.
LEMMA MoveAloneKeepsInv ==
  ASSUME OnboardInv, NEW c \in Onboardings, NEW r, Moves(c, r),
         UNCHANGED <<status, machine, hosts>>,
         r.imported = onboard[c].imported,
         r.pc # "import",
         r.pc = "ok" \/ r.report = "active" => HasConnected(onboard[c].name)
  PROVE  OnboardInv'
<1> USE DEF OnboardInv
<1>1. /\ onboard' \in [Onboardings -> Record]
      /\ onboard'[c] = r
      /\ \A d \in Onboardings \ {c} : onboard'[d] = onboard[d]
  BY MovesKeep
<1>2. OnboardTypeOK'
  BY <1>1 DEF OnboardTypeOK, Moves
<1>3. \A d \in Onboardings :
        onboard'[d].pc = "import" => HasBegun(d) /\ Expected(d, machine'[On(d)].file)
  BY <1>1 DEF FileIsExpected, HasBegun
<1>4. r.imported # Nobody => Expected(c, r.imported)
  BY DEF ImportIsExpected
<1> QED
  BY <1>2, <1>3, <1>4, MoveKeepsInv DEF KeysAreMeant, ManagerIsRight, TableIsRight

\* The record of a call that advances.
LEMMA AdvanceMoves ==
  ASSUME OnboardInv, NEW c \in Onboardings,
         NEW from \in Steps \ {"idle", "store", "ok", "error"},
         NEW to \in Steps \ {"idle", "store", "ok", "error"},
         Advance(c, from, to), UNCHANGED <<listing, mishaps, connected, beside>>
  PROVE  /\ Moves(c, [onboard[c] EXCEPT !.pc = to])
         /\ InFlight(c)
         /\ onboard[c].report = "none"
         /\ [onboard[c] EXCEPT !.pc = to].imported = onboard[c].imported
         /\ [onboard[c] EXCEPT !.pc = to].pc = to
         /\ [onboard[c] EXCEPT !.pc = to].report = "none"
<1> USE DEF OnboardInv, OnboardTypeOK, ReportIsRight, Record, Advance
<1>1. onboard[c].report = "none" /\ onboard[c] \in Record
  OBVIOUS
<1>2. [onboard[c] EXCEPT !.pc = to] \in Record
  BY <1>1
<1> QED
  BY <1>1, <1>2 DEF Moves, HasBegun, InFlight

-----------------------------------------------------------------------------
(***************************************************************************)
(* Every step keeps the invariant.                                         *)
(***************************************************************************)
LEMMA BeginKeepsInv ==
  ASSUME OnboardInv, NEW c \in Onboardings, BeginOnboarding(c)
  PROVE  OnboardInv'
<1> USE DEF OnboardInv
<1>1. PICK n \in Names, m \in Machines :
        /\ onboard' = [onboard EXCEPT ![c].pc = "find", ![c].name = n, ![c].on = m]
        /\ beside' = beside \cup
             UNION {{<<c, d>>, <<d, c>>} : d \in {d \in Onboardings : InFlight(d) /\ On(d) = m}}
  BY DEF BeginOnboarding
<1>2. /\ onboard[c].pc = "idle"
      /\ UNCHANGED <<status, machine, hosts, listing, mishaps, connected>>
  BY DEF BeginOnboarding
<1>3. /\ onboard'[c].pc = "find" /\ onboard'[c].name = n /\ onboard'[c].on = m
      /\ onboard'[c].imported = onboard[c].imported /\ onboard'[c].report = onboard[c].report
      /\ \A d \in Onboardings \ {c} : onboard'[d] = onboard[d]
  BY <1>1 DEF OnboardTypeOK
<1>4. /\ beside \subseteq beside'
      /\ \A d, e \in Onboardings :
           <<d, e>> \in beside' <=>
             \/ <<d, e>> \in beside
             \/ d = c /\ InFlight(e) /\ On(e) = m
             \/ e = c /\ InFlight(d) /\ On(d) = m
  BY <1>1
<1>5. GoesOn
  BY <1>2, <1>3, <1>4 DEF GoesOn, HasBegun
<1>6. OnboardTypeOK'
  <2>1. onboard' \in [Onboardings -> Record]
    <3>1. [onboard[c] EXCEPT !.pc = "find", !.name = n, !.on = m] \in Record
      BY DEF OnboardTypeOK, Record, Steps
    <3> QED
      BY <1>1, <3>1 DEF OnboardTypeOK
  <2>2. beside' \subseteq Onboardings \X Onboardings
    BY <1>1 DEF OnboardTypeOK
  <2> QED
    BY <1>2, <2>1, <2>2 DEF OnboardTypeOK
<1>7. KeysAreMeant' /\ ManagerIsRight' /\ ListingIsRight' /\ TableIsRight'
  BY <1>2, <1>5, HistoryStays
     DEF KeysAreMeant, ManagerIsRight, ListingIsRight, TableIsRight, OnboardTypeOK
<1>8. ReportIsRight'
  BY <1>2, <1>3, <1>5, HistoryStays DEF ReportIsRight, OnboardTypeOK, Record
<1>9. BesideIsComplete'
  BY <1>2, <1>3, <1>4 DEF BesideIsComplete, InFlight, HasBegun, On
<1>10. FileIsExpected'
  <2> SUFFICES ASSUME NEW d \in Onboardings, onboard'[d].pc = "import"
               PROVE  Expected(d, machine[On(d)].file)'
    BY DEF FileIsExpected
  <2>1. onboard'[d] = onboard[d] /\ HasBegun(d) /\ Expected(d, machine[On(d)].file)
    BY <1>3 DEF FileIsExpected, HasBegun
  <2>2. machine[On(d)].file \in Keys /\ On(d)' = On(d)
    BY <2>1 DEF OnboardTypeOK, Record, On
  <2> QED
    BY <1>2, <1>5, <2>1, <2>2, HistoryStays
<1>11. ImportIsExpected'
  <2> SUFFICES ASSUME NEW d \in Onboardings, onboard'[d].imported # Nobody
               PROVE  (HasBegun(d) /\ Expected(d, onboard[d].imported))'
    BY DEF ImportIsExpected
  <2>1. /\ onboard'[d].imported = onboard[d].imported
        /\ onboard[d].imported \in Keys
        /\ HasBegun(d) /\ Expected(d, onboard[d].imported)
    BY <1>3 DEF ImportIsExpected, OnboardTypeOK, Record
  <2> QED
    BY <1>5, <2>1, HistoryStays DEF GoesOn
<1> QED
  BY <1>6, <1>7, <1>8, <1>9, <1>10, <1>11

\* Find, Configure and DeployDependencies do no more than to advance.
LEMMA AdvanceKeepsInv ==
  ASSUME OnboardInv, NEW c \in Onboardings,
         NEW from \in Steps \ {"idle", "store", "ok", "error"},
         NEW to \in Steps \ {"idle", "import", "store", "ok", "error"},
         Advance(c, from, to),
         UNCHANGED <<status, machine, hosts, listing, mishaps, connected, beside>>
  PROVE  OnboardInv'
<1> DEFINE r == [onboard[c] EXCEPT !.pc = to]
<1>1. Moves(c, r) /\ r.imported = onboard[c].imported /\ r.pc = to /\ r.report = "none"
  BY AdvanceMoves
<1> HIDE DEF r
<1> QED
  BY <1>1, MoveAloneKeepsInv

LEMMA RegisterKeepsInv ==
  ASSUME OnboardInv, NEW c \in Onboardings, Register(c)
  PROVE  OnboardInv'
<1> DEFINE r == [onboard[c] EXCEPT !.pc = "connect"]
<1> USE DEF OnboardInv, Register
<1>1. Moves(c, r) /\ r.imported = onboard[c].imported /\ r.pc = "connect" /\ r.report = "none"
  BY AdvanceMoves DEF Steps
<1> HIDE DEF r
<1>2. /\ onboard' \in [Onboardings -> Record]
      /\ onboard'[c] = r
      /\ \A d \in Onboardings \ {c} : onboard'[d] = onboard[d]
  BY <1>1, MovesKeep
<1>3. /\ status' \in [Names -> Statuses \cup {"none"}]
      /\ \A n \in Names : status'[n] = "active" => status[n] = "active"
  BY DEF OnboardTypeOK, Statuses
<1>4. OnboardTypeOK'
  BY <1>2, <1>3 DEF OnboardTypeOK
<1>5. \A d \in Onboardings :
        onboard'[d].pc = "import" => HasBegun(d) /\ Expected(d, machine'[On(d)].file)
  BY <1>1, <1>2 DEF FileIsExpected, HasBegun
<1>6. r.imported # Nobody => Expected(c, r.imported)
  BY <1>1 DEF ImportIsExpected
<1> QED
  BY <1>1, <1>3, <1>4, <1>5, <1>6, MoveKeepsInv DEF KeysAreMeant, ManagerIsRight, TableIsRight

\* Whoever is about to import from the machine runs beside the call that writes.
LEMMA WriteKeyKeepsInv ==
  ASSUME OnboardInv, NEW c \in Onboardings, WriteKey(c)
  PROVE  OnboardInv'
<1> DEFINE r == [onboard[c] EXCEPT !.pc = "import"]
<1> USE DEF OnboardInv, WriteKey
<1>1. /\ Moves(c, r) /\ r.imported = onboard[c].imported /\ r.pc = "import"
      /\ r.report = "none" /\ InFlight(c)
  BY AdvanceMoves DEF Steps
<1> HIDE DEF r
<1>2. /\ onboard' \in [Onboardings -> Record]
      /\ onboard'[c] = r
      /\ \A d \in Onboardings \ {c} : onboard'[d] = onboard[d]
  BY <1>1, MovesKeep
<1>3. onboard[c].name \in Names /\ On(c) \in Machines
  BY DEF OnboardTypeOK, Record, On
<1>4. /\ machine'[On(c)].file = onboard[c].name
      /\ machine'[On(c)].key = machine[On(c)].key
      /\ machine'[On(c)].runs = machine[On(c)].runs
      /\ \A m \in Machines \ {On(c)} : machine'[m] = machine[m]
      /\ machine' \in [Machines -> [file : Keys, key : Keys, runs : Keys]]
  BY <1>3 DEF OnboardTypeOK, Keys
<1>5. OnboardTypeOK'
  BY <1>2, <1>4 DEF OnboardTypeOK
<1>6. MeantAs(onboard[c].name, On(c))
  BY <1>1 DEF MeantAs, Moves
<1>7. \A m \in Machines, n \in Names :
        n \in {machine'[m].file, machine'[m].key, machine'[m].runs} => MeantAs(n, m)
  BY <1>4, <1>6 DEF KeysAreMeant
<1>8. ASSUME NEW d \in Onboardings, onboard'[d].pc = "import"
      PROVE  HasBegun(d) /\ Expected(d, machine'[On(d)].file)
  <2>1. CASE d = c
    BY <1>1, <1>4, <2>1 DEF Expected, Moves
  <2>2. CASE d # c
    <3>1. onboard[d].pc = "import" /\ On(d) \in Machines
      BY <1>2, <1>8, <2>2 DEF OnboardTypeOK, Record, On
    <3>2. HasBegun(d) /\ InFlight(d) /\ Expected(d, machine[On(d)].file)
      BY <3>1 DEF FileIsExpected, HasBegun, InFlight
    <3>3. CASE On(d) = On(c)
      BY <1>1, <1>4, <2>2, <3>2, <3>3 DEF BesideIsComplete, Expected
    <3>4. CASE On(d) # On(c)
      BY <1>4, <3>1, <3>2, <3>4
    <3> QED
      BY <3>3, <3>4
  <2> QED
    BY <2>1, <2>2
<1>9. r.imported # Nobody => Expected(c, r.imported)
  BY <1>1 DEF ImportIsExpected
<1> QED
  BY <1>1, <1>5, <1>7, <1>8, <1>9, MoveKeepsInv DEF ManagerIsRight, TableIsRight

LEMMA ImportKeepsInv ==
  ASSUME OnboardInv, NEW c \in Onboardings, Import(c)
  PROVE  OnboardInv'
<1> DEFINE r == [onboard[c] EXCEPT !.pc = "depend", !.imported = machine[On(c)].file]
<1> USE DEF OnboardInv
<1>1. onboard[c] \in Record /\ On(c) \in Machines /\ machine[On(c)].file \in Keys
  BY DEF OnboardTypeOK, Record, On
<1>2. r \in Record
  BY <1>1 DEF Record, Steps
<1>3. /\ r.pc = "depend" /\ r.imported = machine[On(c)].file
      /\ r.name = onboard[c].name /\ r.on = onboard[c].on /\ r.report = onboard[c].report
  BY <1>1 DEF Record
<1>4. onboard' = [onboard EXCEPT ![c] = r] /\ onboard[c].pc = "import" /\ onboard[c].report = "none"
  BY <1>1 DEF Import, ReportIsRight, Record, OnboardTypeOK
<1> HIDE DEF r
<1>5. Moves(c, r)
  BY <1>2, <1>3, <1>4 DEF Moves, Import, HasBegun, InFlight
<1>6. /\ onboard' \in [Onboardings -> Record]
      /\ onboard'[c] = r
      /\ \A d \in Onboardings \ {c} : onboard'[d] = onboard[d]
  BY <1>5, MovesKeep
<1>7. /\ \A m \in Machines : /\ machine'[m].file = machine[m].file
                             /\ machine'[m].runs = machine[m].runs
                             /\ machine'[m].key \in {machine[m].key, machine[m].file}
      /\ machine' \in [Machines -> [file : Keys, key : Keys, runs : Keys]]
  BY <1>1 DEF OnboardTypeOK, Import
<1>8. OnboardTypeOK'
  BY <1>6, <1>7 DEF OnboardTypeOK, Import
<1>9. \A m \in Machines, n \in Names :
        n \in {machine'[m].file, machine'[m].key, machine'[m].runs} => MeantAs(n, m)
  BY <1>7 DEF KeysAreMeant
<1>10. ASSUME NEW d \in Onboardings, onboard'[d].pc = "import"
       PROVE  HasBegun(d) /\ Expected(d, machine'[On(d)].file)
  <2>1. onboard[d].pc = "import" /\ On(d) \in Machines
    BY <1>3, <1>6, <1>10 DEF OnboardTypeOK, Record, On
  <2> QED
    BY <1>7, <2>1 DEF FileIsExpected, HasBegun
<1>11. Expected(c, r.imported)
  BY <1>3, <1>4 DEF FileIsExpected
<1> QED
  BY <1>3, <1>4, <1>5, <1>8, <1>9, <1>10, <1>11, MoveKeepsInv
     DEF ManagerIsRight, TableIsRight, Import

LEMMA StartAgentKeepsInv ==
  ASSUME OnboardInv, NEW c \in Onboardings, StartAgent(c)
  PROVE  OnboardInv'
<1> DEFINE r == [onboard[c] EXCEPT !.pc = "look"]
<1> USE DEF OnboardInv, StartAgent
<1>1. Moves(c, r) /\ r.imported = onboard[c].imported /\ r.pc = "look" /\ r.report = "none"
  BY AdvanceMoves DEF Steps
<1> HIDE DEF r
<1>2. /\ onboard' \in [Onboardings -> Record]
      /\ onboard'[c] = r
      /\ \A d \in Onboardings \ {c} : onboard'[d] = onboard[d]
  BY <1>1, MovesKeep
<1>3. /\ \A m \in Machines : /\ machine'[m].file = machine[m].file
                             /\ machine'[m].key = machine[m].key
                             /\ machine'[m].runs \in {machine[m].key, machine[m].runs}
      /\ machine' \in [Machines -> [file : Keys, key : Keys, runs : Keys]]
  BY DEF OnboardTypeOK, On, Record
<1>4. OnboardTypeOK'
  BY <1>2, <1>3 DEF OnboardTypeOK
<1>5. \A m \in Machines, n \in Names :
        n \in {machine'[m].file, machine'[m].key, machine'[m].runs} => MeantAs(n, m)
  BY <1>3 DEF KeysAreMeant
<1>6. ASSUME NEW d \in Onboardings, onboard'[d].pc = "import"
      PROVE  HasBegun(d) /\ Expected(d, machine'[On(d)].file)
  <2>1. onboard[d].pc = "import" /\ On(d) \in Machines
    BY <1>1, <1>2, <1>6 DEF OnboardTypeOK, Record, On
  <2> QED
    BY <1>3, <2>1 DEF FileIsExpected, HasBegun
<1>7. r.imported # Nobody => Expected(c, r.imported)
  BY <1>1 DEF ImportIsExpected
<1> QED
  BY <1>1, <1>4, <1>5, <1>6, <1>7, MoveKeepsInv DEF ManagerIsRight, TableIsRight

\* The report is what the manager says, or worse.
LEMMA LookKeepsInv ==
  ASSUME OnboardInv, NEW c \in Onboardings, Look(c)
  PROVE  OnboardInv'
<1> USE DEF OnboardInv
<1>1. PICK report \in ReportOf(status[onboard[c].name]) :
        onboard' = [onboard EXCEPT ![c].pc = "store", ![c].report = report]
  BY DEF Look
<1> DEFINE r == [onboard[c] EXCEPT !.pc = "store", !.report = report]
<1>2. onboard[c] \in Record /\ report \in Reports \ {"none"}
  BY DEF OnboardTypeOK, ReportOf, Reports
<1>3. /\ r \in Record /\ r.pc = "store" /\ r.report = report /\ r.imported = onboard[c].imported
      /\ r.name = onboard[c].name /\ r.on = onboard[c].on
  BY <1>2 DEF Record, Steps
<1>4. onboard' = [onboard EXCEPT ![c] = r]
  BY <1>1, <1>2 DEF OnboardTypeOK
<1> HIDE DEF r
<1>5. Moves(c, r)
  BY <1>2, <1>3, <1>4 DEF Moves, Look, HasBegun, InFlight
<1>6. r.report = "active" => HasConnected(onboard[c].name)
  BY <1>2, <1>3 DEF ReportOf, ManagerIsRight, Record
<1> QED
  BY <1>3, <1>5, <1>6, MoveAloneKeepsInv DEF Look

\* What a call has seen is stored under its own name.
LEMMA StoreHostKeepsInv ==
  ASSUME OnboardInv, NEW c \in Onboardings, StoreHost(c)
  PROVE  OnboardInv'
<1> USE DEF OnboardInv
<1>1. PICK pc \in {"ok", "error"} :
        /\ onboard' = [onboard EXCEPT ![c].pc = pc, ![c].report = "none"]
        /\ pc = "ok" => onboard[c].report = "active"
  BY DEF StoreHost, Answered
<1> DEFINE r == [onboard[c] EXCEPT !.pc = pc, !.report = "none"]
<1>2. onboard[c] \in Record /\ onboard[c].name \in Names
  BY DEF OnboardTypeOK, Record
<1>3. /\ r \in Record /\ r.pc = pc /\ r.report = "none" /\ r.imported = onboard[c].imported
      /\ r.name = onboard[c].name /\ r.on = onboard[c].on
  BY <1>2 DEF Record, Steps, Reports
<1>4. onboard' = [onboard EXCEPT ![c] = r]
  BY <1>1, <1>2 DEF OnboardTypeOK
<1> HIDE DEF r
<1>5. Moves(c, r)
  BY <1>3, <1>4 DEF Moves, StoreHost, HasBegun
<1>6. /\ onboard' \in [Onboardings -> Record]
      /\ onboard'[c] = r
      /\ \A d \in Onboardings \ {c} : onboard'[d] = onboard[d]
  BY <1>5, MovesKeep
<1>7. onboard[c].report \in {"unknown", "active", "disconnected"}
  BY <1>2 DEF Record, Reports, ReportIsRight, StoreHost
<1>8. onboard[c].report = "active" => HasConnected(onboard[c].name)
  BY DEF ReportIsRight
<1>9. /\ hosts' \in [Names -> {"absent", "unknown"} \cup Statuses]
      /\ \A n \in Names : hosts'[n] = "active" => HasConnected(n)
  BY <1>2, <1>7, <1>8 DEF StoreHost, OnboardTypeOK, Statuses, TableIsRight
<1>10. OnboardTypeOK'
  BY <1>6, <1>9 DEF OnboardTypeOK, StoreHost
<1>11. \A d \in Onboardings :
         onboard'[d].pc = "import" => HasBegun(d) /\ Expected(d, machine'[On(d)].file)
  BY <1>1, <1>3, <1>6 DEF FileIsExpected, HasBegun, StoreHost
<1>12. r.imported # Nobody => Expected(c, r.imported)
  BY <1>3 DEF ImportIsExpected
<1> QED
  BY <1>1, <1>3, <1>5, <1>8, <1>9, <1>10, <1>11, <1>12, MoveKeepsInv
     DEF KeysAreMeant, ManagerIsRight, StoreHost

LEMMA BreakOffKeepsInv ==
  ASSUME OnboardInv, NEW c \in Onboardings, BreakOff(c)
  PROVE  OnboardInv'
<1> DEFINE r == [onboard[c] EXCEPT !.pc = "error", !.report = "none"]
<1> USE DEF OnboardInv
<1>1. onboard[c] \in Record
  BY DEF OnboardTypeOK
<1>2. /\ r \in Record /\ r.pc = "error" /\ r.report = "none" /\ r.imported = onboard[c].imported
      /\ r.name = onboard[c].name /\ r.on = onboard[c].on
  BY <1>1 DEF Record, Steps, Reports
<1>3. onboard' = [onboard EXCEPT ![c] = r]
  BY <1>1 DEF OnboardTypeOK, BreakOff, Answered
<1> HIDE DEF r
<1>4. Moves(c, r)
  BY <1>2, <1>3 DEF Moves, BreakOff, HasBegun, InFlight
<1> QED
  BY <1>2, <1>4, MoveAloneKeepsInv DEF BreakOff

\* Steps of the agents, the manager and Core, which leave the calls alone.
LEMMA OtherStepKeepsInv ==
  ASSUME OnboardInv, OnboardTypeOK', UNCHANGED <<onboard, beside>>, connected \subseteq connected',
         KeysAreMeant', ManagerIsRight', ListingIsRight', TableIsRight',
         \A m \in Machines : machine'[m].file = machine[m].file
  PROVE  OnboardInv'
<1> USE DEF OnboardInv
<1>1. GoesOn
  BY DEF GoesOn, HasBegun
<1>2. ReportIsRight'
  BY <1>1, HistoryStays DEF ReportIsRight, OnboardTypeOK, Record
<1>3. BesideIsComplete'
  BY DEF BesideIsComplete, InFlight, HasBegun, On
<1>4. FileIsExpected'
  <2> SUFFICES ASSUME NEW d \in Onboardings, onboard[d].pc = "import"
               PROVE  Expected(d, machine[On(d)].file)'
    BY DEF FileIsExpected
  <2>1. On(d)' = On(d) /\ On(d) \in Machines
    BY DEF On, OnboardTypeOK, Record
  <2> QED
    BY <2>1 DEF FileIsExpected, Expected
<1>5. ImportIsExpected'
  BY DEF ImportIsExpected, Expected, HasBegun
<1> QED
  BY <1>2, <1>3, <1>4, <1>5

LEMMA ConfirmRestartKeepsInv ==
  ASSUME OnboardInv, NEW n \in Names, ConfirmRestart(n)
  PROVE  OnboardInv'
<1> USE DEF OnboardInv, ConfirmRestart
<1>1. /\ \A m \in Machines : /\ machine'[m].file = machine[m].file
                             /\ machine'[m].key = machine[m].key
                             /\ machine'[m].runs \in {machine[m].key, machine[m].runs}
      /\ machine' \in [Machines -> [file : Keys, key : Keys, runs : Keys]]
  BY DEF OnboardTypeOK
<1>2. OnboardTypeOK'
  BY <1>1 DEF OnboardTypeOK
<1>3. KeysAreMeant'
  BY <1>1 DEF KeysAreMeant, MeantAs, HasBegun, On
<1>4. ManagerIsRight' /\ ListingIsRight' /\ TableIsRight'
  BY DEF ManagerIsRight, ListingIsRight, TableIsRight, HasConnected, HasBegun, On
<1> QED
  BY <1>1, <1>2, <1>3, <1>4, OtherStepKeepsInv

\* The key that runs is one that was meant for the machine.
LEMMA ConnectKeepsInv ==
  ASSUME OnboardInv, NEW n \in Names, ConnectAgent(n)
  PROVE  OnboardInv'
<1> USE DEF OnboardInv
<1>1. PICK m \in Machines : machine[m].runs = n /\ connected' = connected \cup {<<n, m>>}
  BY DEF ConnectAgent
<1>2. MeantAs(n, m)
  BY <1>1 DEF KeysAreMeant
<1>3. UNCHANGED <<machine, hosts, onboard, listing, mishaps, beside>>
  BY DEF ConnectAgent
<1>4. GoesOn
  BY <1>1, <1>3 DEF GoesOn, HasBegun
<1>5. HasConnected(n)'
  BY <1>1, <1>2, <1>3 DEF HasConnected, MeantAs, HasBegun, On
<1>6. /\ status' \in [Names -> Statuses \cup {"none"}]
      /\ \A k \in Names \ {n} : status'[k] = status[k]
  BY DEF ConnectAgent, OnboardTypeOK, Statuses
<1>7. OnboardTypeOK'
  BY <1>1, <1>3, <1>6 DEF OnboardTypeOK
<1>8. KeysAreMeant' /\ ManagerIsRight' /\ TableIsRight'
  BY <1>3, <1>4, <1>5, <1>6, HistoryStays DEF KeysAreMeant, ManagerIsRight, TableIsRight
<1>9. ListingIsRight'
  <2> SUFFICES ASSUME listing # << >>, NEW k \in DOMAIN listing, listing[k] = "active"
               PROVE  HasConnected(k)'
    BY <1>3 DEF ListingIsRight
  <2>1. k \in Names /\ HasConnected(k)
    BY DEF OnboardTypeOK, ListingIsRight
  <2> QED
    BY <1>4, <2>1, HistoryStays
<1> QED
  BY <1>1, <1>3, <1>7, <1>8, <1>9, OtherStepKeepsInv

LEMMA DisconnectKeepsInv ==
  ASSUME OnboardInv, NEW n \in Names, Disconnect(n)
  PROVE  OnboardInv'
<1> USE DEF OnboardInv, Disconnect, Mishap
<1>1. /\ status' \in [Names -> Statuses \cup {"none"}]
      /\ \A k \in Names : status'[k] = "active" => status[k] = "active"
  BY DEF OnboardTypeOK, Statuses
<1>2. OnboardTypeOK'
  BY <1>1 DEF OnboardTypeOK
<1>3. KeysAreMeant' /\ ManagerIsRight' /\ ListingIsRight' /\ TableIsRight'
  BY <1>1 DEF KeysAreMeant, ManagerIsRight, ListingIsRight, TableIsRight,
              MeantAs, HasConnected, HasBegun, On
<1> QED
  BY <1>2, <1>3, OtherStepKeepsInv

LEMMA ListAgentsKeepsInv ==
  ASSUME OnboardInv, ListAgents
  PROVE  OnboardInv'
<1> USE DEF OnboardInv, ListAgents
<1>1. /\ Agents \in SUBSET Names
      /\ listing' \in [Agents -> Statuses]
      /\ \A n \in Agents : listing'[n] = status[n]
  BY DEF Agents, OnboardTypeOK
<1>2. OnboardTypeOK'
  BY <1>1 DEF OnboardTypeOK
<1>3. ListingIsRight'
  BY <1>1 DEF ListingIsRight, ManagerIsRight, HasConnected, HasBegun, On
<1>4. KeysAreMeant' /\ ManagerIsRight' /\ TableIsRight'
  BY DEF KeysAreMeant, ManagerIsRight, TableIsRight, MeantAs, HasConnected, HasBegun, On
<1> QED
  BY <1>2, <1>3, <1>4, OtherStepKeepsInv

\* SyncHosts and SyncFails.
LEMMA SyncKeepsInv ==
  ASSUME OnboardInv, SyncHosts \/ SyncFails
  PROVE  OnboardInv'
<1> USE DEF OnboardInv
<1>1. /\ listing # << >> /\ listing' = << >>
      /\ UNCHANGED <<status, machine, onboard, connected, beside>>
      /\ mishaps' \in Nat
  BY DEF SyncHosts, SyncFails, Mishap, OnboardTypeOK
<1>2. /\ hosts' \in [Names -> {"absent", "unknown"} \cup Statuses]
      /\ \A n \in Names : hosts'[n] = "active" => HasConnected(n)
  <2>1. PICK A \in SUBSET Names : listing \in [A -> Statuses]
    BY <1>1 DEF OnboardTypeOK
  <2>2. CASE SyncHosts
    BY <1>1, <2>1, <2>2 DEF SyncHosts, Stored, OnboardTypeOK, ListingIsRight, TableIsRight
  <2>3. CASE SyncFails
    BY <2>3 DEF SyncFails, OnboardTypeOK, TableIsRight
  <2> QED
    BY <2>2, <2>3
<1>3. OnboardTypeOK'
  BY <1>1, <1>2 DEF OnboardTypeOK
<1>4. KeysAreMeant' /\ ManagerIsRight' /\ ListingIsRight' /\ TableIsRight'
  BY <1>1, <1>2 DEF KeysAreMeant, ManagerIsRight, ListingIsRight, TableIsRight,
                    MeantAs, HasConnected, HasBegun, On
<1> QED
  BY <1>1, <1>3, <1>4, OtherStepKeepsInv

LEMMA OnboardStepKeepsInv ==
  ASSUME OnboardInv, NEW c \in Onboardings, OnboardStep(c)
  PROVE  OnboardInv'
<1>1. CASE Find(c) \/ Configure(c) \/ DeployDependencies(c)
  <2>1. PICK from \in Steps \ {"idle", "store", "ok", "error"},
             to \in Steps \ {"idle", "import", "store", "ok", "error"} : Advance(c, from, to)
    <3>1. CASE Find(c)
      BY <3>1 DEF Find, Steps
    <3>2. CASE Configure(c)
      BY <3>2 DEF Configure, Steps
    <3>3. CASE DeployDependencies(c)
      BY <3>3 DEF DeployDependencies, Steps
    <3> QED
      BY <1>1, <3>1, <3>2, <3>3
  <2>2. UNCHANGED <<status, machine, hosts, listing, mishaps, connected, beside>>
    BY <1>1 DEF Find, Configure, DeployDependencies
  <2> QED
    BY <2>1, <2>2, AdvanceKeepsInv
<1> QED
  BY <1>1, BeginKeepsInv, RegisterKeepsInv, WriteKeyKeepsInv, ImportKeepsInv, StartAgentKeepsInv,
     LookKeepsInv, StoreHostKeepsInv, BreakOffKeepsInv DEF OnboardStep

LEMMA StutterKeepsInv ==
  ASSUME OnboardInv, UNCHANGED onboardVars
  PROVE  OnboardInv'
<1> USE DEF OnboardInv, onboardVars
<1>1. OnboardTypeOK'
  BY DEF OnboardTypeOK
<1>2. KeysAreMeant' /\ ManagerIsRight' /\ ListingIsRight' /\ TableIsRight'
  BY DEF KeysAreMeant, ManagerIsRight, ListingIsRight, TableIsRight,
         MeantAs, HasConnected, HasBegun, On
<1> QED
  BY <1>1, <1>2, OtherStepKeepsInv

-----------------------------------------------------------------------------
(***************************************************************************)
(* Theorems.                                                               *)
(***************************************************************************)
\* The inductive invariant of onboarding: names get only onto machines they
\* were meant for, and what says "active" goes back to a connection.
THEOREM OnboardInvariant == OnboardSpec => []OnboardInv
<1>1. OnboardInv /\ [OnboardNext]_onboardVars => OnboardInv'
  <2> SUFFICES ASSUME OnboardInv, [OnboardNext]_onboardVars
               PROVE  OnboardInv'
    OBVIOUS
  <2> QED
    BY OnboardStepKeepsInv, ConfirmRestartKeepsInv, ConnectKeepsInv, DisconnectKeepsInv,
       ListAgentsKeepsInv, SyncKeepsInv, StutterKeepsInv DEF OnboardNext
<1> QED
  BY <1>1, OnboardInitInv, PTL DEF OnboardSpec

\* A host is active, in the table or in an answer, only when its agent has
\* connected from a machine that was to be onboarded as that agent, whatever
\* broke off or was stored late (onboarding.py:209-229).
THEOREM ActiveHostsHaveConnected == OnboardSpec => []ActiveHasConnected
<1>1. OnboardInv => ActiveHasConnected
  BY DEF OnboardInv, ReportIsRight, TableIsRight, HasConnected, ActiveHasConnected
<1> QED
  BY <1>1, OnboardInvariant, PTL

\* The key that a call imports is its own or that of a call that ran on the
\* machine at the same time, for any number of calls (onboarding.py:191-200).
THEOREM KeysAreOwnOrFromBeside == OnboardSpec => []ImportsItsOwn
<1>1. OnboardInv => ImportsItsOwn
  BY DEF OnboardInv, ImportIsExpected, Expected, ImportsItsOwn
<1> QED
  BY <1>1, OnboardInvariant, PTL
=============================================================================
