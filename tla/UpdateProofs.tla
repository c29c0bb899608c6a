----------------------------- MODULE UpdateProofs -----------------------------
(***************************************************************************)
(* Proofs about the updater, module Update: for every set of paths, files, *)
(* and processes, any number of commands and releases whatever they ship,  *)
(* and whatever is killed.                                                 *)
(***************************************************************************)
EXTENDS Update, FiniteSetTheorems, TLAPS

(***************************************************************************)
(* The inductive invariant, part by part.                                  *)
(***************************************************************************)
AllPaths == Paths \cup {"VERSION"}

Content == [SystemFiles -> Nat]

\* What a process may be: idle, in an apply before and after the fetch, in a
\* rollback.
Early == [at : {"looked", "locked", "saved", "leaving"}, local : Nat]
Late == [at : {"updating", "updated", "leaving"}, local : Nat, todo : Seq(AllPaths)]
Restoring == [at : {"restoring", "restored"}, commit : Nat, todo : Seq(AllPaths)]

Doings == {Idle} \cup Early \cup Late \cup Restoring

UpdateTypeOK ==
  /\ tree \in Content /\ before \in Content
  /\ log \in Seq(Content) /\ Len(log) > 0
  /\ branches = << >> \/ DOMAIN branches # {}
  /\ \A v \in DOMAIN branches : v \in Nat /\ branches[v] \in 1..Len(log)
  /\ fetched \in Nat /\ upstream \in Nat /\ fetched <= upstream
  /\ lock \in BOOLEAN
  /\ process \in [Processes -> Doings]
  /\ \A p \in Processes :
       /\ process[p].at \in {"updating", "restoring"} => process[p].todo # << >>
       /\ process[p].at = "restoring" => process[p].commit \in 1..Len(log)

\* Until an apply races for the lock or loses it to the operator, whoever
\* applies is alone and has the lock.
ApplierHasLock ==
  noted \cap {"raced", "removed"} = {} =>
    /\ \A p, q \in Applying : p = q
    /\ Applying # {} => lock

\* The rest holds until a command works beside another, a git branch or checkout
\* fails, or an apply begins on what was never committed.
Orderly == noted \cap {"overlapped", "uncommitted", "failed"} = {}

Busy(p) == process[p] # Idle

OneIsBusy == \A p, q \in Processes : Busy(p) /\ Busy(q) => p = q

\* Every file that the release of its VERSION ships is of that release.
Complete(t) == \A f \in SystemFiles : f \in Ships[t["VERSION"]] => t[f] = t["VERSION"]

\* Up to release v the two have the same files of the same releases.
SameUpTo(t, u, v) == \A f \in SystemFiles : Kept(t[f], v) = Kept(u[f], v)

\* What is committed is complete, no branch is of a later release, and there are
\* releases as new.
CommittedIsComplete ==
  /\ Complete(Committed)
  /\ Committed["VERSION"] > 0 /\ Committed["VERSION"] <= upstream
  /\ \A v \in DOMAIN branches : v <= Committed["VERSION"]

\* A branch holds a complete commit of the release it is named for.
BranchesAreComplete ==
  \A v \in DOMAIN branches :
    v > 0 /\ log[branches[v]]["VERSION"] = v /\ Complete(log[branches[v]])

Backup == log[branches[Latest]]

\* The branch a rollback chooses is of the newest release, and has what the last
\* apply found committed, as has what is committed at that release now.
BackupIsBefore ==
  branches # << >> =>
    /\ \A v \in DOMAIN branches : v <= Latest
    /\ before["VERSION"] = Latest /\ SameUpTo(before, Backup, Latest)
    /\ Committed["VERSION"] = Latest => SameUpTo(Committed, Backup, Latest)

\* Where that branch has no file, the working copy has none that is as old.
OthersAreLater ==
  branches # << >> =>
    \A f \in SystemFiles : Backup[f] = Missing => Kept(tree[f], Latest) = Missing

HistoryFits ==
  /\ CommittedIsComplete
  /\ BranchesAreComplete
  /\ BackupIsBefore
  /\ OthersAreLater

\* What an update makes of what is committed.
Updated == Overlay(Committed, Whole(fetched), SystemFiles)

\* How far the command of p has come.
ApplyFits(p) ==
  /\ process[p].at \in {"looked", "locked"} => process[p].local = LocalVersion
  /\ process[p].at = "saved" => tree = Committed
  /\ process[p].at \in {"updating", "updated"} => Committed["VERSION"] <= fetched
  /\ process[p].at = "updating" =>
       /\ \A f \in SystemFiles : tree[f] \in {Committed[f], Updated[f]}
       /\ \A path \in AllPaths \ ToSet(process[p].todo) :
            \A f \in Under(path) : tree[f] = Updated[f]
  /\ process[p].at = "updated" => \A f \in SystemFiles : tree[f] = Updated[f]

RollbackFits(p) ==
  /\ process[p].at \in {"restoring", "restored"} => branches # << >>
  /\ process[p].at = "restoring" =>
       /\ process[p].commit = branches[Latest]
       /\ \A path \in AllPaths \ ToSet(process[p].todo) :
            \A f \in Under(path) : Backup[f] # Missing => tree[f] = Backup[f]
  /\ process[p].at = "restored" =>
       \A f \in SystemFiles : Backup[f] # Missing => tree[f] = Backup[f]

CommandsFit == \A p \in Processes : ApplyFits(p) /\ RollbackFits(p)

OrderlyInv ==
  Orderly =>
    /\ OneIsBusy
    /\ HistoryFits
    /\ CommandsFit

UpdateInv == UpdateTypeOK /\ ApplierHasLock /\ OrderlyInv

-----------------------------------------------------------------------------
(***************************************************************************)
(* The paths, and lemmas about the sequences of them.                      *)
(***************************************************************************)
\* The list of the system layer's paths names each of them.
LEMMA SystemPathsProperties ==
  /\ SystemPaths \in Seq(AllPaths) /\ SystemPaths # << >>
  /\ ToSet(SystemPaths) = AllPaths
<1> DEFINE n == Cardinality(Paths)
           s == SetToSeq(Paths)
<1>1. n \in Nat /\ IsFiniteSet(Paths) /\ ExistsBijection(1..n, Paths)
  BY FS_CardinalityType, UpdateAssumption
<1>2. \E f \in [1..n -> Paths] : IsInjective(f)
  BY <1>1 DEF ExistsBijection, Bijection, Injection
<1>3. s \in [1..n -> Paths] /\ IsInjective(s)
  BY <1>2 DEF SetToSeq
<1>4. s \in Injection(1..n, Paths)
  BY <1>3 DEF Injection
<1>5. Cardinality(1..n) = n
  BY <1>1, FS_Interval
<1>6. s \in Surjection(1..n, Paths)
  BY <1>1, <1>4, <1>5, FS_Injection
<1>7. \A p \in Paths : \E i \in 1..n : s[i] = p
  BY <1>6 DEF Surjection
<1> HIDE DEF n, s
<1>8. s \in Seq(AllPaths) /\ Len(s) = n
  BY <1>1, <1>3 DEF AllPaths
<1> DEFINE t == s \o <<"VERSION">>
<1>9. /\ t \in Seq(AllPaths) /\ Len(t) = n + 1
      /\ \A i \in 1..n : t[i] = s[i]
      /\ t[n + 1] = "VERSION"
  BY <1>1, <1>8 DEF AllPaths
<1>10. SystemPaths = t
  BY DEF SystemPaths, s
<1> HIDE DEF t
<1>11. DOMAIN t = 1..(n + 1)
  BY <1>9
<1>12. \A p \in AllPaths : \E i \in DOMAIN t : t[i] = p
  <2>1. ASSUME NEW p \in Paths PROVE \E i \in DOMAIN t : t[i] = p
    <3>1. PICK i \in 1..n : s[i] = p
      BY <1>7
    <3>2. i \in DOMAIN t
      BY <1>1, <1>11
    <3> QED
      BY <1>9, <3>1, <3>2
  <2>2. \E i \in DOMAIN t : t[i] = "VERSION"
    BY <1>1, <1>9, <1>11
  <2> QED
    BY <2>1, <2>2 DEF AllPaths
<1>13. \A i \in DOMAIN t : t[i] \in AllPaths
  BY <1>9
<1>14. ToSet(t) = AllPaths
  BY <1>12, <1>13 DEF ToSet
<1>15. t # << >>
  BY <1>1, <1>9
<1> QED
  BY <1>9, <1>10, <1>14, <1>15

\* The files are those under the paths.
LEMMA FilesProperties ==
  /\ "VERSION" \in SystemFiles
  /\ \A path \in AllPaths : Under(path) \subseteq SystemFiles
  /\ \A f \in SystemFiles : \E path \in AllPaths : f \in Under(path)
<1>1. SystemFiles = UNION {Under(path) : path \in AllPaths}
  BY DEF SystemFiles, AllPaths
<1>2. "VERSION" \in AllPaths /\ "VERSION" \in Under("VERSION")
  BY DEF AllPaths, Under
<1> QED
  BY <1>1, <1>2

\* All that a release ships has its version.
LEMMA WholeProperties ==
  ASSUME NEW v \in Nat
  PROVE  /\ Whole(v) \in Content
         /\ Whole(v)["VERSION"] = v
         /\ \A f \in SystemFiles :
              Whole(v)[f] = IF f = "VERSION" \/ f \in Ships[v] THEN v ELSE Missing
BY FilesProperties DEF Whole, Content, Missing

LEMMA OverlayProperties ==
  ASSUME NEW t \in Content, NEW c \in Content, NEW files
  PROVE  /\ Overlay(t, c, files) \in Content
         /\ \A f \in SystemFiles :
              Overlay(t, c, files)[f] = IF f \in files /\ c[f] # Missing THEN c[f] ELSE t[f]
BY DEF Overlay, Content

\* A complete tree has its own release laid over it without a change.
LEMMA UpdatedProperties ==
  ASSUME UpdateTypeOK
  PROVE  /\ Committed \in Content /\ Committed = log[Len(log)] /\ Len(log) \in 1..Len(log)
         /\ Committed["VERSION"] \in Nat
         /\ Updated \in Content
         /\ fetched > 0 =>
              /\ \A f \in SystemFiles :
                   Updated[f] = IF f = "VERSION" \/ f \in Ships[fetched] THEN fetched
                                ELSE Committed[f]
              /\ Complete(Committed) /\ Committed["VERSION"] = fetched =>
                   \A f \in SystemFiles : Updated[f] = Committed[f]
<1>1. Committed \in Content /\ Committed = log[Len(log)] /\ Len(log) \in 1..Len(log)
  BY DEF Committed, Last, UpdateTypeOK
<1>2. Committed["VERSION"] \in Nat
  BY <1>1, FilesProperties DEF Content
<1>3. /\ fetched \in Nat /\ Whole(fetched) \in Content
      /\ \A f \in SystemFiles :
           Whole(fetched)[f] = IF f = "VERSION" \/ f \in Ships[fetched] THEN fetched ELSE 0
  BY WholeProperties DEF UpdateTypeOK, Missing
<1>4. /\ Updated \in Content
      /\ \A f \in SystemFiles :
           Updated[f] = IF Whole(fetched)[f] # 0 THEN Whole(fetched)[f] ELSE Committed[f]
  BY <1>1, <1>3, OverlayProperties DEF Updated, Missing
<1>5. ASSUME fetched > 0
      PROVE  \A f \in SystemFiles :
               Updated[f] = IF f = "VERSION" \/ f \in Ships[fetched] THEN fetched
                            ELSE Committed[f]
  BY <1>3, <1>4, <1>5
<1>6. ASSUME fetched > 0, Complete(Committed), Committed["VERSION"] = fetched,
             NEW f \in SystemFiles
      PROVE  Updated[f] = Committed[f]
  BY <1>5, <1>6 DEF Complete
<1> QED
  BY <1>1, <1>2, <1>4, <1>5, <1>6

\* What is still to do after the first path is done.
LEMMA TailProperties ==
  ASSUME NEW s \in Seq(AllPaths), s # << >>
  PROVE  /\ Head(s) \in AllPaths /\ Tail(s) \in Seq(AllPaths)
         /\ \A p \in ToSet(s) : p = Head(s) \/ p \in ToSet(Tail(s))
         /\ Len(s) # 1 => Tail(s) # << >>
         /\ Len(s) = 1 => ToSet(Tail(s)) = {}
<1>1. Len(s) \in Nat /\ Len(s) > 0
  OBVIOUS
<1>2. /\ Head(s) = s[1] /\ Tail(s) \in Seq(AllPaths) /\ Len(Tail(s)) = Len(s) - 1
      /\ \A i \in 1..(Len(s) - 1) : Tail(s)[i] = s[i + 1]
  BY <1>1
<1>3. ASSUME NEW p \in ToSet(s), p # Head(s) PROVE p \in ToSet(Tail(s))
  <2>1. PICK i \in DOMAIN s : s[i] = p
    BY DEF ToSet
  <2>2. i \in 2..Len(s)
    BY <1>1, <1>2, <1>3, <2>1
  <2>3. i - 1 \in DOMAIN Tail(s) /\ Tail(s)[i - 1] = p
    BY <1>1, <1>2, <2>1, <2>2
  <2> QED
    BY <2>3 DEF ToSet
<1>4. Tail(s) # << >> <=> Len(Tail(s)) # 0
  BY <1>2
<1>5. DOMAIN Tail(s) = 1..(Len(s) - 1)
  BY <1>2
<1>6. Len(s) = 1 => DOMAIN Tail(s) = {}
  BY <1>1, <1>5
<1>7. Len(s) = 1 => ToSet(Tail(s)) = {}
  BY <1>6 DEF ToSet
<1>8. \A p \in ToSet(s) : p = Head(s) \/ p \in ToSet(Tail(s))
  BY <1>3
<1>9. Head(s) \in AllPaths
  BY <1>1, <1>2
<1> QED
  BY <1>1, <1>2, <1>4, <1>7, <1>8, <1>9

LEMMA CommitAppends ==
  ASSUME NEW s \in Seq(Content), NEW c \in Content
  PROVE  /\ Append(s, c) \in Seq(Content)
         /\ Len(Append(s, c)) = Len(s) + 1 /\ Len(s) \in Nat
         /\ Last(Append(s, c)) = c
         /\ \A i \in 1..Len(s) : Append(s, c)[i] = s[i]
<1>1. /\ Append(s, c) \in Seq(Content)
      /\ Len(Append(s, c)) = Len(s) + 1 /\ Len(s) \in Nat
  OBVIOUS
<1>2. Append(s, c)[Len(s) + 1] = c
  OBVIOUS
<1>3. \A i \in 1..Len(s) : Append(s, c)[i] = s[i]
  OBVIOUS
<1>4. Last(Append(s, c)) = Append(s, c)[Len(Append(s, c))]
  BY DEF Last
<1>5. Last(Append(s, c)) = c
  BY <1>1, <1>2, <1>4, Zenon
<1> QED
  BY <1>1, <1>3, <1>5

-----------------------------------------------------------------------------
(***************************************************************************)
(* What a process may become.                                              *)
(***************************************************************************)
LEMMA EarlyIs ==
  ASSUME NEW at \in {"looked", "locked", "saved", "leaving"}, NEW v \in Nat
  PROVE  [at |-> at, local |-> v] \in Doings
BY DEF Doings, Early

\* What each kind of doing carries.
LEMMA DoingIs ==
  ASSUME NEW d \in Doings
  PROVE  /\ d.at = "idle" <=> d = Idle
         /\ d.at \in {"looked", "locked", "saved"} => d \in Early
         /\ d.at \in {"updating", "updated"} => d \in Late
         /\ d.at = "leaving" => d \in Early \cup Late
         /\ d.at \in {"restoring", "restored"} => d \in Restoring
         /\ d.at \in {"idle", "looked", "locked", "saved", "updating", "updated",
                      "leaving", "restoring", "restored"}
<1>1. CASE d = Idle
  BY <1>1 DEF Idle
<1>2. CASE d \in Early
  BY <1>2 DEF Early, Idle
<1>3. CASE d \in Late
  BY <1>3 DEF Late, Idle
<1>4. CASE d \in Restoring
  BY <1>4 DEF Restoring, Idle
<1> QED
  BY <1>1, <1>2, <1>3, <1>4 DEF Doings

LEMMA LeavingIs ==
  ASSUME NEW d \in Early \cup Late
  PROVE  [d EXCEPT !.at = "leaving"] \in Doings
BY DEF Doings, Early, Late

\* The process p does r, the others what they did.
LEMMA ProcessChanges ==
  ASSUME UpdateTypeOK, NEW p \in Processes, NEW r,
         process' = [process EXCEPT ![p] = r]
  PROVE  /\ process'[p] = r
         /\ \A q \in Processes \ {p} : process'[q] = process[q]
         /\ r \in Doings => process' \in [Processes -> Doings]
BY DEF UpdateTypeOK, Doings

LEMMA GoesIs ==
  ASSUME UpdateTypeOK, NEW p \in Processes, NEW at, Goes(p, at)
  PROVE  process' = [process EXCEPT ![p] = [process[p] EXCEPT !.at = at]]
BY DEF Goes, UpdateTypeOK

\* In an orderly run whoever is busy is alone.
LEMMA AloneWhileOrderly ==
  ASSUME UpdateInv, Orderly, NEW p \in Processes, Busy(p)
  PROVE  \A q \in Processes \ {p} : process[q] = Idle
BY DEF UpdateInv, OrderlyInv, OneIsBusy, Busy

\* With the others idle, only the doings of p are to be looked at.
LEMMA OneFits ==
  ASSUME NEW p \in Processes,
         \A q \in Processes \ {p} : process'[q] = Idle,
         ApplyFits(p)', RollbackFits(p)'
  PROVE  OneIsBusy' /\ CommandsFit'
<1>1. OneIsBusy'
  BY DEF OneIsBusy, Busy
<1>2. ASSUME NEW q \in Processes \ {p}
      PROVE  ApplyFits(q)' /\ RollbackFits(q)'
  BY <1>2 DEF ApplyFits, RollbackFits, Idle
<1> QED
  BY <1>1, <1>2 DEF CommandsFit

\* What is committed, what a rollback chooses, and what an update would make of
\* it follow from the commits, the branches and what is fetched.
LEMMA NamesStay ==
  ASSUME UNCHANGED <<log, branches>>
  PROVE  /\ Committed' = Committed /\ Latest' = Latest /\ Backup' = Backup
         /\ fetched' = fetched => Updated' = Updated
BY DEF Committed, Last, Latest, Backup, Updated, Overlay, Whole

\* With the commits, the branches, and the last backup what they were, their
\* parts of the invariant stay, and with the working copy all of them.
LEMMA HistoryStays ==
  ASSUME OrderlyInv, UpdateTypeOK, Orderly, UNCHANGED <<log, branches, before>>,
         upstream' \in Nat, upstream <= upstream'
  PROVE  /\ CommittedIsComplete' /\ BranchesAreComplete' /\ BackupIsBefore'
         /\ tree' = tree => HistoryFits'
<1> USE DEF HistoryFits
<1>1. Committed' = Committed /\ Latest' = Latest /\ Backup' = Backup
  BY NamesStay
<1>2. CommittedIsComplete'
  <2>1. Committed["VERSION"] \in Nat /\ upstream \in Nat
    BY UpdatedProperties DEF UpdateTypeOK
  <2> QED
    BY <1>1, <2>1 DEF OrderlyInv, CommittedIsComplete, Complete
<1>3. BranchesAreComplete'
  BY DEF OrderlyInv, BranchesAreComplete, Complete
<1>4. BackupIsBefore'
  BY <1>1 DEF OrderlyInv, BackupIsBefore, SameUpTo, Kept
<1>5. tree' = tree => OthersAreLater'
  BY <1>1 DEF OrderlyInv, OthersAreLater, Kept
<1> QED
  BY <1>2, <1>3, <1>4, <1>5

\* Among numbers up to n there is a greatest.
LEMMA Greatest ==
  ASSUME NEW n \in Nat, NEW S, S \subseteq 0..n, S # {}
  PROVE  \E x \in S : \A y \in S : y <= x
<1> DEFINE T == {i \in Nat : i <= n /\ n - i \in S}
<1>1. T \subseteq Nat /\ T # {}
  <2>1. PICK x \in S : x \in 0..n
    OBVIOUS
  <2>2. n - x \in Nat /\ n - x <= n /\ n - (n - x) = x
    BY <2>1
  <2> QED
    BY <2>1, <2>2
<1>2. PICK i \in T : \A j \in T : <<j, i>> \notin OpToRel(<, Nat)
  <2> HIDE DEF T
  <2> QED
    BY <1>1, WFMin, NatLessThanWellFounded
<1>3. \A j \in T : ~(j < i)
  BY <1>2 DEF OpToRel
<1>4. n - i \in S /\ i \in Nat
  BY <1>2
<1>5. ASSUME NEW y \in S PROVE y <= n - i
  <2>1. y \in Nat /\ y <= n
    OBVIOUS
  <2>2. n - y \in T
    BY <2>1
  <2> QED
    BY <1>3, <1>4, <2>1, <2>2
<1> QED
  BY <1>4, <1>5

\* The branch a rollback chooses exists.
LEMMA LatestProperties ==
  ASSUME UpdateTypeOK, branches # << >>
  PROVE  Latest \in DOMAIN branches /\ Latest \in Nat /\ Backup \in Content
<1> DEFINE S == {branches[v] : v \in DOMAIN branches}
<1>1. Len(log) \in Nat /\ \A v \in DOMAIN branches : branches[v] \in 0..Len(log)
  BY DEF UpdateTypeOK
<1>2. S \subseteq 0..Len(log) /\ S # {}
  BY <1>1 DEF UpdateTypeOK
<1>3. \E x \in S : \A y \in S : y <= x
  <2> HIDE DEF S
  <2> QED
    BY <1>1, <1>2, Greatest
<1>4. \E v \in DOMAIN branches : \A w \in DOMAIN branches : branches[v] >= branches[w]
  BY <1>1, <1>3
<1>5. Latest \in DOMAIN branches
  BY <1>4 DEF Latest
<1> QED
  BY <1>5 DEF UpdateTypeOK, Backup

-----------------------------------------------------------------------------
(***************************************************************************)
(* The invariant holds initially and is kept by every action.              *)
(***************************************************************************)
LEMMA UpdateInvInit == Init => UpdateInv
<1> SUFFICES ASSUME Init
             PROVE  UpdateInv
  OBVIOUS
<1>1. /\ 1 \in Nat /\ Whole(1) \in Content /\ Committed = Whole(1)
      /\ Whole(1)["VERSION"] = 1
  BY WholeProperties DEF Init, Committed, Last
<1>2. \A p \in Processes : process[p] = Idle /\ Idle.at = "idle"
  BY DEF Init, Idle
<1>3. UpdateTypeOK
  <2>1. branches = << >> /\ DOMAIN branches = {}
    BY DEF Init
  <2>2. log \in Seq(Content) /\ Len(log) = 1
    BY <1>1 DEF Init
  <2>3. process \in [Processes -> Doings]
    BY DEF Init, Doings
  <2>4. /\ tree = Whole(1) /\ before = Whole(1) /\ fetched = 0 /\ upstream = 1
        /\ lock \in BOOLEAN
    BY DEF Init
  <2>5. \A p \in Processes : process[p].at \notin {"updating", "restoring"}
    BY <1>2
  <2> QED
    BY <1>1, <2>1, <2>2, <2>3, <2>4, <2>5 DEF UpdateTypeOK
<1>4. ApplierHasLock
  BY <1>2 DEF ApplierHasLock, Applying
<1>5. OneIsBusy /\ CommandsFit
  BY <1>2 DEF OneIsBusy, Busy, CommandsFit, ApplyFits, RollbackFits
<1>6. CommittedIsComplete
  <2>1. Complete(Whole(1))
    BY <1>1, WholeProperties DEF Complete
  <2>2. branches = << >> /\ upstream = 1
    BY DEF Init
  <2> QED
    BY <1>1, <2>1, <2>2 DEF CommittedIsComplete
<1>7. BranchesAreComplete /\ BackupIsBefore /\ OthersAreLater
  BY DEF BranchesAreComplete, BackupIsBefore, OthersAreLater, Init
<1> QED
  BY <1>3, <1>4, <1>5, <1>6, <1>7 DEF UpdateInv, OrderlyInv, HistoryFits

\* A step that leaves all but the dismissal and the count of commands.
LEMMA UnchangedKeepsInv ==
  ASSUME UpdateInv,
         UNCHANGED <<tree, log, branches, fetched, upstream, lock, process, before, noted>>
  PROVE  UpdateInv'
<1>1. UpdateTypeOK'
  BY DEF UpdateInv, UpdateTypeOK
<1>2. ApplierHasLock'
  BY DEF UpdateInv, ApplierHasLock, Applying
<1>3. Orderly' => Orderly /\ OneIsBusy' /\ CommandsFit'
  BY NamesStay DEF UpdateInv, OrderlyInv, Orderly, OneIsBusy, Busy, CommandsFit, ApplyFits,
         RollbackFits, LocalVersion
<1>4. Orderly' => HistoryFits'
  BY <1>3, HistoryStays DEF UpdateInv, UpdateTypeOK
<1> QED
  BY <1>1, <1>2, <1>3, <1>4 DEF UpdateInv, OrderlyInv

\* An apply that looks for the lock, and ends if it is there.
LEMMA LookKeepsInv ==
  ASSUME UpdateInv, NEW p \in Processes, Look(p)
  PROVE  UpdateInv'
<1> USE DEF UpdateInv
<1>1. /\ UNCHANGED <<tree, log, branches, fetched, upstream, lock, dismissed, before>>
      /\ process[p] = Idle
  BY DEF Look, Starts, copy
<1>2. CASE lock
  <2>1. UNCHANGED <<process, noted>>
    BY <1>2 DEF Look, EndsAtOnce
  <2> QED
    BY <1>1, <2>1, UnchangedKeepsInv
<1>3. CASE ~lock
  <2> DEFINE r == [at |-> "looked", local |-> LocalVersion]
  <2>1. /\ process' = [process EXCEPT ![p] = r] /\ noted \subseteq noted'
        /\ "overlapped" \notin noted' => \A q \in Processes \ {p} : process[q] = Idle
    BY <1>3 DEF Look, Begins
  <2>2. LocalVersion \in Nat
    BY FilesProperties DEF LocalVersion, UpdateTypeOK, Content
  <2>3. r \in Doings /\ r.at = "looked" /\ r.local = LocalVersion
    BY <2>2, EarlyIs
  <2> HIDE DEF r
  <2>4. /\ process' \in [Processes -> Doings] /\ process'[p] = r
        /\ \A q \in Processes \ {p} : process'[q] = process[q]
    BY <2>1, <2>3, ProcessChanges
  <2>5. UpdateTypeOK'
    BY <1>1, <2>3, <2>4 DEF UpdateTypeOK
  <2>6. ApplierHasLock'
    <3>1. Applying' = Applying
      BY <1>1, <2>3, <2>4 DEF Applying, Idle
    <3> QED
      BY <1>1, <2>1, <3>1 DEF ApplierHasLock
  <2>7. ASSUME Orderly' PROVE OrderlyInv'
    <3>1. Orderly /\ \A q \in Processes \ {p} : process'[q] = Idle
      BY <2>1, <2>4, <2>7 DEF Orderly
    <3>2. ApplyFits(p)' /\ RollbackFits(p)'
      BY <1>1, <2>3, <2>4 DEF ApplyFits, RollbackFits, LocalVersion
    <3>3. OneIsBusy' /\ CommandsFit'
      BY <3>1, <3>2, OneFits
    <3>4. HistoryFits'
      BY <1>1, <3>1, HistoryStays DEF UpdateTypeOK
    <3> QED
      BY <3>3, <3>4 DEF OrderlyInv
  <2> QED
    BY <2>5, <2>6, <2>7 DEF OrderlyInv
<1> QED
  BY <1>2, <1>3

\* Only taking the lock makes an apply of what was none, so the lock stays with
\* whoever has it.
LEMMA ApplierKeepsLock ==
  ASSUME UpdateInv, NEW p \in Processes,
         \A q \in Processes \ {p} : process'[q] = process[q],
         p \in Applying' => p \in Applying,
         lock' = lock, noted \subseteq noted'
  PROVE  ApplierHasLock'
<1>1. Applying' \subseteq Applying
  BY DEF Applying
<1> QED
  BY <1>1 DEF UpdateInv, ApplierHasLock

\* The lock is taken when no apply has it, or the race is noted.
LEMMA TakeLockKeepsInv ==
  ASSUME UpdateInv, NEW p \in Processes, TakeLock(p)
  PROVE  UpdateInv'
<1> USE DEF UpdateInv
<1> DEFINE r == [process[p] EXCEPT !.at = "locked"]
<1>1. /\ UNCHANGED <<tree, log, branches, fetched, upstream, before>>
      /\ process[p].at = "looked" /\ process[p] \in Doings
      /\ lock' = TRUE /\ noted \subseteq noted' /\ (lock => "raced" \in noted')
      /\ process' = [process EXCEPT ![p] = r]
  BY GoesIs DEF TakeLock, copy, UpdateTypeOK
<1>2. process[p] \in Early
  BY <1>1, DoingIs
<1>3. r \in Doings /\ r.at = "locked" /\ r.local = process[p].local
  BY <1>2 DEF Early, Doings
<1> HIDE DEF r
<1>4. /\ process' \in [Processes -> Doings] /\ process'[p] = r
      /\ \A q \in Processes \ {p} : process'[q] = process[q]
  BY <1>1, <1>3, ProcessChanges
<1>5. UpdateTypeOK'
  BY <1>1, <1>3, <1>4 DEF UpdateTypeOK
<1>6. ApplierHasLock'
  <2>1. Applying' \subseteq Applying \cup {p}
    BY <1>1, <1>4 DEF Applying
  <2> QED
    BY <1>1, <2>1 DEF ApplierHasLock
<1>7. ASSUME Orderly' PROVE OrderlyInv'
  <2>1. Orderly /\ Busy(p)
    BY <1>1, <1>7 DEF Orderly, Busy, Idle
  <2>2. ApplyFits(p)
    BY <2>1 DEF OrderlyInv, CommandsFit
  <2>3. ApplyFits(p)' /\ RollbackFits(p)'
    BY <1>1, <1>3, <1>4, <2>2 DEF ApplyFits, RollbackFits, LocalVersion
  <2>4. OneIsBusy' /\ CommandsFit'
    BY <1>4, <2>1, <2>3, AloneWhileOrderly, OneFits
  <2>5. HistoryFits'
    BY <1>1, <2>1, HistoryStays DEF UpdateTypeOK
  <2> QED
    BY <2>4, <2>5 DEF OrderlyInv
<1> QED
  BY <1>5, <1>6, <1>7 DEF OrderlyInv

\* The backup is made of what is committed, or a branch of that name is kept.
LEMMA SaveBackupKeepsInv ==
  ASSUME UpdateInv, NEW p \in Processes, SaveBackup(p)
  PROVE  UpdateInv'
<1> USE DEF UpdateInv
<1> DEFINE r == [process[p] EXCEPT !.at = "saved"]
           c == process[p].local
<1>1. /\ UNCHANGED <<tree, log, fetched, upstream, lock>>
      /\ process[p].at = "locked" /\ process[p] \in Doings
      /\ before' = Committed
      /\ noted \subseteq noted' /\ (tree # Committed => "uncommitted" \in noted')
      /\ process' = [process EXCEPT ![p] = r]
  BY GoesIs DEF SaveBackup, UpdateTypeOK
<1>2. process[p] \in Early
  BY <1>1, DoingIs
<1>3. r \in Doings /\ r.at = "saved" /\ c \in Nat
  BY <1>2 DEF Early, Doings
<1>4. \/ /\ branches' = branches
         /\ c \in DOMAIN branches \/ "failed" \in noted'
      \/ /\ c \notin DOMAIN branches
         /\ DOMAIN branches' = DOMAIN branches \cup {c}
         /\ branches'[c] = Len(log)
         /\ \A v \in DOMAIN branches : branches'[v] = branches[v]
  BY DEF SaveBackup
<1> HIDE DEF r, c
<1>5. /\ process' \in [Processes -> Doings] /\ process'[p] = r
      /\ \A q \in Processes \ {p} : process'[q] = process[q]
  BY <1>1, <1>3, ProcessChanges
<1>6. Committed \in Content /\ Committed = log[Len(log)] /\ Len(log) \in 1..Len(log)
  BY UpdatedProperties
<1>7. UpdateTypeOK'
  <2>1. /\ branches' = << >> \/ DOMAIN branches' # {}
        /\ \A v \in DOMAIN branches' : v \in Nat /\ branches'[v] \in 1..Len(log)
    BY <1>3, <1>4, <1>6 DEF UpdateTypeOK
  <2> QED
    BY <1>1, <1>3, <1>5, <1>6, <2>1 DEF UpdateTypeOK
<1>8. ApplierHasLock'
  BY <1>1, <1>3, <1>5, ApplierKeepsLock DEF Applying
<1>9. ASSUME Orderly' PROVE OrderlyInv'
  <2>1. /\ Orderly /\ Busy(p) /\ tree = Committed
        /\ "failed" \notin noted'
    BY <1>1, <1>9 DEF Orderly, Busy, Idle
  <2>2. Committed' = Committed
    BY <1>1 DEF Committed
  <2>3. ApplyFits(p)' /\ RollbackFits(p)'
    BY <1>1, <1>3, <1>5, <2>1, <2>2 DEF ApplyFits, RollbackFits
  <2>4. OneIsBusy' /\ CommandsFit'
    BY <1>5, <2>1, <2>3, AloneWhileOrderly, OneFits
  <2>5. c = Committed["VERSION"]
    BY <1>1, <2>1 DEF OrderlyInv, CommandsFit, ApplyFits, LocalVersion, c
  <2>6. /\ Complete(Committed) /\ c > 0 /\ c <= upstream
        /\ \A v \in DOMAIN branches : v <= c
    BY <2>1, <2>5 DEF OrderlyInv, HistoryFits, CommittedIsComplete
  <2>7. CASE c \in DOMAIN branches
    <3>1. branches' = branches /\ Latest' = Latest /\ Backup' = Backup
      BY <1>1, <1>4, <2>1, <2>7, NamesStay
    <3>2. CommittedIsComplete'
      BY <1>1, <2>2, <2>5, <2>6, <3>1 DEF CommittedIsComplete, Complete
    <3>3. BranchesAreComplete'
      BY <1>1, <2>1, <3>1 DEF OrderlyInv, HistoryFits, BranchesAreComplete, Complete
    <3>4. Latest = c /\ SameUpTo(Committed, Backup, Latest)
      <4>1. branches # << >> /\ Latest \in DOMAIN branches /\ Latest \in Nat
        BY <2>7, LatestProperties DEF UpdateTypeOK
      <4>2. BackupIsBefore
        BY <2>1 DEF OrderlyInv, HistoryFits
      <4>3. Latest = c
        BY <1>3, <2>6, <2>7, <4>1, <4>2 DEF BackupIsBefore
      <4> QED
        BY <2>5, <4>1, <4>2, <4>3 DEF BackupIsBefore
    <3>5. BackupIsBefore'
      BY <1>1, <2>2, <2>5, <2>6, <3>1, <3>4 DEF BackupIsBefore, SameUpTo, Kept
    <3>6. OthersAreLater'
      BY <1>1, <2>1, <3>1 DEF OrderlyInv, HistoryFits, OthersAreLater, Kept
    <3> QED
      BY <2>4, <3>2, <3>3, <3>5, <3>6 DEF OrderlyInv, HistoryFits
  <2>8. CASE c \notin DOMAIN branches
    <3>1. /\ DOMAIN branches' = DOMAIN branches \cup {c}
          /\ branches'[c] = Len(log)
          /\ \A v \in DOMAIN branches : v \in Nat /\ branches'[v] = branches[v]
                                        /\ branches[v] \in 1..Len(log) /\ v # c
      BY <1>4, <2>1, <2>8 DEF UpdateTypeOK
    <3>2. CommittedIsComplete'
      BY <1>1, <1>3, <2>2, <2>5, <2>6, <3>1 DEF CommittedIsComplete, Complete
    <3>3. BranchesAreComplete
      BY <2>1 DEF OrderlyInv, HistoryFits
    <3>4. \A v \in DOMAIN branches' :
            v > 0 /\ log[branches'[v]]["VERSION"] = v /\ Complete(log[branches'[v]])
      BY <1>6, <2>5, <2>6, <3>1, <3>3 DEF BranchesAreComplete
    <3>5. BranchesAreComplete'
      BY <1>1, <3>4 DEF BranchesAreComplete, Complete
    <3>6. Latest' = c
      <4>1. \A v \in DOMAIN branches' : branches'[c] >= branches'[v]
        BY <1>6, <3>1
      <4>2. \A v \in DOMAIN branches' :
              (\A w \in DOMAIN branches' : branches'[v] >= branches'[w]) => v = c
        <5>1. ASSUME NEW v \in DOMAIN branches', branches'[v] >= branches'[c]
              PROVE  v = c
          <6>1. branches'[v] \in 1..Len(log)
            BY <1>6, <3>1
          <6>2. branches'[v] = branches'[c]
            BY <1>6, <3>1, <5>1, <6>1
          <6> QED
            BY <1>6, <2>5, <3>1, <3>4, <6>2
        <5> QED
          BY <3>1, <5>1
      <4> QED
        BY <3>1, <4>1, <4>2 DEF Latest
    <3>7. Backup' = Committed
      BY <1>1, <1>6, <3>1, <3>6 DEF Backup
    <3>8. BackupIsBefore'
      BY <1>1, <1>3, <2>2, <2>5, <2>6, <3>1, <3>6, <3>7 DEF BackupIsBefore, SameUpTo, Kept
    <3>9. OthersAreLater'
      BY <1>1, <1>3, <2>1, <3>6, <3>7 DEF OthersAreLater, Kept, Missing
    <3> QED
      BY <2>4, <3>2, <3>5, <3>8, <3>9 DEF OrderlyInv, HistoryFits
  <2> QED
    BY <2>7, <2>8
<1> QED
  BY <1>7, <1>8, <1>9 DEF OrderlyInv

\* What is fetched is no older than what is committed.
LEMMA FetchKeepsInv ==
  ASSUME UpdateInv, NEW p \in Processes, Fetch(p)
  PROVE  UpdateInv'
<1> USE DEF UpdateInv
<1> DEFINE r == [at |-> "updating", local |-> process[p].local, todo |-> SystemPaths]
<1>1. /\ UNCHANGED <<tree, log, branches, upstream, lock, before, noted>>
      /\ process[p].at = "saved" /\ process[p] \in Doings
      /\ fetched' = upstream
      /\ process' = [process EXCEPT ![p] = r]
  BY DEF Fetch, UpdateTypeOK
<1>2. process[p] \in Early
  BY <1>1, DoingIs
<1>3. r \in Doings /\ r.at = "updating" /\ r.todo = SystemPaths
  BY <1>2, SystemPathsProperties DEF Early, Late, Doings
<1> HIDE DEF r
<1>4. /\ process' \in [Processes -> Doings] /\ process'[p] = r
      /\ \A q \in Processes \ {p} : process'[q] = process[q]
  BY <1>1, <1>3, ProcessChanges
<1>5. UpdateTypeOK'
  BY <1>1, <1>3, <1>4, SystemPathsProperties DEF UpdateTypeOK
<1>6. ApplierHasLock'
  BY <1>1, <1>4, ApplierKeepsLock DEF Applying
<1>7. ASSUME Orderly' PROVE OrderlyInv'
  <2>1. Orderly /\ Busy(p)
    BY <1>1, <1>7 DEF Orderly, Busy, Idle
  <2>2. Committed' = Committed /\ Committed["VERSION"] <= upstream
    BY <1>1, <2>1, NamesStay DEF OrderlyInv, HistoryFits, CommittedIsComplete
  <2>3. ApplyFits(p)' /\ RollbackFits(p)'
    <3>1. tree' = Committed'
      BY <1>1, <2>1, <2>2 DEF OrderlyInv, CommandsFit, ApplyFits
    <3> QED
      BY <1>1, <1>3, <1>4, <2>2, <3>1, SystemPathsProperties DEF ApplyFits, RollbackFits
  <2>4. OneIsBusy' /\ CommandsFit'
    BY <1>4, <2>1, <2>3, AloneWhileOrderly, OneFits
  <2>5. HistoryFits'
    BY <1>1, <2>1, HistoryStays DEF UpdateTypeOK
  <2> QED
    BY <2>4, <2>5 DEF OrderlyInv
<1> QED
  BY <1>5, <1>6, <1>7 DEF OrderlyInv

\* A command that only ends, or comes to where it has nothing to do but leave.
LEMMA EndingKeepsInv ==
  ASSUME UpdateInv, NEW p \in Processes, NEW r \in Doings,
         process' = [process EXCEPT ![p] = r],
         r = Idle \/ (r.at = "leaving" /\ p \in Applying),
         Busy(p), noted' = noted,
         UNCHANGED <<tree, log, branches, fetched, upstream, before>>,
         lock' = lock \/ (lock' = FALSE /\ p \in Applying /\ r = Idle)
  PROVE  UpdateInv'
<1> USE DEF UpdateInv
<1>1. /\ process' \in [Processes -> Doings] /\ process'[p] = r
      /\ \A q \in Processes \ {p} : process'[q] = process[q]
  BY ProcessChanges
<1>2. Idle.at = "idle" /\ (r.at = "idle" \/ r.at = "leaving")
  BY DEF Idle
<1>3. UpdateTypeOK'
  BY <1>1, <1>2 DEF UpdateTypeOK
<1>4. ApplierHasLock'
  <2>1. CASE lock' = lock
    BY <1>1, <1>2, <2>1, ApplierKeepsLock DEF Applying
  <2>2. CASE p \in Applying /\ r = Idle
    BY <1>1, <1>2, <2>2 DEF Applying, ApplierHasLock
  <2> QED
    BY <2>1, <2>2
<1>5. ASSUME Orderly' PROVE OrderlyInv'
  <2>1. Orderly
    BY <1>5 DEF Orderly
  <2>2. ApplyFits(p)' /\ RollbackFits(p)'
    BY <1>1, <1>2 DEF ApplyFits, RollbackFits
  <2>3. OneIsBusy' /\ CommandsFit'
    BY <1>1, <2>1, <2>2, AloneWhileOrderly, OneFits
  <2>4. HistoryFits'
    BY <2>1, HistoryStays DEF UpdateTypeOK
  <2> QED
    BY <2>3, <2>4 DEF OrderlyInv
<1> QED
  BY <1>3, <1>4, <1>5 DEF OrderlyInv

\* A failure leaves everything as it is.
LEMMA FailsKeepsInv ==
  ASSUME UpdateInv, NEW p \in Processes, Fails(p)
  PROVE  UpdateInv'
<1> DEFINE r == [process[p] EXCEPT !.at = "leaving"]
<1>1. /\ UNCHANGED <<tree, log, branches, fetched, upstream, lock, before, noted>>
      /\ process[p].at \in {"locked", "saved", "updating", "updated"}
      /\ process[p] \in Doings /\ process' = [process EXCEPT ![p] = r]
  BY GoesIs DEF Fails, copy, UpdateInv, UpdateTypeOK
<1>2. process[p] \in Early \cup Late
  BY <1>1, DoingIs
<1>3. r \in Doings /\ r.at = "leaving"
  BY <1>2, LeavingIs DEF Early, Late
<1> HIDE DEF r
<1>4. p \in Applying /\ Busy(p)
  BY <1>1 DEF Applying, Busy, Idle
<1>5. /\ UNCHANGED <<tree, log, branches, fetched, upstream, before>>
      /\ lock' = lock /\ noted' = noted
      /\ process' = [process EXCEPT ![p] = r]
  BY <1>1
<1> QED
  BY <1>3, <1>4, <1>5, EndingKeepsInv

\* So does an update given up.
LEMMA AbortUpdateKeepsInv ==
  ASSUME UpdateInv, NEW p \in Processes, AbortUpdate(p)
  PROVE  UpdateInv'
<1> DEFINE r == [process[p] EXCEPT !.at = "leaving"]
<1>1. /\ UNCHANGED <<tree, log, branches, fetched, upstream, lock, before, noted>>
      /\ process[p].at \in {"locked", "saved", "updating", "updated"}
      /\ process[p] \in Doings /\ process' = [process EXCEPT ![p] = r]
  BY GoesIs DEF AbortUpdate, copy, UpdateInv, UpdateTypeOK
<1>2. process[p] \in Early \cup Late
  BY <1>1, DoingIs
<1>3. r \in Doings /\ r.at = "leaving"
  BY <1>2, LeavingIs DEF Early, Late
<1> HIDE DEF r
<1>4. p \in Applying /\ Busy(p)
  BY <1>1 DEF Applying, Busy, Idle
<1>5. /\ UNCHANGED <<tree, log, branches, fetched, upstream, before>>
      /\ lock' = lock /\ noted' = noted
      /\ process' = [process EXCEPT ![p] = r]
  BY <1>1
<1> QED
  BY <1>3, <1>4, <1>5, EndingKeepsInv

\* An apply that leaves takes its lock away.
LEMMA UnlockKeepsInv ==
  ASSUME UpdateInv, NEW p \in Processes, Unlock(p)
  PROVE  UpdateInv'
<1>1. /\ UNCHANGED <<tree, log, branches, fetched, upstream, before, noted>>
      /\ lock' = FALSE /\ process[p].at = "leaving"
      /\ process' = [process EXCEPT ![p] = Idle]
  BY DEF Unlock, copy
<1>2. Busy(p) /\ p \in Applying
  BY <1>1 DEF Busy, Idle, Applying
<1>3. Idle \in Doings
  BY DEF Doings
<1> QED
  BY <1>1, <1>2, <1>3, EndingKeepsInv

\* A command that is killed leaves everything as it is.
LEMMA KillKeepsInv ==
  ASSUME UpdateInv, NEW p \in Processes, Kill(p)
  PROVE  UpdateInv'
<1>1. /\ UNCHANGED <<tree, log, branches, fetched, upstream, before>>
      /\ noted' = noted /\ lock' = lock /\ process[p] # Idle
      /\ process' = [process EXCEPT ![p] = Idle]
  BY DEF Kill, copy
<1>2. Busy(p)
  BY <1>1 DEF Busy, Idle, Applying
<1>3. Idle \in Doings
  BY DEF Doings
<1> QED
  BY <1>1, <1>2, <1>3, EndingKeepsInv

\* The operator removes a lock.
LEMMA RemoveLockKeepsInv == ASSUME UpdateInv, RemoveLock PROVE UpdateInv'
<1>1. /\ UNCHANGED <<tree, log, branches, fetched, upstream, process, before>>
      /\ lock' = FALSE /\ noted \subseteq noted'
      /\ Applying # {} => "removed" \in noted'
  BY DEF RemoveLock, copy
<1>2. UpdateTypeOK'
  BY <1>1 DEF UpdateInv, UpdateTypeOK
<1>3. ApplierHasLock'
  BY <1>1 DEF UpdateInv, ApplierHasLock, Applying
<1>4. Orderly' => Orderly /\ OneIsBusy' /\ CommandsFit'
  BY <1>1, NamesStay DEF UpdateInv, OrderlyInv, Orderly, OneIsBusy, Busy, CommandsFit, ApplyFits,
              RollbackFits, LocalVersion
<1>5. Orderly' => HistoryFits'
  BY <1>1, <1>4, HistoryStays DEF UpdateInv, UpdateTypeOK
<1> QED
  BY <1>2, <1>3, <1>4, <1>5 DEF UpdateInv, OrderlyInv

\* A release appears; nothing here is newer.
LEMMA ReleaseKeepsInv == ASSUME UpdateInv, Release PROVE UpdateInv'
<1>1. /\ UNCHANGED <<tree, log, branches, fetched, lock, process, before, noted>>
      /\ upstream' = upstream + 1 /\ upstream \in Nat /\ fetched \in Nat
      /\ fetched <= upstream
  BY DEF Release, copy, UpdateInv, UpdateTypeOK
<1>2. UpdateTypeOK'
  BY <1>1 DEF UpdateInv, UpdateTypeOK
<1>3. ApplierHasLock'
  BY <1>1 DEF UpdateInv, ApplierHasLock, Applying
<1>4. Orderly' => Orderly /\ OneIsBusy' /\ CommandsFit'
  BY <1>1, NamesStay DEF UpdateInv, OrderlyInv, Orderly, OneIsBusy, Busy, CommandsFit, ApplyFits,
              RollbackFits, LocalVersion
<1>5. Orderly' => HistoryFits'
  BY <1>1, <1>4, HistoryStays DEF UpdateInv, UpdateTypeOK
<1> QED
  BY <1>2, <1>3, <1>4, <1>5 DEF UpdateInv, OrderlyInv

\* What checking out a path leaves to do, and does to the tree: unless git fails,
\* the files that the commit has under it are those of the commit.
LEMMA CheckoutProperties ==
  ASSUME UpdateTypeOK, NEW p \in Processes, NEW content \in Content,
         NEW next \in {"updated", "restored"}, Checkout(p, content, next),
         process[p].todo \in Seq(AllPaths), process[p].todo # << >>,
         NEW r, r = [process[p] EXCEPT !.todo = Tail(process[p].todo),
                       !.at = IF Len(process[p].todo) = 1 THEN next ELSE process[p].at]
  PROVE  /\ process' = [process EXCEPT ![p] = r]
         /\ tree' \in Content /\ noted \subseteq noted'
         /\ "failed" \notin noted' =>
              \A f \in SystemFiles :
                tree'[f] = IF f \in Under(Head(process[p].todo)) /\ content[f] # Missing
                           THEN content[f] ELSE tree[f]
<1>1. process' = [process EXCEPT ![p] = r]
  BY DEF Checkout, UpdateTypeOK
<1> DEFINE files == Under(Head(process[p].todo))
<1>2. \/ tree' = Overlay(tree, content, files) /\ noted' = noted
      \/ tree' = tree /\ noted' = noted \cup {"failed"}
  BY DEF Checkout
<1> HIDE DEF files
<1>3. tree' \in Content /\ noted \subseteq noted'
  BY <1>2, OverlayProperties DEF UpdateTypeOK
<1>4. "failed" \notin noted' =>
        \A f \in SystemFiles :
          tree'[f] = IF f \in files /\ content[f] # Missing THEN content[f] ELSE tree[f]
  BY <1>2, OverlayProperties DEF UpdateTypeOK
<1> QED
  BY <1>1, <1>3, <1>4 DEF files

\* A path of the release fetched; when it was the last, the tree is the release.
LEMMA UpdatePathKeepsInv ==
  ASSUME UpdateInv, NEW p \in Processes, UpdatePath(p)
  PROVE  UpdateInv'
<1> USE DEF UpdateInv
<1> DEFINE todo == process[p].todo
           r == [process[p] EXCEPT !.todo = Tail(todo),
                   !.at = IF Len(todo) = 1 THEN "updated" ELSE process[p].at]
<1>1. /\ UNCHANGED <<log, branches, fetched, upstream, lock, before>>
      /\ process[p].at = "updating" /\ process[p] \in Doings
      /\ Checkout(p, Whole(fetched), "updated")
      /\ fetched \in Nat /\ todo # << >>
  BY DEF UpdatePath, UpdateTypeOK
<1>2. process[p] \in Late /\ todo \in Seq(AllPaths)
  BY <1>1, DoingIs DEF Late
<1>3. /\ Whole(fetched) \in Content
      /\ \A f \in SystemFiles :
           Whole(fetched)[f] = IF f = "VERSION" \/ f \in Ships[fetched] THEN fetched
                               ELSE Missing
  BY <1>1, WholeProperties
<1>4. /\ process' = [process EXCEPT ![p] = r]
      /\ tree' \in Content /\ noted \subseteq noted'
      /\ "failed" \notin noted' =>
           \A f \in SystemFiles :
             tree'[f] = IF f \in Under(Head(todo)) /\ Whole(fetched)[f] # Missing
                        THEN Whole(fetched)[f] ELSE tree[f]
  BY <1>1, <1>2, <1>3, CheckoutProperties
<1>5. /\ Tail(todo) \in Seq(AllPaths)
      /\ \A path \in ToSet(todo) : path = Head(todo) \/ path \in ToSet(Tail(todo))
      /\ Len(todo) # 1 => Tail(todo) # << >>
      /\ Len(todo) = 1 => ToSet(Tail(todo)) = {}
  BY <1>1, <1>2, TailProperties
<1>6. /\ r \in Doings /\ r.todo = Tail(todo)
      /\ r.at = IF Len(todo) = 1 THEN "updated" ELSE "updating"
  BY <1>1, <1>2, <1>5 DEF Late, Doings
<1> HIDE DEF r
<1>7. /\ process' \in [Processes -> Doings] /\ process'[p] = r
      /\ \A q \in Processes \ {p} : process'[q] = process[q]
  BY <1>4, <1>6, ProcessChanges
<1>8. UpdateTypeOK'
  BY <1>1, <1>4, <1>5, <1>6, <1>7 DEF UpdateTypeOK
<1>9. ApplierHasLock'
  BY <1>1, <1>4, <1>6, <1>7, ApplierKeepsLock DEF Applying
<1>10. ASSUME Orderly' PROVE OrderlyInv'
  <2>1. /\ Orderly /\ Busy(p)
        /\ \A f \in SystemFiles :
             tree'[f] = IF f \in Under(Head(todo)) /\ Whole(fetched)[f] # Missing
                        THEN Whole(fetched)[f] ELSE tree[f]
    BY <1>1, <1>4, <1>10 DEF Orderly, Busy, Idle
  <2>2. \A q \in Processes \ {p} : process'[q] = Idle
    BY <1>7, <2>1, AloneWhileOrderly
  <2>3. /\ Committed["VERSION"] <= fetched
        /\ \A f \in SystemFiles : tree[f] \in {Committed[f], Updated[f]}
        /\ \A path \in AllPaths \ ToSet(todo) : \A f \in Under(path) : tree[f] = Updated[f]
    BY <1>1, <2>1 DEF OrderlyInv, CommandsFit, ApplyFits
  <2>4. /\ CommittedIsComplete /\ BranchesAreComplete /\ BackupIsBefore /\ OthersAreLater
        /\ Committed["VERSION"] > 0 /\ Committed["VERSION"] \in Nat
    BY <2>1, UpdatedProperties DEF OrderlyInv, HistoryFits, CommittedIsComplete
  <2>5. fetched > 0
    BY <1>1, <2>3, <2>4
  <2>6. /\ Committed' = Committed /\ Latest' = Latest /\ Backup' = Backup
        /\ Updated' = Updated
    BY <1>1, NamesStay
  <2>7. \A f \in SystemFiles :
          Updated[f] = IF f = "VERSION" \/ f \in Ships[fetched] THEN fetched ELSE Committed[f]
    BY <2>5, UpdatedProperties
  <2>8. \A f \in SystemFiles :
          tree'[f] = IF f \in Under(Head(todo)) /\ (f = "VERSION" \/ f \in Ships[fetched])
                     THEN Updated[f] ELSE tree[f]
    BY <1>1, <1>3, <2>1, <2>5, <2>7 DEF Missing
  <2>9. \A f \in SystemFiles : tree'[f] \in {Committed[f], Updated[f]}
    BY <2>3, <2>8
  <2>10. ASSUME NEW path \in AllPaths \ ToSet(Tail(todo)), NEW f \in Under(path)
         PROVE  tree'[f] = Updated[f]
    <3>1. f \in SystemFiles
      BY <2>10, FilesProperties
    <3>2. CASE path = Head(todo)
      BY <2>3, <2>7, <2>8, <2>10, <3>1, <3>2
    <3>3. CASE path \notin ToSet(todo)
      BY <2>3, <2>8, <2>10, <3>1, <3>3
    <3> QED
      BY <1>5, <2>10, <3>2, <3>3
  <2>11. Len(todo) = 1 => \A f \in SystemFiles : tree'[f] = Updated[f]
    <3>1. Len(todo) = 1 => \A path \in AllPaths : path \notin ToSet(Tail(todo))
      BY <1>5
    <3> QED
      BY <2>10, <3>1, FilesProperties
  <2>12. ApplyFits(p)' /\ RollbackFits(p)'
    BY <1>1, <1>6, <1>7, <2>3, <2>6, <2>9, <2>10, <2>11 DEF ApplyFits, RollbackFits
  <2>13. OneIsBusy' /\ CommandsFit'
    BY <2>2, <2>12, OneFits
  <2>14. OthersAreLater'
    <3>1. SUFFICES ASSUME branches # << >>, NEW f \in SystemFiles, Backup[f] = Missing
                   PROVE  Kept(tree'[f], Latest) = Missing
      BY <1>1, <2>6 DEF OthersAreLater, Kept
    <3>2. Kept(tree[f], Latest) = Missing
      BY <2>4, <3>1 DEF OthersAreLater
    <3>3. CASE tree'[f] = tree[f]
      BY <3>2, <3>3
    <3>4. CASE tree'[f] # tree[f]
      <4>1. tree'[f] = fetched /\ (f = "VERSION" \/ f \in Ships[fetched])
        BY <2>7, <2>8, <3>4
      <4>2. Latest \in DOMAIN branches /\ Latest \in Nat /\ Latest <= fetched /\ Latest > 0
        BY <1>1, <2>3, <2>4, <3>1, LatestProperties DEF CommittedIsComplete, BranchesAreComplete
      <4>3. Latest # fetched
        <5>1. /\ Backup["VERSION"] = Latest /\ Complete(Backup)
          BY <2>4, <4>2 DEF BranchesAreComplete, Backup
        <5> QED
          BY <3>1, <4>1, <4>2, <5>1 DEF Complete, Missing
      <4> QED
        BY <1>1, <4>1, <4>2, <4>3 DEF Kept
    <3> QED
      BY <3>3, <3>4
  <2>15. CommittedIsComplete' /\ BranchesAreComplete' /\ BackupIsBefore'
    BY <1>1, <2>1, HistoryStays DEF UpdateTypeOK
  <2> QED
    BY <2>13, <2>14, <2>15 DEF OrderlyInv, HistoryFits
<1> QED
  BY <1>8, <1>9, <1>10 DEF OrderlyInv

\* A path of the backup; when it was the last, the tree is the backup.
LEMMA RestorePathKeepsInv ==
  ASSUME UpdateInv, NEW p \in Processes, RestorePath(p)
  PROVE  UpdateInv'
<1> USE DEF UpdateInv
<1> DEFINE todo == process[p].todo
           content == log[process[p].commit]
           r == [process[p] EXCEPT !.todo = Tail(todo),
                   !.at = IF Len(todo) = 1 THEN "restored" ELSE process[p].at]
<1>1. /\ UNCHANGED <<log, branches, fetched, upstream, lock, before>>
      /\ process[p].at = "restoring" /\ process[p] \in Doings
      /\ Checkout(p, content, "restored")
      /\ todo # << >> /\ content \in Content
  BY DEF RestorePath, UpdateTypeOK
<1>2. process[p] \in Restoring /\ todo \in Seq(AllPaths)
  BY <1>1, DoingIs DEF Restoring
<1>3. /\ Tail(todo) \in Seq(AllPaths)
      /\ \A path \in ToSet(todo) : path = Head(todo) \/ path \in ToSet(Tail(todo))
      /\ Len(todo) # 1 => Tail(todo) # << >>
      /\ Len(todo) = 1 => ToSet(Tail(todo)) = {}
  BY <1>1, <1>2, TailProperties
<1>4. /\ r \in Doings /\ r.todo = Tail(todo) /\ r.commit = process[p].commit
      /\ r.at = IF Len(todo) = 1 THEN "restored" ELSE "restoring"
  BY <1>1, <1>2, <1>3 DEF Restoring, Doings
<1>5. /\ process' = [process EXCEPT ![p] = r]
      /\ tree' \in Content /\ noted \subseteq noted'
      /\ "failed" \notin noted' =>
           \A f \in SystemFiles :
             tree'[f] = IF f \in Under(Head(todo)) /\ content[f] # Missing
                        THEN content[f] ELSE tree[f]
  BY <1>1, <1>2, CheckoutProperties
<1> HIDE DEF r
<1>6. /\ process' \in [Processes -> Doings] /\ process'[p] = r
      /\ \A q \in Processes \ {p} : process'[q] = process[q]
  BY <1>4, <1>5, ProcessChanges
<1>7. UpdateTypeOK'
  BY <1>1, <1>3, <1>4, <1>5, <1>6 DEF UpdateTypeOK
<1>8. ApplierHasLock'
  BY <1>1, <1>4, <1>5, <1>6, ApplierKeepsLock DEF Applying
<1>9. ASSUME Orderly' PROVE OrderlyInv'
  <2>1. /\ Orderly /\ Busy(p)
        /\ \A f \in SystemFiles :
             tree'[f] = IF f \in Under(Head(todo)) /\ content[f] # Missing
                        THEN content[f] ELSE tree[f]
    BY <1>1, <1>5, <1>9 DEF Orderly, Busy, Idle
  <2>2. \A q \in Processes \ {p} : process'[q] = Idle
    BY <1>6, <2>1, AloneWhileOrderly
  <2>3. /\ branches # << >> /\ process[p].commit = branches[Latest] /\ content = Backup
        /\ \A path \in AllPaths \ ToSet(todo) :
             \A f \in Under(path) : Backup[f] # Missing => tree[f] = Backup[f]
    BY <1>1, <2>1 DEF OrderlyInv, CommandsFit, RollbackFits, Backup
  <2>4. Latest' = Latest /\ Backup' = Backup
    BY <1>1, NamesStay
  <2>5. ASSUME NEW path \in AllPaths \ ToSet(Tail(todo)), NEW f \in Under(path),
               Backup[f] # Missing
        PROVE  tree'[f] = Backup[f]
    <3>1. f \in SystemFiles
      BY <2>5, FilesProperties
    <3>2. CASE path = Head(todo)
      BY <2>1, <2>3, <2>5, <3>1, <3>2
    <3>3. CASE path \notin ToSet(todo)
      BY <2>1, <2>3, <2>5, <3>1, <3>3
    <3> QED
      BY <1>3, <2>5, <3>2, <3>3
  <2>6. Len(todo) = 1 => \A f \in SystemFiles : Backup[f] # Missing => tree'[f] = Backup[f]
    <3>1. Len(todo) = 1 => \A path \in AllPaths : path \notin ToSet(Tail(todo))
      BY <1>3
    <3> QED
      BY <2>5, <3>1, FilesProperties
  <2>7. ApplyFits(p)' /\ RollbackFits(p)'
    BY <1>1, <1>4, <1>6, <2>3, <2>4, <2>5, <2>6 DEF ApplyFits, RollbackFits
  <2>8. OneIsBusy' /\ CommandsFit'
    BY <2>2, <2>7, OneFits
  <2>9. OthersAreLater'
    BY <1>1, <2>1, <2>3, <2>4 DEF OrderlyInv, HistoryFits, OthersAreLater, Kept
  <2>10. CommittedIsComplete' /\ BranchesAreComplete' /\ BackupIsBefore'
    BY <1>1, <2>1, HistoryStays DEF UpdateTypeOK
  <2> QED
    BY <2>8, <2>9, <2>10 DEF OrderlyInv, HistoryFits
<1> QED
  BY <1>7, <1>8, <1>9 DEF OrderlyInv

\* What a commit leaves of the history: the working copy is the last commit,
\* whether or not it had to be appended, or nothing was committed.
LEMMA CommitProperties ==
  ASSUME UpdateTypeOK, log' \in {log, Commit}
  PROVE  /\ log' \in Seq(Content) /\ Len(log) <= Len(log') /\ Len(log') > 0
         /\ \A i \in 1..Len(log) : log'[i] = log[i]
         /\ Committed' \in {Committed, tree}
<1>1. CASE log' = log
  BY <1>1 DEF UpdateTypeOK, Committed
<1>2. CASE log' # log
  <2>1. log' = Append(log, tree)
    BY <1>2 DEF Commit
  <2>2. tree \in Content /\ log \in Seq(Content)
    BY DEF UpdateTypeOK
  <2>3. /\ Append(log, tree) \in Seq(Content)
        /\ Len(Append(log, tree)) = Len(log) + 1 /\ Len(log) \in Nat
        /\ Last(Append(log, tree)) = tree
        /\ \A i \in 1..Len(log) : Append(log, tree)[i] = log[i]
    BY <2>2, CommitAppends
  <2>4. Committed' = tree
    BY <2>1, <2>3 DEF Committed
  <2> QED
    BY <2>1, <2>3, <2>4
<1> QED
  BY <1>1, <1>2

\* A complete working copy may be committed, if it is no older than any branch and
\* agrees with the backup when it is of its release.
LEMMA CommitKeepsHistory ==
  ASSUME UpdateInv, Orderly, log' \in {log, Commit},
         UNCHANGED <<tree, branches, before, upstream>>,
         Complete(tree), tree["VERSION"] > 0, tree["VERSION"] <= upstream,
         \A v \in DOMAIN branches : v <= tree["VERSION"],
         branches # << >> /\ tree["VERSION"] = Latest => SameUpTo(tree, Backup, Latest)
  PROVE  HistoryFits'
<1>1. /\ \A i \in 1..Len(log) : log'[i] = log[i]
      /\ Committed' \in {Committed, tree}
      /\ \A v \in DOMAIN branches : branches[v] \in 1..Len(log)
  BY CommitProperties DEF UpdateInv, UpdateTypeOK
<1>2. /\ CommittedIsComplete /\ BranchesAreComplete /\ BackupIsBefore /\ OthersAreLater
  BY DEF UpdateInv, OrderlyInv, HistoryFits
<1>3. Latest' = Latest
  BY DEF Latest
<1>4. branches # << >> => Backup' = Backup
  BY <1>1, <1>3, LatestProperties DEF Backup, UpdateInv
<1>5. CommittedIsComplete'
  <2>1. CASE Committed' = Committed
    BY <1>2, <2>1 DEF CommittedIsComplete, Complete
  <2>2. CASE Committed' = tree
    BY <2>2 DEF CommittedIsComplete, Complete
  <2> QED
    BY <1>1, <2>1, <2>2
<1>6. BranchesAreComplete'
  BY <1>1, <1>2 DEF BranchesAreComplete, Complete
<1>7. BackupIsBefore'
  <2>1. CASE Committed' = Committed
    BY <1>2, <1>3, <1>4, <2>1 DEF BackupIsBefore, SameUpTo, Kept
  <2>2. CASE Committed' = tree
    BY <1>2, <1>3, <1>4, <2>2 DEF BackupIsBefore, SameUpTo, Kept
  <2> QED
    BY <1>1, <2>1, <2>2
<1>8. OthersAreLater'
  BY <1>2, <1>3, <1>4 DEF OthersAreLater, Kept
<1> QED
  BY <1>5, <1>6, <1>7, <1>8 DEF HistoryFits

\* The commit of an update, if there is one, is of the release fetched.
LEMMA CommitUpdateKeepsInv ==
  ASSUME UpdateInv, NEW p \in Processes, CommitUpdate(p)
  PROVE  UpdateInv'
<1> USE DEF UpdateInv
<1> DEFINE r == [process[p] EXCEPT !.at = "leaving"]
<1>1. /\ UNCHANGED <<tree, branches, fetched, upstream, lock, before, noted>>
      /\ process[p].at = "updated" /\ process[p] \in Doings
      /\ log' \in {log, Commit}
      /\ process' = [process EXCEPT ![p] = r]
  BY GoesIs DEF CommitUpdate, UpdateTypeOK
<1>2. process[p] \in Late
  BY <1>1, DoingIs
<1>3. r \in Doings /\ r.at = "leaving"
  BY <1>2, LeavingIs DEF Late
<1> HIDE DEF r
<1>4. /\ process' \in [Processes -> Doings] /\ process'[p] = r
      /\ \A q \in Processes \ {p} : process'[q] = process[q]
  BY <1>1, <1>3, ProcessChanges
<1>5. log' \in Seq(Content) /\ Len(log) <= Len(log') /\ Len(log') > 0
  BY <1>1, CommitProperties
<1>6. UpdateTypeOK'
  <2>1. Len(log) \in Nat /\ Len(log') \in Nat
    BY <1>5 DEF UpdateTypeOK
  <2>2. \A v \in DOMAIN branches : v \in Nat /\ branches[v] \in 1..Len(log')
    BY <1>5, <2>1 DEF UpdateTypeOK
  <2>3. \A q \in Processes :
          /\ process'[q].at \in {"updating", "restoring"} => process'[q].todo # << >>
          /\ process'[q].at = "restoring" => process'[q].commit \in 1..Len(log')
    BY <1>3, <1>4, <1>5, <2>1 DEF UpdateTypeOK
  <2> QED
    BY <1>1, <1>4, <1>5, <2>2, <2>3 DEF UpdateTypeOK
<1>7. ApplierHasLock'
  BY <1>1, <1>4, ApplierKeepsLock DEF Applying
<1>8. ASSUME Orderly' PROVE OrderlyInv'
  <2>1. Orderly /\ Busy(p)
    BY <1>1, <1>8 DEF Orderly, Busy, Idle
  <2>2. ApplyFits(p)' /\ RollbackFits(p)'
    BY <1>3, <1>4 DEF ApplyFits, RollbackFits
  <2>3. OneIsBusy' /\ CommandsFit'
    BY <1>4, <2>1, <2>2, AloneWhileOrderly, OneFits
  <2>4. /\ CommittedIsComplete /\ BackupIsBefore
        /\ Committed["VERSION"] > 0 /\ Committed["VERSION"] \in Nat
        /\ Committed["VERSION"] <= fetched
        /\ fetched \in Nat /\ fetched <= upstream
        /\ \A f \in SystemFiles : tree[f] = Updated[f]
    BY <1>1, <2>1, UpdatedProperties
       DEF OrderlyInv, HistoryFits, CommittedIsComplete, CommandsFit, ApplyFits, UpdateTypeOK
  <2>5. fetched > 0
    BY <2>4
  <2>6. \A f \in SystemFiles :
          tree[f] = IF f = "VERSION" \/ f \in Ships[fetched] THEN fetched ELSE Committed[f]
    BY <2>4, <2>5, UpdatedProperties
  <2>7. tree["VERSION"] = fetched /\ Complete(tree)
    BY <2>6, FilesProperties DEF Complete
  <2>8. \A v \in DOMAIN branches : v <= fetched
    BY <2>4 DEF CommittedIsComplete, UpdateTypeOK
  <2>9. ASSUME branches # << >>, fetched = Latest
        PROVE  SameUpTo(tree, Backup, Latest)
    <3>1. Latest \in DOMAIN branches
      BY <2>9, LatestProperties
    <3>2. Committed["VERSION"] = Latest
      BY <2>4, <2>9, <3>1 DEF CommittedIsComplete
    <3>3. \A f \in SystemFiles : tree[f] = Committed[f]
      BY <2>4, <2>5, <2>9, <3>2, UpdatedProperties DEF CommittedIsComplete
    <3> QED
      BY <2>4, <2>9, <3>2, <3>3 DEF BackupIsBefore, SameUpTo
  <2>10. HistoryFits'
    BY <1>1, <2>1, <2>4, <2>5, <2>7, <2>8, <2>9, CommitKeepsHistory
  <2> QED
    BY <2>3, <2>10 DEF OrderlyInv
<1> QED
  BY <1>6, <1>7, <1>8 DEF OrderlyInv

\* With the files of the backup put back, up to its release the working copy is
\* the backup.
LEMMA RestoredIsBackup ==
  ASSUME branches # << >>, OthersAreLater, Latest \in Nat,
         \A f \in SystemFiles : Backup[f] # Missing => tree[f] = Backup[f]
  PROVE  SameUpTo(tree, Backup, Latest)
BY DEF OthersAreLater, SameUpTo, Kept, Missing

\* The commit of a rollback, if there is one, is of the newest branch's release.
LEMMA CommitRollbackKeepsInv ==
  ASSUME UpdateInv, NEW p \in Processes, CommitRollback(p)
  PROVE  UpdateInv'
<1> USE DEF UpdateInv
<1>1. /\ UNCHANGED <<tree, branches, fetched, upstream, lock, before, noted>>
      /\ process[p].at = "restored"
      /\ log' \in {log, Commit}
      /\ process' = [process EXCEPT ![p] = Idle]
  BY DEF CommitRollback
<1>2. Idle \in Doings /\ Idle.at = "idle"
  BY DEF Doings, Idle
<1>3. /\ process' \in [Processes -> Doings] /\ process'[p] = Idle
      /\ \A q \in Processes \ {p} : process'[q] = process[q]
  BY <1>1, <1>2, ProcessChanges
<1>4. log' \in Seq(Content) /\ Len(log) <= Len(log') /\ Len(log') > 0
  BY <1>1, CommitProperties
<1>5. UpdateTypeOK'
  <2>1. Len(log) \in Nat /\ Len(log') \in Nat
    BY <1>4 DEF UpdateTypeOK
  <2>2. \A v \in DOMAIN branches : v \in Nat /\ branches[v] \in 1..Len(log')
    BY <1>4, <2>1 DEF UpdateTypeOK
  <2>3. \A q \in Processes :
          /\ process'[q].at \in {"updating", "restoring"} => process'[q].todo # << >>
          /\ process'[q].at = "restoring" => process'[q].commit \in 1..Len(log')
    BY <1>2, <1>3, <1>4, <2>1 DEF UpdateTypeOK
  <2> QED
    BY <1>1, <1>3, <1>4, <2>2, <2>3 DEF UpdateTypeOK
<1>6. ApplierHasLock'
  BY <1>1, <1>2, <1>3, ApplierKeepsLock DEF Applying
<1>7. ASSUME Orderly' PROVE OrderlyInv'
  <2>1. Orderly /\ Busy(p)
    BY <1>1, <1>7 DEF Orderly, Busy, Idle
  <2>2. ApplyFits(p)' /\ RollbackFits(p)'
    BY <1>2, <1>3 DEF ApplyFits, RollbackFits
  <2>3. OneIsBusy' /\ CommandsFit'
    BY <1>3, <2>1, <2>2, AloneWhileOrderly, OneFits
  <2>4. /\ branches # << >>
        /\ \A f \in SystemFiles : Backup[f] # Missing => tree[f] = Backup[f]
        /\ CommittedIsComplete /\ BranchesAreComplete /\ BackupIsBefore /\ OthersAreLater
    BY <1>1, <2>1 DEF OrderlyInv, HistoryFits, CommandsFit, RollbackFits
  <2>5. Latest \in DOMAIN branches /\ Latest \in Nat
    BY <2>4, LatestProperties
  <2>6. Latest > 0 /\ Backup["VERSION"] = Latest /\ Complete(Backup)
    BY <2>4, <2>5 DEF BranchesAreComplete, Backup
  <2>7. tree["VERSION"] = Latest
    BY <2>4, <2>5, <2>6, FilesProperties DEF Missing
  <2>8. Complete(tree)
    BY <2>4, <2>5, <2>6, <2>7 DEF Complete, Missing
  <2>9. Latest <= upstream /\ \A v \in DOMAIN branches : v <= Latest
    <3>1. Committed["VERSION"] \in Nat
      BY UpdatedProperties
    <3> QED
      BY <2>4, <2>5, <3>1 DEF CommittedIsComplete, BackupIsBefore, UpdateTypeOK
  <2>10. SameUpTo(tree, Backup, Latest)
    BY <2>4, <2>5, RestoredIsBackup
  <2>11. HistoryFits'
    BY <1>1, <2>1, <2>6, <2>7, <2>8, <2>9, <2>10, CommitKeepsHistory
  <2> QED
    BY <2>3, <2>11 DEF OrderlyInv
<1> QED
  BY <1>5, <1>6, <1>7 DEF OrderlyInv

LEMMA ChooseBackupKeepsInv ==
  ASSUME UpdateInv, NEW p \in Processes, ChooseBackup(p)
  PROVE  UpdateInv'
<1> USE DEF UpdateInv
<1>1. /\ UNCHANGED <<tree, log, branches, fetched, upstream, lock, before>>
      /\ process[p] = Idle
  BY DEF ChooseBackup, Starts, copy
<1>2. CASE branches = << >>
  <2>1. UNCHANGED <<process, noted>>
    BY <1>2 DEF ChooseBackup, EndsAtOnce
  <2> QED
    BY <1>1, <2>1, UnchangedKeepsInv
<1>3. CASE branches # << >>
  <2> DEFINE r == [at |-> "restoring", commit |-> branches[Latest], todo |-> SystemPaths]
  <2>1. /\ process' = [process EXCEPT ![p] = r] /\ noted \subseteq noted'
        /\ "overlapped" \notin noted' => \A q \in Processes \ {p} : process[q] = Idle
    BY <1>3 DEF ChooseBackup, Begins
  <2>2. branches[Latest] \in 1..Len(log) /\ Len(log) \in Nat
    BY <1>3, LatestProperties DEF UpdateTypeOK
  <2>3. /\ r \in Doings /\ r.at = "restoring" /\ r.commit = branches[Latest]
        /\ r.todo = SystemPaths
    BY <2>2, SystemPathsProperties DEF Restoring, Doings
  <2> HIDE DEF r
  <2>4. /\ process' \in [Processes -> Doings] /\ process'[p] = r
        /\ \A q \in Processes \ {p} : process'[q] = process[q]
    BY <2>1, <2>3, ProcessChanges
  <2>5. UpdateTypeOK'
    BY <1>1, <2>2, <2>3, <2>4, SystemPathsProperties DEF UpdateTypeOK
  <2>6. ApplierHasLock'
    BY <1>1, <2>1, <2>3, <2>4, ApplierKeepsLock DEF Applying
  <2>7. ASSUME Orderly' PROVE OrderlyInv'
    <3>1. Orderly /\ \A q \in Processes \ {p} : process'[q] = Idle
      BY <2>1, <2>4, <2>7 DEF Orderly
    <3>2. Latest' = Latest
      BY <1>1, NamesStay
    <3>3. ApplyFits(p)' /\ RollbackFits(p)'
      BY <1>1, <1>3, <2>3, <2>4, <3>2, SystemPathsProperties DEF ApplyFits, RollbackFits
    <3>4. OneIsBusy' /\ CommandsFit'
      BY <3>1, <3>3, OneFits
    <3>5. HistoryFits'
      BY <1>1, <3>1, HistoryStays DEF UpdateTypeOK
    <3> QED
      BY <3>4, <3>5 DEF OrderlyInv
  <2> QED
    BY <2>5, <2>6, <2>7 DEF OrderlyInv
<1> QED
  BY <1>2, <1>3

LEMMA UpdateInvStep == UpdateInv /\ [Next]_vars => UpdateInv'
<1> SUFFICES ASSUME UpdateInv, [Next]_vars
             PROVE  UpdateInv'
  OBVIOUS
<1>1. ASSUME NEW p \in Processes, Apply(p) PROVE UpdateInv'
  BY <1>1, LookKeepsInv, TakeLockKeepsInv, SaveBackupKeepsInv, FetchKeepsInv,
     FailsKeepsInv, UpdatePathKeepsInv, CommitUpdateKeepsInv, AbortUpdateKeepsInv,
     UnlockKeepsInv DEF Apply
<1>2. ASSUME NEW p \in Processes, Rollback(p) PROVE UpdateInv'
  BY <1>2, ChooseBackupKeepsInv, RestorePathKeepsInv, CommitRollbackKeepsInv DEF Rollback
<1>3. ASSUME NEW p \in Processes, Dismiss(p) PROVE UpdateInv'
  BY <1>3, UnchangedKeepsInv DEF Dismiss, copy
<1>4. ASSUME NEW p \in Processes, Kill(p) PROVE UpdateInv'
  BY <1>4, KillKeepsInv
<1>5. CASE RemoveLock
  BY <1>5, RemoveLockKeepsInv
<1>6. CASE Release
  BY <1>6, ReleaseKeepsInv
<1>7. CASE UNCHANGED vars
  BY <1>7, UnchangedKeepsInv DEF vars, copy
<1> QED
  BY <1>1, <1>2, <1>3, <1>4, <1>5, <1>6, <1>7 DEF Next

\* The inductive invariant: whoever applies has the lock until there was a race or
\* it was deleted; and while commands are orderly, a commit holds all that its
\* release ships, and the newest backup agrees, up to its release, with what was
\* committed before the last apply (update-system.py:187-297).
THEOREM UpdateInvariant == Spec => []UpdateInv
BY UpdateInvInit, UpdateInvStep, PTL DEF Spec

-----------------------------------------------------------------------------
(***************************************************************************)
(* What it gives.                                                          *)
(***************************************************************************)

\* However many processes there are and whatever is killed, two updates work at
\* once only after a race for the lock or after the operator removed it.
THEOREM UpdatesWorkApart == Spec => []AppliesApart
<1>1. UpdateInv => AppliesApart
  <2> SUFFICES ASSUME UpdateInv, noted \cap {"raced", "removed"} = {}
               PROVE  ~(Cardinality(Applying) > 1)
    BY DEF AppliesApart
  <2>1. \A p, q \in Applying : p = q
    BY DEF UpdateInv, ApplierHasLock
  <2>2. Applying = {} \/ \E p \in Applying : Applying = {p}
    BY <2>1
  <2>3. Cardinality(Applying) = 0 \/ Cardinality(Applying) = 1
    BY <2>2, FS_EmptySet, FS_Singleton
  <2> QED
    BY <2>3
<1> QED
  BY <1>1, UpdateInvariant, PTL

\* For every set of paths and files, any number of releases and commands, and
\* whatever is cut off between, a rollback puts back the files that were committed
\* before the last apply, and leaves only files of later releases beside them;
\* unless commands met, a git branch or checkout failed, or an update was left
\* uncommitted (update-system.py:200-216, 264-292).
THEOREM RollbackRestoresBackup == Spec => []RollbackReturns
<1>1. UpdateInv => RollbackReturns
  <2> SUFFICES ASSUME UpdateInv, Orderly, NEW p \in Processes, process[p].at = "restored",
                      NEW f \in SystemFiles
               PROVE  Kept(tree[f], before["VERSION"]) = Kept(before[f], before["VERSION"])
    BY DEF RollbackReturns, Orderly
  <2>1. /\ branches # << >>
        /\ \A g \in SystemFiles : Backup[g] # Missing => tree[g] = Backup[g]
        /\ BackupIsBefore /\ OthersAreLater
    BY DEF UpdateInv, OrderlyInv, HistoryFits, CommandsFit, RollbackFits
  <2>2. Latest \in Nat
    BY <2>1, LatestProperties DEF UpdateInv
  <2>3. SameUpTo(tree, Backup, Latest)
    BY <2>1, <2>2, RestoredIsBackup
  <2> QED
    BY <2>1, <2>3 DEF BackupIsBefore, SameUpTo
<1> QED
  BY <1>1, UpdateInvariant, PTL
=============================================================================
