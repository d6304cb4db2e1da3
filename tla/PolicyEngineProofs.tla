------------------------- MODULE PolicyEngineProofs -------------------------
(***************************************************************************)
(* Proofs about PolicyEngine, for any number of files, reloaders and         *)
(* requests.  What a request is decided by was active because it is copied    *)
(* under the lock; and a reload that nobody disturbed enforces the directory  *)
(* under its fingerprint, or leaves the engine alone, because both its        *)
(* readings agree with what is on disk, file by file.                        *)
(***************************************************************************)
EXTENDS PolicyEngine, TLAPS

Stages == {"idle", "watch", "print", "load", "compile"}

TypeOK ==
    /\ disk \in Bundle
    /\ pc \in [Reloaders -> Stages]
    /\ got \in [Reloaders -> Seq(Contents)]
    /\ DOMAIN ver = Reloaders
    /\ undisturbed \subseteq Reloaders

RequestsTypeOK ==
    /\ at \in [Requests -> {"idle", "begun", "evaluate"}]
    /\ DOMAIN snap = Requests
    /\ DOMAIN seen = Requests
    /\ DOMAIN decided = Requests

\* What a request holds at each stage: at first the active bundle is one it may
\* see, then it has one of those it may see.
Snapshotted(r) ==
    /\ at[r] = "begun" => [query |-> query, version |-> version] \in seen[r]
    /\ at[r] = "evaluate" => snap[r] \in seen[r]
    /\ at[r] # "idle" => decided[r] = "none"
    /\ decided[r] # "none" => snap[r] \in seen[r]
    /\ decided[r] \in {"allow", "quarantine"} => hasDecisionPolicy(snap[r].query)

RequestsInv == RequestsTypeOK /\ \A r \in Requests : Snapshotted(r)

\* The files that p has read are those on disk.
AgreesWithDisk(p) ==
    IF disk = Missing THEN got[p] = <<>>
    ELSE /\ Len(got[p]) <= NumFiles
         /\ \A i \in 1 .. Len(got[p]) : got[p][i] = disk[i]

\* How far a reload that nobody disturbed has come.
Undisturbed(p) ==
    /\ pc[p] \in {"print", "load", "compile"}
    /\ AgreesWithDisk(p)
    /\ pc[p] \in {"load", "compile"} => ver[p] = disk
    /\ pc[p] = "compile" => got[p] = disk

ReloadsInv ==
    /\ TypeOK
    /\ \A p \in Reloaders : pc[p] = "idle" => got[p] = <<>>
    /\ \A p \in undisturbed : Undisturbed(p)
    /\ ExactWhenUndisturbed

-----------------------------------------------------------------------------
(* Requests *)

\* A reload that publishes shows its bundle to every request under way.
LEMMA PublishShows ==
  ASSUME RequestsInv, NEW p \in Reloaders, Publish(p)
  PROVE  RequestsInv'
<1>1. UNCHANGED <<at, snap, decided>> /\ Witnessed
  BY Zenon DEF Publish, Install
<1>2. RequestsTypeOK'
  BY <1>1, Zenon DEF RequestsInv, RequestsTypeOK, Witnessed
<1>3. ASSUME NEW r \in Requests PROVE Snapshotted(r)'
  <2>1. Snapshotted(r)
    BY Zenon DEF RequestsInv
  <2>2. seen[r] \subseteq seen'[r]
    BY <1>1, Zenon DEF Witnessed
  <2>3. at[r] # "idle" => [query |-> query', version |-> version'] \in seen'[r]
    BY <1>1, Zenon DEF Witnessed
  <2> QED
    BY <1>1, <2>1, <2>2, <2>3, Zenon DEF Snapshotted
<1> QED
  BY <1>2, <1>3, Zenon DEF RequestsInv

\* What a request does concerns no other request.
LEMMA OtherRequests ==
  ASSUME RequestsInv, NEW r \in Requests, NEW q \in Requests \ {r},
         Begins(r) \/ Snapshot(r) \/ Decide(r)
  PROVE  Snapshotted(q)'
<1>1. /\ UNCHANGED <<query, version>>
      /\ at'[q] = at[q] /\ snap'[q] = snap[q]
      /\ seen'[q] = seen[q] /\ decided'[q] = decided[q]
  BY Zenon DEF RequestsInv, RequestsTypeOK, Begins, Snapshot, Decide, engine
<1>2. Snapshotted(q)
  BY Zenon DEF RequestsInv
<1> QED
  BY <1>1, <1>2, Zenon DEF Snapshotted

\* Evaluate copies query and version together, and only a decision rule of that
\* bundle yields an allow or a quarantine.
LEMMA OwnRequest ==
  ASSUME RequestsInv, NEW r \in Requests, Begins(r) \/ Snapshot(r) \/ Decide(r)
  PROVE  RequestsTypeOK' /\ Snapshotted(r)'
<1>1. RequestsTypeOK /\ Snapshotted(r)
  BY Zenon DEF RequestsInv
<1>2. CASE Begins(r)
  BY <1>1, <1>2, Zenon DEF RequestsTypeOK, Begins, Snapshotted, engine
<1>3. CASE Snapshot(r)
  BY <1>1, <1>3, Zenon DEF RequestsTypeOK, Snapshot, Snapshotted, engine
<1>4. CASE Decide(r)
  <2>1. PICK result \in Eval(snap[r].query) :
          decided' = [decided EXCEPT ![r] = evaluate(result)]
    BY <1>4, Zenon DEF Decide
  <2>2. /\ UNCHANGED <<snap, seen>> /\ at[r] = "evaluate" /\ at'[r] = "idle"
        /\ decided'[r] = evaluate(result) /\ RequestsTypeOK'
    BY <1>1, <1>4, <2>1, Zenon DEF Decide, RequestsTypeOK
  <2>3. evaluate(result) \in {"allow", "quarantine"} =>
          hasDecisionPolicy(snap[r].query)
    BY <2>1, Zenon DEF Eval, evaluate
  <2> QED
    BY <1>1, <2>2, <2>3, Zenon DEF Snapshotted
<1> QED
  BY <1>2, <1>3, <1>4, Zenon

\* A request is decided by one bundle under the version published with it, both
\* active while it was being evaluated, whatever reloads run meanwhile.
THEOREM SnapshotTheorem == Spec => []DecisionIsSnapshot
<1>1. Init => RequestsInv
  BY Zenon DEF Init, RequestsInv, RequestsTypeOK, Snapshotted
<1>2. ASSUME RequestsInv, [Next]_vars PROVE RequestsInv'
  <2>1. CASE UNCHANGED <<query, version>> /\ UNCHANGED requests
    BY <1>2, <2>1, Zenon DEF requests, RequestsInv, RequestsTypeOK, Snapshotted
  <2>2. ASSUME NEW p \in Reloaders, ReloadStep(p) PROVE RequestsInv'
    <3>1. CASE Publish(p)
      BY <1>2, <3>1, PublishShows, Zenon
    <3>2. CASE ReadFile(p) \/ bundleVersion(p) \/ Load(p) \/ Reject(p)
      BY <2>1, <3>2, Zenon DEF ReadFile, bundleVersion, Load, Reject, engine
    <3> QED
      BY <2>2, <3>1, <3>2, Zenon DEF ReloadStep
  <2>3. ASSUME NEW r \in Requests, Begins(r) \/ Snapshot(r) \/ Decide(r)
        PROVE  RequestsInv'
    BY <1>2, <2>3, OwnRequest, OtherRequests, Zenon DEF RequestsInv
  <2>4. CASE EditFile \/ RemoveDir \/ MakeDir \/ WatchForChanges \/ Compare
    BY <2>1, <2>4, Zenon DEF EditFile, RemoveDir, MakeDir, Change, WatchForChanges,
                      Compare, engine
  <2>5. ASSUME NEW p \in Reloaders, Reload(p) PROVE RequestsInv'
    BY <2>1, <2>5, Zenon DEF Reload, engine
  <2>6. CASE UNCHANGED vars
    BY <2>1, <2>6, Zenon DEF vars, engine
  <2> QED
    BY <1>2, <2>2, <2>3, <2>4, <2>5, <2>6, EngineAssumption, Zenon DEF Next, Watch
<1>3. RequestsInv => DecisionIsSnapshot
  BY Zenon DEF RequestsInv, Snapshotted, DecisionIsSnapshot
<1> QED
  BY <1>1, <1>2, <1>3, PTL DEF Spec

-----------------------------------------------------------------------------
(* Reloads *)

\* Once all files have been read, what was read is what is on disk.
LEMMA AllReadIsDisk ==
  ASSUME TypeOK, NEW p \in Reloaders, AgreesWithDisk(p), AllRead(p)
  PROVE  got[p] = disk
<1>1. CASE disk = Missing
  BY <1>1, Zenon DEF AgreesWithDisk, Missing
<1>2. CASE disk # Missing
  <2>1. /\ Len(got[p]) = NumFiles
        /\ \A i \in 1 .. NumFiles : got[p][i] = disk[i]
    BY <1>2, Zenon DEF AgreesWithDisk, AllRead
  <2>2. got[p] \in Seq(Contents) /\ disk \in [1 .. NumFiles -> Contents]
    BY <1>2, Zenon DEF TypeOK, Bundle
  <2>3. got[p] \in [1 .. NumFiles -> Contents]
    BY <2>1, <2>2
  <2> QED
    BY <2>1, <2>2, <2>3
<1> QED
  BY <1>1, <1>2, Zenon

\* An edit ends every claim about the reloads under way.
LEMMA ChangeStep ==
  ASSUME ReloadsInv, EditFile \/ RemoveDir \/ MakeDir
  PROVE  ReloadsInv'
<1>1. PICK b \in Bundle : Change(b)
  <2>1. CASE EditFile
    <3>1. PICK i \in 1 .. Len(disk), c \in InUse : Change([disk EXCEPT ![i] = c])
      BY <2>1, Zenon DEF EditFile
    <3>2. disk # Missing
      BY <3>1 DEF Missing
    <3>3. disk \in [1 .. NumFiles -> Contents]
      BY <3>2, Zenon DEF ReloadsInv, TypeOK, Bundle
    <3>4. [disk EXCEPT ![i] = c] \in [1 .. NumFiles -> Contents]
      BY <3>1, <3>3, EngineAssumption, Zenon
    <3> QED
      BY <3>1, <3>4, Zenon DEF Bundle
  <2>2. CASE RemoveDir
    BY <2>2, Zenon DEF RemoveDir, Bundle
  <2>3. CASE MakeDir
    BY <2>3, Zenon DEF MakeDir, Bundle, Contents
  <2> QED
    BY <2>1, <2>2, <2>3, Zenon
<1>2. /\ disk' \in Bundle /\ undisturbed' = {}
      /\ UNCHANGED <<pc, got, ver, exact, version, query>>
  BY <1>1, Zenon DEF Change, engine
<1> QED
  BY <1>2, Zenon DEF ReloadsInv, TypeOK, ExactWhenUndisturbed

\* A step of p says nothing new about another reload.
LEMMA OtherReloads ==
  ASSUME ReloadsInv, NEW p \in Reloaders, NEW q \in Reloaders \ {p},
         UNCHANGED disk,
         pc'[q] = pc[q], got'[q] = got[q], ver'[q] = ver[q]
  PROVE  /\ (pc[q] = "idle" => got[q] = <<>>)'
         /\ Undisturbed(q) => Undisturbed(q)'
  BY Zenon DEF ReloadsInv, Undisturbed, AgreesWithDisk

\* Reloads begin without files, and end without claims.
LEMMA BeginStep ==
  ASSUME ReloadsInv, NEW p \in Reloaders, pc'[p] = "print", got'[p] = <<>>,
         UNCHANGED <<disk, exact, version, query>>,
         pc' \in [Reloaders -> Stages], got' \in [Reloaders -> Seq(Contents)],
         DOMAIN ver' = Reloaders,
         undisturbed' = undisturbed \cup {p},
         \A q \in Reloaders \ {p} :
            pc'[q] = pc[q] /\ got'[q] = got[q] /\ ver'[q] = ver[q]
  PROVE  ReloadsInv'
<1>1. TypeOK'
  BY Zenon DEF ReloadsInv, TypeOK
<1>2. Undisturbed(p)'
  BY EngineAssumption DEF Undisturbed, AgreesWithDisk, Missing
<1>3. ExactWhenUndisturbed'
  BY Zenon DEF ReloadsInv, ExactWhenUndisturbed
<1>4. \A q \in Reloaders : (pc[q] = "idle" => got[q] = <<>>)'
  BY OtherReloads, Zenon
<1>5. \A q \in undisturbed' : Undisturbed(q)'
  BY <1>2, OtherReloads, Zenon DEF ReloadsInv, TypeOK
<1> QED
  BY <1>1, <1>3, <1>4, <1>5, Zenon DEF ReloadsInv

\* The end of a reload, whether it published its bundle or rejected it.
LEMMA EndsStep ==
  ASSUME ReloadsInv, NEW p \in Reloaders, Ends(p), UNCHANGED disk,
         ExactWhenUndisturbed'
  PROVE  ReloadsInv'
<1>1. /\ pc' = [pc EXCEPT ![p] = "idle"] /\ got' = [got EXCEPT ![p] = <<>>]
      /\ ver' = [ver EXCEPT ![p] = <<>>] /\ undisturbed' = undisturbed \ {p}
  BY Zenon DEF Ends, Goto
<1>2. TypeOK'
  BY <1>1 DEF ReloadsInv, TypeOK, Stages
<1>3. \A q \in Reloaders \ {p} :
        pc'[q] = pc[q] /\ got'[q] = got[q] /\ ver'[q] = ver[q]
  BY <1>1, Zenon DEF ReloadsInv, TypeOK
<1>4. \A q \in Reloaders : (pc[q] = "idle" => got[q] = <<>>)'
  BY <1>1, <1>3, OtherReloads, Zenon DEF ReloadsInv, TypeOK
<1>5. \A q \in undisturbed' : Undisturbed(q)'
  BY <1>1, <1>3, OtherReloads, Zenon DEF ReloadsInv, TypeOK
<1> QED
  BY <1>2, <1>4, <1>5, Zenon DEF ReloadsInv

\* A step within a reload, which keeps what is claimed of it.
LEMMA WithinStep ==
  ASSUME ReloadsInv, NEW p \in Reloaders, UNCHANGED <<disk, undisturbed>>,
         UNCHANGED <<exact, version, query>>,
         pc' \in [Reloaders -> Stages], got' \in [Reloaders -> Seq(Contents)],
         DOMAIN ver' = Reloaders,
         \A q \in Reloaders \ {p} :
            pc'[q] = pc[q] /\ got'[q] = got[q] /\ ver'[q] = ver[q],
         pc'[p] = "idle" => got'[p] = <<>>,
         p \in undisturbed => Undisturbed(p)'
  PROVE  ReloadsInv'
<1>1. TypeOK'
  BY Zenon DEF ReloadsInv, TypeOK
<1>2. ExactWhenUndisturbed'
  BY Zenon DEF ReloadsInv, ExactWhenUndisturbed
<1>3. \A q \in Reloaders : (pc[q] = "idle" => got[q] = <<>>)'
  BY OtherReloads, ZenonT(30)
<1>4. \A q \in undisturbed' : Undisturbed(q)'
  BY OtherReloads, Zenon DEF ReloadsInv, TypeOK
<1> QED
  BY <1>1, <1>2, <1>3, <1>4, Zenon DEF ReloadsInv

\* One more file: what has been read still agrees with the directory.
LEMMA ReadFileStep ==
  ASSUME ReloadsInv, NEW p \in Reloaders, ReadFile(p)
  PROVE  ReloadsInv'
<1>1. UNCHANGED <<disk, exact, version, query>>
  BY Zenon DEF ReadFile, files, engine
<1>2. CASE Ends(p)
  BY <1>1, <1>2, EndsStep, Zenon DEF ReloadsInv, ExactWhenUndisturbed
<1>3. CASE /\ disk # Missing
           /\ Len(got[p]) < NumFiles
           /\ got' = [got EXCEPT ![p] = Append(@, disk[Len(@) + 1])]
           /\ UNCHANGED <<pc, ver, undisturbed, faults>>
  <2>1. /\ got[p] \in Seq(Contents) /\ disk \in [1 .. NumFiles -> Contents]
        /\ pc \in [Reloaders -> Stages] /\ got \in [Reloaders -> Seq(Contents)]
    BY <1>3, Zenon DEF ReloadsInv, TypeOK, Bundle
  <2> DEFINE n == Len(got[p])
             longer == Append(got[p], disk[n + 1])
  <2>2. n \in Nat /\ n + 1 \in 1 .. NumFiles /\ disk[n + 1] \in Contents
    BY <1>3, <2>1, EngineAssumption
  <2>3. /\ longer \in Seq(Contents) /\ Len(longer) = n + 1
        /\ longer[n + 1] = disk[n + 1]
        /\ \A i \in 1 .. n : longer[i] = got[p][i]
    BY <2>1, <2>2
  <2>4. got'[p] = longer /\ got' \in [Reloaders -> Seq(Contents)]
    BY <1>3, <2>1, <2>3, Zenon
  <2>5. pc[p] # "idle" /\ pc[p] # "compile"
    BY Zenon DEF ReadFile
  <2>6. p \in undisturbed => Undisturbed(p)'
    <3> SUFFICES ASSUME p \in undisturbed PROVE Undisturbed(p)'
      BY Zenon
    <3>1. Undisturbed(p)
      BY Zenon DEF ReloadsInv
    <3>2. \A i \in 1 .. n + 1 : longer[i] = disk[i]
      BY <1>3, <2>2, <2>3, <3>1 DEF Undisturbed, AgreesWithDisk
    <3>3. AgreesWithDisk(p)'
      BY <1>1, <1>3, <2>2, <2>3, <2>4, <3>2 DEF AgreesWithDisk
    <3> QED
      BY <1>1, <1>3, <2>5, <3>1, <3>3, Zenon DEF Undisturbed
  <2>7. \A q \in Reloaders \ {p} :
          pc'[q] = pc[q] /\ got'[q] = got[q] /\ ver'[q] = ver[q]
    BY <1>3, <2>1, Zenon
  <2>8. DOMAIN ver' = Reloaders
    BY <1>3, Zenon DEF ReloadsInv, TypeOK
  <2> QED
    BY <1>1, <1>3, <2>1, <2>4, <2>5, <2>6, <2>7, <2>8, WithinStep, Zenon
<1> QED
  BY <1>2, <1>3, Zenon DEF ReadFile

\* The fingerprint is taken, and then the bundle is loaded, from all files.
LEMMA LoadStep ==
  ASSUME ReloadsInv, NEW p \in Reloaders, bundleVersion(p) \/ Load(p)
  PROVE  ReloadsInv'
<1>1. /\ UNCHANGED <<disk, exact, version, query, undisturbed>>
      /\ AllRead(p)
  BY Zenon DEF bundleVersion, Load, files, engine
<1>2. TypeOK
  BY Zenon DEF ReloadsInv
<1>3. /\ pc' \in [Reloaders -> Stages] /\ got' \in [Reloaders -> Seq(Contents)]
      /\ DOMAIN ver' = Reloaders
      /\ \A q \in Reloaders \ {p} :
            pc'[q] = pc[q] /\ got'[q] = got[q] /\ ver'[q] = ver[q]
      /\ pc'[p] # "idle"
  <2>1. CASE bundleVersion(p)
    BY <1>2, <2>1 DEF TypeOK, Stages, bundleVersion, Goto
  <2>2. CASE Load(p)
    BY <1>2, <2>2, Zenon DEF TypeOK, Stages, Load, Goto
  <2> QED
    BY <2>1, <2>2, Zenon
<1>4. ASSUME p \in undisturbed PROVE Undisturbed(p)'
  <2>1. Undisturbed(p) /\ got[p] = disk
    BY <1>1, <1>2, <1>4, AllReadIsDisk, Zenon DEF ReloadsInv, Undisturbed
  <2>2. CASE bundleVersion(p)
    BY <1>1, <1>2, <2>1, <2>2, EngineAssumption
       DEF TypeOK, bundleVersion, Goto, Undisturbed, AgreesWithDisk, Missing
  <2>3. CASE Load(p)
    BY <1>1, <1>2, <2>1, <2>3, Zenon
       DEF TypeOK, Load, Goto, Undisturbed, AgreesWithDisk
  <2> QED
    BY <2>2, <2>3, Zenon
<1> QED
  BY <1>1, <1>3, <1>4, WithinStep, Zenon

\* A reload that nobody disturbed installs the bundle it took the fingerprint of.
LEMMA PublishStep ==
  ASSUME ReloadsInv, NEW p \in Reloaders, Publish(p)
  PROVE  ReloadsInv'
<1>1. /\ pc[p] = "compile" /\ query' = got[p] /\ version' = ver[p]
      /\ exact' = (p \in undisturbed) /\ Ends(p) /\ UNCHANGED disk
  BY Zenon DEF Publish, Install, files
<1>2. p \in undisturbed => got[p] = ver[p]
  BY <1>1, Zenon DEF ReloadsInv, Undisturbed
<1>3. ExactWhenUndisturbed'
  BY <1>1, <1>2, Zenon DEF ExactWhenUndisturbed
<1> QED
  BY <1>1, <1>3, EndsStep, Zenon

\* Every step of a reload keeps the invariant of reloads.
LEMMA ReloadStepInv ==
  ASSUME ReloadsInv, NEW p \in Reloaders, ReloadStep(p)
  PROVE  ReloadsInv'
<1>1. CASE Reject(p)
  BY <1>1, EndsStep, Zenon
     DEF Reject, ReloadsInv, ExactWhenUndisturbed, files, engine
<1> QED
  BY <1>1, ReadFileStep, LoadStep, PublishStep, Zenon DEF ReloadStep

\* The watcher's round, and the reload that it, the admin API or SIGHUP starts.
LEMMA StartStep ==
  ASSUME ReloadsInv, NEW p \in Reloaders,
         Reload(p) \/ (p = Watcher /\ (WatchForChanges \/ Compare))
  PROVE  ReloadsInv'
<1>1. TypeOK
  BY Zenon DEF ReloadsInv
<1>2. CASE Reload(p)
  <2>1. got[p] = <<>>
    BY <1>2, Zenon DEF Reload, ReloadsInv
  <2> QED
    BY <1>1, <1>2, <2>1, BeginStep, Zenon
       DEF TypeOK, Reload, Begin, Goto, Stages, files, engine
<1>3. CASE p = Watcher /\ WatchForChanges
  <2>1. p \notin undisturbed
    BY <1>3, Zenon DEF WatchForChanges, ReloadsInv, Undisturbed
  <2> QED
    BY <1>1, <1>3, <2>1, WithinStep, Zenon
       DEF TypeOK, WatchForChanges, Goto, Stages, files, engine
<1>4. CASE p = Watcher /\ Compare
  <2>1. p \notin undisturbed
    BY <1>4, Zenon DEF Compare, ReloadsInv, Undisturbed
  <2>2. /\ got' = [got EXCEPT ![p] = <<>>] /\ got' \in [Reloaders -> Seq(Contents)]
        /\ UNCHANGED <<disk, exact, version, query, ver>>
    BY <1>1, <1>4 DEF TypeOK, Compare, files, engine
  <2>3. CASE Goto(p, "idle") /\ UNCHANGED undisturbed
    BY <1>1, <2>1, <2>2, <2>3, WithinStep, Zenon DEF TypeOK, Goto, Stages
  <2>4. CASE Begin(p)
    BY <1>1, <2>2, <2>4, BeginStep, Zenon DEF TypeOK, Begin, Goto, Stages
  <2> QED
    BY <1>4, <2>3, <2>4, Zenon DEF Compare
<1> QED
  BY <1>2, <1>3, <1>4, Zenon

\* The invariant of reloads holds in every state.
LEMMA ReloadsInvariance == Spec => []ReloadsInv
<1>1. Init => ReloadsInv
  <2> SUFFICES ASSUME Init PROVE ReloadsInv
    BY Zenon
  <2>1. disk \in Bundle
    BY EngineAssumption, Zenon DEF Init, Bundle
  <2> QED
    BY <2>1 DEF Init, ReloadsInv, TypeOK, Stages, ExactWhenUndisturbed
<1>2. ASSUME ReloadsInv, [Next]_vars PROVE ReloadsInv'
  <2>1. CASE UNCHANGED <<disk, reloaders, exact, version, query>>
    BY <1>2, <2>1, Zenon DEF ReloadsInv, TypeOK, Undisturbed, AgreesWithDisk,
                      ExactWhenUndisturbed, reloaders
  <2>2. CASE UNCHANGED vars
    BY <2>1, <2>2, Zenon DEF vars, files, engine
  <2>3. CASE \E r \in Requests : Begins(r) \/ Snapshot(r) \/ Decide(r)
    BY <2>1, <2>3, Zenon DEF Begins, Snapshot, Decide, files, engine
  <2> QED
    BY <1>2, <2>2, <2>3, ChangeStep, ReloadStepInv, StartStep, EngineAssumption, Zenon
       DEF Next, Watch
<1> QED
  BY <1>1, <1>2, PTL DEF Spec

\* A reload during which nobody edits the directory publishes the fingerprint of
\* the bundle it compiled, for any number of files and of concurrent reloads.
THEOREM ExactTheorem == Spec => []ExactWhenUndisturbed
<1>1. ReloadsInv => ExactWhenUndisturbed
  BY Zenon DEF ReloadsInv
<1> QED
  BY <1>1, ReloadsInvariance, PTL

\* A reload that ends after compiling is rejected or published.
LEMMA EndOfReload ==
  ASSUME ReloadsInv, NEW p \in Reloaders, Next, pc[p] = "compile", pc'[p] = "idle"
  PROVE  Reject(p) \/ Publish(p)
<1>1. pc \in [Reloaders -> Stages] /\ pc'[p] # pc[p]
  BY Zenon DEF ReloadsInv, TypeOK
<1>2. ~UNCHANGED pc
  BY <1>1, Zenon
<1>3. ASSUME NEW q \in Reloaders, ReloadStep(q) PROVE Reject(p) \/ Publish(p)
  <2>1. CASE q = p
    BY <1>1, <1>3, <2>1, Zenon DEF ReloadStep, ReadFile, bundleVersion, Load
  <2>2. CASE q # p
    BY <1>1, <1>3, <2>2, Zenon DEF ReloadStep, ReadFile, bundleVersion, Load, Reject,
                      Publish, Install, Ends, Goto
  <2> QED
    BY <2>1, <2>2, Zenon
<1>4. ASSUME NEW q \in Reloaders, Reload(q) PROVE FALSE
  BY <1>1, <1>4, Zenon DEF Reload, Begin, Goto
<1>5. ~WatchForChanges /\ ~Compare
  BY <1>1, Zenon DEF WatchForChanges, Compare, Begin, Goto
<1>6. ~(EditFile \/ RemoveDir \/ MakeDir)
  BY <1>2, Zenon DEF EditFile, RemoveDir, MakeDir, Change
<1>7. \A q \in Requests : ~(Begins(q) \/ Snapshot(q) \/ Decide(q))
  BY <1>2, Zenon DEF Begins, Snapshot, Decide, reloaders
<1> QED
  BY <1>3, <1>4, <1>5, <1>6, <1>7, EngineAssumption, Zenon DEF Next, Watch

\* Reload enforces the directory that it found, if nobody edits it meanwhile and
\* the bundle is acceptable, and otherwise keeps the last good policy, for bundles
\* of any number of files and beside any number of other reloads.
THEOREM FaithfulTheorem == Spec => ReloadIsFaithful
<1> DEFINE Faithful ==
      \A p \in undisturbed : pc[p] = "compile" /\ pc'[p] = "idle" =>
         IF Acceptable(disk)
         THEN query' = disk /\ version' = disk /\ ready' = hasDecisionPolicy(disk)
         ELSE UNCHANGED engine
<1>1. ASSUME ReloadsInv, [Next]_vars PROVE [Faithful]_vars
  <2>1. ASSUME Next, NEW p \in undisturbed, pc[p] = "compile", pc'[p] = "idle"
        PROVE  IF Acceptable(disk)
               THEN query' = disk /\ version' = disk /\ ready' = hasDecisionPolicy(disk)
               ELSE UNCHANGED engine
    <3>1. p \in Reloaders /\ got[p] = disk /\ ver[p] = disk
      BY <1>1, <2>1, Zenon DEF ReloadsInv, TypeOK, Undisturbed
    <3>2. Reject(p) \/ Publish(p)
      BY <1>1, <2>1, <3>1, EndOfReload, Zenon
    <3> QED
      BY <3>1, <3>2, Zenon DEF Reject, Publish, Install
  <2> QED
    BY <1>1, <2>1, Zenon
<1> QED
  BY <1>1, ReloadsInvariance, PTL DEF Spec, ReloadIsFaithful

=============================================================================
