---------------------------- MODULE PolicyEngine ----------------------------
(***************************************************************************)
(* The policy engine of backend/internal/opaengine: requests are evaluated  *)
(* against the compiled bundle while a watcher, the admin API and SIGHUP     *)
(* reload it from a directory that is edited underneath them.               *)
(*                                                                         *)
(* A bundle is the sequence of the contents of its files, <<>> when the     *)
(* directory is missing, and is read file by file.  A fingerprint is         *)
(* modelled by the contents it was computed from (SHA-256 does not collide). *)
(***************************************************************************)
EXTENDS Naturals, Sequences

CONSTANTS
    NumFiles,   \* files the directory may hold
    InUse,      \* the contents that edits write
    Reloaders,  \* goroutines that may run Reload at the same time
    Watcher,    \* the one that runs WatchForChanges
    Requests,   \* requests evaluated at the same time
    MaxEdits,   \* bound: changes of the directory
    MaxFaults   \* bound: failed reads of a file

\* An absent file, two policies with a decision rule, a module without one, a
\* module of the package's former name, and one that does not compile.
Contents == {"absent", "v1", "v2", "unrelated", "legacy", "broken"}

ASSUME EngineAssumption ==
    /\ NumFiles \in Nat \ {0}
    /\ InUse \subseteq Contents
    /\ Watcher \in Reloaders
    /\ MaxEdits \in Nat
    /\ MaxFaults \in Nat

VARIABLES
    disk, edits, faults,
    query, ready, version,  \* Engine, written under its lock
    pc, got, ver,           \* reloaders: files read so far, fingerprint taken
    undisturbed,            \* reloads during which nobody has edited
    exact,                  \* the active bundle comes from such a reload
    at, snap, seen, decided \* requests

files      == <<disk, edits>>
engine     == <<query, ready, version>>
reloaders  == <<pc, got, ver, undisturbed>>
requests   == <<at, snap, seen, decided>>
vars == <<files, faults, engine, reloaders, exact, requests>>

Missing == <<>>

Bundle == [1 .. NumFiles -> Contents] \cup {Missing}

Has(bundle, contents) == \E i \in 1 .. Len(bundle) : bundle[i] \in contents

compiles(bundle) == ~Has(bundle, {"broken"})

hasDecisionPolicy(bundle) == Has(bundle, {"v1", "v2"})

usesLegacyPackage(bundle) == Has(bundle, {"legacy"})

Acceptable(bundle) ==
    /\ compiles(bundle)
    /\ hasDecisionPolicy(bundle) \/ ~usesLegacyPackage(bundle)

NoSnap == [query |-> Missing, version |-> <<"none">>]

\* New has loaded the directory before anything else starts.
Init ==
    /\ disk \in {b \in [1 .. NumFiles -> InUse] \cup {Missing} : Acceptable(b)}
    /\ edits = 0
    /\ faults = 0
    /\ query = disk
    /\ version = disk
    /\ ready = hasDecisionPolicy(disk)
    /\ pc = [p \in Reloaders |-> "idle"]
    /\ got = [p \in Reloaders |-> <<>>]
    /\ ver = [p \in Reloaders |-> <<>>]
    /\ undisturbed = {}
    /\ exact = TRUE
    /\ at = [r \in Requests |-> "idle"]
    /\ snap = [r \in Requests |-> NoSnap]
    /\ seen = [r \in Requests |-> {}]
    /\ decided = [r \in Requests |-> "none"]

-----------------------------------------------------------------------------
(* The directory: a GitOps sync or an operator changes it at any time. *)

Change(bundle) ==
    /\ edits < MaxEdits
    /\ edits' = edits + 1
    /\ disk' = bundle
    /\ undisturbed' = {}
    /\ UNCHANGED <<faults, engine, pc, got, ver, exact, requests>>

EditFile ==
    \E i \in 1 .. Len(disk), c \in InUse : Change([disk EXCEPT ![i] = c])

RemoveDir == disk # Missing /\ Change(Missing)

MakeDir == disk = Missing /\ Change([i \in 1 .. NumFiles |-> "absent"])

-----------------------------------------------------------------------------
(* Reload *)

Goto(p, label) == pc' = [pc EXCEPT ![p] = label]

\* A reload, or a round of the watcher, ends and its locals are gone.
Ends(p) ==
    /\ Goto(p, "idle")
    /\ got' = [got EXCEPT ![p] = <<>>]
    /\ ver' = [ver EXCEPT ![p] = <<>>]
    /\ undisturbed' = undisturbed \ {p}

\* One more file is read; a failed read, and a directory that vanishes in the
\* middle, end the reload (or the watcher's round) with an error.
ReadFile(p) ==
    /\ pc[p] \in {"watch", "print", "load"}
    /\ \/ /\ disk # Missing
          /\ Len(got[p]) < NumFiles
          /\ got' = [got EXCEPT ![p] = Append(@, disk[Len(@) + 1])]
          /\ UNCHANGED <<pc, ver, undisturbed, faults>>
       \/ /\ \/ disk # Missing /\ faults < MaxFaults /\ faults' = faults + 1
             \/ disk = Missing /\ Len(got[p]) \in 1 .. NumFiles - 1
                  /\ UNCHANGED faults
          /\ Ends(p)
    /\ UNCHANGED <<files, engine, exact, requests>>

AllRead(p) ==
    \/ Len(got[p]) = NumFiles
    \/ got[p] = <<>> /\ disk = Missing

\* A tick of WatchForChanges.
WatchForChanges ==
    /\ pc[Watcher] = "idle"
    /\ Goto(Watcher, "watch")
    /\ UNCHANGED <<files, faults, engine, got, ver, undisturbed, exact,
                   requests>>

Begin(p) == Goto(p, "print") /\ undisturbed' = undisturbed \cup {p}

\* Mutant: the watcher never reloads a bundle that has no decision rule.
CompareReady ==
    /\ pc[Watcher] = "watch" /\ AllRead(Watcher)
    /\ got' = [got EXCEPT ![Watcher] = <<>>]
    /\ IF got[Watcher] = version \/ ~hasDecisionPolicy(got[Watcher])
       THEN Goto(Watcher, "idle") /\ UNCHANGED undisturbed
       ELSE Begin(Watcher)
    /\ UNCHANGED <<files, faults, engine, ver, exact, requests>>

Compare ==
    /\ pc[Watcher] = "watch" /\ AllRead(Watcher)
    /\ got' = [got EXCEPT ![Watcher] = <<>>]
    /\ \/ /\ got[Watcher] = version
          /\ Goto(Watcher, "idle") /\ UNCHANGED undisturbed
       \/ got[Watcher] # version /\ Begin(Watcher)
    /\ UNCHANGED <<files, faults, engine, ver, exact, requests>>

\* handleReload and reloadOnSignal.
Reload(p) ==
    /\ p # Watcher
    /\ pc[p] = "idle"
    /\ Begin(p)
    /\ UNCHANGED <<files, faults, engine, got, ver, exact, requests>>

bundleVersion(p) ==
    /\ pc[p] = "print" /\ AllRead(p)
    /\ ver' = [ver EXCEPT ![p] = got[p]]
    /\ got' = [got EXCEPT ![p] = <<>>]
    /\ Goto(p, "load")
    /\ UNCHANGED <<files, faults, engine, undisturbed, exact, requests>>

Load(p) ==
    /\ pc[p] = "load" /\ AllRead(p)
    /\ Goto(p, "compile")
    /\ UNCHANGED <<files, faults, engine, got, ver, undisturbed, exact,
                   requests>>

Reject(p) ==
    /\ pc[p] = "compile"
    /\ ~Acceptable(got[p])
    /\ Ends(p)
    /\ UNCHANGED <<files, faults, engine, exact, requests>>

\* Requests under way may see either bundle.
Witnessed ==
    seen' = [r \in Requests |->
               IF at[r] = "idle" THEN seen[r]
               ELSE seen[r] \cup {[query |-> query', version |-> version']}]

\* The three assignments under the lock.
Install(p, isReady, newVersion) ==
    /\ query' = got[p]
    /\ ready' = isReady
    /\ version' = newVersion
    /\ exact' = (p \in undisturbed)
    /\ Witnessed
    /\ Ends(p)
    /\ UNCHANGED <<files, faults, at, snap, decided>>

\* Mutants: the version is not brought up to date, or the bundle is not looked at.
PublishOldVersion(p) ==
    /\ pc[p] = "compile" /\ Acceptable(got[p])
    /\ Install(p, hasDecisionPolicy(got[p]), version)

PublishUnchecked(p) ==
    /\ pc[p] = "compile" /\ compiles(got[p])
    /\ Install(p, hasDecisionPolicy(got[p]), ver[p])

Publish(p) ==
    /\ pc[p] = "compile"
    /\ Acceptable(got[p])
    /\ Install(p, hasDecisionPolicy(got[p]), ver[p])

-----------------------------------------------------------------------------
(* Evaluate *)

Begins(r) ==
    /\ at[r] = "idle"
    /\ at' = [at EXCEPT ![r] = "begun"]
    /\ seen' = [seen EXCEPT ![r] = {[query |-> query, version |-> version]}]
    /\ snap' = [snap EXCEPT ![r] = NoSnap]
    /\ decided' = [decided EXCEPT ![r] = "none"]
    /\ UNCHANGED <<files, faults, engine, reloaders, exact>>

Snapshot(r) ==
    /\ at[r] = "begun"
    /\ at' = [at EXCEPT ![r] = "evaluate"]
    /\ snap' = [snap EXCEPT ![r] = [query |-> query, version |-> version]]
    /\ UNCHANGED <<files, faults, engine, reloaders, exact, seen, decided>>

\* What the prepared query may return: a decision rule may also fail, be
\* undefined for this input, or have a value that is no decision.
Eval(bundle) ==
    IF hasDecisionPolicy(bundle)
    THEN {"error", "undefined", "malformed", "allow", "deny", "quarantine"}
    ELSE {"undefined"}

evaluate(result) ==
    IF result \in {"allow", "deny", "quarantine"} THEN result ELSE "deny"

\* Mutant: the version is read when the decision is made.
DecideTorn(r) ==
    /\ at[r] = "evaluate"
    /\ \E result \in Eval(snap[r].query) :
         decided' = [decided EXCEPT ![r] = evaluate(result)]
    /\ snap' = [snap EXCEPT ![r].version = version]
    /\ at' = [at EXCEPT ![r] = "idle"]
    /\ UNCHANGED <<files, faults, engine, reloaders, exact, seen>>

Decide(r) ==
    /\ at[r] = "evaluate"
    /\ \E result \in Eval(snap[r].query) :
         decided' = [decided EXCEPT ![r] = evaluate(result)]
    /\ at' = [at EXCEPT ![r] = "idle"]
    /\ UNCHANGED <<files, faults, engine, reloaders, exact, snap, seen>>

-----------------------------------------------------------------------------
ReloadStep(p) ==
    \/ ReadFile(p)
    \/ bundleVersion(p)
    \/ Load(p)
    \/ Reject(p)
    \/ Publish(p)

Watch == WatchForChanges \/ Compare \/ ReloadStep(Watcher)

Next ==
    \/ EditFile \/ RemoveDir \/ MakeDir
    \/ Watch
    \/ \E p \in Reloaders \ {Watcher} : Reload(p) \/ ReloadStep(p)
    \/ \E r \in Requests : Begins(r) \/ Snapshot(r) \/ Decide(r)

Spec == Init /\ [][Next]_vars

\* Goroutines run, and the watcher's ticker fires.  Nobody has to edit the
\* directory or ask for a reload.
FairSpec ==
    /\ Spec
    /\ WF_vars(Watch)
    /\ \A p \in Reloaders \ {Watcher} : WF_vars(ReloadStep(p))

-----------------------------------------------------------------------------
(* Properties *)

\* A reload during which nobody edits the directory, whatever other reloads run
\* beside it, ends with exactly that directory enforced under its own fingerprint,
\* if the bundle is acceptable, and otherwise leaves the policy in force, its
\* version and its readiness alone.
ReloadIsFaithful ==
    [][\A p \in undisturbed : pc[p] = "compile" /\ pc'[p] = "idle" =>
         IF Acceptable(disk)
         THEN query' = disk /\ version' = disk /\ ready' = hasDecisionPolicy(disk)
         ELSE UNCHANGED engine]_vars

\* A request is decided by one bundle under the version published with it, both
\* active together while the request was being evaluated, and only a decision
\* rule of that bundle lets it through or holds it: everything else denies.
DecisionIsSnapshot ==
    \A r \in Requests :
        /\ decided[r] # "none" => snap[r] \in seen[r]
        /\ decided[r] \in {"allow", "quarantine"} => hasDecisionPolicy(snap[r].query)

\* A reload during which nobody edits the directory publishes the fingerprint of
\* the bundle it compiled, also when other reloads run at the same time.
ExactWhenUndisturbed == exact => version = query

\* Once edits stop, the watcher brings the active version to that of the
\* directory and it stays there, if the bundle is acceptable.
WatcherConverges == <>[](Acceptable(disk) => version = disk)

-----------------------------------------------------------------------------
(* What comments and documentation say of the engine *)

\* types/types.go:65, "PolicyVersion fingerprints the exact policy bundle that
\* decided".
VersionIsExact ==
    \A r \in Requests : decided[r] # "none" => snap[r].version = snap[r].query

=============================================================================
