-------------------------- MODULE ListUpdaterProofs --------------------------
(***************************************************************************)
(* Proofs about ListUpdater, for any names, bundles, days and number of    *)
(* checks.  IInv is the inductive invariant: what each phase of a check    *)
(* has established (PhaseInv), what the records on their way and the       *)
(* version read from the marker stand for (Honest), and, as long as no     *)
(* record was lost or late, how they compare with what was applied (Floor).*)
(***************************************************************************)
EXTENDS ListUpdater, TLAPS

\* Phases in which local_ holds what LookRead found.
Holding == {"manifest", "signature"}

PhaseInv ==
  /\ phase \in {"idle", "look"} => local = NoLocal
  /\ phase = "read" => local = [NoLocal EXCEPT !.worth_asking = TRUE]
  /\ phase = "looked" /\ ~local.worth_asking => local = NoLocal
  /\ phase \in Holding \/ (phase = "looked" /\ local.worth_asking) =>
       \A n \in Targets : local.held_sha256[n] \in {NoFile, held[n]}
  /\ phase \in ApplyingPhases =>
       /\ manifest # 0
       /\ version = Bundle[manifest].version
       /\ degraded = Bundle[manifest].degraded
       /\ fetching \in Targets
       /\ \A n \in Targets \ (wanted \cup {fetching}) :
            Bundle[manifest].files[n] \in {NoFile, held[n]}
  /\ phase = "replace" => body = Bundle[manifest].files[fetching]
  /\ phase = "saved" => held[fetching] = Bundle[manifest].files[fetching]

\* A version and its flag that some applied bundle had, or none.
Stands(v, d) ==
  v # 0 => \E b \in applied : Bundle[b].version = v /\ Bundle[b].degraded = d

Honest ==
  /\ Stands(marker.version, marker.degraded)
  /\ marker.outcome = "ok" => marker.version # 0
  /\ Stands(local.version, local.degraded)
  /\ \A r \in records : /\ Stands(r.version, r.degraded)
                        /\ r.outcome = "ok" => r.version # 0

HeldPromised ==
  /\ \A n \in Names \ {Resources} :
       held[n] = NoFile \/ \E b \in 1 .. published : held[n] = Bundle[b].files[n]
  /\ \A n \in Names \ (Targets \cup {Resources}) : held[n] = NoFile

Floor ==
  ~lost =>
    /\ phase \notin {"idle", "look"} => records = {}
    /\ records = {} => AppliedFloor(marker.version)
    /\ \A r \in records : AppliedFloor(r.version)
    /\ phase \in AskedPhases \/ (phase = "looked" /\ local.worth_asking) =>
         AppliedFloor(local.version)
    /\ phase \in ApplyingPhases => AppliedFloor(version)
    /\ ListsAtFloor

IInv == TypeOK /\ PhaseInv /\ Honest /\ HeldPromised /\ Floor

-----------------------------------------------------------------------------
LEMMA BundleFacts ==
  /\ Len(Bundle) \in Nat
  /\ \A b \in 1 .. Len(Bundle) :
       /\ Bundle[b].version \in Nat \ {0}
       /\ Bundle[b].degraded \in BOOLEAN
       /\ Bundle[b].files \in [Names -> Contents \cup {NoFile}]
<1>1. Bundle \in Seq(BundleType)
  BY BundleAssumption
<1>2. /\ Len(Bundle) \in Nat
      /\ \A b \in 1 .. Len(Bundle) : Bundle[b] \in BundleType
  BY <1>1
<1>3. QED
  BY <1>2 DEF BundleType

LEMMA NoLocalFacts ==
  /\ NoLocal \in LocalType
  /\ NoLocal.version = 0
  /\ NoLocal.degraded = FALSE
  /\ NoLocal.worth_asking = FALSE
BY DEF NoLocal, LocalType, NoFiles

LEMMA InitIInv == Init => IInv
<1> SUFFICES ASSUME Init PROVE IInv
  OBVIOUS
<1> USE NamesAssumption, BundleFacts, NoLocalFacts DEF Init
<1>1. TypeOK
  <2>1. held \in [Names -> Contents \cup {NoFile}]
    BY DEF NoFiles
  <2>2. marker \in MarkerType
    BY DEF MarkerType, NoMarker
  <2>3. phase \in Phases
    BY DEF Phases
  <2>4. askedOn \in Nat \cup {Never}
    OBVIOUS
  <2>5. /\ writtenAt \in [Names -> Nat]
        /\ published \in 0 .. Len(Bundle)
        /\ local \in LocalType
        /\ fetching \in Targets \cup {NoName}
        /\ manifest \in 0 .. published
    OBVIOUS
  <2>6. part \subseteq Names /\ wanted \subseteq Targets /\ records \subseteq RecordType
        /\ applied \subseteq 1 .. published
    OBVIOUS
  <2>7. QED
    BY <2>1, <2>2, <2>3, <2>4, <2>5, <2>6 DEF TypeOK
<1>2. PhaseInv
  BY DEF PhaseInv, Holding, ApplyingPhases
<1>3. Honest
  BY DEF Honest, Stands, NoMarker
<1>4. HeldPromised
  BY DEF HeldPromised, NoFiles
<1>5. Floor
  BY DEF Floor, AskedPhases, ApplyingPhases, AppliedFloor, ListsAtFloor
<1>6. QED
  BY <1>1, <1>2, <1>3, <1>4, <1>5 DEF IInv

-----------------------------------------------------------------------------
(* What the end of a check preserves. *)

\* Only a check that holds every list of a manifest no older than any applied
\* one may end "ok".
MayEndOk(v, d) ==
  /\ manifest # 0
  /\ v = Bundle[manifest].version
  /\ d = Bundle[manifest].degraded
  /\ \A n \in Targets : Bundle[manifest].files[n] \in {NoFile, held[n]}
  /\ ~lost => AppliedFloor(v)

LEMMA FinishStep ==
  ASSUME IInv, NEW outcome \in Outcomes, NEW v, NEW d,
         phase \in AskedPhases,
         outcome = "ok" => MayEndOk(v, d),
         FinishWith(outcome, v, d),
         UNCHANGED <<today, published, diskVars, checks, lost, askedOn, excused>>
  PROVE  IInv'
<1> USE BundleFacts, NoLocalFacts DEF diskVars
<1>1. /\ manifest \in 0 .. published /\ published \in 0 .. Len(Bundle)
      /\ local \in LocalType
      /\ applied \subseteq 1 .. published
      /\ records \subseteq RecordType
      /\ checks \in Nat
  BY DEF IInv, TypeOK
<1> PICK rec : rec = RecordOf(outcome, v, d)
  OBVIOUS
<1>2. /\ phase' = "idle" /\ local' = NoLocal
      /\ applied \subseteq applied'
      /\ records' = records \cup {rec}
      /\ outcome # "ok" => applied' = applied
      /\ outcome = "ok" => applied' = applied \cup {manifest}
  BY DEF FinishWith, ResetUi
<1>3. outcome = "ok" => manifest \in 1 .. published /\ v \in Nat \ {0} /\ d \in BOOLEAN
  BY <1>1 DEF MayEndOk
<1>4. rec \in RecordType
  BY <1>1, <1>3 DEF RecordOf, RecordType, LocalType
<1>5. TypeOK'
  <2>1. applied' \subseteq 1 .. published
    BY <1>1, <1>2, <1>3
  <2>2. /\ phase' \in Phases
        /\ local' \in LocalType
        /\ manifest' \in 0 .. published
        /\ wanted' \subseteq Targets
        /\ fetching' \in Targets \cup {NoName}
        /\ body' \in Contents \cup {NoFile}
        /\ version' \in Nat
    BY <1>1 DEF FinishWith, ResetUi, Phases
  <2>5. degraded' \in BOOLEAN
    BY DEF FinishWith, ResetUi
  <2>3. records' \subseteq RecordType
    BY <1>1, <1>2, <1>4
  <2>4. QED
    BY <2>1, <2>2, <2>3, <2>5 DEF IInv, TypeOK
<1>6. PhaseInv'
  BY <1>2 DEF PhaseInv, Holding, ApplyingPhases
<1>7. Honest'
  <2>1. ASSUME NEW w, NEW e, Stands(w, e) PROVE Stands(w, e)'
    BY <1>2, <2>1 DEF Stands
  <2>2. Stands(rec.version, rec.degraded)'
    <3>1. CASE outcome = "ok"
      BY <1>2, <3>1 DEF Stands, RecordOf, MayEndOk
    <3>2. CASE outcome # "ok"
      <4>1. Stands(local.version, local.degraded)
        BY DEF IInv, Honest
      <4>2. QED
        BY <3>2, <4>1, <2>1 DEF RecordOf
    <3>3. QED BY <3>1, <3>2
  <2>3. rec.outcome = "ok" => rec.version # 0
    BY <1>3 DEF RecordOf
  <2>4. Stands(marker.version, marker.degraded)' /\ (marker.outcome = "ok" => marker.version # 0)'
    BY <2>1 DEF IInv, Honest
  <2>5. Stands(local.version, local.degraded)'
    BY <1>2 DEF Stands
  <2>6. \A r \in records : Stands(r.version, r.degraded)'
    BY <2>1 DEF IInv, Honest
  <2>7. QED
    BY <1>2, <2>2, <2>3, <2>4, <2>5, <2>6 DEF IInv, Honest
<1>8. HeldPromised'
  BY DEF IInv, HeldPromised
<1>9. Floor'
  <2> SUFFICES ASSUME ~lost PROVE
        /\ records' # {}
        /\ \A r \in records' : AppliedFloor(r.version)'
        /\ ListsAtFloor'
    BY <1>2 DEF Floor, AskedPhases, ApplyingPhases
  <2>1. /\ records = {}
        /\ AppliedFloor(local.version)
        /\ ListsAtFloor
    BY DEF IInv, Floor, AskedPhases
  <2>2. AppliedFloor(rec.version)'
    <3>1. CASE outcome = "ok"
      <4>1. AppliedFloor(v) /\ v = Bundle[manifest].version
        BY <3>1 DEF MayEndOk
      <4>2. v <= v
        BY <3>1, <1>3
      <4>3. QED
        BY <4>1, <4>2, <1>2, <3>1 DEF AppliedFloor, RecordOf
    <3>2. CASE outcome # "ok"
      BY <2>1, <1>2, <3>2 DEF AppliedFloor, RecordOf
    <3>3. QED BY <3>1, <3>2
  <2>3. ListsAtFloor'
    <3> SUFFICES ASSUME NEW u \in applied', NEW n \in Targets,
                        Bundle[u].files[n] # NoFile
                 PROVE  \E w \in 1 .. published : /\ Bundle[w].version >= Bundle[u].version
                                                  /\ held[n] = Bundle[w].files[n]
      BY DEF ListsAtFloor
    <3>1. CASE u \in applied
      BY <2>1, <3>1 DEF ListsAtFloor
    <3>2. CASE u \notin applied
      <4>1. outcome = "ok" /\ u = manifest
        BY <1>2, <3>2
      <4>2. held[n] = Bundle[u].files[n]
        BY <4>1 DEF MayEndOk
      <4>3. u \in 1 .. published /\ Bundle[u].version >= Bundle[u].version
        BY <1>1, <1>3, <4>1
      <4>4. QED BY <4>2, <4>3
    <3>3. QED BY <3>1, <3>2
  <2>4. QED
    BY <1>2, <2>1, <2>2, <2>3
<1>10. QED
  BY <1>5, <1>6, <1>7, <1>8, <1>9 DEF IInv

\* Asking for the next list, or ending "ok" when there is none.
LEMMA FetchStep ==
  ASSUME IInv, NEW rest \in SUBSET Targets, NEW v, NEW d,
         phase \in {"signature", "saved"},
         manifest # 0,
         v = Bundle[manifest].version,
         d = Bundle[manifest].degraded,
         \A n \in Targets \ rest : Bundle[manifest].files[n] \in {NoFile, held[n]},
         ~lost => AppliedFloor(v),
         FetchNextList(rest, v, d),
         UNCHANGED <<today, published, diskVars, checks, lost, askedOn, excused>>
  PROVE  IInv'
<1> USE BundleFacts DEF diskVars
<1>1. CASE rest = {} /\ FinishWith("ok", v, d)
  <2>1. MayEndOk(v, d)
    BY <1>1 DEF MayEndOk
  <2>2. QED
    BY <1>1, <2>1, FinishStep DEF AskedPhases, Outcomes
<1>2. CASE /\ \E n \in rest : fetching' = n /\ wanted' = rest \ {n}
           /\ phase' = "list"
           /\ version' = v
           /\ degraded' = d
           /\ body' = NoFile
           /\ UNCHANGED <<local, manifest, records, applied>>
  <2>1. PICK n \in rest : fetching' = n /\ wanted' = rest \ {n}
    BY <1>2
  <2>2. manifest \in 1 .. Len(Bundle)
    BY DEF IInv, TypeOK
  <2>3. TypeOK'
    <3>1. v \in Nat /\ d \in BOOLEAN
      BY <2>2
    <3>2. phase' \in Phases
      BY <1>2 DEF Phases, AskedPhases
    <3>3. degraded' \in BOOLEAN
      BY <1>2, <3>1
    <3>4. QED
      BY <1>2, <2>1, <3>1, <3>2, <3>3 DEF IInv, TypeOK
  <2>4. PhaseInv'
    <3>1. (fetching \in Targets)'
      BY <2>1
    <3>2. \A m \in Targets \ (wanted' \cup {fetching'}) :
             Bundle[manifest'].files[m] \in {NoFile, held'[m]}
      BY <1>2, <2>1
    <3>3. QED
      BY <1>2, <3>1, <3>2 DEF PhaseInv, Holding, ApplyingPhases
  <2>5. Honest'
    BY <1>2 DEF IInv, Honest, Stands
  <2>6. HeldPromised'
    BY DEF IInv, HeldPromised
  <2>7. Floor'
    BY <1>2 DEF IInv, Floor, AskedPhases, ApplyingPhases, AppliedFloor, ListsAtFloor
  <2>8. QED
    BY <2>3, <2>4, <2>5, <2>6, <2>7 DEF IInv
<1>3. QED
  BY <1>1, <1>2 DEF FetchNextList

-----------------------------------------------------------------------------
(* One lemma per action. *)

LEMMA MaybeCheckStep == IInv /\ MaybeCheck => IInv'
<1> SUFFICES ASSUME IInv, MaybeCheck PROVE IInv'
  OBVIOUS
<1> USE DEF MaybeCheck, diskVars, historyVars
<1>1. TypeOK'
  BY DEF IInv, TypeOK, Phases
<1>2. PhaseInv'
  BY DEF IInv, PhaseInv, Running, Holding, ApplyingPhases
<1>3. Honest'
  BY DEF IInv, Honest, Stands
<1>4. HeldPromised'
  BY DEF IInv, HeldPromised
<1>5. Floor'
  BY DEF IInv, Floor, AskedPhases, ApplyingPhases, AppliedFloor, ListsAtFloor
<1>6. QED
  BY <1>1, <1>2, <1>3, <1>4, <1>5 DEF IInv

LEMMA LookAgeStep == IInv /\ LookAge => IInv'
<1> SUFFICES ASSUME IInv, LookAge PROVE IInv'
  OBVIOUS
<1> USE NoLocalFacts DEF LookAge, diskVars
<1>0. /\ local' \in LocalType /\ phase' \in {"looked", "read"}
      /\ local'.version = 0 /\ local'.degraded = FALSE
      /\ phase' = "looked" => local' = NoLocal
      /\ phase' = "read" => local' = [NoLocal EXCEPT !.worth_asking = TRUE]
  BY DEF IInv, PhaseInv, LocalType, NoLocal, NoFiles
<1>1. TypeOK'
  <2>1. lost' \in BOOLEAN /\ excused' \in BOOLEAN
    BY DEF IInv, TypeOK
  <2>2. phase' \in Phases
    BY <1>0 DEF Phases
  <2>3. QED
    BY <1>0, <2>1, <2>2 DEF IInv, TypeOK
<1>2. PhaseInv'
  BY <1>0 DEF IInv, PhaseInv, Holding, ApplyingPhases
<1>3. Honest'
  BY <1>0 DEF IInv, Honest, Stands
<1>4. HeldPromised'
  BY DEF IInv, HeldPromised
<1>5. Floor'
  <2> SUFFICES ASSUME ~lost' PROVE
        /\ records' = {}
        /\ AppliedFloor(marker.version)'
        /\ phase' = "looked" /\ local'.worth_asking => AppliedFloor(local.version)'
        /\ ListsAtFloor'
    BY <1>0 DEF Floor, AskedPhases, ApplyingPhases
  <2>1. ~lost /\ records = {}
    OBVIOUS
  <2>2. AppliedFloor(marker.version) /\ ListsAtFloor
    BY <2>1 DEF IInv, Floor
  <2>3. ~(phase' = "looked" /\ local'.worth_asking)
    BY <1>0, NoLocalFacts
  <2>4. QED
    BY <2>1, <2>2, <2>3 DEF AppliedFloor, ListsAtFloor
<1>6. QED
  BY <1>1, <1>2, <1>3, <1>4, <1>5 DEF IInv

LEMMA LookReadStep == IInv /\ LookRead => IInv'
<1> SUFFICES ASSUME IInv, LookRead PROVE IInv'
  OBVIOUS
<1> USE NamesAssumption DEF LookRead
<1>0. /\ held' \in [Names -> Contents \cup {NoFile}]
      /\ held'[Resources] \in {NoFile, held[Resources]}
      /\ \A n \in Names \ {Resources} : held'[n] = held[n]
      /\ Resources \notin Targets
  BY DEF IInv, TypeOK
<1>a. PICK text \in MarkerTexts, hashes \in Hashes :
        /\ local' = [worth_asking |-> TRUE, held_sha256 |-> hashes,
                     version |-> text.version, degraded |-> text.degraded]
        /\ lost' = (lost \/ text.version # marker.version)
  OBVIOUS
<1>b. /\ text = marker \/ text = NoMarker
      /\ NoMarker.version = 0 /\ NoMarker.degraded = FALSE
      /\ marker.version \in Nat /\ marker.degraded \in BOOLEAN
  BY DEF MarkerTexts, NoMarker, IInv, TypeOK, MarkerType
<1>c. /\ hashes \in [Names -> Contents \cup {NoFile}]
      /\ \A n \in Targets : hashes[n] \in {NoFile, held[n]}
  BY DEF Hashes, IInv, TypeOK
<1>d. /\ local'.version = text.version
      /\ local'.degraded = text.degraded
      /\ local'.worth_asking
      /\ local'.held_sha256 = hashes
  <2> HIDE DEF LookRead
  <2>1. local' = [worth_asking |-> TRUE, held_sha256 |-> hashes,
                  version |-> text.version, degraded |-> text.degraded]
    BY <1>a
  <2>2. QED
    BY <2>1
<1>e. text.version \in Nat /\ text.degraded \in BOOLEAN
  <2> HIDE DEF LookRead
  <2>1. CASE text = marker
    BY <1>b, <2>1
  <2>2. CASE text = NoMarker
    BY <2>2 DEF NoMarker
  <2>3. QED
    BY <1>b, <2>1, <2>2
<1>1. /\ local' \in LocalType
      /\ \A n \in Targets : local'.held_sha256[n] \in {NoFile, held'[n]}
      /\ ~lost' => ~lost /\ local'.version = marker.version
  <2>1. local' \in LocalType
    BY <1>a, <1>c, <1>e DEF LocalType
  <2>2. \A n \in Targets : local'.held_sha256[n] \in {NoFile, held'[n]}
    BY <1>0, <1>c, <1>d
  <2>3. ~lost' => ~lost /\ local'.version = marker.version
    BY <1>a, <1>d
  <2>4. QED
    BY <2>1, <2>2, <2>3
<1>2. TypeOK'
  <2>1. lost' \in BOOLEAN
    BY <1>a DEF IInv, TypeOK
  <2>2. QED
    BY <1>0, <1>1, <2>1 DEF IInv, TypeOK, Phases
<1>3. PhaseInv'
  BY <1>0, <1>1, <1>d DEF IInv, PhaseInv, Holding, ApplyingPhases
<1>4. Honest'
  BY <1>b, <1>d DEF IInv, Honest, Stands
<1>5. HeldPromised'
  BY <1>0 DEF IInv, HeldPromised
<1>6. Floor'
  <2>1. ListsAtFloor => ListsAtFloor'
    BY <1>0 DEF ListsAtFloor
  <2>2. QED
    BY <1>1, <1>d, <2>1 DEF IInv, Floor, AskedPhases, ApplyingPhases, AppliedFloor
<1>7. QED
  BY <1>2, <1>3, <1>4, <1>5, <1>6 DEF IInv

LEMMA OnLookedAtDiskStep == IInv /\ OnLookedAtDisk => IInv'
<1> SUFFICES ASSUME IInv, OnLookedAtDisk PROVE IInv'
  OBVIOUS
<1> USE NoLocalFacts DEF OnLookedAtDisk, diskVars
<1>1. CASE ~local.worth_asking
  <2>1. phase' = "idle" /\ local' = NoLocal
    BY <1>1 DEF ResetUi
  <2>2. TypeOK'
    <3>1. degraded' \in BOOLEAN
      BY <1>1 DEF ResetUi
    <3>2. /\ manifest' \in 0 .. published /\ phase' \in Phases /\ body' \in Contents \cup {NoFile}
          /\ version' \in Nat /\ wanted' \subseteq Targets /\ fetching' \in Targets \cup {NoName}
      BY <1>1, BundleFacts DEF ResetUi, IInv, TypeOK, Phases
    <3>3. QED
      BY <1>1, <2>1, <3>1, <3>2 DEF IInv, TypeOK
  <2>3. PhaseInv'
    BY <2>1 DEF PhaseInv, Holding, ApplyingPhases
  <2>4. Honest' /\ HeldPromised'
    BY <1>1, <2>1 DEF IInv, Honest, Stands, HeldPromised
  <2>5. Floor'
    BY <2>1 DEF IInv, Floor, AskedPhases, ApplyingPhases, AppliedFloor, ListsAtFloor
  <2>6. QED
    BY <2>2, <2>3, <2>4, <2>5 DEF IInv
<1>2. CASE local.worth_asking
  <2>1. TypeOK'
    <3>1. phase' \in Phases
      BY <1>2 DEF Phases, AskedPhases
    <3>2. version' \in Nat /\ checks' \in Nat /\ askedOn' \in Nat \cup {Never}
      BY <1>2 DEF IInv, TypeOK, LocalType
    <3>3. excused' \in BOOLEAN
      BY <1>2
    <3>4. QED
      BY <1>2, <3>1, <3>2, <3>3 DEF IInv, TypeOK
  <2>2. PhaseInv'
    BY <1>2 DEF IInv, PhaseInv, Holding, ApplyingPhases
  <2>3. Honest' /\ HeldPromised'
    BY <1>2 DEF IInv, Honest, Stands, HeldPromised
  <2>4. Floor'
    BY <1>2 DEF IInv, Floor, AskedPhases, ApplyingPhases, AppliedFloor, ListsAtFloor
  <2>5. QED
    BY <2>1, <2>2, <2>3, <2>4 DEF IInv
<1>3. QED
  BY <1>1, <1>2

LEMMA OnManifestStep == IInv /\ OnManifest => IInv'
<1> SUFFICES ASSUME IInv, OnManifest PROVE IInv'
  OBVIOUS
<1>1. CASE FinishWith("network", version, degraded)
  BY <1>1, FinishStep DEF OnManifest, AskedPhases, Outcomes
<1>2. CASE /\ \E m \in 0 .. published : manifest' = m
           /\ phase' = "signature"
           /\ UNCHANGED <<local, version, degraded, wanted, fetching, body, records,
                          applied>>
  <2> USE <1>2 DEF OnManifest, diskVars
  <2>1. TypeOK'
    BY DEF IInv, TypeOK, Phases, AskedPhases
  <2>2. PhaseInv'
    BY DEF IInv, PhaseInv, Holding, ApplyingPhases
  <2>3. Honest' /\ HeldPromised'
    BY DEF IInv, Honest, Stands, HeldPromised
  <2>4. Floor'
    BY DEF IInv, Floor, AskedPhases, ApplyingPhases, AppliedFloor, ListsAtFloor
  <2>5. QED
    BY <2>1, <2>2, <2>3, <2>4 DEF IInv
<1>3. QED
  BY <1>1, <1>2 DEF OnManifest

LEMMA OnManifestSignatureStep == IInv /\ OnManifestSignature => IInv'
<1> SUFFICES ASSUME IInv, OnManifestSignature PROVE IInv'
  OBVIOUS
<1> DEFINE Rest == UNCHANGED <<today, published, diskVars, checks, lost, askedOn, excused>>
<1>1. phase = "signature" /\ phase \in AskedPhases /\ Rest
  BY DEF OnManifestSignature, AskedPhases
<1>2. CASE FinishWith("signature", version, degraded)
  BY <1>1, <1>2, FinishStep DEF Outcomes
<1>3. CASE manifest # 0 /\ ApplyManifest
  <2>1. CASE FinishWith("manifest", version, degraded)
    BY <1>1, <2>1, FinishStep DEF Outcomes
  <2>2. CASE FinishWith("stale", version, degraded)
    BY <1>1, <2>2, FinishStep DEF Outcomes
  <2>3. CASE /\ ~IsStale(manifest)
             /\ FetchNextList(WantedOf(manifest), Bundle[manifest].version,
                              Bundle[manifest].degraded)
    <3>1. /\ manifest \in 1 .. Len(Bundle)
          /\ local.version \in Nat
          /\ applied \subseteq 1 .. Len(Bundle)
      BY <1>3, BundleFacts DEF IInv, TypeOK, LocalType
    <3>2. Bundle[manifest].version >= local.version
      BY <2>3, <3>1, BundleFacts DEF IsStale
    <3>3. ~lost => AppliedFloor(Bundle[manifest].version)
      <4>1. ~lost => AppliedFloor(local.version)
        BY <1>1 DEF IInv, Floor
      <4>2. QED
        BY <3>1, <3>2, <4>1, BundleFacts DEF AppliedFloor
    <3>4. \A n \in Targets : local.held_sha256[n] \in {NoFile, held[n]}
      BY <1>1 DEF IInv, PhaseInv, Holding
    <3>5. /\ WantedOf(manifest) \in SUBSET Targets
          /\ \A n \in Targets \ WantedOf(manifest) :
               Bundle[manifest].files[n] \in {NoFile, held[n]}
      BY <3>4 DEF WantedOf
    <3>6. QED
      BY <1>1, <1>3, <2>3, <3>3, <3>4, <3>5, FetchStep
  <2>4. QED
    BY <1>3, <2>1, <2>2, <2>3 DEF ApplyManifest
<1>4. QED
  BY <1>2, <1>3 DEF OnManifestSignature, ManifestIsSigned

LEMMA OnListDownloadedStep == IInv /\ OnListDownloaded => IInv'
<1> SUFFICES ASSUME IInv, OnListDownloaded PROVE IInv'
  OBVIOUS
<1>1. CASE FinishWith("network", version, degraded)
  BY <1>1, FinishStep DEF OnListDownloaded, AskedPhases, Outcomes
<1>2. CASE /\ \E bytes \in Contents : body' = bytes
           /\ phase' = "part"
           /\ UNCHANGED <<local, version, degraded, manifest, wanted, fetching,
                          records, applied>>
  <2> USE <1>2 DEF OnListDownloaded, diskVars
  <2>1. TypeOK'
    BY DEF IInv, TypeOK, Phases, AskedPhases
  <2>2. PhaseInv'
    BY DEF IInv, PhaseInv, Holding, ApplyingPhases
  <2>3. Honest' /\ HeldPromised'
    BY DEF IInv, Honest, Stands, HeldPromised
  <2>4. Floor'
    BY DEF IInv, Floor, AskedPhases, ApplyingPhases, AppliedFloor, ListsAtFloor
  <2>5. QED
    BY <2>1, <2>2, <2>3, <2>4 DEF IInv
<1>3. QED
  BY <1>1, <1>2 DEF OnListDownloaded

LEMMA SavePartStep == IInv /\ SavePart => IInv'
<1> SUFFICES ASSUME IInv, SavePart PROVE IInv'
  OBVIOUS
<1> USE DEF SavePart, historyVars
<1>1. phase = "part" /\ phase' \in {"replace", "unsaved"}
  OBVIOUS
<1>2. TypeOK'
  <2>1. part' \subseteq Names
    BY <1>1, NamesAssumption DEF IInv, TypeOK, PhaseInv, ApplyingPhases
  <2>2. phase' \in Phases
    BY <1>1 DEF Phases, AskedPhases
  <2>3. QED
    BY <2>1, <2>2 DEF IInv, TypeOK
<1>3. PhaseInv'
  BY <1>1 DEF IInv, PhaseInv, Holding, ApplyingPhases, IsPromised
<1>4. Honest' /\ HeldPromised'
  BY DEF IInv, Honest, Stands, HeldPromised
<1>5. Floor'
  BY <1>1 DEF IInv, Floor, AskedPhases, ApplyingPhases, AppliedFloor, ListsAtFloor
<1>6. QED
  BY <1>2, <1>3, <1>4, <1>5 DEF IInv

LEMMA SaveReplaceStep == IInv /\ SaveReplace => IInv'
<1> SUFFICES ASSUME IInv, SaveReplace PROVE IInv'
  OBVIOUS
<1> USE NamesAssumption, BundleFacts DEF SaveReplace, historyVars
<1>1. /\ phase = "replace" /\ phase' \in {"saved", "unsaved"}
      /\ fetching \in Targets
      /\ manifest \in 1 .. published /\ published \in 0 .. Len(Bundle)
      /\ body = Bundle[manifest].files[fetching]
      /\ version = Bundle[manifest].version
      /\ held \in [Names -> Contents \cup {NoFile}]
      /\ applied \subseteq 1 .. published
  BY DEF IInv, TypeOK, PhaseInv, ApplyingPhases
<1>2. /\ held' \in [Names -> Contents \cup {NoFile}]
      /\ \A n \in Names \ {fetching} : held'[n] = held[n]
      /\ held'[fetching] \in {held[fetching], body}
      /\ phase' = "saved" => held'[fetching] = body
  BY <1>1 DEF IInv, TypeOK
<1>3. TypeOK'
  <2>1. phase' \in Phases
    BY <1>1 DEF Phases, AskedPhases
  <2>2. writtenAt' \in [Names -> Nat] /\ part' \subseteq Names
    BY <1>1 DEF IInv, TypeOK
  <2>3. QED
    BY <1>2, <2>1, <2>2 DEF IInv, TypeOK
<1>4. PhaseInv'
  <2>1. \A n \in Targets \ (wanted \cup {fetching}) :
          Bundle[manifest].files[n] \in {NoFile, held'[n]}
    BY <1>1, <1>2 DEF IInv, PhaseInv, ApplyingPhases
  <2>2. QED
    BY <1>1, <1>2, <2>1 DEF IInv, PhaseInv, Holding, ApplyingPhases
<1>5. Honest'
  BY DEF IInv, Honest, Stands
<1>6. HeldPromised'
  BY <1>1, <1>2 DEF IInv, HeldPromised
<1>7. Floor'
  <2>1. ASSUME ~lost PROVE ListsAtFloor'
    <3>1. AppliedFloor(version) /\ ListsAtFloor
      BY <1>1, <2>1 DEF IInv, Floor, ApplyingPhases
    <3> SUFFICES ASSUME NEW u \in applied, NEW n \in Targets,
                        Bundle[u].files[n] # NoFile
                 PROVE  \E w \in 1 .. published : /\ Bundle[w].version >= Bundle[u].version
                                                  /\ held'[n] = Bundle[w].files[n]
      BY DEF ListsAtFloor
    <3>2. CASE held'[n] = held[n]
      BY <3>1, <3>2 DEF ListsAtFloor
    <3>3. CASE held'[n] # held[n]
      <4>1. n = fetching /\ held'[n] = Bundle[manifest].files[n]
        BY <1>1, <1>2, <3>3
      <4>2. Bundle[manifest].version >= Bundle[u].version
        BY <1>1, <3>1 DEF AppliedFloor
      <4>3. QED
        BY <1>1, <4>1, <4>2
    <3>4. QED
      BY <3>2, <3>3
  <2>2. QED
    BY <1>1, <2>1 DEF IInv, Floor, AskedPhases, ApplyingPhases, AppliedFloor
<1>8. QED
  BY <1>3, <1>4, <1>5, <1>6, <1>7 DEF IInv

LEMMA OnListSavedStep == IInv /\ OnListSaved => IInv'
<1> SUFFICES ASSUME IInv, OnListSaved PROVE IInv'
  OBVIOUS
<1> USE DEF OnListSaved
<1>1. CASE phase = "unsaved" /\ FinishWith("content", version, degraded)
  BY <1>1, FinishStep DEF AskedPhases, Outcomes
<1>2. CASE phase = "saved" /\ FetchNextList(wanted, version, degraded)
  <2>1. /\ manifest # 0
        /\ version = Bundle[manifest].version
        /\ degraded = Bundle[manifest].degraded
        /\ \A n \in Targets \ (wanted \cup {fetching}) :
             Bundle[manifest].files[n] \in {NoFile, held[n]}
        /\ held[fetching] = Bundle[manifest].files[fetching]
    BY <1>2 DEF IInv, PhaseInv, ApplyingPhases
  <2>2. wanted \in SUBSET Targets
    BY DEF IInv, TypeOK
  <2>3. \A n \in Targets \ wanted : Bundle[manifest].files[n] \in {NoFile, held[n]}
    BY <2>1
  <2>4. ~lost => AppliedFloor(version)
    BY <1>2 DEF IInv, Floor, ApplyingPhases
  <2>5. QED
    BY <1>2, <2>1, <2>2, <2>3, <2>4, FetchStep
<1>3. QED
  BY <1>1, <1>2

LEMMA RecordOpenStep == IInv /\ (\E r \in records : RecordOpen(r)) => IInv'
<1> SUFFICES ASSUME IInv, NEW r \in records, RecordOpen(r) PROVE IInv'
  OBVIOUS
<1> USE DEF RecordOpen, uiVars, historyVars
<1>1. /\ r \in RecordType /\ today \in Nat
      /\ records \subseteq RecordType
  BY DEF IInv, TypeOK
<1>2. PICK o \in RecordType : /\ o = [r EXCEPT !.opened = TRUE]
                              /\ o.version = r.version /\ o.degraded = r.degraded
                              /\ o.outcome = r.outcome
  <2>1. [r EXCEPT !.opened = TRUE] \in RecordType
    BY <1>1 DEF RecordType
  <2>2. /\ [r EXCEPT !.opened = TRUE].version = r.version
        /\ [r EXCEPT !.opened = TRUE].degraded = r.degraded
        /\ [r EXCEPT !.opened = TRUE].outcome = r.outcome
    BY <1>1 DEF RecordType
  <2>3. QED
    BY <2>1, <2>2
<1>3. records' = (records \ {r}) \cup {o}
  BY <1>2
<1>4. /\ marker' \in MarkerType /\ marker'.version = 0 /\ marker'.degraded = FALSE
      /\ marker'.outcome = ""
  BY <1>1 DEF EmptyMarker, NoMarker, MarkerType
<1>5. TypeOK'
  <2>1. degraded' \in BOOLEAN /\ lost' \in BOOLEAN /\ excused' \in BOOLEAN
    BY DEF IInv, TypeOK
  <2>2. records' \subseteq RecordType
    BY <1>1, <1>2, <1>3
  <2>3. QED
    BY <1>4, <2>1, <2>2 DEF IInv, TypeOK
<1>6. PhaseInv'
  BY DEF IInv, PhaseInv, Holding, ApplyingPhases
<1>7. Honest'
  <2>1. /\ Stands(marker.version, marker.degraded)'
        /\ marker'.outcome = "ok" => marker'.version # 0
    BY <1>4 DEF Stands
  <2>2. Stands(local.version, local.degraded)'
    BY DEF IInv, Honest, Stands
  <2>3. Stands(o.version, o.degraded)' /\ (o.outcome = "ok" => o.version # 0)
    BY <1>2 DEF IInv, Honest, Stands
  <2>4. ASSUME NEW q \in records
        PROVE  Stands(q.version, q.degraded)' /\ (q.outcome = "ok" => q.version # 0)
    BY DEF IInv, Honest, Stands
  <2>5. QED
    BY <1>3, <2>1, <2>2, <2>3, <2>4 DEF Honest
<1>8. HeldPromised'
  BY DEF IInv, HeldPromised
<1>9. Floor'
  <2>1. records # {} /\ records' # {}
    BY <1>3
  <2>2. ASSUME ~lost PROVE /\ phase \in {"idle", "look"}
                           /\ ListsAtFloor
                           /\ \A q \in records : AppliedFloor(q.version)
    BY <2>1, <2>2 DEF IInv, Floor
  <2>3. ASSUME ~lost PROVE \A q \in records' : AppliedFloor(q.version)'
    BY <1>2, <1>3, <2>2, <2>3 DEF AppliedFloor
  <2>4. ListsAtFloor => ListsAtFloor'
    BY DEF ListsAtFloor
  <2>5. QED
    BY <2>1, <2>2, <2>3, <2>4 DEF Floor, AskedPhases, ApplyingPhases
<1>10. QED
  BY <1>5, <1>6, <1>7, <1>8, <1>9 DEF IInv

LEMMA RecordWriteStep == IInv /\ (\E r \in records : RecordWrite(r)) => IInv'
<1> SUFFICES ASSUME IInv, NEW r \in records, RecordWrite(r) PROVE IInv'
  OBVIOUS
<1> USE DEF RecordWrite, uiVars, historyVars
<1>1. r \in RecordType /\ today \in Nat
  BY DEF IInv, TypeOK
<1>2. /\ marker' \in MarkerType /\ marker'.version = r.version
      /\ marker'.degraded = r.degraded /\ marker'.outcome = r.outcome
  BY <1>1 DEF RecordType, MarkerType
<1>3. records' \subseteq records
  OBVIOUS
<1>4. TypeOK'
  BY <1>2, <1>3 DEF IInv, TypeOK
<1>5. PhaseInv'
  BY DEF IInv, PhaseInv, Holding, ApplyingPhases
<1>6. Honest'
  BY <1>2, <1>3 DEF IInv, Honest, Stands
<1>7. HeldPromised'
  BY DEF IInv, HeldPromised
<1>8. Floor'
  <2>1. records # {}
    OBVIOUS
  <2>2. ~lost => AppliedFloor(marker'.version)
    BY <1>2 DEF IInv, Floor
  <2>3. QED
    BY <1>3, <2>1, <2>2
    DEF IInv, Floor, AskedPhases, ApplyingPhases, AppliedFloor, ListsAtFloor
<1>9. QED
  BY <1>4, <1>5, <1>6, <1>7, <1>8 DEF IInv

LEMMA RecordRefusedStep == IInv /\ (\E r \in records : RecordRefused(r)) => IInv'
<1> SUFFICES ASSUME IInv, NEW r \in records, RecordRefused(r) PROVE IInv'
  OBVIOUS
<1> USE DEF RecordRefused, uiVars, diskVars
<1>1. records' \subseteq records /\ lost' /\ lost' \in BOOLEAN /\ excused' \in BOOLEAN
  OBVIOUS
<1>2. TypeOK'
  BY <1>1 DEF IInv, TypeOK
<1>3. PhaseInv'
  BY DEF IInv, PhaseInv, Holding, ApplyingPhases
<1>4. Honest' /\ HeldPromised'
  BY <1>1 DEF IInv, Honest, Stands, HeldPromised
<1>5. Floor'
  BY <1>1 DEF Floor
<1>6. QED
  BY <1>2, <1>3, <1>4, <1>5 DEF IInv

LEMMA PublishStep == IInv /\ Publish => IInv'
<1> SUFFICES ASSUME IInv, Publish PROVE IInv'
  OBVIOUS
<1> USE BundleFacts DEF Publish, uiVars, diskVars, historyVars
<1>1. /\ published' \in 0 .. Len(Bundle)
      /\ \A b \in 0 .. published : b \in 0 .. published'
      /\ \A b \in 1 .. published : b \in 1 .. published'
  BY DEF IInv, TypeOK
<1>2. TypeOK'
  BY <1>1 DEF IInv, TypeOK
<1>3. PhaseInv'
  BY DEF IInv, PhaseInv, Holding, ApplyingPhases
<1>4. Honest'
  BY DEF IInv, Honest, Stands
<1>5. HeldPromised'
  BY <1>1 DEF IInv, HeldPromised
<1>6. Floor'
  <2>1. ListsAtFloor => ListsAtFloor'
    BY <1>1 DEF ListsAtFloor
  <2>2. QED
    BY <2>1 DEF IInv, Floor, AskedPhases, ApplyingPhases, AppliedFloor
<1>7. QED
  BY <1>2, <1>3, <1>4, <1>5, <1>6 DEF IInv

\* A step that moves neither the disk, nor the updater, nor a record.
LEMMA CalendarStep ==
  IInv /\ today' \in Nat
       /\ UNCHANGED <<published, diskVars, uiVars, checks, records, historyVars>>
  => IInv'
<1> SUFFICES ASSUME IInv, today' \in Nat,
                    UNCHANGED <<published, diskVars, uiVars, checks, records, historyVars>>
             PROVE  IInv'
  OBVIOUS
<1> USE DEF uiVars, diskVars, historyVars
<1>1. TypeOK'
  BY DEF IInv, TypeOK
<1>2. PhaseInv'
  BY DEF IInv, PhaseInv, Holding, ApplyingPhases
<1>3. Honest' /\ HeldPromised'
  BY DEF IInv, Honest, Stands, HeldPromised
<1>4. Floor'
  BY DEF IInv, Floor, AskedPhases, ApplyingPhases, AppliedFloor, ListsAtFloor
<1>5. QED
  BY <1>1, <1>2, <1>3, <1>4 DEF IInv

LEMMA ExitStep == IInv /\ Exit => IInv'
<1> SUFFICES ASSUME IInv, Exit PROVE IInv'
  OBVIOUS
<1> USE NoLocalFacts DEF Exit, diskVars
<1>1. phase' = "idle" /\ local' = NoLocal /\ records' = {}
  BY DEF ResetUi
<1>2. TypeOK'
  <2>1. degraded' \in BOOLEAN /\ lost' \in BOOLEAN /\ excused' \in BOOLEAN
    BY DEF ResetUi
  <2>2. /\ manifest' \in 0 .. published /\ phase' \in Phases /\ body' \in Contents \cup {NoFile}
        /\ version' \in Nat /\ wanted' \subseteq Targets /\ fetching' \in Targets \cup {NoName}
    BY BundleFacts DEF ResetUi, IInv, TypeOK, Phases
  <2>3. QED
    BY <1>1, <2>1, <2>2 DEF IInv, TypeOK
<1>3. PhaseInv'
  BY <1>1 DEF PhaseInv, Holding, ApplyingPhases
<1>4. Honest' /\ HeldPromised'
  BY <1>1 DEF IInv, Honest, Stands, HeldPromised
<1>5. Floor'
  <2> SUFFICES ASSUME ~lost' PROVE AppliedFloor(marker.version)' /\ ListsAtFloor'
    BY <1>1 DEF Floor, AskedPhases, ApplyingPhases
  <2>1. ~lost /\ records = {}
    OBVIOUS
  <2>2. AppliedFloor(marker.version) /\ ListsAtFloor
    BY <2>1 DEF IInv, Floor
  <2>3. QED
    BY <2>2 DEF AppliedFloor, ListsAtFloor
<1>6. QED
  BY <1>2, <1>3, <1>4, <1>5 DEF IInv

-----------------------------------------------------------------------------
LEMMA NextIInv == IInv /\ [Next]_vars => IInv'
<1> SUFFICES ASSUME IInv, [Next]_vars PROVE IInv'
  OBVIOUS
<1>1. CASE NextDay
  <2>1. today' \in Nat
    BY <1>1 DEF NextDay, IInv, TypeOK
  <2>2. QED
    BY <1>1, <2>1, CalendarStep DEF NextDay
<1>2. CASE UNCHANGED vars
  <2>1. today' \in Nat
    BY <1>2 DEF vars, IInv, TypeOK
  <2>2. QED
    BY <1>2, <2>1, CalendarStep DEF vars
<1>3. CASE PoolStep
  <2>1. CASE \E r \in records : RecordOpen(r) \/ RecordWrite(r) \/ RecordRefused(r)
    BY <2>1, RecordOpenStep, RecordWriteStep, RecordRefusedStep
  <2>2. QED
    BY <1>3, <2>1, LookAgeStep, LookReadStep, SavePartStep, SaveReplaceStep DEF PoolStep
<1>4. CASE UiStep
  BY <1>4, OnLookedAtDiskStep, OnManifestStep, OnManifestSignatureStep,
     OnListDownloadedStep, OnListSavedStep DEF UiStep
<1>5. QED
  BY <1>1, <1>2, <1>3, <1>4, MaybeCheckStep, PublishStep, ExitStep DEF Next

\* IInv holds in every reachable state of the updater.
THEOREM Inductive == Spec => []IInv
<1>1. QED
  BY InitIInv, NextIInv, PTL DEF Spec

\* The variables have their types: in particular only published bundles are
\* ever applied, and only names with a place are ever fetched.
THEOREM TypeCorrect == Spec => []TypeOK
<1>1. IInv => TypeOK
  BY DEF IInv
<1>2. QED
  BY <1>1, Inductive, PTL

\* A list in place was promised for its name by a published bundle, whatever
\* the host served and wherever the browser went away.
THEOREM IntegrityHolds == Spec => []Integrity
<1>1. IInv => Integrity
  BY DEF IInv, HeldPromised, Integrity
<1>2. QED
  BY <1>1, Inductive, PTL

\* The marker's version and degraded flag are those of an applied bundle.
THEOREM MarkerIsHonest == Spec => []MarkerHonest
<1>1. IInv => MarkerHonest
  BY DEF IInv, Honest, Stands, MarkerHonest
<1>2. QED
  BY <1>1, Inductive, PTL

\* With every record on disk, and readable, before the next look, lists never walk back.
THEOREM ListsDoNotWalkBack == Spec => []NoWalkBack
<1>1. IInv => NoWalkBack
  BY DEF IInv, Floor, NoWalkBack, NeverWalksBack
<1>2. QED
  BY <1>1, Inductive, PTL

\* Under the same condition the marker is at the newest version applied.
THEOREM MarkerIsCurrent == Spec => []MarkerKeepsUp
<1>1. IInv => MarkerKeepsUp
  BY DEF IInv, Floor, MarkerKeepsUp
<1>2. QED
  BY <1>1, Inductive, PTL

-----------------------------------------------------------------------------
(* The end of a check that is "ok". *)

\* The lists of its manifest are all in place, whether there was nothing to fetch or
\* the last of them was just saved.
LEMMA OkStep ==
  ASSUME IInv, [Next]_vars, NEW r \in records' \ records, r.outcome = "ok", ~r.opened
  PROVE  \A n \in Targets : Bundle[manifest].files[n] \in {NoFile, held[n]}
<1>1. ASSUME NEW outcome, NEW v, NEW d, FinishWith(outcome, v, d)
      PROVE  outcome = "ok"
  BY <1>1 DEF FinishWith, RecordOf
<1>2. CASE OnManifestSignature
  <2>1. WantedOf(manifest) = {} /\ phase = "signature"
    <3>1. ~FinishWith("signature", version, degraded) /\ ApplyManifest
      BY <1>1, <1>2 DEF OnManifestSignature
    <3>2. FetchNextList(WantedOf(manifest), Bundle[manifest].version,
                        Bundle[manifest].degraded)
      BY <1>1, <3>1 DEF ApplyManifest
    <3>3. WantedOf(manifest) = {}
      BY <3>2 DEF FetchNextList
    <3> QED
      BY <1>2, <3>3 DEF OnManifestSignature
  <2>2. \A n \in Targets : local.held_sha256[n] \in {NoFile, held[n]}
    BY <2>1 DEF IInv, PhaseInv, Holding
  <2> QED
    BY <2>1, <2>2 DEF WantedOf
<1>3. CASE OnListSaved
  <2>1. phase = "saved" /\ wanted = {}
    <3>1. phase = "saved" /\ FetchNextList(wanted, version, degraded)
      BY <1>1, <1>3 DEF OnListSaved
    <3> QED
      BY <3>1 DEF FetchNextList
  <2> QED
    BY <2>1 DEF IInv, PhaseInv, ApplyingPhases
<1>4. CASE OnLookedAtDisk \/ OnManifest \/ OnListDownloaded
  BY <1>1, <1>4 DEF OnLookedAtDisk, OnManifest, OnListDownloaded
<1>5. CASE \E o \in records : RecordOpen(o)
  <2>1. PICK o \in records : RecordOpen(o)
    BY <1>5
  <2>2. [o EXCEPT !.opened = TRUE].opened = TRUE
    BY DEF IInv, TypeOK, RecordType
  <2> QED
    BY <2>1, <2>2 DEF RecordOpen
<1>6. CASE \E o \in records : RecordWrite(o) \/ RecordRefused(o)
  BY <1>6 DEF RecordWrite, RecordRefused
<1>7. CASE MaybeCheck \/ LookAge \/ LookRead \/ SavePart \/ SaveReplace \/ Publish
           \/ NextDay \/ Exit \/ UNCHANGED vars
  BY <1>7 DEF MaybeCheck, LookAge, LookRead, SavePart, SaveReplace, Publish, NextDay, Exit, vars
<1> QED
  BY <1>2, <1>3, <1>4, <1>5, <1>6, <1>7 DEF Next, UiStep, PoolStep

\* A check that ends "ok" leaves the whole bundle of its manifest in place, for
\* bundles of any number of lists, however earlier checks stopped part way.
THEOREM BundlesAreWhole == Spec => WholeBundle
<1>1. IInv /\ [Next]_vars =>
        [\A r \in records' \ records :
           r.outcome = "ok" /\ ~r.opened =>
             \A n \in Targets : Bundle[manifest].files[n] \in {NoFile, held[n]}]_vars
  BY OkStep
<1>2. QED
  BY <1>1, Inductive, PTL DEF Spec, WholeBundle

-----------------------------------------------------------------------------
(* How often a manifest is asked for. *)

\* A check that asked and is not excused is on the marker, or its record is on its
\* way, or it still runs; and a check that is about to ask has seen the marker of
\* another day.
DayInv ==
  /\ askedOn <= today
  /\ ~excused /\ ~Asked /\ records = {} => askedOn <= marker.at
  /\ ~excused /\ (phase = "read" \/ (phase = "looked" /\ local.worth_asking)) =>
       askedOn < today

LEMMA DayTypes ==
  ASSUME IInv
  PROVE  /\ today \in Nat /\ askedOn \in Int /\ marker.at \in Int
         /\ phase \in {"look", "idle"} => ~local.worth_asking
<1>1. today \in Nat /\ askedOn \in Int /\ marker.at \in Int
  <2>1. today \in Nat /\ askedOn \in Nat \cup {Never} /\ marker.at \in Nat \cup {Never}
    BY DEF IInv, TypeOK, MarkerType
  <2>2. Never \in Int
    BY DEF Never
  <2> QED
    BY <2>1, <2>2
<1>2. phase \in {"look", "idle"} => ~local.worth_asking
  BY NoLocalFacts DEF IInv, PhaseInv
<1> QED
  BY <1>1, <1>2

LEMMA DayInvInit == Init => DayInv
<1> SUFFICES ASSUME Init PROVE DayInv
  OBVIOUS
<1>1. askedOn = -1 /\ today = 0 /\ marker.at = -1 /\ phase = "idle"
  BY DEF Init, NoMarker, Never
<1> QED
  BY <1>1 DEF DayInv

LEMMA DayInvNext == IInv /\ DayInv /\ [Next]_vars => DayInv'
<1> SUFFICES ASSUME IInv, DayInv, [Next]_vars PROVE DayInv'
  OBVIOUS
<1> USE DayTypes
<1>1. CASE LookAge
  <2>1. CASE phase' = "looked" /\ UNCHANGED local
    BY <1>1, <2>1 DEF LookAge, DayInv, Asked, AskedPhases, diskVars
  <2>2. CASE phase' = "read" /\ excused' = (excused \/ records # {} \/ CheckedToday)
    <3>1. ~excused' => askedOn <= marker.at
      BY <1>1, <2>2 DEF LookAge, DayInv, Asked, AskedPhases
    <3>2. ~excused' => marker.at = Never \/ today - marker.at >= CheckInterval
      <4>1. ~excused' => ~CheckedToday
        BY <2>2
      <4>2. ~CheckedToday => marker.at = Never \/ today - marker.at >= CheckInterval
        BY DaysAssumption DEF CheckedToday
      <4>3. QED
        BY <4>1, <4>2
    <3>3. ~excused' => askedOn < today
      BY <3>1, <3>2, DaysAssumption DEF Never
    <3> QED
      BY <1>1, <2>2, <3>1, <3>3 DEF LookAge, DayInv, Asked, AskedPhases, diskVars
  <2> QED
    BY <1>1, <2>1, <2>2 DEF LookAge
<1>2. CASE LookRead
  BY <1>2 DEF LookRead, DayInv, Asked, AskedPhases
<1>3. CASE OnLookedAtDisk
  BY <1>3 DEF OnLookedAtDisk, ResetUi, DayInv, Asked, AskedPhases, diskVars
<1>4. CASE OnManifest \/ OnManifestSignature \/ OnListDownloaded \/ OnListSaved
  <2>1. /\ UNCHANGED <<today, askedOn, excused, marker>>
        /\ phase' \in AskedPhases \/ (phase' = "idle" /\ records' # {})
    BY <1>4 DEF OnManifest, OnManifestSignature, OnListDownloaded, OnListSaved, ApplyManifest,
       FetchNextList, FinishWith, ResetUi, AskedPhases, diskVars
  <2> QED
    BY <2>1 DEF DayInv, Asked, AskedPhases
<1>5. CASE SavePart \/ SaveReplace
  BY <1>5 DEF SavePart, SaveReplace, DayInv, Asked, AskedPhases, historyVars
<1>6. CASE \E r \in records : RecordOpen(r) \/ RecordWrite(r) \/ RecordRefused(r)
  <2>1. CASE \E r \in records : RecordOpen(r)
    <3>1. records' # {} /\ UNCHANGED <<today, phase, local, askedOn, excused>>
      BY <2>1 DEF RecordOpen, uiVars, historyVars
    <3> QED
      BY <3>1 DEF DayInv
  <2>2. CASE \E r \in records : RecordWrite(r)
    <3>1. marker'.at = today /\ UNCHANGED <<today, phase, local, askedOn, excused>>
      BY <2>2 DEF RecordWrite, uiVars, historyVars
    <3> QED
      BY <3>1 DEF DayInv
  <2>3. CASE \E r \in records : RecordRefused(r)
    BY <2>3 DEF RecordRefused, DayInv
  <2> QED
    BY <1>6, <2>1, <2>2, <2>3
<1>7. CASE MaybeCheck
  BY <1>7 DEF MaybeCheck, DayInv, Running, Asked, AskedPhases, diskVars, historyVars
<1>8. CASE Publish \/ NextDay \/ UNCHANGED vars
  BY <1>8 DEF Publish, NextDay, vars, DayInv, Asked, diskVars, uiVars, historyVars
<1>9. CASE Exit
  BY <1>9 DEF Exit, ResetUi, DayInv, Asked, AskedPhases, diskVars
<1> QED
  BY <1>1, <1>2, <1>3, <1>4, <1>5, <1>6, <1>7, <1>8, <1>9 DEF Next, UiStep, PoolStep

\* Whatever else happens, a second manifest is asked for on one day only where the
\* record of the first was lost or late.
THEOREM AsksOnceADay == Spec => OnceADay
<1>1. IInv /\ DayInv /\ [Next]_vars =>
        [phase = "looked" /\ phase' = "manifest" => askedOn < today \/ excused]_vars
  <2> SUFFICES ASSUME IInv, DayInv, [Next]_vars, phase = "looked", phase' = "manifest", ~excused
               PROVE  askedOn < today
    OBVIOUS
  <2>1. OnLookedAtDisk
    BY DEF Next, UiStep, PoolStep, OnManifest, OnManifestSignature, OnListDownloaded,
       OnListSaved, LookAge, LookRead, SavePart, SaveReplace, RecordOpen, RecordWrite,
       RecordRefused, MaybeCheck, Running, Publish, NextDay, Exit, ResetUi, uiVars, vars
  <2> QED
    BY <2>1 DEF OnLookedAtDisk, ResetUi, DayInv
<1>2. QED
  BY <1>1, DayInvInit, DayInvNext, InitIInv, NextIInv, PTL DEF Spec, OnceADay
==============================================================================
