--------------------------- MODULE Generate_proofs ---------------------------
(* For every set of paths, every number of changes and of commands cut       *)
(* short: a `generate` that ends well leaves what --check asks for, and only *)
(* what a command once wrote is deleted.                                     *)
EXTENDS Generate, TLAPS

\* A manifest, and what is about to be deleted, name only what a command wrote.
ClaimsAreEarned ==
  /\ manifest.files \cup legacy.files \subseteq written
  /\ pc \in {"reconciling", "deleting"} => todo \subseteq written
  /\ pc = "writing" => planned \ todo \subseteq written

\* The manifest the command goes by, from the moment it has loaded it.
ManifestIsLoaded ==
  /\ pc \in {"reconciling", "writing", "formatting"} =>
       manifest # Invalid /\ legacy = Missing
  /\ pc \in {"idle", "migrating"} => todo = {}
  /\ pc \in {"migrating", "reconciling", "writing", "formatting"} => planned # {}
  /\ pc \in {"writing", "formatting"} => todo \subseteq planned
  /\ pc = "formatting" => python /\ manifest = Valid(planned)
  /\ outcome = "generated" => pc = "idle"

\* A file of the generator's is in the manifest, about to be, or told of.
NothingUntold ==
  \A p \in Paths : ByGenerator(tree[p]) =>
    IF pc \in {"writing", "formatting"} THEN p \in planned \cup strays
    ELSE p \in Source.files \cup strays

\* How far the command has come with the files.
Progress ==
  /\ pc = "reconciling" =>
       \A p \in (manifest.files \ planned) \ todo : ~ByGenerator(tree[p])
  /\ pc = "deleting" =>
       \A p \in Source.files \ todo : ByGenerator(tree[p]) => p \in strays
  /\ pc = "writing" => \A p \in planned \ todo : tree[p] = Rendered(p)
  /\ pc = "formatting" => \A p \in planned \ todo : tree[p] = Expected(p)

IInv ==
  /\ TypeOK
  /\ ClaimsAreEarned
  /\ ManifestIsLoaded
  /\ NothingUntold
  /\ Progress
  /\ GeneratedIsUpToDate

-----------------------------------------------------------------------------

LEMMA InitInv == Init => IInv
<1> SUFFICES ASSUME Init
             PROVE  IInv
  OBVIOUS
<1>1. PICK generated \in {{}, planned} :
        /\ legacy = IF generated = {} THEN Missing ELSE Valid(generated)
        /\ written = generated
        /\ \E persons \in SUBSET (Paths \ generated) :
             tree = [p \in Paths |-> IF p \in generated THEN Expected(p)
                                     ELSE IF p \in persons THEN Person
                                     ELSE Absent]
  BY DEF Init
<1>2. PICK persons \in SUBSET (Paths \ generated) :
        tree = [p \in Paths |-> IF p \in generated THEN Expected(p)
                                ELSE IF p \in persons THEN Person
                                ELSE Absent]
  BY <1>1
<1>3. generated \subseteq planned /\ planned \subseteq Paths
  BY DEF planned
<1>4. \A p \in planned : plan[p] \in Versions
  BY DEF Init, Plans, planned
<1>5. \A p \in generated : Expected(p) \in Content
  BY <1>3, <1>4 DEF Expected, Content
<1>6. Person \in Content /\ Absent \in Content
  BY DEF Person, Absent, Content
<1>7. tree \in [Paths -> Content]
  BY <1>2, <1>5, <1>6
<1>8. legacy \in Manifests /\ manifest \in Manifests
  BY <1>1, <1>3 DEF Init, Manifests, Missing, Valid
<1>9. TypeOK
  BY <1>1, <1>3, <1>7, <1>8 DEF Init, TypeOK
<1>10. ClaimsAreEarned
  BY <1>1 DEF Init, ClaimsAreEarned, Missing, Valid
<1>11. NothingUntold
  <2> SUFFICES ASSUME NEW p \in Paths, ByGenerator(tree[p])
               PROVE  p \in Source.files
    BY DEF NothingUntold, Init
  <2>1. p \in generated
    BY <1>2 DEF ByGenerator, Person, Absent
  <2> QED
    BY <2>1, <1>1 DEF Source, Init, Missing, Valid
<1> QED
  BY <1>9, <1>10, <1>11
     DEF Init, IInv, ManifestIsLoaded, Progress, GeneratedIsUpToDate

-----------------------------------------------------------------------------
(* The command.                                                             *)

\* What is not the command's to change.
LEMMA SamePlan ==
  ASSUME UNCHANGED <<python, plan>>
  PROVE  /\ planned' = planned
         /\ \A p : Rendered(p)' = Rendered(p) /\ Expected(p)' = Expected(p)
BY DEF planned, Rendered, Expected

LEMMA SourceIsOneOfTwo ==
  /\ Source.files \subseteq manifest.files \cup legacy.files
  /\ manifest # Missing => Source = manifest
  /\ manifest = Missing => Source = legacy
  /\ legacy = Missing => Source = manifest
BY DEF Source

LEMMA Plain ==
  /\ Missing.files = {} /\ Invalid.files = {} /\ Missing # Invalid
  /\ \A S : Valid(S).files = S /\ Valid(S) # Missing /\ Valid(S) # Invalid
  /\ ~ByGenerator(Absent) /\ ~ByGenerator(Person) /\ ~ByGenerator(Directory)
BY DEF Missing, Invalid, Valid, ByGenerator, Absent, Person, Directory

LEMMA Types ==
  /\ Missing \in Manifests /\ Invalid \in Manifests
  /\ \A S \in SUBSET Paths : Valid(S) \in Manifests
  /\ Absent \in Content /\ Person \in Content
  /\ Directory \in Content /\ Torn \in Content
  /\ planned \subseteq Paths /\ Untold \subseteq Paths
BY DEF Missing, Invalid, Valid, Manifests, Absent, Person, Directory, Torn,
       Content, planned, Untold

LEMMA PlanTypes ==
  ASSUME TypeOK
  PROVE  /\ \A p \in Paths : Rendered(p) \in Content /\ Expected(p) \in Content
         /\ Source \in Manifests /\ Source.files \subseteq Paths
         /\ manifest.files \subseteq Paths /\ legacy.files \subseteq Paths
BY DEF TypeOK, Plans, planned, Rendered, Expected, Content, Source, Manifests


LEMMA GenerateInv == ASSUME IInv, Generate PROVE IInv'
<1> USE DEF Generate, Starts, files, owners, command, bounds
<1>1. TypeOK'
  BY Types, PlanTypes DEF IInv, TypeOK
<1>2. ClaimsAreEarned'
  BY Plain, SamePlan, SourceIsOneOfTwo DEF IInv, TypeOK, ClaimsAreEarned
<1>3. ManifestIsLoaded'
  BY Plain, SamePlan DEF IInv, TypeOK, ManifestIsLoaded
<1>4. NothingUntold'
  BY Plain, SamePlan, SourceIsOneOfTwo
     DEF IInv, TypeOK, NothingUntold, ManifestIsLoaded, Progress, Source
<1>5. Progress'
  BY Plain, SamePlan, SourceIsOneOfTwo
     DEF IInv, TypeOK, Progress, NothingUntold, ManifestIsLoaded, Source
<1>6. GeneratedIsUpToDate'
  BY DEF IInv, ManifestIsLoaded, GeneratedIsUpToDate
<1> QED
  BY <1>1, <1>2, <1>3, <1>4, <1>5, <1>6 DEF IInv

LEMMA MoveLegacyInv == ASSUME IInv, MoveLegacy PROVE IInv'
<1> USE DEF MoveLegacy, files, owners, command, bounds
<1>1. TypeOK'
  BY Types, PlanTypes DEF IInv, TypeOK
<1>2. ClaimsAreEarned'
  BY Plain, SamePlan, SourceIsOneOfTwo DEF IInv, TypeOK, ClaimsAreEarned
<1>3. ManifestIsLoaded'
  BY Plain, SamePlan DEF IInv, TypeOK, ManifestIsLoaded
<1>4. NothingUntold'
  BY Plain, SamePlan, SourceIsOneOfTwo
     DEF IInv, TypeOK, NothingUntold, ManifestIsLoaded, Progress, Source
<1>5. Progress'
  BY Plain, SamePlan, SourceIsOneOfTwo
     DEF IInv, TypeOK, Progress, NothingUntold, ManifestIsLoaded, Source
<1>6. GeneratedIsUpToDate'
  BY DEF IInv, ManifestIsLoaded, GeneratedIsUpToDate
<1> QED
  BY <1>1, <1>2, <1>3, <1>4, <1>5, <1>6 DEF IInv

LEMMA DropLegacyInv == ASSUME IInv, DropLegacy PROVE IInv'
<1> USE DEF DropLegacy, files, owners, command, bounds
<1>1. TypeOK'
  BY Types, PlanTypes DEF IInv, TypeOK
<1>2. ClaimsAreEarned'
  BY Plain, SamePlan, SourceIsOneOfTwo DEF IInv, TypeOK, ClaimsAreEarned
<1>3. ManifestIsLoaded'
  BY Plain, SamePlan DEF IInv, TypeOK, ManifestIsLoaded
<1>4. NothingUntold'
  BY Plain, SamePlan, SourceIsOneOfTwo
     DEF IInv, TypeOK, NothingUntold, ManifestIsLoaded, Progress, Source
<1>5. Progress'
  BY Plain, SamePlan, SourceIsOneOfTwo
     DEF IInv, TypeOK, Progress, NothingUntold, ManifestIsLoaded, Source
<1>6. GeneratedIsUpToDate'
  BY DEF IInv, ManifestIsLoaded, GeneratedIsUpToDate
<1> QED
  BY <1>1, <1>2, <1>3, <1>4, <1>5, <1>6 DEF IInv

LEMMA ReconcileInv == ASSUME IInv, Reconcile PROVE IInv'
<1> USE DEF Reconcile, Proceeds, files, owners, command, bounds
<1>1. TypeOK'
  BY Types, PlanTypes DEF IInv, TypeOK
<1>2. ClaimsAreEarned'
  BY Plain, SamePlan, SourceIsOneOfTwo DEF IInv, TypeOK, ClaimsAreEarned
<1>3. ManifestIsLoaded'
  BY Plain, SamePlan DEF IInv, TypeOK, ManifestIsLoaded
<1>4. NothingUntold'
  BY Plain, SamePlan, SourceIsOneOfTwo
     DEF IInv, TypeOK, NothingUntold, ManifestIsLoaded, Progress, Source
<1>5. Progress'
  BY Plain, SamePlan, SourceIsOneOfTwo
     DEF IInv, TypeOK, Progress, NothingUntold, ManifestIsLoaded, Source
<1>6. GeneratedIsUpToDate'
  BY DEF IInv, ManifestIsLoaded, GeneratedIsUpToDate
<1> QED
  BY <1>1, <1>2, <1>3, <1>4, <1>5, <1>6 DEF IInv

LEMMA RefuseInv == ASSUME IInv, Refuse PROVE IInv'
<1> USE DEF Refuse, Ends, files, owners, command, bounds
<1>1. TypeOK'
  BY Types, PlanTypes DEF IInv, TypeOK
<1>2. ClaimsAreEarned'
  BY Plain, SamePlan, SourceIsOneOfTwo DEF IInv, TypeOK, ClaimsAreEarned
<1>3. ManifestIsLoaded'
  BY Plain, SamePlan DEF IInv, TypeOK, ManifestIsLoaded
<1>4. NothingUntold'
  BY Plain, SamePlan, SourceIsOneOfTwo
     DEF IInv, TypeOK, NothingUntold, ManifestIsLoaded, Progress, Source
<1>5. Progress'
  BY Plain, SamePlan, SourceIsOneOfTwo
     DEF IInv, TypeOK, Progress, NothingUntold, ManifestIsLoaded, Source
<1>6. GeneratedIsUpToDate'
  BY DEF IInv, ManifestIsLoaded, GeneratedIsUpToDate
<1> QED
  BY <1>1, <1>2, <1>3, <1>4, <1>5, <1>6 DEF IInv

LEMMA DeleteInv == ASSUME IInv, Delete PROVE IInv'
<1> USE DEF Delete, Starts, files, owners, command, bounds
<1>1. TypeOK'
  BY Types, PlanTypes DEF IInv, TypeOK
<1>2. ClaimsAreEarned'
  BY Plain, SamePlan, SourceIsOneOfTwo DEF IInv, TypeOK, ClaimsAreEarned
<1>3. ManifestIsLoaded'
  BY Plain, SamePlan DEF IInv, TypeOK, ManifestIsLoaded
<1>4. NothingUntold'
  BY Plain, SamePlan, SourceIsOneOfTwo
     DEF IInv, TypeOK, NothingUntold, ManifestIsLoaded, Progress, Source
<1>5. Progress'
  BY Plain, SamePlan, SourceIsOneOfTwo
     DEF IInv, TypeOK, Progress, NothingUntold, ManifestIsLoaded, Source
<1>6. GeneratedIsUpToDate'
  BY DEF IInv, ManifestIsLoaded, GeneratedIsUpToDate
<1> QED
  BY <1>1, <1>2, <1>3, <1>4, <1>5, <1>6 DEF IInv

LEMMA UnlinkInv == ASSUME IInv, Unlink PROVE IInv'
<1> USE DEF Unlink, Proceeds, First, files, owners, command, bounds
<1>1. TypeOK'
  BY Types, PlanTypes DEF IInv, TypeOK
<1>2. ClaimsAreEarned'
  BY Plain, SamePlan, SourceIsOneOfTwo DEF IInv, TypeOK, ClaimsAreEarned
<1>3. ManifestIsLoaded'
  BY Plain, SamePlan DEF IInv, TypeOK, ManifestIsLoaded
<1>4. NothingUntold'
  BY Plain, SamePlan, SourceIsOneOfTwo
     DEF IInv, TypeOK, NothingUntold, ManifestIsLoaded, Progress, Source
<1>5. Progress'
  BY Plain, SamePlan, SourceIsOneOfTwo
     DEF IInv, TypeOK, Progress, NothingUntold, ManifestIsLoaded, Source
<1>6. GeneratedIsUpToDate'
  BY DEF IInv, ManifestIsLoaded, GeneratedIsUpToDate
<1> QED
  BY <1>1, <1>2, <1>3, <1>4, <1>5, <1>6 DEF IInv

LEMMA DropManifestInv == ASSUME IInv, DropManifest PROVE IInv'
<1> USE DEF DropManifest, Proceeds, Ends, files, owners, command, bounds
<1>1. TypeOK'
  BY Types, PlanTypes DEF IInv, TypeOK
<1>2. ClaimsAreEarned'
  BY Plain, SamePlan, SourceIsOneOfTwo DEF IInv, TypeOK, ClaimsAreEarned
<1>3. ManifestIsLoaded'
  BY Plain, SamePlan DEF IInv, TypeOK, ManifestIsLoaded
<1>4. NothingUntold'
  BY Plain, SamePlan, SourceIsOneOfTwo
     DEF IInv, TypeOK, NothingUntold, ManifestIsLoaded, Progress, Source
<1>5. Progress'
  <2>1. \A p \in Paths : ByGenerator(tree[p]) => p \in strays
    BY DEF IInv, NothingUntold, Progress
  <2> QED
    BY <2>1, PlanTypes, SourceIsOneOfTwo DEF IInv, TypeOK, Progress, Source, Manifests
<1>6. GeneratedIsUpToDate'
  BY DEF IInv, ManifestIsLoaded, GeneratedIsUpToDate
<1> QED
  BY <1>1, <1>2, <1>3, <1>4, <1>5, <1>6 DEF IInv

LEMMA DropOtherInv == ASSUME IInv, DropOther PROVE IInv'
<1> USE DEF DropOther, Ends, files, owners, command, bounds
<1>1. TypeOK'
  BY Types, PlanTypes DEF IInv, TypeOK
<1>2. ClaimsAreEarned'
  BY Plain, SamePlan, SourceIsOneOfTwo DEF IInv, TypeOK, ClaimsAreEarned
<1>3. ManifestIsLoaded'
  BY Plain, SamePlan DEF IInv, TypeOK, ManifestIsLoaded
<1>4. NothingUntold'
  BY Plain, SamePlan, SourceIsOneOfTwo
     DEF IInv, TypeOK, NothingUntold, ManifestIsLoaded, Progress, Source
<1>5. Progress'
  BY Plain, SamePlan, SourceIsOneOfTwo
     DEF IInv, TypeOK, Progress, NothingUntold, ManifestIsLoaded, Source
<1>6. GeneratedIsUpToDate'
  BY DEF IInv, ManifestIsLoaded, GeneratedIsUpToDate
<1> QED
  BY <1>1, <1>2, <1>3, <1>4, <1>5, <1>6 DEF IInv

LEMMA StartWritingInv == ASSUME IInv, StartWriting PROVE IInv'
<1> USE DEF StartWriting, Proceeds, files, owners, command, bounds
<1>1. TypeOK'
  BY Types, PlanTypes DEF IInv, TypeOK
<1>2. ClaimsAreEarned'
  BY Plain, SamePlan, SourceIsOneOfTwo DEF IInv, TypeOK, ClaimsAreEarned
<1>3. ManifestIsLoaded'
  BY Plain, SamePlan DEF IInv, TypeOK, ManifestIsLoaded
<1>4. NothingUntold'
  BY Plain, SamePlan, SourceIsOneOfTwo
     DEF IInv, TypeOK, NothingUntold, ManifestIsLoaded, Progress, Source
<1>5. Progress'
  BY Plain, SamePlan, SourceIsOneOfTwo
     DEF IInv, TypeOK, Progress, NothingUntold, ManifestIsLoaded, Source
<1>6. GeneratedIsUpToDate'
  BY DEF IInv, ManifestIsLoaded, GeneratedIsUpToDate
<1> QED
  BY <1>1, <1>2, <1>3, <1>4, <1>5, <1>6 DEF IInv

LEMMA WriteInv == ASSUME IInv, Write PROVE IInv'
<1> USE DEF Write, Proceeds, First, files, owners, command, bounds
<1>1. TypeOK'
  BY Types, PlanTypes DEF IInv, TypeOK
<1>2. ClaimsAreEarned'
  BY Plain, SamePlan, SourceIsOneOfTwo DEF IInv, TypeOK, ClaimsAreEarned
<1>3. ManifestIsLoaded'
  BY Plain, SamePlan DEF IInv, TypeOK, ManifestIsLoaded
<1>4. NothingUntold'
  BY SamePlan DEF IInv, TypeOK, NothingUntold, ManifestIsLoaded
<1>5. Progress'
  BY Plain, SamePlan, SourceIsOneOfTwo
     DEF IInv, TypeOK, Progress, NothingUntold, ManifestIsLoaded, Source
<1>6. GeneratedIsUpToDate'
  BY DEF IInv, ManifestIsLoaded, GeneratedIsUpToDate
<1> QED
  BY <1>1, <1>2, <1>3, <1>4, <1>5, <1>6 DEF IInv

LEMMA WriteFailsInv == ASSUME IInv, WriteFails PROVE IInv'
<1> USE DEF WriteFails, Ends, files, owners, command, bounds
<1>1. TypeOK'
  BY Types, PlanTypes DEF IInv, TypeOK, Untold
<1>2. ClaimsAreEarned'
  BY Plain, SamePlan, SourceIsOneOfTwo DEF IInv, TypeOK, ClaimsAreEarned
<1>3. ManifestIsLoaded'
  BY Plain, SamePlan DEF IInv, TypeOK, ManifestIsLoaded
<1>4. NothingUntold'
  BY SamePlan DEF IInv, TypeOK, NothingUntold, Untold, ManifestIsLoaded
<1>5. Progress'
  BY Plain, SamePlan, SourceIsOneOfTwo
     DEF IInv, TypeOK, Progress, NothingUntold, ManifestIsLoaded, Source
<1>6. GeneratedIsUpToDate'
  BY DEF IInv, ManifestIsLoaded, GeneratedIsUpToDate
<1> QED
  BY <1>1, <1>2, <1>3, <1>4, <1>5, <1>6 DEF IInv

LEMMA RecordInv == ASSUME IInv, Record PROVE IInv'
<1> USE DEF Record, Proceeds, Ends, files, owners, command, bounds
<1>1. TypeOK'
  BY Types, PlanTypes DEF IInv, TypeOK
<1>2. ClaimsAreEarned'
  BY Plain, SamePlan, SourceIsOneOfTwo DEF IInv, TypeOK, ClaimsAreEarned
<1>3. ManifestIsLoaded'
  BY Plain, SamePlan DEF IInv, TypeOK, ManifestIsLoaded
<1>4. NothingUntold'
  BY Plain, SamePlan, SourceIsOneOfTwo
     DEF IInv, TypeOK, NothingUntold, ManifestIsLoaded, Progress, Source
<1>5. Progress'
  BY Plain, SamePlan, SourceIsOneOfTwo
     DEF IInv, TypeOK, Progress, NothingUntold, ManifestIsLoaded, Source
<1>6. GeneratedIsUpToDate'
  <2> SUFFICES ASSUME outcome' = "generated"
               PROVE  /\ CheckPasses'
                      /\ \A p \in Paths :
                           ByGenerator(tree'[p]) => p \in planned \cup strays'
    BY SamePlan DEF GeneratedIsUpToDate
  <2>1. ~python
    BY DEF IInv, ManifestIsLoaded
  <2>2. \A p \in planned : tree[p] = Expected(p)
    BY <2>1 DEF IInv, Progress, Rendered, Expected
  <2>3. manifest' = Valid(planned) /\ legacy' = Missing /\ Source' = Valid(planned)
    BY Plain DEF IInv, ManifestIsLoaded, Source
  <2>4. CheckPasses'
    BY <2>2, <2>3, SamePlan DEF IInv, ManifestIsLoaded, CheckPasses
  <2>5. \A p \in Paths : ByGenerator(tree'[p]) => p \in planned \cup strays'
    BY DEF IInv, NothingUntold
  <2> QED
    BY <2>4, <2>5
<1> QED
  BY <1>1, <1>2, <1>3, <1>4, <1>5, <1>6 DEF IInv

LEMMA FormatInv == ASSUME IInv, Format PROVE IInv'
<1> USE DEF Format, Proceeds, files, owners, command, bounds
<1>1. TypeOK'
  BY Types, PlanTypes DEF IInv, TypeOK
<1>2. ClaimsAreEarned'
  BY Plain, SamePlan, SourceIsOneOfTwo DEF IInv, TypeOK, ClaimsAreEarned
<1>3. ManifestIsLoaded'
  BY Plain, SamePlan DEF IInv, TypeOK, ManifestIsLoaded
<1>4. NothingUntold'
  BY SamePlan DEF IInv, TypeOK, NothingUntold, ManifestIsLoaded
<1>5. Progress'
  BY Plain, SamePlan, SourceIsOneOfTwo
     DEF IInv, TypeOK, Progress, NothingUntold, ManifestIsLoaded, Source
<1>6. GeneratedIsUpToDate'
  BY DEF IInv, ManifestIsLoaded, GeneratedIsUpToDate
<1> QED
  BY <1>1, <1>2, <1>3, <1>4, <1>5, <1>6 DEF IInv

LEMMA FormattedInv == ASSUME IInv, Formatted PROVE IInv'
<1> USE DEF Formatted, Ends, files, owners, command, bounds
<1>1. TypeOK'
  BY Types, PlanTypes DEF IInv, TypeOK
<1>2. ClaimsAreEarned'
  BY Plain, SamePlan, SourceIsOneOfTwo DEF IInv, TypeOK, ClaimsAreEarned
<1>3. ManifestIsLoaded'
  BY Plain, SamePlan DEF IInv, TypeOK, ManifestIsLoaded
<1>4. NothingUntold'
  BY Plain, SamePlan, SourceIsOneOfTwo
     DEF IInv, TypeOK, NothingUntold, ManifestIsLoaded, Progress, Source
<1>5. Progress'
  BY Plain, SamePlan, SourceIsOneOfTwo
     DEF IInv, TypeOK, Progress, NothingUntold, ManifestIsLoaded, Source
<1>6. GeneratedIsUpToDate'
  <2>1. Source' = Valid(planned) /\ legacy' = Missing
    BY Plain DEF IInv, ManifestIsLoaded, Source
  <2>2. CheckPasses'
    BY <2>1, SamePlan DEF IInv, ManifestIsLoaded, Progress, CheckPasses
  <2>3. \A p \in Paths : ByGenerator(tree'[p]) => p \in planned \cup strays'
    BY DEF IInv, NothingUntold
  <2> QED
    BY <2>2, <2>3, SamePlan DEF GeneratedIsUpToDate
<1> QED
  BY <1>1, <1>2, <1>3, <1>4, <1>5, <1>6 DEF IInv

LEMMA StopInv == ASSUME IInv, Stop PROVE IInv'
<1> USE DEF Stop, Ends, files, owners, command, bounds
<1>1. TypeOK'
  BY Types, PlanTypes DEF IInv, TypeOK, Untold
<1>2. ClaimsAreEarned'
  BY Plain, SamePlan, SourceIsOneOfTwo DEF IInv, TypeOK, ClaimsAreEarned
<1>3. ManifestIsLoaded'
  BY Plain, SamePlan DEF IInv, TypeOK, ManifestIsLoaded
<1>4. NothingUntold'
  BY SamePlan DEF IInv, TypeOK, NothingUntold, Untold, ManifestIsLoaded
<1>5. Progress'
  BY Plain, SamePlan, SourceIsOneOfTwo
     DEF IInv, TypeOK, Progress, NothingUntold, ManifestIsLoaded, Source
<1>6. GeneratedIsUpToDate'
  BY DEF IInv, ManifestIsLoaded, GeneratedIsUpToDate
<1> QED
  BY <1>1, <1>2, <1>3, <1>4, <1>5, <1>6 DEF IInv

LEMMA EditInv == ASSUME IInv, Edit PROVE IInv'
<1> USE DEF Edit, People, files, owners, command, bounds
<1>1. TypeOK'
  BY Types, PlanTypes DEF IInv, TypeOK
<1>2. ClaimsAreEarned'
  BY Plain, SamePlan, SourceIsOneOfTwo DEF IInv, TypeOK, ClaimsAreEarned
<1>3. ManifestIsLoaded'
  BY Plain, SamePlan DEF IInv, TypeOK, ManifestIsLoaded
<1>4. NothingUntold'
  BY Plain, SamePlan, SourceIsOneOfTwo
     DEF IInv, TypeOK, NothingUntold, ManifestIsLoaded, Progress, Source
<1>5. Progress'
  BY Plain, SamePlan, SourceIsOneOfTwo
     DEF IInv, TypeOK, Progress, NothingUntold, ManifestIsLoaded, Source
<1>6. GeneratedIsUpToDate'
  BY DEF IInv, ManifestIsLoaded, GeneratedIsUpToDate
<1> QED
  BY <1>1, <1>2, <1>3, <1>4, <1>5, <1>6 DEF IInv

LEMMA ChangeSpecificationInv == ASSUME IInv, ChangeSpecification PROVE IInv'
<1> USE DEF ChangeSpecification, People, files, owners, command, bounds
<1>1. TypeOK'
  BY Types, PlanTypes DEF IInv, TypeOK
<1>2. ClaimsAreEarned'
  BY Plain, SamePlan, SourceIsOneOfTwo DEF IInv, TypeOK, ClaimsAreEarned
<1>3. ManifestIsLoaded'
  BY Plain, SamePlan DEF IInv, TypeOK, ManifestIsLoaded
<1>4. NothingUntold'
  BY Plain, SamePlan, SourceIsOneOfTwo
     DEF IInv, TypeOK, NothingUntold, ManifestIsLoaded, Progress, Source
<1>5. Progress'
  BY Plain, SamePlan, SourceIsOneOfTwo
     DEF IInv, TypeOK, Progress, NothingUntold, ManifestIsLoaded, Source
<1>6. GeneratedIsUpToDate'
  BY DEF IInv, ManifestIsLoaded, GeneratedIsUpToDate
<1> QED
  BY <1>1, <1>2, <1>3, <1>4, <1>5, <1>6 DEF IInv

LEMMA CloneInv == ASSUME IInv, Clone PROVE IInv'
<1> USE DEF Clone, People, files, owners, command, bounds
<1>1. TypeOK'
  BY Types, PlanTypes DEF IInv, TypeOK, Untold
<1>2. ClaimsAreEarned'
  BY Plain, SamePlan, SourceIsOneOfTwo DEF IInv, TypeOK, ClaimsAreEarned
<1>3. ManifestIsLoaded'
  BY Plain, SamePlan DEF IInv, TypeOK, ManifestIsLoaded
<1>4. NothingUntold'
  BY SamePlan DEF IInv, TypeOK, NothingUntold, Untold, ManifestIsLoaded
<1>5. Progress'
  BY Plain, SamePlan, SourceIsOneOfTwo
     DEF IInv, TypeOK, Progress, NothingUntold, ManifestIsLoaded, Source
<1>6. GeneratedIsUpToDate'
  BY DEF IInv, ManifestIsLoaded, GeneratedIsUpToDate
<1> QED
  BY <1>1, <1>2, <1>3, <1>4, <1>5, <1>6 DEF IInv

LEMMA SpoilInv == ASSUME IInv, Spoil PROVE IInv'
<1> USE DEF Spoil, People, files, owners, command, bounds
<1>1. TypeOK'
  BY Types, PlanTypes DEF IInv, TypeOK, Untold
<1>2. ClaimsAreEarned'
  BY Plain, SamePlan, SourceIsOneOfTwo DEF IInv, TypeOK, ClaimsAreEarned
<1>3. ManifestIsLoaded'
  BY Plain, SamePlan DEF IInv, TypeOK, ManifestIsLoaded
<1>4. NothingUntold'
  BY SamePlan DEF IInv, TypeOK, NothingUntold, Untold, ManifestIsLoaded
<1>5. Progress'
  BY Plain, SamePlan, SourceIsOneOfTwo
     DEF IInv, TypeOK, Progress, NothingUntold, ManifestIsLoaded, Source
<1>6. GeneratedIsUpToDate'
  BY DEF IInv, ManifestIsLoaded, GeneratedIsUpToDate
<1> QED
  BY <1>1, <1>2, <1>3, <1>4, <1>5, <1>6 DEF IInv

LEMMA NextInv == ASSUME IInv, Next PROVE IInv'
BY GenerateInv, MoveLegacyInv, DropLegacyInv, ReconcileInv, RefuseInv, DeleteInv,
   UnlinkInv, DropManifestInv, DropOtherInv, StartWritingInv, WriteInv,
   WriteFailsInv, RecordInv, FormatInv, FormattedInv, StopInv, EditInv,
   ChangeSpecificationInv, CloneInv, SpoilInv
   DEF Next

LEMMA StutterInv == ASSUME IInv, UNCHANGED vars PROVE IInv'
BY SamePlan DEF vars, files, owners, command, bounds, IInv, TypeOK, ClaimsAreEarned,
   ManifestIsLoaded, NothingUntold, Progress, GeneratedIsUpToDate, CheckPasses, Source

-----------------------------------------------------------------------------
(* The theorems.                                                            *)

\* IInv holds in every state, however the commands were cut short.
THEOREM Invariance == Spec => []IInv
<1>1. IInv /\ [Next]_vars => IInv'
  BY NextInv, StutterInv
<1> QED
  BY InitInv, <1>1, PTL DEF Spec

\* Every variable keeps its type.
THEOREM TypeCorrect == Spec => []TypeOK
<1>1. IInv => TypeOK
  BY DEF IInv
<1> QED
  BY <1>1, Invariance, PTL

\* A `generate` that ends well leaves the package and its manifest as --check
\* asks for, and no file of an older plan's.
THEOREM EndsUpToDate == Spec => []GeneratedIsUpToDate
<1>1. IInv => GeneratedIsUpToDate
  BY DEF IInv
<1> QED
  BY <1>1, Invariance, PTL

\* `reconcile_generated_output` deletes only where a command has written.
THEOREM DeletesItsOwn == Spec => DeletesOnlyWhatItWrote
<1> DEFINE A == \A p \in Paths :
                  pc # "idle" /\ tree[p] # Absent /\ tree'[p] = Absent => p \in written
<1>1. IInv /\ Next => A
  <2> SUFFICES ASSUME IInv, Next, NEW p \in Paths, pc # "idle",
                      tree[p] # Absent, tree'[p] = Absent
               PROVE  p \in written
    OBVIOUS
  <2> USE DEF IInv, TypeOK, files, owners, command, bounds
  <2>1. CASE Unlink
    BY <2>1 DEF Unlink, ClaimsAreEarned
  <2>2. CASE Write
    BY <2>2 DEF Write, Rendered, Absent
  <2>3. CASE Format
    BY <2>3 DEF Format, Expected, Absent
  <2>4. CASE Stop
    BY <2>4 DEF Stop, Torn, Absent
  <2>5. CASE Edit \/ ChangeSpecification \/ Clone \/ Spoil
    BY <2>5 DEF Edit, ChangeSpecification, Clone, Spoil, People
  <2>6. CASE UNCHANGED tree
    BY <2>6
  <2> QED
    BY <2>1, <2>2, <2>3, <2>4, <2>5, <2>6
       DEF Next, Generate, MoveLegacy, DropLegacy, Reconcile, Refuse, Delete,
           DropManifest, DropOther, StartWriting, WriteFails, Record, Formatted
<1>2. UNCHANGED vars => A
  BY DEF vars, files
<1>3. IInv /\ [Next]_vars => [A]_vars
  BY <1>1, <1>2
<1> QED
  BY Invariance, <1>3, PTL DEF Spec, DeletesOnlyWhatItWrote

=============================================================================
