------------------------------ MODULE Generate ------------------------------
(* `truewire generate <language>` and its --delete and --check: the files it *)
(* has written into a package, the manifest of those it owns, the manifest   *)
(* at the path of releases up to 0.10, and a process that may stop at any    *)
(* step.  Between the commands people write, remove and replace files, edit  *)
(* the specification, clone without a manifest and leave a merge conflict    *)
(* in one (cli/generate.py).                                                 *)
EXTENDS Integers

CONSTANTS
  Paths,      \* the package-relative paths, in the order they sort
  Versions,   \* what one path may be rendered to
  None,
  MaxChanges, \* bound: how many changes people make between commands
  MaxStops    \* bound: how many commands are cut short

ASSUMPTION PathsAreOrdered == Paths \subseteq Nat
ASSUMPTION NoneIsNoVersion == None \notin Versions

\* What a path may hold: a person's file, a directory, a file whose writing was
\* cut short, or what a plan rendered, before or after it was formatted.
Content == [is : {"absent", "person", "directory", "torn", "rendered", "formatted"},
            of : Versions \cup {None}]
Absent == [is |-> "absent", of |-> None]
Person == [is |-> "person", of |-> None]
Directory == [is |-> "directory", of |-> None]
Torn == [is |-> "torn", of |-> None]

\* What `load_generated_manifest` makes of a manifest.
Manifests == [is : {"missing", "invalid", "valid"}, files : SUBSET Paths]
Missing == [is |-> "missing", files |-> {}]
Invalid == [is |-> "invalid", files |-> {}]
Valid(owned) == [is |-> "valid", files |-> owned]

VARIABLES
  python,   \* whether the language is formatted with Ruff after it is written
  plan,     \* what the specification is rendered to, path by path
  tree,     \* the package
  manifest, \* .truewire/codegen/<language>.json
  legacy,   \* .truewire/<language>-files.json
  pc,       \* what the command is doing
  todo,     \* the files it has yet to delete, write or format
  outcome,  \* how the last command ended, if nothing has changed since
  written,  \* history: the paths a command has written
  strays,   \* history: what a command wrote and no manifest tells of, because
            \* it was cut short or the manifest was lost
  changes,
  stops

files == <<tree, written>>
owners == <<manifest, legacy>>
command == <<pc, todo, outcome>>
bounds == <<changes, stops>>
vars == <<python, plan, files, owners, command, strays, bounds>>

-----------------------------------------------------------------------------

Plans == [Paths -> Versions \cup {None}]

planned == {p \in Paths : plan[p] # None}

\* What `write_planned_files` writes, and what is there in the end.
Rendered(p) == [is |-> "rendered", of |-> plan[p]]
Expected(p) == [is |-> IF python THEN "formatted" ELSE "rendered", of |-> plan[p]]

ByGenerator(content) == content.is \in {"torn", "rendered", "formatted"}

\* The manifest that --delete and --check read.
Source == IF manifest # Missing THEN manifest ELSE legacy

\* --check finds no issue: `check_generated_manifest` and the content.
CheckPasses ==
  /\ planned # {}
  /\ Source \in {Missing, Valid(planned)}
  /\ legacy = Missing
  /\ \A p \in planned : tree[p] = Expected(p)

\* A new project, or one an older release has generated.
Init ==
  /\ python \in BOOLEAN
  /\ plan \in Plans
  /\ \E generated \in {{}, planned} :
       /\ legacy = IF generated = {} THEN Missing ELSE Valid(generated)
       /\ written = generated
       /\ \E persons \in SUBSET (Paths \ generated) :
            tree = [p \in Paths |-> IF p \in generated THEN Expected(p)
                                    ELSE IF p \in persons THEN Person
                                    ELSE Absent]
  /\ manifest = Missing
  /\ pc = "idle"
  /\ todo = {}
  /\ outcome = "none"
  /\ strays = {}
  /\ changes = 0
  /\ stops = 0

-----------------------------------------------------------------------------
(* The command.                                                             *)

Starts(where, what) ==
  /\ pc' = where
  /\ todo' = what
  /\ outcome' = "none"

Proceeds(where, what) ==
  /\ pc' = where
  /\ todo' = what
  /\ UNCHANGED outcome

Ends(how) ==
  /\ pc' = "idle"
  /\ todo' = {}
  /\ outcome' = how

\* The files are taken in the order of their paths.
First(p) == p \in todo /\ \A q \in todo : p <= q

\* What the generator wrote and no manifest tells of any more.
Untold == {p \in Paths : ByGenerator(tree[p]) /\ p \notin Source.files}

\* `generate` builds the plan; it refuses an empty specification.
Generate ==
  /\ pc = "idle"
  /\ planned # {}
  /\ Starts("migrating", {})
  /\ UNCHANGED <<python, plan, files, owners, strays, bounds>>

\* The legacy manifest is copied ...
MoveLegacy ==
  /\ pc = "migrating"
  /\ manifest = Missing
  /\ legacy.is = "valid"
  /\ manifest' = legacy
  /\ UNCHANGED <<python, plan, files, legacy, command, strays, bounds>>

\* ... and then, or because there is a newer one, removed.
DropLegacy ==
  /\ pc = "migrating"
  /\ manifest # Missing
  /\ legacy # Missing
  /\ legacy' = Missing
  /\ UNCHANGED <<python, plan, files, manifest, command, strays, bounds>>

Blocked(p) == tree[p] = Directory

\* `reconcile_generated_output` looks at every file before it deletes one.
Reconcile ==
  LET stale == manifest.files \ planned
  IN /\ pc = "migrating"
     /\ legacy = Missing
     /\ manifest # Invalid
     /\ \A p \in stale : ~Blocked(p)
     /\ Proceeds("reconciling", stale)
     /\ UNCHANGED <<python, plan, files, owners, strays, bounds>>

\* A manifest that cannot be loaded, or an owned path that is not a file.
Refuse ==
  /\ pc = "migrating"
  /\ \/ manifest = Missing /\ legacy = Invalid
     \/ manifest = Invalid /\ legacy = Missing
     \/ legacy = Missing /\ \E p \in manifest.files \ planned : Blocked(p)
  /\ Ends("refused")
  /\ UNCHANGED <<python, plan, files, owners, strays, bounds>>

\* --delete reads the one manifest there is, the new one first.
Delete ==
  /\ pc = "idle"
  /\ Source.is = "valid"
  /\ \A p \in Source.files : ~Blocked(p)
  /\ Starts("deleting", Source.files)
  /\ UNCHANGED <<python, plan, files, owners, strays, bounds>>

Unlink ==
  /\ pc \in {"reconciling", "deleting"}
  /\ \E p \in todo :
       /\ First(p)
       /\ tree' = [tree EXCEPT ![p] = Absent]
       /\ Proceeds(pc, todo \ {p})
       /\ strays' = strays \ {p}
  /\ UNCHANGED <<python, plan, written, owners, bounds>>

\* --delete removes both manifests, one after the other.
DropManifest ==
  /\ pc = "deleting"
  /\ todo = {}
  /\ manifest # Missing
  /\ manifest' = Missing
  /\ IF legacy = Missing THEN Ends("deleted") ELSE Proceeds(pc, todo)
  /\ UNCHANGED <<python, plan, files, legacy, strays, bounds>>

DropOther ==
  /\ pc = "deleting"
  /\ todo = {}
  /\ manifest = Missing
  /\ legacy' = Missing
  /\ Ends("deleted")
  /\ UNCHANGED <<python, plan, files, manifest, strays, bounds>>

\* Mutant: the manifest is written before the files.
StartWriting_Records ==
  /\ pc = "reconciling"
  /\ todo = {}
  /\ manifest' = Valid(planned)
  /\ Proceeds("writing", planned)
  /\ UNCHANGED <<python, plan, files, legacy, strays, bounds>>

StartWriting ==
  /\ pc = "reconciling"
  /\ todo = {}
  /\ Proceeds("writing", planned)
  /\ UNCHANGED <<python, plan, files, owners, strays, bounds>>

\* Whatever the file holds is overwritten.
Write ==
  /\ pc = "writing"
  /\ \E p \in todo :
       /\ First(p)
       /\ ~Blocked(p)
       /\ tree' = [tree EXCEPT ![p] = Rendered(p)]
       /\ written' = written \cup {p}
       /\ Proceeds(pc, todo \ {p})
  /\ UNCHANGED <<python, plan, owners, strays, bounds>>

\* `open` of a directory fails, after the files before it were written.
WriteFails ==
  /\ pc = "writing"
  /\ \E p \in todo : First(p) /\ Blocked(p)
  /\ Ends("failed")
  /\ UNCHANGED <<python, plan, files, owners, bounds>>
  /\ strays' = strays \cup Untold'

\* Mutant: the manifest keeps what it owned before.
Record_Adds ==
  /\ pc = "writing"
  /\ todo = {}
  /\ manifest' = Valid(manifest.files \cup planned)
  /\ IF python THEN Proceeds("formatting", planned) ELSE Ends("generated")
  /\ strays' = strays \ planned
  /\ UNCHANGED <<python, plan, files, legacy, bounds>>

\* `write_generated_manifest` replaces the file at once.
Record ==
  /\ pc = "writing"
  /\ todo = {}
  /\ manifest' = Valid(planned)
  /\ IF python THEN Proceeds("formatting", planned) ELSE Ends("generated")
  /\ strays' = strays \ planned
  /\ UNCHANGED <<python, plan, files, legacy, bounds>>

\* Ruff takes the files in whatever order it likes.
Format ==
  /\ pc = "formatting"
  /\ \E p \in todo :
       /\ tree' = [tree EXCEPT ![p] = Expected(p)]
       /\ Proceeds(pc, todo \ {p})
  /\ UNCHANGED <<python, plan, written, owners, strays, bounds>>

\* The type check that may follow changes no file.
Formatted ==
  /\ pc = "formatting"
  /\ todo = {}
  /\ Ends("generated") \/ Ends("failed")
  /\ UNCHANGED <<python, plan, files, owners, strays, bounds>>

\* Killed, interrupted, out of space: the file being written may be cut short.
Stop ==
  /\ pc # "idle"
  /\ stops < MaxStops
  /\ stops' = stops + 1
  /\ \/ UNCHANGED files
     \/ \E p \in todo :
          /\ \/ pc = "writing" /\ First(p) /\ ~Blocked(p)
             \/ pc = "formatting"
          /\ tree' = [tree EXCEPT ![p] = Torn]
          /\ written' = written \cup {p}
  /\ Ends("stopped")
  /\ UNCHANGED <<python, plan, owners, changes>>
  /\ strays' = strays \cup Untold'

-----------------------------------------------------------------------------
(* People, between the commands.                                            *)

People ==
  /\ pc = "idle"
  /\ changes < MaxChanges
  /\ changes' = changes + 1
  /\ outcome' = "none"
  /\ UNCHANGED <<python, pc, todo, written, stops>>

Edit ==
  /\ People
  /\ \E p \in Paths, content \in {Absent, Person, Directory} :
       /\ tree' = [tree EXCEPT ![p] = content]
       /\ strays' = strays \ {p}
  /\ UNCHANGED <<plan, owners>>

ChangeSpecification ==
  /\ People
  /\ plan' \in Plans
  /\ UNCHANGED <<tree, owners, strays>>

\* A clone has no legacy manifest, which git ignores, and the other one if it
\* was committed.
Clone ==
  /\ People
  /\ legacy' = Missing
  /\ manifest' \in {manifest, Missing}
  /\ UNCHANGED <<plan, tree>>
  /\ strays' = strays \cup Untold'

\* A merge conflict, or a manifest of another version.
Spoil ==
  /\ People
  /\ \/ manifest # Missing /\ manifest' = Invalid /\ UNCHANGED legacy
     \/ legacy # Missing /\ legacy' = Invalid /\ UNCHANGED manifest
  /\ UNCHANGED <<plan, tree>>
  /\ strays' = strays \cup Untold'

Next ==
  \/ Generate \/ MoveLegacy \/ DropLegacy \/ Reconcile \/ Refuse
  \/ Delete \/ Unlink \/ DropManifest \/ DropOther
  \/ StartWriting \/ Write \/ WriteFails \/ Record \/ Format \/ Formatted
  \/ Stop
  \/ Edit \/ ChangeSpecification \/ Clone \/ Spoil

Spec == Init /\ [][Next]_vars

-----------------------------------------------------------------------------
(* What must hold.                                                          *)

TypeOK ==
  /\ python \in BOOLEAN
  /\ plan \in Plans
  /\ tree \in [Paths -> Content]
  /\ manifest \in Manifests /\ legacy \in Manifests
  /\ pc \in {"idle", "migrating", "reconciling", "deleting", "writing", "formatting"}
  /\ todo \subseteq Paths
  /\ outcome \in {"none", "generated", "refused", "failed", "deleted", "stopped"}
  /\ written \subseteq Paths /\ strays \subseteq Paths
  /\ changes \in Nat /\ stops \in Nat

\* A `generate` that ends well leaves what --check asks for, whatever commands
\* were cut short before it, and nothing else of the generator's but what was
\* written by one that was cut short before its manifest, or whose manifest
\* was lost.
GeneratedIsUpToDate ==
  outcome = "generated" =>
    /\ CheckPasses
    /\ \A p \in Paths : ByGenerator(tree[p]) => p \in planned \cup strays

\* A file is deleted only where a command has once written one: a plan that
\* was never carried out gives no claim to a person's file
\* ("Files not in the manifest are never deleted").
DeletesOnlyWhatItWrote ==
  [][\A p \in Paths :
       pc # "idle" /\ tree[p] # Absent /\ tree'[p] = Absent => p \in written]_vars

=============================================================================
