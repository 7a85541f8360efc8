------------------------------ MODULE Publication ------------------------------
(***************************************************************************)
(* The life of analyzer invocations that share one output directory:       *)
(* cli._main from check_output_dir to the stale-artifact cleanup.  A run   *)
(* refuses a used directory (unless --overwrite), streams execution.log,   *)
(* analyses, generates every artifact in a private staging directory,      *)
(* validates every destination, renames the artifacts into place one by    *)
(* one in name order, and then removes what earlier runs left.  It may     *)
(* fail at any of these steps or be killed; the user edits the directory   *)
(* between runs, or during them when Interference holds.                   *)
(*                                                                         *)
(* The content of a generated file is the run that produced it.  The       *)
(* staging directory is private to its run (a random name that no other    *)
(* run reads), so it appears here as the run's own variable "staged"; what *)
(* a kill or a failing rmtree leaves of it is not followed.                *)
(***************************************************************************)
EXTENDS Naturals

CONSTANTS
    Runs,            \* invocations, numbered in the order they start
    Names,           \* names of entries of the output directory
    Log,             \* execution.log
    Manifest,        \* run_manifest.json
    Core,            \* artifacts every run stages, the manifest included
    Optional,        \* artifacts a run stages or not (options, Graphviz, Excel)
    Generated,       \* GENERATED_FILES
    Rank,            \* name -> its place in sorted order
    Absent, User,    \* no entry; a file of the user's
    UserLists,       \* what a manifest that no run wrote may list
    Directory, Dangling,  \* a directory (or FIFO, live link); a dangling link
    Interference,    \* others act on the directory while a run is active
    MaxEdits         \* bound on the user's edits

ASSUME RunsAssumption == Runs \subseteq Nat
ASSUME NamesAssumption ==
    /\ Log \in Names /\ Manifest \in Core /\ Manifest # Log
    /\ Core \subseteq Generated \ {Log}
    /\ Generated \subseteq Names /\ Log \in Generated
    /\ Optional \subseteq Names \ (Core \union {Log})
    /\ Rank \in [Names -> Nat]
    /\ \A m, n \in Names : Rank[m] = Rank[n] => m = n
ASSUME ListsAssumption == UserLists \subseteq SUBSET Names
ASSUME EntriesAssumption ==
    /\ {Absent, User, Directory, Dangling} \intersect Runs = {}
    /\ Absent \notin {User, Directory, Dangling}
    /\ User \notin {Directory, Dangling} /\ Directory # Dangling
ASSUME BoundsAssumption == Interference \in BOOLEAN /\ MaxEdits \in Nat

Special == {Directory, Dangling}
Entry   == Runs \union {Absent, User} \union Special

\* Path.exists follows links, so a dangling link does not exist.
Exists(e) == e \notin {Absent, Dangling}

VARIABLES
    disk,        \* name -> entry of the output directory
    pc,          \* run -> where it is, or how it ended
    overwrite,   \* runs given --overwrite
    staged,      \* run -> artifacts in its staging directory
    listed,      \* run, or User -> files its manifest lists
    todo,        \* run -> names its current loop still has to visit
    previous,    \* run -> files the manifest it found lists
    published,   \* run -> ctx.generated_artifacts
    skipped,     \* run -> stale entries its cleanup could not remove
    edits,       \* how often the user has edited the directory
    endorsed     \* history: all names that manifests of the user's listed

runVars == <<overwrite, staged, listed, todo, previous, published, skipped>>
user == <<edits, endorsed>>
vars == <<disk, pc, runVars, user>>

ToolNames == Generated \union Optional

Active == {"checked", "analyzing", "analyzed", "staging", "validating",
           "publishing", "cleaning"}
Exited == {"refused", "exit0", "exit1", "exit2", "killed"}

TypeOK ==
    /\ disk \in [Names -> Entry]
    /\ pc \in [Runs -> {"new"} \union Active \union Exited]
    /\ overwrite \subseteq Runs
    /\ staged \in [Runs -> SUBSET Names]
    /\ listed \in [Runs \union {User} -> SUBSET Names]
    /\ todo \in [Runs -> SUBSET Names]
    /\ previous \in [Runs -> SUBSET Names]
    /\ published \in [Runs -> SUBSET Names]
    /\ skipped \in [Runs -> SUBSET Names]
    /\ edits \in 0..MaxEdits
    /\ endorsed \subseteq Names

Init ==
    /\ disk \in [Names -> {Absent, User}]   \* files of the user's, no reports
    /\ \A n \in ToolNames : disk[n] = Absent
    /\ pc = [r \in Runs |-> "new"]
    /\ overwrite = {}
    /\ staged = [r \in Runs |-> {}]
    /\ listed = [r \in Runs \union {User} |-> {}]
    /\ todo = [r \in Runs |-> {}]
    /\ previous = [r \in Runs |-> {}]
    /\ published = [r \in Runs |-> {}]
    /\ skipped = [r \in Runs |-> {}]
    /\ edits = 0
    /\ endorsed = {}

-------------------------------------------------------------------------------
(* What the steps share.                                                   *)

Goto(r, label) == pc' = [pc EXCEPT ![r] = label]

Quiet == \A r \in Runs : pc[r] \notin Active

Put(n, e) == disk' = [disk EXCEPT ![n] = e]

\* A run ends: its memory goes with it, and what its manifest lists unless that
\* manifest is on disk.
End(r, code) ==
    /\ Goto(r, code)
    /\ listed' = [listed EXCEPT ![r] = IF disk[Manifest] = r THEN @ ELSE {}]
    /\ overwrite' = overwrite \ {r}
    /\ staged' = [staged EXCEPT ![r] = {}]
    /\ todo' = [todo EXCEPT ![r] = {}]
    /\ previous' = [previous EXCEPT ![r] = {}]
    /\ published' = [published EXCEPT ![r] = {}]
    /\ skipped' = [skipped EXCEPT ![r] = {}]
    /\ UNCHANGED <<disk, user>>

\* Mutant: the loop runs over the directory listing, unsorted.
IsNext_Unordered(n, r) == n \in todo[r]

\* The loops over sorted(...) visit the names in order.
IsNext(n, r) == n \in todo[r] /\ \A m \in todo[r] : Rank[n] <= Rank[m]
Visited(r, n) == todo' = [todo EXCEPT ![r] = @ \ {n}]

\* validate_output_destination: neither a link nor any other special file.
Valid(n) == disk[n] \notin Special

\* _read_previous_manifest: a missing or linked manifest lists nothing, one that
\* the user (or another release) wrote lists whatever it lists.
ListedOnDisk ==
    IF disk[Manifest] \in Runs \union {User} THEN listed[disk[Manifest]] ELSE {}

-------------------------------------------------------------------------------
(* Mutants of the steps below: bugs the properties must notice.            *)

\* The collision check looks for the manifest only.
Start_ManifestOnly(r) ==
    /\ pc[r] = "new"
    /\ \A q \in Runs : q < r => pc[q] # "new"
    /\ Interference \/ Quiet
    /\ Goto(r, IF Exists(disk[Manifest]) THEN "refused" ELSE "checked")
    /\ UNCHANGED <<disk, runVars, user>>

\* Each destination is replaced as soon as it passed.
ValidateNext_AtOnce(r) ==
    /\ pc[r] = "validating"
    /\ \E n \in Names : IsNext(n, r) /\
         \/ /\ Valid(n)
            /\ Put(n, r)
            /\ Visited(r, n)
            /\ UNCHANGED <<pc, overwrite, staged, listed, previous, published, skipped, user>>
         \/ ~Valid(n) /\ End(r, "exit2")

\* The cleanup starts from the given names.
CleanupFrom(r, names) ==
    /\ pc[r] = "publishing"
    /\ todo[r] = {}
    /\ todo' = [todo EXCEPT ![r] = names]
    /\ Goto(r, "cleaning")
    /\ UNCHANGED <<disk, overwrite, staged, listed, previous, published,
                   skipped, user>>

\* Everything this run did not make is stale.
BeginCleanup_Listing(r) == CleanupFrom(r, Names \ (published[r] \union {Log}))

\* The allowlist is forgotten.
BeginCleanup_NoAllowlist(r) == CleanupFrom(r, previous[r] \ (published[r] \union {Log}))

\* What the previous manifest lists is stale even if this run made it again.
BeginCleanup_Previous(r) ==
    CleanupFrom(r, ((Generated \ published[r]) \union previous[r]) \ {Log})

\* An entry that is gone already is tried again and again.
CleanNext_Retry(r) ==
    /\ pc[r] = "cleaning"
    /\ \E n \in Names : IsNext(n, r) /\
         /\ disk[n] # Absent /\ Visited(r, n) /\ Put(n, Absent)
    /\ UNCHANGED <<pc, overwrite, staged, listed, previous, published, skipped, user>>

-------------------------------------------------------------------------------
(* The steps of run r.                                                     *)

\* check_output_dir.
Start(r) ==
    /\ pc[r] = "new"
    /\ \A q \in Runs : q < r => pc[q] # "new"
    /\ Interference \/ Quiet
    /\ \/ /\ \A n \in Generated : ~Exists(disk[n])
          /\ Goto(r, "checked")
          /\ UNCHANGED overwrite
       \/ /\ \E n \in Generated : Exists(disk[n])
          /\ Goto(r, "refused")
          /\ UNCHANGED overwrite
       \/ /\ Goto(r, "checked")
          /\ overwrite' = overwrite \union {r}
    /\ UNCHANGED <<disk, staged, listed, todo, previous, published, skipped, user>>

\* mkdir, validation of the directory and of execution.log, setup_logging.
\* A log file that cannot be opened does not stop the run.
OpenLog(r) ==
    /\ pc[r] = "checked"
    /\ \/ End(r, "exit2")
       \/ /\ Valid(Log)
          /\ Goto(r, "analyzing")
          /\ Put(Log, r) \/ UNCHANGED disk
          /\ UNCHANGED <<runVars, user>>

\* Configuration, parsing, correlation and rule generation; --zeek-required.
Analyze(r) ==
    /\ pc[r] = "analyzing"
    /\ \/ Goto(r, "analyzed") /\ UNCHANGED <<disk, runVars, user>>
       \/ End(r, "exit2")

\* _read_previous_manifest and the creation of the staging directory.  JSON that
\* is no object, or lists what is none, raises an AttributeError that nobody
\* catches.
BeginStaging(r) ==
    /\ pc[r] = "analyzed"
    /\ \/ /\ previous' = [previous EXCEPT ![r] = ListedOnDisk]
          /\ Goto(r, "staging")
          /\ UNCHANGED <<disk, overwrite, staged, listed, todo, published, skipped, user>>
       \/ End(r, "exit2")                 \* mkdir fails
       \/ disk[Manifest] = User /\ End(r, "exit1")

\* _write_manifest lists the files in staging, itself excepted.
FilesListed(chosen) == (Core \ {Manifest}) \union chosen

\* Every artifact is written to staging, the manifest last.
\* Whatever is raised, the finally branch removes the staging directory.
Stage(r) ==
    /\ pc[r] = "staging"
    /\ \/ \E chosen \in SUBSET Optional :
            /\ listed' = [listed EXCEPT ![r] = FilesListed(chosen)]
            /\ staged' = [staged EXCEPT ![r] = Core \union chosen]
            /\ todo' = [todo EXCEPT ![r] = Core \union chosen]
            /\ Goto(r, "validating")
            /\ UNCHANGED <<disk, overwrite, previous, published, skipped, user>>
       \/ End(r, "exit1")

\* One iteration of the loop that validates all destinations.
ValidateNext(r) ==
    /\ pc[r] = "validating"
    /\ \E n \in Names : IsNext(n, r) /\
         \/ /\ Valid(n)
            /\ Visited(r, n)
            /\ UNCHANGED <<disk, pc, overwrite, staged, listed, previous,
                           published, skipped, user>>
         \/ ~Valid(n) /\ End(r, "exit2")

\* Only when every destination passed does the first replacement happen.
BeginPublish(r) ==
    /\ pc[r] = "validating"
    /\ todo[r] = {}
    /\ todo' = [todo EXCEPT ![r] = staged[r]]
    /\ Goto(r, "publishing")
    /\ UNCHANGED <<disk, overwrite, staged, listed, previous, published,
                   skipped, user>>

\* One os.replace and ctx.register.  A rename onto a directory fails, and any
\* rename may (a report open in another program, permissions).
PublishNext(r) ==
    /\ pc[r] = "publishing"
    /\ \E n \in Names : IsNext(n, r) /\
         \/ /\ disk[n] # Directory
            /\ Put(n, r)
            /\ Visited(r, n)
            /\ published' = [published EXCEPT ![r] = @ \union {n}]
            /\ staged' = [staged EXCEPT ![r] = @ \ {n}]
            /\ UNCHANGED <<pc, overwrite, listed, previous, skipped, user>>
         \/ End(r, "exit1")

\* Staging is removed; stale are the names of the allowlist and of the previous
\* manifest, less what this run published and the log it is writing.
BeginCleanup(r) ==
    /\ pc[r] = "publishing"
    /\ todo[r] = {}
    /\ todo' = [todo EXCEPT ![r] =
                  (Generated \union previous[r]) \ (published[r] \union {Log})]
    /\ Goto(r, "cleaning")
    /\ UNCHANGED <<disk, overwrite, staged, listed, previous, published,
                   skipped, user>>

\* safe_remove_stale: only a regular file goes; anything else, and a file whose
\* unlink fails, is reported.
RemoveStale(r, n) ==
    \/ disk[n] = Absent /\ UNCHANGED <<disk, skipped>>
    \/ /\ disk[n] \in Runs \union {User}
       /\ Put(n, Absent)
       /\ UNCHANGED skipped
    \/ /\ disk[n] # Absent
       /\ skipped' = [skipped EXCEPT ![r] = @ \union {n}]
       /\ UNCHANGED disk

\* One iteration of the cleanup loop.
CleanNext(r) ==
    /\ pc[r] = "cleaning"
    /\ \E n \in Names : IsNext(n, r) /\
         /\ Visited(r, n)
         /\ RemoveStale(r, n)
    /\ UNCHANGED <<pc, overwrite, staged, listed, previous, published, user>>

Finish(r) ==
    /\ pc[r] = "cleaning"
    /\ todo[r] = {}
    /\ End(r, "exit0")

-------------------------------------------------------------------------------
(* The environment.                                                        *)

\* The process is killed or the machine goes down: nothing is cleaned up.
Kill(r) == pc[r] \in Active /\ End(r, "killed")

UserEdit ==
    /\ edits < MaxEdits
    /\ Interference \/ Quiet
    /\ \E n \in Names, e \in {Absent, User} \union Special :
          /\ disk[n] # e \/ e = User
          /\ Put(n, e)
          /\ IF n = Manifest /\ e = User
             THEN \E names \in UserLists :
                     /\ listed' = [listed EXCEPT ![User] = names]
                     /\ endorsed' = endorsed \union names
             ELSE UNCHANGED <<listed, endorsed>>
    /\ edits' = edits + 1
    /\ UNCHANGED <<pc, overwrite, staged, todo, previous, published, skipped>>

Step(r) ==
    \/ Start(r) \/ OpenLog(r) \/ Analyze(r) \/ BeginStaging(r) \/ Stage(r)
    \/ ValidateNext(r) \/ BeginPublish(r) \/ PublishNext(r)
    \/ BeginCleanup(r) \/ CleanNext(r) \/ Finish(r)

Next ==
    \/ \E r \in Runs : Step(r) \/ Kill(r)
    \/ UserEdit

Spec == Init /\ [][Next]_vars

\* A started process keeps executing unless it is killed.
FairSpec == Spec /\ \A r \in Runs : WF_vars(Step(r))

-------------------------------------------------------------------------------
(* Properties.                                                             *)

\* The entries a step changes on behalf of the tool, not of the user.
ToolChanged == {n \in Names : disk'[n] # disk[n] /\ edits' = edits}

\* What holds of README section 17, "unrelated files are always preserved": a
\* run never creates or replaces an entry under a name the tool does not use,
\* and removes one only if a manifest of the user's (or of another release, as
\* test_previous_manifest_identifies_prior_artifacts_for_cleanup has it) listed
\* it.  It depends on what the cleanup believes the manifest it found to say.
UnrelatedUntouched ==
    [][\A n \in ToolChanged \ ToolNames : disk'[n] = Absent /\ n \in endorsed]_vars

\* Exit code 2 (refusal, bad input, unsafe destination, also one late in the
\* list) leaves the reports alone: a run that ended so, even beside another
\* run, owns nothing in the directory but the log.
RefusalLeavesReports ==
    \A r \in Runs : pc[r] \in {"refused", "exit2"} =>
        \A n \in Names \ {Log} : disk[n] # r

\* README section 17: every destination is validated before the first
\* replacement, so a special file anywhere among them keeps all reports.
ValidatedBeforeReplaced ==
    [][\A n \in Names \ {Log} : \A r \in Runs : disk'[n] = r /\ disk[n] # r =>
          \A m \in staged[r] : disk[m] \notin Special]_vars

\* Without --overwrite nothing that exists under an allowlisted name is ever
\* replaced or removed, by the publication or by the cleanup.
NoSilentOverwrite ==
    [][\A n \in Generated \intersect ToolChanged : disk[n] # Absent =>
          \E r \in overwrite : pc[r] \in Active]_vars

\* The order of publication tells the runs of a mixed directory apart: a report
\* that sorts before the manifest is never older than the run the manifest
\* names, even after crashes and failed renames.
ManifestNotAhead ==
    disk[Manifest] \in Runs =>
        \A n \in listed[disk[Manifest]] :
            Rank[n] < Rank[Manifest] /\ disk[n] \in Runs => disk[n] >= disk[Manifest]

\* No stale report under an allowlisted name survives a successful run, whatever
\* crashes and failures came before it, but those the cleanup could not remove
\* and reported.
FreshAfterSuccess ==
    [][\A r \in Runs : pc[r] = "cleaning" /\ pc'[r] = "exit0" =>
          \A n \in Generated \ {Log} : disk[n] \in Runs \ {r} => n \in skipped[r]]_vars

\* A successful run leaves all its artifacts in place: its cleanup removes none
\* of them, and its manifest is the one on disk.
ArtifactsComplete ==
    [][\A r \in Runs : pc[r] = "cleaning" /\ pc'[r] = "exit0" =>
          \A n \in listed[r] \union {Manifest} : disk[n] = r]_vars

\* The message of the last except branch: "no reports were replaced; previous
\* run left intact".
FailureLeavesReports ==
    [][\A r \in Runs : pc[r] \in Active /\ pc'[r] = "exit1" => published[r] = {}]_vars

\* A started run ends.
RunsEnd == \A r \in Runs : pc[r] \in Active ~> pc[r] \in Exited
===============================================================================
