----------------------------- MODULE UpdateInstall ----------------------------
(***************************************************************************)
(* update.py: downloads of one release package into one directory, each    *)
(* through the .part files of _download_file, verification against the     *)
(* release's checksum inventory, and portable installations of the package *)
(* into one target by staging and rename.  Any attempt may fail at each    *)
(* call that uses the network or changes a file, those of its cleanup      *)
(* included, be killed (or interrupted: no handler catches more than       *)
(* Exception) or overlap with the others; reading back a file that is      *)
(* there does not fail.                                                    *)
(*                                                                         *)
(* A directory entry is the file one attempt created: an attempt keeps     *)
(* writing to its own file wherever the entry has been moved to, or if it  *)
(* has been unlinked, as POSIX has it.                                     *)
(***************************************************************************)
EXTENDS Naturals, FiniteSets

CONSTANTS
    Downloads,       \* calls of download_release
    Installs,        \* calls of install_portable
    MaxAttempts,     \* bound: calls made in all
    Absent, Empty, Populated

Names  == {"sums", "package"}
Bodies == {"partial", "good", "bad"}
File   == [by : Downloads, body : Bodies]
Entry  == File \union {Absent}

\* A directory at the target: somebody's empty or populated one, or the
\* tree an installation extracted from the verified or from other bytes.
Foreign == {Empty, Populated}
Tree    == [by : Installs, body : {"good", "bad"}]

ASSUME MaxAttemptsAssumption == MaxAttempts \in Nat
ASSUME EntriesAssumption ==
    /\ Absent \notin File \union Tree \union Foreign /\ Empty # Populated
    /\ Tree \intersect Foreign = {}
    /\ Downloads \intersect Installs = {}

VARIABLES
    alone,       \* downloads do not overlap
    pc,          \* attempt -> its next step
    part, final, \* name -> the entry under name.part and name
    target,      \* the entry at the installation target
    staging,     \* install -> its temporary directory
    botched      \* history: attempts whose cleanup left something

vars == <<alone, pc, part, final, target, staging, botched>>
files == <<part, final>>
tree  == <<target, staging>>

Attempts == Downloads \union Installs
Ended    == {"ok", "failed", "refused", "killed"}
Fetching == {"open_sums", "write_sums", "rename_sums", "parse", "open_package",
             "write_package", "rename_package", "verify", "unpart_sums",
             "unpart_package", "unlink_package", "unlink_sums"}
Installing == {"hash", "look", "stage", "extract", "rename", "rmtree"}
Active(a) == pc[a] \in Fetching \union Installing

TypeOK ==
    /\ alone \in BOOLEAN
    /\ pc \in [Attempts -> {"begin"} \union Fetching \union Installing \union Ended]
    /\ part \in [Names -> Entry] /\ final \in [Names -> Entry]
    /\ target \in {Absent} \union Foreign \union Tree
    /\ staging \in [Installs -> {Absent, "empty", "good", "bad"}]
    /\ botched \subseteq Attempts

Init ==
    /\ alone \in BOOLEAN
    /\ pc = [a \in Attempts |-> "begin"]
    /\ part = [n \in Names |-> Absent] /\ final = [n \in Names |-> Absent]
    /\ target \in {Absent} \union Foreign
    /\ staging = [i \in Installs |-> Absent]
    /\ botched = {}

Begins(a) == pc[a] = "begin" /\ Cardinality({b \in Attempts : pc[b] # "begin"}) < MaxAttempts
Goto(a, label) == pc' = [pc EXCEPT ![a] = label]

-------------------------------------------------------------------------------
(* download_release.                                                       *)

\* The check for files already there is made inside the try.
Look_InsideTry(d) ==
    /\ Begins(d)
    /\ alone => \A e \in Downloads : ~Active(e)
    /\ \/ Goto(d, IF \E n \in Names : final[n] # Absent THEN "unlink_package" ELSE "open_sums")
       \/ Goto(d, "refused")
    /\ UNCHANGED <<alone, files, tree, botched>>

\* The release lists the assets; files already there are left alone.
Look(d) ==
    /\ Begins(d)
    /\ alone => \A e \in Downloads : ~Active(e)
    /\ \/ Goto(d, IF \E n \in Names : final[n] # Absent THEN "refused" ELSE "open_sums")
       \/ Goto(d, "refused")                     \* no such asset, or no answer
    /\ UNCHANGED <<alone, files, tree, botched>>

\* The steps of _download_file for one name.
Label(step, n) == CASE step = "open"   -> IF n = "sums" THEN "open_sums" ELSE "open_package"
                    [] step = "write"  -> IF n = "sums" THEN "write_sums" ELSE "write_package"
                    [] step = "rename" -> IF n = "sums" THEN "rename_sums" ELSE "rename_package"
                    [] step = "unpart" -> IF n = "sums" THEN "unpart_sums" ELSE "unpart_package"
                    [] step = "next"   -> IF n = "sums" THEN "parse" ELSE "verify"

\* A .part file that is there is waited for.
Open_Wait(d, n) ==
    /\ pc[d] = Label("open", n)
    /\ part[n] = Absent
    /\ part' = [part EXCEPT ![n] = [by |-> d, body |-> "partial"]]
    /\ Goto(d, Label("write", n))
    /\ UNCHANGED <<alone, final, tree, botched>>

\* An exclusive create: it fails on a .part file that is there.
Open(d, n) ==
    /\ pc[d] = Label("open", n)
    /\ \/ /\ part[n] = Absent
          /\ part' = [part EXCEPT ![n] = [by |-> d, body |-> "partial"]]
          /\ Goto(d, Label("write", n))
       \/ /\ Goto(d, Label("unpart", n))         \* FileExistsError, or no answer
          /\ UNCHANGED part
    /\ UNCHANGED <<alone, final, tree, botched>>

\* What the attempt writes reaches its own file, wherever that is now.
WriteTo(entries, d, n, body) ==
    entries' = IF entries[n] = [by |-> d, body |-> "partial"]
               THEN [entries EXCEPT ![n] = [by |-> d, body |-> body]] ELSE entries

\* The whole response, the right bytes or others, or an error in between.
Write(d, n) ==
    /\ pc[d] = Label("write", n)
    /\ \/ \E body \in {"good", "bad"} :
             /\ WriteTo(part, d, n, body)
             /\ WriteTo(final, d, n, body)
             /\ Goto(d, Label("rename", n))
       \/ /\ Goto(d, Label("unpart", n))
          /\ UNCHANGED files
    /\ UNCHANGED <<alone, tree, botched>>

\* os.replace of whatever is under the .part name now.
Rename(d, n) ==
    /\ pc[d] = Label("rename", n)
    /\ \/ /\ part[n] # Absent
          /\ final' = [final EXCEPT ![n] = part[n]]
          /\ part' = [part EXCEPT ![n] = Absent]
          /\ Goto(d, Label("next", n))
       \/ /\ Goto(d, Label("unpart", n))         \* it is gone, or replace raises
          /\ UNCHANGED files
    /\ UNCHANGED <<alone, tree, botched>>

\* The cleanup of _download_file keeps a .part file it did not finish.
Unpart_Keep(d, n) ==
    /\ pc[d] = Label("unpart", n)
    /\ Goto(d, "unlink_package")
    /\ UNCHANGED <<alone, files, tree, botched>>

\* The cleanup of _download_file: the .part file, whoever made it.  If the unlink
\* raises, that exception goes to the handler of download_release instead.
Unpart(d, n) ==
    /\ pc[d] = Label("unpart", n)
    /\ \/ part' = [part EXCEPT ![n] = Absent] /\ UNCHANGED botched
       \/ botched' = botched \union {d} /\ UNCHANGED part
    /\ Goto(d, "unlink_package")
    /\ UNCHANGED <<alone, final, tree>>

\* The inventory is read back; it must name the package.
Parse(d) ==
    /\ pc[d] = "parse"
    /\ Goto(d, IF final["sums"] # Absent /\ final["sums"].body = "good"
               THEN "open_package" ELSE "unlink_package")
    /\ UNCHANGED <<alone, files, tree, botched>>

\* The file under the name has the bytes the release published.
Holds(n) == final[n] # Absent /\ final[n].body = "good"

Verify(d) ==
    /\ pc[d] = "verify"
    /\ Goto(d, IF Holds("package") THEN "ok" ELSE "unlink_package")
    /\ UNCHANGED <<alone, files, tree, botched>>

\* The cleanup of download_release: the package, then the inventory; an unlink
\* that raises ends it.
Unlink(d, n) ==
    /\ pc[d] = (IF n = "package" THEN "unlink_package" ELSE "unlink_sums")
    /\ \/ /\ final' = [final EXCEPT ![n] = Absent]
          /\ Goto(d, IF n = "package" THEN "unlink_sums" ELSE "failed")
          /\ UNCHANGED botched
       \/ /\ botched' = botched \union {d}
          /\ Goto(d, "failed")
          /\ UNCHANGED final
    /\ UNCHANGED <<alone, part, tree>>

Download(d) ==
    \/ Look(d) \/ Parse(d) \/ Verify(d)
    \/ \E n \in Names : Open(d, n) \/ Write(d, n) \/ Rename(d, n) \/ Unpart(d, n) \/ Unlink(d, n)

-------------------------------------------------------------------------------
(* install_portable.                                                       *)

\* verify_package: the package's bytes have the digest given with --sha256
\* or listed in the inventory beside it.
Hash(i) ==
    /\ Begins(i)
    /\ \/ Goto(i, IF Holds("package") THEN "look" ELSE "failed")
       \/ Goto(i, "failed")                 \* no portable archive, no inventory
    /\ UNCHANGED <<alone, files, tree, botched>>

\* target.exists(), before the staging directory is made.
LookTarget(i) ==
    /\ pc[i] = "look"
    /\ Goto(i, IF target # Absent THEN "refused" ELSE "stage")
    /\ UNCHANGED <<alone, files, tree, botched>>

Stage(i) ==
    /\ pc[i] = "stage"
    /\ \/ /\ staging' = [staging EXCEPT ![i] = "empty"]
          /\ Goto(i, "extract")
       \/ /\ Goto(i, "failed")             \* mkdtemp raises, outside the try
          /\ UNCHANGED staging
    /\ UNCHANGED <<alone, files, target, botched>>

\* The archive is opened by name again: its bytes may be other bytes now,
\* which may or may not be an archive.
Extract(i) ==
    /\ pc[i] = "extract"
    /\ \/ /\ final["package"] # Absent
          /\ staging' = [staging EXCEPT ![i] = IF Holds("package") THEN "good" ELSE "bad"]
          /\ Goto(i, "rename")
       \/ /\ Goto(i, "rmtree")             \* missing, or no acceptable archive
          /\ UNCHANGED staging
    /\ UNCHANGED <<alone, files, target, botched>>

\* shutil.move where the rename was: an existing directory takes the tree in.
RenameTree_Into(i) ==
    /\ pc[i] = "rename"
    /\ target' = [by |-> i, body |-> staging[i]]
    /\ staging' = [staging EXCEPT ![i] = Absent]
    /\ Goto(i, "ok")
    /\ UNCHANGED <<alone, files, botched>>

\* os.replace: a directory replaces nothing but an empty directory.
RenameTree(i) ==
    /\ pc[i] = "rename"
    /\ \/ /\ target \in {Absent, Empty}
          /\ target' = [by |-> i, body |-> staging[i]]
          /\ staging' = [staging EXCEPT ![i] = Absent]
          /\ Goto(i, "ok")
       \/ /\ Goto(i, "rmtree")                  \* any other target, or it raises
          /\ UNCHANGED tree
    /\ UNCHANGED <<alone, files, botched>>

\* The cleanup of install_portable ignores errors: it may leave the directory,
\* or part of it, and say nothing.
Rmtree(i) ==
    /\ pc[i] = "rmtree"
    /\ \/ staging' = [staging EXCEPT ![i] = Absent] /\ UNCHANGED botched
       \/ botched' = botched \union {i} /\ UNCHANGED staging
    /\ Goto(i, "failed")
    /\ UNCHANGED <<alone, files, target>>

Install(i) ==
    \/ Hash(i) \/ LookTarget(i) \/ Stage(i) \/ Extract(i) \/ RenameTree(i) \/ Rmtree(i)

-------------------------------------------------------------------------------
(* The environment.                                                        *)

\* A kill or a KeyboardInterrupt: no cleanup runs.
Kill(a) ==
    /\ Active(a)
    /\ Goto(a, "killed")
    /\ UNCHANGED <<alone, files, tree, botched>>

\* Somebody else makes a directory at the target.
MakeTarget ==
    /\ target = Absent
    /\ target' \in Foreign
    /\ UNCHANGED <<alone, pc, files, staging, botched>>

Next ==
    \/ \E d \in Downloads : Download(d)
    \/ \E i \in Installs : Install(i)
    \/ \E a \in Attempts : Kill(a)
    \/ MakeTarget

\* Every call returns: the network ones have a timeout and a size limit.
Fairness ==
    /\ \A d \in Downloads : WF_vars(Active(d) /\ Download(d))
    /\ \A i \in Installs : WF_vars(Active(i) /\ Install(i))

Spec == Init /\ [][Next]_vars
FairSpec == Spec /\ Fairness

-------------------------------------------------------------------------------

Quiet == \A d \in Downloads : ~Active(d) /\ pc[d] # "killed" /\ d \notin botched

\* When no download is running, none was killed and no unlink of theirs failed,
\* however they overlapped and wherever else each failed, the directory holds no
\* .part file and no package but a verified one; and if they did not overlap,
\* the package with its inventory or, when none succeeded, nothing (a cleanup
\* that misses a file, or that removes what another attempt delivered).
QuietMeansVerified ==
    Quiet =>
        /\ \A n \in Names : part[n] = Absent
        /\ final["package"] # Absent => Holds("package")
        /\ alone => \A n \in Names :
              IF \E d \in Downloads : pc[d] = "ok" THEN Holds(n) ELSE final[n] = Absent

\* A package whose download reported success, downloads not overlapping, is
\* still there and still verified whatever later attempts do.
DeliveredStays ==
    alone /\ (\E d \in Downloads : pc[d] = "ok") => Holds("package") /\ Holds("sums")

\* An installation that reported success is at the target, whole and its
\* own, made from verified bytes if downloads did not overlap (the package is
\* opened a second time, and the target looked at long before it is renamed
\* over); and a staging directory is left by none but one that was killed or
\* whose rmtree failed.
InstalledWhole ==
    \A i \in Installs :
        /\ pc[i] = "ok" => /\ target \in Tree /\ target.by = i
                           /\ alone => target.body = "good"
        /\ pc[i] \in Ended /\ staging[i] # Absent => pc[i] = "killed" \/ i \in botched

\* Whenever it appeared, what is at the target stays as it is: the tree of
\* another installation or somebody's directory, but for an empty one, which
\* the rename replaces (docs/UPDATES.md: "Existing targets are never
\* overwritten").
InstalledIsVerified ==
    []InstalledWhole /\ [][target \notin {Absent, Empty} => target' = target]_vars

\* Every attempt that was begun ends, whatever killed ones left behind.
AttemptsEnd == <>[](\A a \in Attempts : ~Active(a))
===============================================================================
