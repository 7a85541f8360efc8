------------------------- MODULE UpdateInstallProofs --------------------------
(***************************************************************************)
(* For any number of downloads and installations and any number of         *)
(* attempts: types, what is under the final names when all is quiet, what  *)
(* a successful download leaves, and what an installation puts in place.   *)
(***************************************************************************)
EXTENDS UpdateInstall, TLAPS

USE EntriesAssumption

\* A download goes through the labels of a download, an installation through
\* those of an installation, which has extracted a tree before it renames it.
Labels ==
    /\ \A d \in Downloads : pc[d] \in {"begin"} \union Fetching \union Ended
    /\ \A i \in Installs :
         /\ pc[i] \in {"begin"} \union Installing \union Ended
         /\ pc[i] = "rename" => staging[i] \in {"good", "bad"}
TypeInv == TypeOK /\ Labels

LEMMA LabelTable ==
    /\ Label("open", "sums") = "open_sums" /\ Label("open", "package") = "open_package"
    /\ Label("write", "sums") = "write_sums" /\ Label("write", "package") = "write_package"
    /\ Label("rename", "sums") = "rename_sums" /\ Label("rename", "package") = "rename_package"
    /\ Label("unpart", "sums") = "unpart_sums" /\ Label("unpart", "package") = "unpart_package"
    /\ Label("next", "sums") = "parse" /\ Label("next", "package") = "verify"
  BY DEF Label

\* What the actions of a download for one name change.
LEMMA OpenEffect ==
    ASSUME TypeInv, NEW d \in Downloads, NEW n \in Names, Open(d, n)
    PROVE  \/ /\ part[n] = Absent /\ part' = [part EXCEPT ![n] = [by |-> d, body |-> "partial"]]
              /\ pc' = [pc EXCEPT ![d] = Label("write", n)]
           \/ part' = part /\ pc' = [pc EXCEPT ![d] = Label("unpart", n)]
  BY DEF Open, Goto

\* Setting the body of a file of its own changes no other entry.
LEMMA BodySet ==
    ASSUME NEW entries \in [Names -> Entry], NEW d \in Downloads, NEW n \in Names,
           NEW body \in {"good", "bad"}, NEW written,
           written = IF entries[n] = [by |-> d, body |-> "partial"]
                     THEN [entries EXCEPT ![n] = [by |-> d, body |-> body]] ELSE entries
    PROVE  /\ written \in [Names -> Entry]
           /\ \A m \in Names :
                /\ written[m] = Absent <=> entries[m] = Absent
                /\ entries[m] # Absent => written[m].by = entries[m].by
                /\ entries[m] # Absent /\ entries[m].body # "partial" => written[m] = entries[m]
  <1>1. CASE entries[n] = [by |-> d, body |-> "partial"]
    <2>1. [by |-> d, body |-> "partial"] \in File /\ [by |-> d, body |-> body] \in File
      BY DEF File, Bodies
    <2> QED
      BY <1>1, <2>1 DEF Entry
  <1>2. CASE entries[n] # [by |-> d, body |-> "partial"]
    BY <1>2
  <1> QED
    BY <1>1, <1>2

\* A write changes nothing but the body of files that are its own and partial.
LEMMA WriteEffect ==
    ASSUME TypeInv, NEW d \in Downloads, NEW n \in Names, Write(d, n)
    PROVE  /\ part' \in [Names -> Entry] /\ final' \in [Names -> Entry]
           /\ \A m \in Names :
                /\ part'[m] = Absent <=> part[m] = Absent
                /\ part[m] # Absent => part'[m].by = part[m].by
                /\ final'[m] = Absent <=> final[m] = Absent
                /\ final[m] # Absent /\ final[m].body # "partial" => final'[m] = final[m]
           /\ \E label \in {Label("rename", n), Label("unpart", n)} : pc' = [pc EXCEPT ![d] = label]
  <1>1. part \in [Names -> Entry] /\ final \in [Names -> Entry]
    BY DEF TypeInv, TypeOK
  <1>2. CASE UNCHANGED files /\ Goto(d, Label("unpart", n))
    BY <1>1, <1>2 DEF files, Goto
  <1>3. ASSUME NEW body \in {"good", "bad"}, WriteTo(part, d, n, body), WriteTo(final, d, n, body),
               Goto(d, Label("rename", n))
        PROVE  /\ part' \in [Names -> Entry] /\ final' \in [Names -> Entry]
               /\ \A m \in Names :
                    /\ part'[m] = Absent <=> part[m] = Absent
                    /\ part[m] # Absent => part'[m].by = part[m].by
                    /\ final'[m] = Absent <=> final[m] = Absent
                    /\ final[m] # Absent /\ final[m].body # "partial" => final'[m] = final[m]
               /\ pc' = [pc EXCEPT ![d] = Label("rename", n)]
    <2>1. /\ part' \in [Names -> Entry]
          /\ \A m \in Names :
               /\ part'[m] = Absent <=> part[m] = Absent
               /\ part[m] # Absent => part'[m].by = part[m].by
      BY <1>1, <1>3, BodySet DEF WriteTo
    <2>2. /\ final' \in [Names -> Entry]
          /\ \A m \in Names :
               /\ final'[m] = Absent <=> final[m] = Absent
               /\ final[m] # Absent /\ final[m].body # "partial" => final'[m] = final[m]
      BY <1>1, <1>3, BodySet DEF WriteTo
    <2> QED
      BY <1>3, <2>1, <2>2 DEF Goto
  <1> QED
    BY <1>2, <1>3 DEF Write

-------------------------------------------------------------------------------

\* Every variable keeps its type through every step of the downloads and
\* installations.
LEMMA TypeStep ==
    ASSUME TypeInv, [Next]_vars
    PROVE  TypeInv'
  <1> USE DEF TypeInv, TypeOK, Labels, Attempts, Fetching, Installing, Ended, Goto, files, tree
  <1>1. ASSUME NEW d \in Downloads, Download(d) PROVE TypeInv'
    <2>1. CASE Look(d)
      BY <2>1 DEF Look
    <2>2. CASE Parse(d)
      BY <2>2 DEF Parse
    <2>3. CASE Verify(d)
      BY <2>3 DEF Verify
    <2>4. ASSUME NEW n \in Names, Open(d, n) PROVE TypeInv'
      <3>1. [by |-> d, body |-> "partial"] \in Entry
        BY DEF Entry, File, Bodies
      <3> QED
        BY <2>4, <3>1, LabelTable DEF Open, Names
    <2>5. ASSUME NEW n \in Names, Write(d, n) PROVE TypeInv'
      BY <2>5, WriteEffect, LabelTable DEF Write, Names
    <2>6. ASSUME NEW n \in Names, Rename(d, n) PROVE TypeInv'
      BY <2>6, LabelTable DEF Rename, Names, Entry
    <2>7. ASSUME NEW n \in Names, Unpart(d, n) PROVE TypeInv'
      BY <2>7 DEF Unpart, Entry
    <2>8. ASSUME NEW n \in Names, Unlink(d, n) PROVE TypeInv'
      BY <2>8 DEF Unlink, Entry
    <2> QED
      BY <1>1, <2>1, <2>2, <2>3, <2>4, <2>5, <2>6, <2>7, <2>8 DEF Download
  <1>2. ASSUME NEW i \in Installs, Install(i) PROVE TypeInv'
    <2>1. CASE Hash(i)
      BY <2>1 DEF Hash
    <2>2. CASE LookTarget(i)
      BY <2>2 DEF LookTarget
    <2>3. CASE Stage(i)
      BY <2>3 DEF Stage
    <2>4. CASE Extract(i)
      BY <2>4 DEF Extract
    <2>5. CASE RenameTree(i)
      BY <2>5 DEF RenameTree, Tree
    <2>6. CASE Rmtree(i)
      BY <2>6 DEF Rmtree
    <2> QED
      BY <1>2, <2>1, <2>2, <2>3, <2>4, <2>5, <2>6 DEF Install
  <1>3. ASSUME NEW a \in Attempts, Kill(a) PROVE TypeInv'
    BY <1>3 DEF Kill
  <1>4. CASE MakeTarget
    BY <1>4 DEF MakeTarget
  <1>5. CASE UNCHANGED vars
    BY <1>5 DEF vars
  <1> QED
    BY <1>1, <1>2, <1>3, <1>4, <1>5 DEF Next

\* Every variable keeps its type, and each attempt the labels of its kind, through
\* every call of download_release and install_portable.
THEOREM TypeCorrect == Spec => []TypeInv
  <1>1. Init => TypeInv
    BY DEF Init, TypeInv, TypeOK, Labels, Attempts, Entry
  <1> QED
    BY <1>1, TypeStep, PTL DEF Spec

-------------------------------------------------------------------------------
(* Downloads that may overlap.                                             *)

\* A .part file is there because its download has still to rename it or to
\* remove it, was killed before that, or failed to remove it.
PartInv == \A n \in Names : part[n] # Absent =>
        \/ pc[part[n].by] \in {Label("write", n), Label("rename", n), Label("unpart", n), "killed"}
    \/ part[n].by \in botched

\* Other bytes than the package's are under its name only while a download
\* has still to verify or to remove them, or was killed or unable to.
PackageInv == final["package"] # Absent /\ ~Holds("package") =>
    \E d \in Downloads : d \in botched \/ pc[d] \in {"verify", "unlink_package", "killed"}

OverlapInv == PartInv /\ PackageInv

LEMMA OverlapStep ==
    ASSUME TypeInv, TypeInv', OverlapInv, [Next]_vars
    PROVE  OverlapInv'
  <1> USE DEF OverlapInv, PartInv, PackageInv, Holds, Goto, Attempts, files, tree
  <1>0. /\ pc \in [Attempts -> {"begin"} \union Fetching \union Installing \union Ended]
        /\ part \in [Names -> Entry] /\ final \in [Names -> Entry]
        /\ \A n \in Names : part[n] # Absent => part[n].by \in Downloads
        /\ \A d \in Downloads : pc[d] \in {"begin"} \union Fetching \union Ended
        /\ Names = {"sums", "package"}
    BY DEF TypeInv, TypeOK, Entry, File, Labels, Names
  <1>1. ASSUME NEW d \in Downloads, Download(d) PROVE OverlapInv'
    <2>1. CASE Look(d)
      BY <1>0, <2>1, LabelTable DEF Look, Begins
    <2>2. CASE Parse(d)
      BY <1>0, <2>2, LabelTable DEF Parse
    <2>3. CASE Verify(d)
      BY <1>0, <2>3, LabelTable DEF Verify
    <2>4. ASSUME NEW n \in Names, Open(d, n) PROVE OverlapInv'
      <3>1. PartInv'
        BY <1>0, <2>4, LabelTable DEF Open
      <3>2. PackageInv'
        BY <1>0, <2>4, LabelTable DEF Open
      <3> QED
        BY <3>1, <3>2
    <2>5. ASSUME NEW n \in Names, Write(d, n) PROVE OverlapInv'
      <3>1. ASSUME NEW m \in Names, part'[m] # Absent
            PROVE  \/ pc'[part'[m].by] \in {Label("write", m), Label("rename", m), Label("unpart", m), "killed"}
                   \/ part'[m].by \in botched'
        <4>1. /\ part[m] # Absent /\ part'[m].by = part[m].by
              /\ \E label \in {Label("rename", n), Label("unpart", n)} : pc' = [pc EXCEPT ![d] = label]
              /\ pc[d] = Label("write", n) /\ botched' = botched
          BY <2>5, <3>1, WriteEffect DEF Write
        <4>2. CASE part[m].by \in botched
          BY <4>1, <4>2
        <4>3. CASE part[m].by = d /\ d \notin botched
          <5>1. m = n
            BY <1>0, <4>1, <4>3, LabelTable
          <5> QED
            BY <1>0, <4>1, <4>3, <5>1
        <4>4. CASE part[m].by # d
          BY <1>0, <4>1, <4>4
        <4> QED
          BY <4>2, <4>3, <4>4
      <3>2. PackageInv'
        BY <1>0, <2>5, WriteEffect, LabelTable DEF Write
      <3> QED
        BY <3>1, <3>2 DEF Label
    <2>6. ASSUME NEW n \in Names, Rename(d, n) PROVE OverlapInv'
      <3>1. PartInv'
        BY <1>0, <2>6, LabelTable DEF Rename
      <3>2. PackageInv'
        BY <1>0, <2>6, LabelTable DEF Rename
      <3> QED
        BY <3>1, <3>2
    <2>7. ASSUME NEW n \in Names, Unpart(d, n) PROVE OverlapInv'
      BY <1>0, <2>7, LabelTable DEF Unpart
    <2>8. ASSUME NEW n \in Names, Unlink(d, n) PROVE OverlapInv'
      BY <1>0, <2>8, LabelTable DEF Unlink
    <2> QED
      BY <1>1, <2>1, <2>2, <2>3, <2>4, <2>5, <2>6, <2>7, <2>8 DEF Download
  <1>2. ASSUME NEW i \in Installs, Install(i) PROVE OverlapInv'
    <2>1. /\ UNCHANGED files /\ \A d \in Downloads : pc'[d] = pc[d]
          /\ \A d \in Downloads : d \in botched' <=> d \in botched
      BY <1>0, <1>2 DEF Install, Hash, LookTarget, Stage, Extract, RenameTree, Rmtree
    <2> QED
      BY <1>0, <2>1
  <1>3. ASSUME NEW a \in Attempts, Kill(a) PROVE OverlapInv'
    BY <1>0, <1>3, LabelTable DEF Kill
  <1>4. CASE MakeTarget
    BY <1>0, <1>4 DEF MakeTarget
  <1>5. CASE UNCHANGED vars
    BY <1>0, <1>5 DEF vars
  <1> QED
    BY <1>1, <1>2, <1>3, <1>4, <1>5 DEF Next

-------------------------------------------------------------------------------
(* Downloads that do not overlap.                                          *)

Delivered == Holds("package") /\ Holds("sums")

\* What an active download knows of the directory it has to itself, by its
\* next step, and what the ones before it left there.
OneActive == \A d, e \in Downloads : Active(d) /\ Active(e) => d = e
KnownSums(d) ==
    /\ pc[d] \in {"open_sums", "write_sums", "rename_sums", "unpart_sums"} => final["sums"] = Absent
    /\ pc[d] \in {"open_package", "write_package", "rename_package", "verify"} => Holds("sums")
KnownPackage(d) ==
    /\ pc[d] \in Fetching \ {"verify", "unlink_package"} => final["package"] = Absent
    /\ pc[d] = "unlink_package" => ~Holds("package")
SuccessStays == \A d \in Downloads :
    pc[d] = "ok" => Delivered /\ \A e \in Downloads : ~Active(e)
FailureLeavesNothing ==
    Quiet /\ (\A d \in Downloads : pc[d] # "ok") => \A n \in Names : final[n] = Absent

AloneInv == alone =>
    /\ OneActive
    /\ \A d \in Downloads : KnownSums(d) /\ KnownPackage(d)
    /\ SuccessStays /\ FailureLeavesNothing

LEMMA AloneStep ==
    ASSUME TypeInv, TypeInv', alone, AloneInv, [Next]_vars
    PROVE  AloneInv'
  <1> USE DEF AloneInv, OneActive, KnownSums, KnownPackage, SuccessStays, FailureLeavesNothing,
              Delivered, Quiet, Active, Holds, Goto, Attempts, files, tree, Fetching, Installing
  <1>0. /\ pc \in [Attempts -> {"begin"} \union Fetching \union Installing \union Ended]
        /\ part \in [Names -> Entry] /\ final \in [Names -> Entry]
        /\ \A d \in Downloads : pc[d] \in {"begin"} \union Fetching \union Ended
        /\ Names = {"sums", "package"}
    BY DEF TypeInv, TypeOK, Labels, Names
  <1>1. ASSUME NEW d \in Downloads, Download(d) PROVE AloneInv'
    <2>1. CASE Look(d)
      BY <1>0, <2>1 DEF Look, Begins, Ended
    <2>2. CASE Parse(d)
      BY <1>0, <2>2 DEF Parse, Ended
    <2>3. CASE Verify(d)
      BY <1>0, <2>3 DEF Verify, Ended
    <2>4. ASSUME NEW n \in Names, Open(d, n) PROVE AloneInv'
      BY <1>0, <2>4, LabelTable DEF Open, Ended
    <2>5. ASSUME NEW n \in Names, Write(d, n) PROVE AloneInv'
      <3>1. final[n] = Absent
        BY <1>0, <2>5, LabelTable DEF Write
      <3>2. final' = final
        BY <1>0, <2>5, <3>1 DEF Write, WriteTo, File, Bodies
      <3>3. \E label \in {Label("rename", n), Label("unpart", n)} : pc' = [pc EXCEPT ![d] = label]
        BY <2>5, WriteEffect
      <3> QED
        BY <1>0, <2>5, <3>2, <3>3, LabelTable DEF Write, Ended
    <2>6. ASSUME NEW n \in Names, Rename(d, n) PROVE AloneInv'
      BY <1>0, <2>6, LabelTable DEF Rename, Ended
    <2>7. ASSUME NEW n \in Names, Unpart(d, n) PROVE AloneInv'
      BY <1>0, <2>7, LabelTable DEF Unpart, Ended
    <2>8. ASSUME NEW n \in Names, Unlink(d, n) PROVE AloneInv'
      BY <1>0, <2>8, LabelTable DEF Unlink, Ended
    <2> QED
      BY <1>1, <2>1, <2>2, <2>3, <2>4, <2>5, <2>6, <2>7, <2>8 DEF Download
  <1>2. ASSUME NEW i \in Installs, Install(i) PROVE AloneInv'
    <2>1. /\ UNCHANGED files /\ \A d \in Downloads : pc'[d] = pc[d]
          /\ \A d \in Downloads : d \in botched' <=> d \in botched
      BY <1>0, <1>2 DEF Install, Hash, LookTarget, Stage, Extract, RenameTree, Rmtree
    <2> QED
      BY <1>0, <2>1
  <1>3. ASSUME NEW a \in Attempts, Kill(a) PROVE AloneInv'
    BY <1>0, <1>3 DEF Kill, Ended
  <1>4. CASE MakeTarget
    BY <1>0, <1>4 DEF MakeTarget
  <1>5. CASE UNCHANGED vars
    BY <1>0, <1>5 DEF vars
  <1> QED
    BY <1>1, <1>2, <1>3, <1>4, <1>5 DEF Next

LEMMA AloneIsFixed ==
    ASSUME [Next]_vars
    PROVE  alone' = alone
  BY DEF Next, vars, Download, Look, Parse, Verify, Open, Write, Rename, Unpart, Unlink,
         Install, Hash, LookTarget, Stage, Extract, RenameTree, Rmtree, Kill, MakeTarget

\* The three invariants of downloads and of types, together inductive.
DownloadInv == TypeInv /\ OverlapInv /\ AloneInv

LEMMA DownloadStep == DownloadInv /\ [Next]_vars => DownloadInv'
  <1>1. ASSUME DownloadInv, [Next]_vars, alone PROVE AloneInv'
    BY <1>1, TypeStep, AloneStep DEF DownloadInv
  <1>2. ASSUME DownloadInv, [Next]_vars, ~alone PROVE AloneInv'
    BY <1>2, AloneIsFixed DEF AloneInv
  <1> QED
    BY <1>1, <1>2, TypeStep, OverlapStep DEF DownloadInv

\* What each download of download_release relies on in its directory, and has still to
\* clean up there, at every moment, whatever fails, is killed or overlaps.
THEOREM DownloadInvariant == Spec => []DownloadInv
  <1>1. Init => DownloadInv
    BY DEF Init, DownloadInv, TypeInv, TypeOK, Labels, Attempts, Entry, OverlapInv, PartInv,
           PackageInv, AloneInv, OneActive, KnownSums, KnownPackage, SuccessStays,
           FailureLeavesNothing, Active, Fetching, Installing, Names
  <1> QED
    BY <1>1, DownloadStep, PTL DEF Spec

\* When no download is active, none was killed and no unlink of theirs failed, the
\* directory holds no .part file and no package but a verified one, with its
\* inventory or not at all if downloads did not overlap.
THEOREM QuietDirectoryVerified == Spec => []QuietMeansVerified
  <1>1. DownloadInv => QuietMeansVerified
    <2> SUFFICES ASSUME DownloadInv, Quiet
                 PROVE  /\ \A n \in Names : part[n] = Absent
                        /\ final["package"] # Absent => Holds("package")
                        /\ alone => \A n \in Names :
                             IF \E d \in Downloads : pc[d] = "ok" THEN Holds(n) ELSE final[n] = Absent
      BY DEF QuietMeansVerified
    <2>1. ASSUME NEW n \in Names PROVE part[n] = Absent
      <3>1. part[n] # Absent => part[n].by \in Downloads
        BY DEF DownloadInv, TypeInv, TypeOK, Entry, File
      <3> QED
        BY <2>1, <3>1, LabelTable
           DEF DownloadInv, OverlapInv, PartInv, Quiet, Active, Fetching, Names
    <2>2. final["package"] # Absent => Holds("package")
      BY DEF DownloadInv, OverlapInv, PackageInv, Quiet, Active, Fetching
    <2>3. ASSUME alone, NEW n \in Names
          PROVE  IF \E d \in Downloads : pc[d] = "ok" THEN Holds(n) ELSE final[n] = Absent
      BY <2>3 DEF DownloadInv, AloneInv, SuccessStays, Delivered, FailureLeavesNothing, Names
    <2> QED
      BY <2>1, <2>2, <2>3
  <1> QED
    BY <1>1, DownloadInvariant, PTL

\* A package whose download reported success stays, verified, whatever later
\* attempts do, if downloads do not overlap.
THEOREM DeliveryStays == Spec => []DeliveredStays
  <1>1. DownloadInv => DeliveredStays
    BY DEF DownloadInv, AloneInv, SuccessStays, Delivered, DeliveredStays
  <1> QED
    BY <1>1, DownloadInvariant, PTL

-------------------------------------------------------------------------------
(* Installations.                                                          *)

\* Without overlapping downloads a verified package stays as it is: no
\* download touches a package that is there.
LEMMA PackageStays ==
    ASSUME DownloadInv, alone, Holds("package"), [Next]_vars
    PROVE  Holds("package")'
  <1> USE DEF Holds, Goto, files, tree
  <1>0. /\ final \in [Names -> Entry] /\ Names = {"sums", "package"}
        /\ \A d \in Downloads : pc[d] \in Fetching \ {"verify", "unlink_package"} => final["package"] = Absent
        /\ \A d \in Downloads : pc[d] # "unlink_package"
    BY DEF DownloadInv, TypeInv, TypeOK, Names, AloneInv, KnownPackage
  <1>1. ASSUME NEW d \in Downloads, NEW n \in Names, Write(d, n) PROVE Holds("package")'
    BY <1>0, <1>1, WriteEffect DEF DownloadInv
  <1>2. ASSUME NEW d \in Downloads, NEW n \in Names, Rename(d, n) PROVE Holds("package")'
    BY <1>0, <1>2, LabelTable DEF Rename, Fetching
  <1>3. ASSUME NEW d \in Downloads, NEW n \in Names, Unlink(d, n) PROVE Holds("package")'
    BY <1>0, <1>3 DEF Unlink
  <1>4. CASE UNCHANGED final
    BY <1>4
  <1> QED
    BY <1>1, <1>2, <1>3, <1>4
       DEF Next, vars, Download, Look, Parse, Verify, Open, Unpart,
           Install, Hash, LookTarget, Stage, Extract, RenameTree, Rmtree, Kill, MakeTarget

\* An installation has a staging directory only between the steps that make
\* and remove it, or because removing it failed; what it has checked and extracted is, if downloads do not
\* overlap, the verified package.
Staged(i) ==
    /\ pc[i] \in {"begin", "look", "stage", "ok", "refused"} => staging[i] = Absent
    /\ pc[i] = "failed" /\ staging[i] # Absent => i \in botched
    /\ alone /\ pc[i] \in {"look", "stage", "extract"} => Holds("package")
    /\ alone /\ pc[i] = "rename" => staging[i] = "good"
InPlace(i) ==
    pc[i] = "ok" => target \in Tree /\ target.by = i /\ (alone => target.body = "good")
InstallInv == \A i \in Installs : Staged(i) /\ InPlace(i)

LEMMA InstallStep ==
    ASSUME DownloadInv, InstallInv, [Next]_vars
    PROVE  InstallInv'
  <1> USE DEF Goto, files, tree, Fetching, Installing, Ended
  <1>0. /\ pc \in [Attempts -> {"begin"} \union Fetching \union Installing \union Ended]
        /\ staging \in [Installs -> {Absent, "empty", "good", "bad"}]
        /\ target \in {Absent} \union Foreign \union Tree
        /\ \A i \in Installs : pc[i] \in {"begin"} \union Installing \union Ended
        /\ \A i \in Installs : pc[i] = "rename" => staging[i] \in {"good", "bad"}
    BY DEF DownloadInv, TypeInv, TypeOK, Labels
  <1>9. /\ \A d \in Downloads : d \in Attempts /\ d \notin Installs
        /\ \A i \in Installs : i \in Attempts
    BY DEF Attempts
  <1>1. alone /\ Holds("package") => Holds("package")'
    BY PackageStays
  <1>2. alone' = alone
    BY AloneIsFixed
  <1>8. \A i \in botched : i \in botched'
    BY DEF Next, vars, Download, Look, Parse, Verify, Open, Write, Rename, Unpart, Unlink,
           Install, Hash, LookTarget, Stage, Extract, RenameTree, Rmtree, Kill, MakeTarget
  <1>3. ASSUME NEW i \in Installs, Install(i) PROVE InstallInv'
    <2>0. UNCHANGED files
      BY <1>3 DEF Install, Hash, LookTarget, Stage, Extract, RenameTree, Rmtree
    <2> SUFFICES ASSUME NEW j \in Installs PROVE Staged(j)' /\ InPlace(j)'
      BY DEF InstallInv
    <2>1. CASE Hash(i)
      BY <1>0, <1>9, <1>2, <2>0, <2>1 DEF Hash, Begins, InstallInv, Staged, InPlace, Holds
    <2>2. CASE LookTarget(i)
      BY <1>0, <1>9, <1>2, <2>0, <2>2 DEF LookTarget, InstallInv, Staged, InPlace, Holds
    <2>3. CASE Stage(i)
      BY <1>0, <1>9, <1>2, <2>0, <2>3 DEF Stage, InstallInv, Staged, InPlace, Holds
    <2>4. CASE Extract(i)
      BY <1>0, <1>9, <1>2, <2>0, <2>4 DEF Extract, InstallInv, Staged, InPlace, Holds
    <2>5. CASE RenameTree(i)
      <3>1. CASE /\ target \in {Absent, Empty} /\ target' = [by |-> i, body |-> staging[i]]
                 /\ staging' = [staging EXCEPT ![i] = Absent] /\ Goto(i, "ok")
        <4>1. /\ target' = [by |-> i, body |-> staging[i]] /\ target' \in Tree
              /\ botched' = botched
              /\ staging' = [staging EXCEPT ![i] = Absent] /\ pc' = [pc EXCEPT ![i] = "ok"]
              /\ alone => staging[i] = "good"
          BY <1>0, <1>9, <2>5, <3>1 DEF RenameTree, Tree, InstallInv, Staged
        <4>2. \A k \in Installs : pc[k] # "ok"
          BY <3>1 DEF InstallInv, InPlace, Foreign
        <4>3. Staged(j)'
          BY <1>0, <1>9, <1>2, <2>0, <4>1 DEF InstallInv, Staged, Holds
        <4>4. InPlace(j)'
          BY <1>0, <1>9, <1>2, <4>1, <4>2 DEF InPlace
        <4> QED
          BY <4>3, <4>4
      <3>2. CASE Goto(i, "rmtree") /\ UNCHANGED tree
        BY <1>0, <1>9, <1>2, <2>0, <2>5, <3>2 DEF RenameTree, InstallInv, Staged, InPlace, Holds
      <3> QED
        BY <2>5, <3>1, <3>2 DEF RenameTree
    <2>6. CASE Rmtree(i)
      BY <1>0, <1>9, <1>2, <2>0, <2>6 DEF Rmtree, InstallInv, Staged, InPlace, Holds
    <2> QED
      BY <1>3, <2>1, <2>2, <2>3, <2>4, <2>5, <2>6 DEF Install
  <1>4. ASSUME NEW d \in Downloads, Download(d) PROVE InstallInv'
    <2>1. UNCHANGED tree /\ \A i \in Installs : pc'[i] = pc[i]
      BY <1>0, <1>9, <1>4 DEF Download, Look, Parse, Verify, Open, Write, Rename, Unpart, Unlink
    <2> QED
      BY <1>1, <1>2, <1>8, <2>1 DEF InstallInv, Staged, InPlace
  <1>5. ASSUME NEW a \in Attempts, Kill(a) PROVE InstallInv'
    <2>1. UNCHANGED tree /\ \A i \in Installs : pc'[i] \in {pc[i], "killed"}
      BY <1>0, <1>9, <1>5 DEF Kill
    <2> QED
      BY <1>1, <1>2, <1>8, <2>1 DEF InstallInv, Staged, InPlace
  <1>6. CASE MakeTarget
    <2>1. /\ UNCHANGED <<staging, pc>>
          /\ \A i \in Installs : pc[i] # "ok"
      BY <1>6 DEF MakeTarget, InstallInv, InPlace
    <2> QED
      BY <1>1, <1>2, <1>8, <2>1 DEF InstallInv, Staged, InPlace
  <1>7. CASE UNCHANGED vars
    BY <1>1, <1>2, <1>7 DEF vars, InstallInv, Staged, InPlace
  <1> QED
    BY <1>3, <1>4, <1>5, <1>6, <1>7 DEF Next

\* An installation that reported success is at the target, whole and its
\* own, and of verified bytes if downloads did not overlap; a staging directory
\* is left by none but one that was killed or whose rmtree failed; and no
\* installation replaces what is at the target, but for an empty directory.
THEOREM InstallationVerified == Spec => InstalledIsVerified
  <1>1. Init => InstallInv
    BY DEF Init, InstallInv, Staged, InPlace, Attempts
  <1>2. InstallInv => InstalledWhole
    BY DEF InstallInv, Staged, InPlace, InstalledWhole, Ended
  <1>3. [Next]_vars => [target \notin {Absent, Empty} => target' = target]_vars
    <2> SUFFICES ASSUME Next, target \notin {Absent, Empty} PROVE target' = target
      OBVIOUS
    <2>1. ASSUME NEW d \in Downloads, Download(d) PROVE target' = target
      BY <2>1 DEF Download, Look, Open, Write, Rename, Unpart, Parse, Verify, Unlink, tree
    <2>2. ASSUME NEW i \in Installs, Install(i) PROVE target' = target
      BY <2>2 DEF Install, Hash, LookTarget, Stage, Extract, RenameTree, Rmtree, tree
    <2>3. ASSUME NEW a \in Attempts, Kill(a) PROVE target' = target
      BY <2>3 DEF Kill, tree
    <2>4. CASE MakeTarget
      BY <2>4 DEF MakeTarget
    <2> QED
      BY <2>1, <2>2, <2>3, <2>4 DEF Next
  <1>4. InstallInv /\ DownloadInv /\ [Next]_vars => InstallInv'
    BY InstallStep
  <1> QED
    BY <1>1, <1>2, <1>3, <1>4, DownloadInvariant, PTL DEF Spec, InstalledIsVerified
===============================================================================
