--------------------------- MODULE PublicationProofs ---------------------------
(***************************************************************************)
(* For any number of runs, any set of names and any number of edits: types,*)
(* what a run may touch, what a refused run leaves, and (one run at a      *)
(* time) that destinations are validated first and that nothing is         *)
(* silently overwritten.                                                   *)
(***************************************************************************)
EXTENDS Publication, TLAPS

USE NamesAssumption, EntriesAssumption, BoundsAssumption, ListsAssumption

\* What the end of a run changes, whatever its code.
LEMMA EndEffect ==
    ASSUME TypeOK, NEW r \in Runs, NEW code \in Exited, End(r, code)
    PROVE  /\ TypeOK'
           /\ pc' = [pc EXCEPT ![r] = code]
           /\ overwrite' = overwrite \ {r}
           /\ UNCHANGED <<disk, user>>
           /\ \A q \in Runs : listed'[q] \in {listed[q], {}}
           /\ \A q \in Runs : q # r =>
                /\ staged'[q] = staged[q] /\ todo'[q] = todo[q]
                /\ previous'[q] = previous[q] /\ published'[q] = published[q]
           /\ staged'[r] = {} /\ todo'[r] = {}
           /\ previous'[r] = {} /\ published'[r] = {}
  <1>1. listed' \in [Runs \union {User} -> SUBSET Names] /\ \A q \in Runs : listed'[q] \in {listed[q], {}}
    BY DEF End, TypeOK
  <1>2. TypeOK'
    BY <1>1 DEF End, Goto, TypeOK, user
  <1> QED
    BY <1>1, <1>2 DEF End, Goto, TypeOK

\* Every variable keeps its type through every step of cli._main.
THEOREM TypeCorrect == Spec => []TypeOK
  <1>1. Init => TypeOK
    BY DEF Init, TypeOK, Entry
  <1>2. TypeOK /\ [Next]_vars => TypeOK'
    <2> SUFFICES ASSUME TypeOK, [Next]_vars PROVE TypeOK'
      OBVIOUS
    <2> USE DEF Goto, Active, runVars, user
    <2>1. ASSUME NEW r \in Runs, Start(r) PROVE TypeOK'
      BY <2>1 DEF Start, TypeOK, Exited
    <2>2. ASSUME NEW r \in Runs, OpenLog(r) PROVE TypeOK'
      <3>1. CASE End(r, "exit2")
        BY <3>1, EndEffect DEF Exited
      <3>2. CASE ~End(r, "exit2")
        BY <2>2, <3>2 DEF OpenLog, Put, TypeOK, Entry
      <3> QED
        BY <3>1, <3>2
    <2>3. ASSUME NEW r \in Runs, Analyze(r) PROVE TypeOK'
      <3>1. CASE End(r, "exit2")
        BY <3>1, EndEffect DEF Exited
      <3>2. CASE ~End(r, "exit2")
        BY <2>3, <3>2 DEF Analyze, TypeOK
      <3> QED
        BY <3>1, <3>2
    <2>4. ASSUME NEW r \in Runs, BeginStaging(r) PROVE TypeOK'
      <3>1. CASE End(r, "exit2") \/ End(r, "exit1")
        BY <3>1, EndEffect DEF Exited
      <3>2. CASE ~End(r, "exit2") /\ ~End(r, "exit1")
        <4>1. ListedOnDisk \in SUBSET Names
          BY DEF ListedOnDisk, TypeOK
        <4> QED
          BY <2>4, <3>2, <4>1 DEF BeginStaging, TypeOK
      <3> QED
        BY <3>1, <3>2
    <2>5. ASSUME NEW r \in Runs, Stage(r) PROVE TypeOK'
      <3>1. CASE End(r, "exit1")
        BY <3>1, EndEffect DEF Exited
      <3>2. CASE ~End(r, "exit1")
        <4>1. PICK chosen \in SUBSET Optional :
                /\ listed' = [listed EXCEPT ![r] = (Core \ {Manifest}) \union chosen]
                /\ staged' = [staged EXCEPT ![r] = Core \union chosen]
                /\ todo' = [todo EXCEPT ![r] = Core \union chosen]
          BY <2>5, <3>2 DEF Stage, FilesListed
        <4>2. Core \union chosen \in SUBSET Names
          OBVIOUS
        <4> QED
          BY <2>5, <3>2, <4>1, <4>2 DEF Stage, FilesListed, TypeOK
      <3> QED
        BY <3>1, <3>2
    <2>6. ASSUME NEW r \in Runs, ValidateNext(r) PROVE TypeOK'
      <3>1. CASE End(r, "exit2")
        BY <3>1, EndEffect DEF Exited
      <3>2. CASE ~End(r, "exit2")
        BY <2>6, <3>2 DEF ValidateNext, Visited, TypeOK
      <3> QED
        BY <3>1, <3>2
    <2>7. ASSUME NEW r \in Runs, BeginPublish(r) PROVE TypeOK'
      BY <2>7 DEF BeginPublish, TypeOK
    <2>8. ASSUME NEW r \in Runs, PublishNext(r) PROVE TypeOK'
      <3>1. CASE End(r, "exit1")
        BY <3>1, EndEffect DEF Exited
      <3>2. CASE ~End(r, "exit1")
        BY <2>8, <3>2 DEF PublishNext, Visited, Put, TypeOK, Entry
      <3> QED
        BY <3>1, <3>2
    <2>9. ASSUME NEW r \in Runs, BeginCleanup(r) PROVE TypeOK'
      BY <2>9 DEF BeginCleanup, TypeOK
    <2>10. ASSUME NEW r \in Runs, CleanNext(r) PROVE TypeOK'
      BY <2>10 DEF CleanNext, RemoveStale, Visited, Put, TypeOK, Entry
    <2>11. ASSUME NEW r \in Runs, Finish(r) PROVE TypeOK'
      BY <2>11, EndEffect DEF Finish, Exited
    <2>12. ASSUME NEW r \in Runs, Kill(r) PROVE TypeOK'
      BY <2>12, EndEffect DEF Kill, Exited
    <2>13. ASSUME UserEdit PROVE TypeOK'
      BY <2>13 DEF UserEdit, Put, TypeOK, Entry, Special
    <2>14. CASE UNCHANGED vars
      BY <2>14 DEF vars, TypeOK
    <2> QED
      BY <2>1, <2>2, <2>3, <2>4, <2>5, <2>6, <2>7, <2>8, <2>9, <2>10, <2>11,
         <2>12, <2>13, <2>14 DEF Next, Step
  <1> QED
    BY <1>1, <1>2, PTL DEF Spec

-------------------------------------------------------------------------------
\* Every name a run works on is one of the tool's: what it staged, what its
\* manifest lists, what it publishes.  Only the cleanup may hold others, and only
\* those which a manifest of the user's listed.
NamesInv ==
    /\ listed[User] \subseteq endorsed
    /\ \A r \in Runs :
         /\ staged[r] \union listed[r] \union published[r] \subseteq ToolNames
         /\ previous[r] \union todo[r] \subseteq ToolNames \union endorsed
         /\ pc[r] # "cleaning" => todo[r] \subseteq ToolNames

LEMMA NamesInvariant == Spec => []NamesInv
  <1>1. Init => NamesInv
    BY DEF Init, NamesInv
  <1>2. TypeOK /\ NamesInv /\ [Next]_vars => NamesInv'
    <2> SUFFICES ASSUME TypeOK, NamesInv, [Next]_vars PROVE NamesInv'
      OBVIOUS
    <2> USE DEF Goto, runVars, user
    <2>1. ASSUME NEW r \in Runs, NEW code \in Exited, End(r, code) PROVE NamesInv'
      BY <2>1 DEF End, NamesInv, TypeOK, Exited
    <2>2. ASSUME NEW r \in Runs, Start(r) \/ OpenLog(r) \/ Analyze(r) PROVE NamesInv'
      BY <2>1, <2>2 DEF Start, OpenLog, Analyze, NamesInv, Exited, TypeOK
    <2>3. ASSUME NEW r \in Runs, BeginStaging(r) PROVE NamesInv'
      <3>1. ListedOnDisk \subseteq ToolNames \union endorsed
        BY DEF ListedOnDisk, NamesInv
      <3> QED
        BY <2>1, <2>3, <3>1 DEF BeginStaging, NamesInv, TypeOK, Exited
    <2>4. ASSUME NEW r \in Runs, Stage(r) PROVE NamesInv'
      <3>1. Core \union Optional \subseteq ToolNames
        BY DEF ToolNames
      <3> QED
        BY <2>1, <2>4, <3>1 DEF Stage, FilesListed, NamesInv, TypeOK, Exited
    <2>5. ASSUME NEW r \in Runs, ValidateNext(r) PROVE NamesInv'
      BY <2>1, <2>5 DEF ValidateNext, Visited, NamesInv, TypeOK, Exited
    <2>6. ASSUME NEW r \in Runs, BeginPublish(r) PROVE NamesInv'
      BY <2>6 DEF BeginPublish, NamesInv, TypeOK
    <2>7. ASSUME NEW r \in Runs, PublishNext(r) PROVE NamesInv'
      BY <2>1, <2>7 DEF PublishNext, IsNext, Visited, NamesInv, TypeOK, Exited
    <2>8. ASSUME NEW r \in Runs, BeginCleanup(r) PROVE NamesInv'
      BY <2>8 DEF BeginCleanup, NamesInv, TypeOK, ToolNames
    <2>9. ASSUME NEW r \in Runs, CleanNext(r) PROVE NamesInv'
      BY <2>9 DEF CleanNext, RemoveStale, Visited, NamesInv, TypeOK
    <2>10. ASSUME NEW r \in Runs, Finish(r) \/ Kill(r) PROVE NamesInv'
      BY <2>1, <2>10 DEF Finish, Kill, Exited
    <2>11. CASE UserEdit
      BY <2>11 DEF UserEdit, NamesInv, TypeOK
    <2>12. CASE UNCHANGED vars
      BY <2>12 DEF vars, NamesInv
    <2> QED
      BY <2>2, <2>3, <2>4, <2>5, <2>6, <2>7, <2>8, <2>9, <2>10, <2>11, <2>12 DEF Next, Step
  <1> QED
    BY <1>1, <1>2, TypeCorrect, PTL DEF Spec

\* Under a name the tool does not use, no run ever creates or replaces an entry,
\* and one is removed only if a manifest that the user, or another release, wrote
\* listed it: cli._main renames what it staged, and removes what the allowlist or
\* the manifest it found names.
THEOREM UnrelatedFilesUntouched == Spec => UnrelatedUntouched
  <1> DEFINE Spared ==
        \A n \in ToolChanged \ ToolNames : disk'[n] = Absent /\ n \in endorsed
  <1>1. TypeOK /\ NamesInv /\ [Next]_vars => [Spared]_vars
    <2> SUFFICES ASSUME TypeOK, NamesInv, Next, NEW n \in ToolChanged, n \notin ToolNames
                 PROVE  disk'[n] = Absent /\ n \in endorsed
      BY DEF vars
    <2> USE DEF ToolChanged, Goto, runVars, user
    <2>1. n \in Names /\ disk'[n] # disk[n] /\ edits' = edits
      OBVIOUS
    <2>2. ~UserEdit
      BY <2>1 DEF UserEdit, TypeOK
    <2>3. PICK r \in Runs : OpenLog(r) \/ PublishNext(r) \/ CleanNext(r)
      BY <2>1, <2>2 DEF Next, Step, Start, Analyze, BeginStaging, Stage, ValidateNext,
         BeginPublish, BeginCleanup, Finish, Kill, End
    <2>4. ~OpenLog(r)
      BY <2>1 DEF OpenLog, Put, End, TypeOK, ToolNames
    <2>5. ~PublishNext(r)
      BY <2>1 DEF PublishNext, IsNext, Put, End, TypeOK, NamesInv
    <2>6. CASE CleanNext(r)
      BY <2>1, <2>6 DEF CleanNext, RemoveStale, IsNext, Put, TypeOK, NamesInv
    <2> QED
      BY <2>3, <2>4, <2>5, <2>6
  <1> QED
    BY <1>1, TypeCorrect, NamesInvariant, PTL DEF Spec, UnrelatedUntouched

-------------------------------------------------------------------------------
\* A run that has not begun to publish, or that was refused, owns no report.
Unpublished == {"new", "checked", "analyzing", "analyzed", "staging", "validating",
                "refused", "exit2"}

OwnsNothingEarly ==
    \A r \in Runs : pc[r] \in Unpublished => \A n \in Names \ {Log} : disk[n] # r

LEMMA EarlyInvariant == Spec => []OwnsNothingEarly
  <1>1. Init => OwnsNothingEarly
    BY DEF Init, OwnsNothingEarly
  <1>2. TypeOK /\ OwnsNothingEarly /\ [Next]_vars => OwnsNothingEarly'
    <2> SUFFICES ASSUME TypeOK, OwnsNothingEarly, [Next]_vars,
                        NEW q \in Runs, pc'[q] \in Unpublished,
                        NEW n \in Names \ {Log}
                 PROVE  disk'[n] # q
      BY DEF OwnsNothingEarly
    <2> USE DEF Goto, Unpublished, runVars, user
    <2>1. ASSUME NEW r \in Runs, NEW code \in {"exit2", "exit1", "exit0", "killed"},
                 End(r, code), pc[r] \in Unpublished \/ code # "exit2"
          PROVE  disk'[n] # q
      BY <2>1 DEF End, OwnsNothingEarly, TypeOK
    <2>2. ASSUME NEW r \in Runs,
                 Start(r) \/ Analyze(r) \/ BeginStaging(r) \/ Stage(r) \/ ValidateNext(r)
          PROVE  disk'[n] # q
      BY <2>1, <2>2 DEF Start, Analyze, BeginStaging, Stage, ValidateNext,
         OwnsNothingEarly, TypeOK
    <2>3. ASSUME NEW r \in Runs, OpenLog(r) PROVE disk'[n] # q
      BY <2>1, <2>3 DEF OpenLog, Put, OwnsNothingEarly, TypeOK
    <2>4. ASSUME NEW r \in Runs, BeginPublish(r) \/ BeginCleanup(r) PROVE disk'[n] # q
      BY <2>4 DEF BeginPublish, BeginCleanup, OwnsNothingEarly, TypeOK
    <2>5. ASSUME NEW r \in Runs, PublishNext(r) PROVE disk'[n] # q
      BY <2>1, <2>5 DEF PublishNext, Put, OwnsNothingEarly, TypeOK
    <2>6. ASSUME NEW r \in Runs, CleanNext(r) PROVE disk'[n] # q
      BY <2>6 DEF CleanNext, RemoveStale, Put, OwnsNothingEarly, TypeOK
    <2>7. ASSUME NEW r \in Runs, Finish(r) \/ Kill(r) PROVE disk'[n] # q
      BY <2>1, <2>7 DEF Finish, Kill
    <2>8. CASE UserEdit
      BY <2>8 DEF UserEdit, Put, Special, OwnsNothingEarly, TypeOK
    <2>9. CASE UNCHANGED vars
      BY <2>9 DEF vars, OwnsNothingEarly
    <2> QED
      BY <2>2, <2>3, <2>4, <2>5, <2>6, <2>7, <2>8, <2>9 DEF Next, Step
  <1> QED
    BY <1>1, <1>2, TypeCorrect, PTL DEF Spec

\* A run that ends with exit code 2 leaves every report alone, whatever other
\* runs and users do beside it.
THEOREM RefusalSafe == Spec => []RefusalLeavesReports
  <1>1. OwnsNothingEarly => RefusalLeavesReports
    BY DEF OwnsNothingEarly, RefusalLeavesReports, Unpublished
  <1> QED
    BY <1>1, EarlyInvariant, PTL

-------------------------------------------------------------------------------
(* One run at a time: ~Interference.                                       *)

\* No two runs are active.
OneActive ==
    \A q, r \in Runs : pc[q] \in Active /\ pc[r] \in Active => q = r

\* What the validation loop has established so far, and what the publication
\* loop relies on: staged artifacts not yet published have a safe destination.
ValidInv ==
    \A r \in Runs :
        /\ pc[r] = "validating" =>
              \A m \in staged[r] \ todo[r] : disk[m] \notin Special
        /\ pc[r] = "publishing" =>
              todo[r] = staged[r] /\ \A m \in staged[r] : disk[m] \notin Special

\* A report with this run's content is one the run has registered; what it is
\* about to remove is not its own; and without --overwrite the allowlisted
\* names hold nothing else than its own artifacts.
OwnInv ==
    \A r \in Runs :
        /\ pc[r] \in Active =>
              \A n \in Names \ {Log} : disk[n] = r => n \in published[r]
        /\ pc[r] = "cleaning" => todo[r] \intersect (published[r] \union {Log}) = {}
        /\ pc[r] \in Active /\ r \notin overwrite =>
              \A n \in Generated : disk[n] \in {Absent, Dangling, r}

SeqInv == OneActive /\ ValidInv /\ OwnInv

LEMMA SequentialInvariant ==
    ASSUME Interference = FALSE
    PROVE  Spec => []SeqInv
  <1>1. Init => SeqInv
    BY DEF Init, SeqInv, OneActive, ValidInv, OwnInv, Active
  <1>2. TypeOK /\ OwnsNothingEarly /\ SeqInv /\ [Next]_vars => SeqInv'
    <2> SUFFICES ASSUME TypeOK, OwnsNothingEarly, SeqInv, [Next]_vars PROVE SeqInv'
      OBVIOUS
    <2> USE DEF Goto, runVars, user
    <2>1. ASSUME NEW r \in Runs, NEW code \in Exited, End(r, code) PROVE SeqInv'
      <3>1. OneActive'
        BY <2>1 DEF End, SeqInv, OneActive, TypeOK, Active, Exited
      <3>2. ValidInv'
        BY <2>1 DEF End, SeqInv, ValidInv, TypeOK, Exited
      <3>3. OwnInv'
        BY <2>1 DEF End, SeqInv, OwnInv, TypeOK, Active, Exited
      <3> QED
        BY <3>1, <3>2, <3>3 DEF SeqInv
    <2>2. ASSUME NEW r \in Runs, Start(r) PROVE SeqInv'
      <3>1. OneActive'
        BY <2>2 DEF Start, Quiet, OneActive, TypeOK
      <3>2. ValidInv'
        BY <2>2 DEF Start, SeqInv, ValidInv, TypeOK
      <3>3. OwnInv'
        BY <2>2 DEF Start, SeqInv, OwnInv, OwnsNothingEarly, Unpublished, TypeOK,
           Active, Exists, Quiet
      <3> QED
        BY <3>1, <3>2, <3>3 DEF SeqInv
    <2>3. ASSUME NEW r \in Runs, OpenLog(r) PROVE SeqInv'
      <3>1. CASE End(r, "exit2")
        BY <2>1, <3>1 DEF Exited
      <3>2. CASE ~End(r, "exit2")
        <4>1. OneActive'
          BY <2>3, <3>2 DEF OpenLog, SeqInv, OneActive, TypeOK, Active
        <4>2. ValidInv'
          BY <2>3, <3>2, <4>1 DEF OpenLog, Put, SeqInv, OneActive, ValidInv, TypeOK, Active
        <4>3. OwnInv'
          BY <2>3, <3>2, <4>1 DEF OpenLog, Put, SeqInv, OneActive, OwnInv, TypeOK, Active
        <4> QED
          BY <4>1, <4>2, <4>3 DEF SeqInv
      <3> QED
        BY <3>1, <3>2
    <2>4. ASSUME NEW r \in Runs, Analyze(r) \/ BeginStaging(r) PROVE SeqInv'
      <3>1. CASE End(r, "exit2") \/ End(r, "exit1")
        BY <2>1, <3>1 DEF Exited
      <3>2. CASE ~End(r, "exit2") /\ ~End(r, "exit1")
        BY <2>4, <3>2 DEF Analyze, BeginStaging, SeqInv, OneActive, ValidInv, OwnInv,
           TypeOK, Active
      <3> QED
        BY <3>1, <3>2
    <2>5. ASSUME NEW r \in Runs, Stage(r) PROVE SeqInv'
      <3>1. CASE End(r, "exit1")
        BY <2>1, <3>1 DEF Exited
      <3>2. CASE ~End(r, "exit1")
        BY <2>5, <3>2 DEF Stage, FilesListed, SeqInv, OneActive, ValidInv, OwnInv, TypeOK, Active
      <3> QED
        BY <3>1, <3>2
    <2>6. ASSUME NEW r \in Runs, ValidateNext(r) PROVE SeqInv'
      <3>1. CASE End(r, "exit2")
        BY <2>1, <3>1 DEF Exited
      <3>2. CASE ~End(r, "exit2")
        BY <2>6, <3>2 DEF ValidateNext, Valid, Visited, SeqInv, OneActive, ValidInv,
           OwnInv, TypeOK, Active
      <3> QED
        BY <3>1, <3>2
    <2>7. ASSUME NEW r \in Runs, BeginPublish(r) PROVE SeqInv'
      BY <2>7 DEF BeginPublish, SeqInv, OneActive, ValidInv, OwnInv, TypeOK, Active
    <2>8. ASSUME NEW r \in Runs, PublishNext(r) PROVE SeqInv'
      <3>1. CASE End(r, "exit1")
        BY <2>1, <3>1 DEF Exited
      <3>2. CASE ~End(r, "exit1")
        <4>1. OneActive'
          BY <2>8, <3>2 DEF PublishNext, SeqInv, OneActive, TypeOK
        <4>2. ValidInv'
          <5>1. PICK n \in Names : IsNext(n, r) /\ disk' = [disk EXCEPT ![n] = r]
                   /\ todo' = [todo EXCEPT ![r] = todo[r] \ {n}]
                   /\ staged' = [staged EXCEPT ![r] = staged[r] \ {n}]
            BY <2>8, <3>2 DEF PublishNext, Put, Visited, TypeOK
          <5>2. pc[r] = "publishing" /\ UNCHANGED pc
            BY <2>8, <3>2 DEF PublishNext
          <5>3. \A q \in Runs : q # r => pc[q] \notin {"validating", "publishing"}
            BY <5>2 DEF SeqInv, OneActive, Active
          <5>4. todo'[r] = staged'[r] /\ \A m \in staged'[r] : disk'[m] \notin Special
            BY <5>1, <5>2 DEF SeqInv, ValidInv, TypeOK
          <5> QED
            BY <5>2, <5>3, <5>4 DEF ValidInv
        <4>3. OwnInv'
          BY <2>8, <3>2 DEF PublishNext, Put, Visited, SeqInv, OneActive, OwnInv,
             TypeOK, Active
        <4> QED
          BY <4>1, <4>2, <4>3 DEF SeqInv
      <3> QED
        BY <3>1, <3>2
    <2>9. ASSUME NEW r \in Runs, BeginCleanup(r) PROVE SeqInv'
      BY <2>9 DEF BeginCleanup, SeqInv, OneActive, ValidInv, OwnInv, TypeOK, Active
    <2>10. ASSUME NEW r \in Runs, CleanNext(r) PROVE SeqInv'
      <3>1. OneActive' /\ ValidInv'
        BY <2>10 DEF CleanNext, RemoveStale, Put, Visited, SeqInv, OneActive, ValidInv, TypeOK,
                     Active
      <3>2. OwnInv'
        BY <2>10 DEF CleanNext, RemoveStale, Put, Visited, SeqInv, OneActive, OwnInv, TypeOK, Active
      <3> QED
        BY <3>1, <3>2 DEF SeqInv
    <2>11. ASSUME NEW r \in Runs, Finish(r) \/ Kill(r) PROVE SeqInv'
      BY <2>1, <2>11 DEF Finish, Kill, Exited
    <2>12. CASE UserEdit
      BY <2>12 DEF UserEdit, Quiet, SeqInv, OneActive, ValidInv, OwnInv, Active
    <2>13. CASE UNCHANGED vars
      BY <2>13 DEF vars, SeqInv, OneActive, ValidInv, OwnInv
    <2> QED
      BY <2>2, <2>3, <2>4, <2>5, <2>6, <2>7, <2>8, <2>9, <2>10, <2>11, <2>12, <2>13
      DEF Next, Step
  <1> QED
    BY <1>1, <1>2, TypeCorrect, EarlyInvariant, PTL DEF Spec

\* With one run at a time, no report is replaced unless every artifact still to
\* be published has a safe destination: the validation loop precedes the first
\* os.replace.
THEOREM ValidationComesFirst ==
    ASSUME Interference = FALSE
    PROVE  Spec => ValidatedBeforeReplaced
  <1> DEFINE First ==
        \A n \in Names \ {Log} : \A r \in Runs : disk'[n] = r /\ disk[n] # r =>
            \A m \in staged[r] : disk[m] \notin Special
  <1>1. TypeOK /\ SeqInv /\ [Next]_vars => [First]_vars
    <2> SUFFICES ASSUME TypeOK, SeqInv, Next, NEW n \in Names \ {Log}, NEW r \in Runs,
                        disk'[n] = r, disk[n] # r
                 PROVE  \A m \in staged[r] : disk[m] \notin Special
      BY DEF vars
    <2>1. ~UserEdit
      BY DEF UserEdit, Put, TypeOK, Special
    <2>2. PICK q \in Runs : OpenLog(q) \/ PublishNext(q) \/ CleanNext(q)
      BY <2>1 DEF Next, Step, Start, Analyze, BeginStaging, Stage, ValidateNext,
         BeginPublish, BeginCleanup, Finish, Kill, End
    <2>3. PublishNext(q) /\ q = r
      BY <2>2 DEF OpenLog, PublishNext, CleanNext, RemoveStale, Put, End, TypeOK
    <2> QED
      BY <2>3 DEF PublishNext, SeqInv, ValidInv
  <1> QED
    BY <1>1, TypeCorrect, SequentialInvariant, PTL DEF Spec, ValidatedBeforeReplaced

\* With one run at a time, an existing entry under an allowlisted name changes
\* only under --overwrite: check_output_dir refuses the run otherwise, and
\* neither its publication nor its cleanup meets a foreign file.
THEOREM OverwriteIsExplicit ==
    ASSUME Interference = FALSE
    PROVE  Spec => NoSilentOverwrite
  <1> DEFINE Explicit ==
        \A n \in Generated \intersect ToolChanged : disk[n] # Absent =>
            \E r \in overwrite : pc[r] \in Active
  <1>1. TypeOK /\ SeqInv /\ [Next]_vars => [Explicit]_vars
    <2> SUFFICES ASSUME TypeOK, SeqInv, Next, NEW n \in Generated, n \in ToolChanged,
                        disk[n] # Absent
                 PROVE  \E r \in overwrite : pc[r] \in Active
      BY DEF vars
    <2>1. n \in Names /\ disk'[n] # disk[n] /\ edits' = edits
      BY DEF ToolChanged
    <2>2. ~UserEdit
      BY <2>1 DEF UserEdit, TypeOK
    <2>3. PICK r \in Runs : OpenLog(r) \/ PublishNext(r) \/ CleanNext(r)
      BY <2>1, <2>2 DEF Next, Step, Start, Analyze, BeginStaging, Stage, ValidateNext,
         BeginPublish, BeginCleanup, Finish, Kill, End
    <2>4. pc[r] \in Active
      BY <2>3 DEF OpenLog, PublishNext, CleanNext, RemoveStale, Active
    <2>5. ASSUME r \notin overwrite PROVE FALSE
      <3>1. disk[n] \in {Dangling, r}
        BY <2>4, <2>5 DEF SeqInv, OwnInv
      <3>2. CASE OpenLog(r)
        BY <2>1, <3>1, <3>2 DEF OpenLog, Put, Valid, End, Special, TypeOK
      <3>3. CASE PublishNext(r)
        BY <2>1, <3>1, <3>3 DEF PublishNext, IsNext, Put, End, SeqInv, ValidInv,
           Special, TypeOK
      <3>4. CASE CleanNext(r)
        <4>1. n \in todo[r] /\ disk[n] \in Runs \union {User}
          BY <2>1, <3>4 DEF CleanNext, RemoveStale, IsNext, Put, TypeOK
        <4>2. n # Log /\ n \in published[r]
          BY <2>4, <3>1, <3>4, <4>1 DEF CleanNext, RemoveStale, SeqInv, OwnInv
        <4> QED
          BY <3>4, <4>1, <4>2 DEF CleanNext, RemoveStale, SeqInv, OwnInv
      <3> QED
        BY <2>3, <3>2, <3>3, <3>4
    <2> QED
      BY <2>4, <2>5
  <1> QED
    BY <1>1, TypeCorrect, SequentialInvariant, PTL DEF Spec, NoSilentOverwrite

-------------------------------------------------------------------------------
(* One run at a time: what a success and a crash leave.                    *)

\* Runs start in their order, so the active one is the newest.
OrderInv ==
    /\ \A q, r \in Runs : pc[r] # "new" /\ q < r => pc[q] # "new"
    /\ \A q, r \in Runs : pc[r] \in Active /\ pc[q] # "new" => q <= r

\* The artifacts of a run are those its manifest lists and the manifest: staged,
\* then published one by one, and then in place until the run ends; and a report of
\* another run that is still there is yet to be visited or was skipped.
ProgressInv ==
    \A r \in Runs :
        /\ pc[r] \in {"new"} \union (Active \ {"publishing", "cleaning"}) => published[r] = {}
        /\ pc[r] \in {"validating", "publishing", "cleaning"} => Log \notin listed[r]
        /\ pc[r] = "validating" => staged[r] = listed[r] \union {Manifest}
        /\ pc[r] = "publishing" => staged[r] \union published[r] = listed[r] \union {Manifest}
        /\ pc[r] = "cleaning" =>
              /\ published[r] = listed[r] \union {Manifest}
              /\ \A n \in Generated \ {Log} :
                    disk[n] \in Runs \ {r} => n \in todo[r] \union skipped[r]
        /\ pc[r] \in Active => \A n \in published[r] : disk[n] = r

LEMMA OrderInvariant ==
    ASSUME Interference = FALSE
    PROVE  Spec => []OrderInv
  <1>1. Init => OrderInv
    BY DEF Init, OrderInv, Active
  <1>2. TypeOK /\ OrderInv /\ [Next]_vars => OrderInv'
    <2> SUFFICES ASSUME TypeOK, OrderInv, [Next]_vars PROVE OrderInv'
      OBVIOUS
    <2> USE DEF Goto, runVars, user
    <2>1. ASSUME NEW r \in Runs, Start(r) PROVE OrderInv'
      <3>1. /\ pc[r] = "new" /\ \A q \in Runs : q < r => pc[q] # "new"
            /\ \A q \in Runs : pc[q] \notin Active
            /\ \A q \in Runs : pc'[q] = IF q = r THEN pc'[r] ELSE pc[q]
            /\ pc'[r] # "new"
        BY <2>1 DEF Start, Quiet, TypeOK
      <3>2. \A q \in Runs : pc[q] # "new" => q < r
        BY <3>1, RunsAssumption DEF OrderInv
      <3> QED
        BY <3>1, <3>2, RunsAssumption DEF OrderInv
    <2>2. ASSUME NEW r \in Runs, NEW code \in Exited, End(r, code), pc[r] # "new"
          PROVE  OrderInv'
      BY <2>2 DEF End, OrderInv, TypeOK, Active, Exited
    <2>3. ASSUME NEW r \in Runs,
                 \/ OpenLog(r) \/ Analyze(r) \/ BeginStaging(r) \/ Stage(r)
                 \/ ValidateNext(r) \/ BeginPublish(r) \/ PublishNext(r) \/ BeginCleanup(r)
                 \/ CleanNext(r) \/ Finish(r) \/ Kill(r)
          PROVE  OrderInv'
      <3>1. pc[r] \in Active
        BY <2>3 DEF OpenLog, Analyze, BeginStaging, Stage, ValidateNext, BeginPublish,
           PublishNext, BeginCleanup, CleanNext, Finish, Kill, Active
      <3>2. \/ \E code \in Exited : End(r, code)
            \/ \E label \in Active : pc' = [pc EXCEPT ![r] = label]
            \/ pc' = pc
        BY <2>3 DEF OpenLog, Analyze, BeginStaging, Stage, ValidateNext, BeginPublish,
           PublishNext, BeginCleanup, CleanNext, Finish, Kill, Active, Exited
      <3> QED
        BY <2>2, <3>1, <3>2 DEF OrderInv, TypeOK, Active
    <2>4. CASE UserEdit \/ UNCHANGED vars
      BY <2>4 DEF UserEdit, vars, OrderInv
    <2> QED
      BY <2>1, <2>3, <2>4 DEF Next, Step
  <1> QED
    BY <1>1, <1>2, TypeCorrect, PTL DEF Spec

LEMMA ProgressInvariant ==
    ASSUME Interference = FALSE
    PROVE  Spec => []ProgressInv
  <1>1. Init => ProgressInv
    BY DEF Init, ProgressInv, Active
  <1>2. TypeOK /\ OwnsNothingEarly /\ SeqInv /\ ProgressInv /\ [Next]_vars => ProgressInv'
    <2> SUFFICES ASSUME TypeOK, OwnsNothingEarly, SeqInv, ProgressInv, [Next]_vars
                 PROVE  ProgressInv'
      OBVIOUS
    <2> USE DEF Goto, runVars, user
    <2>1. ASSUME NEW r \in Runs, NEW code \in Exited, End(r, code) PROVE ProgressInv'
      BY <2>1 DEF End, ProgressInv, TypeOK, Active, Exited
    <2>2. ASSUME NEW r \in Runs, Start(r) PROVE ProgressInv'
      BY <2>2 DEF Start, ProgressInv, TypeOK, Active
    <2>3. ASSUME NEW r \in Runs, OpenLog(r) PROVE ProgressInv'
      <3>1. CASE End(r, "exit2")
        BY <2>1, <3>1 DEF Exited
      <3>2. CASE ~End(r, "exit2")
        BY <2>3, <3>2 DEF OpenLog, Put, SeqInv, OneActive, ProgressInv, TypeOK, Active
      <3> QED
        BY <3>1, <3>2
    <2>4. ASSUME NEW r \in Runs, Analyze(r) \/ BeginStaging(r) PROVE ProgressInv'
      <3>1. CASE End(r, "exit2") \/ End(r, "exit1")
        BY <2>1, <3>1 DEF Exited
      <3>2. CASE ~End(r, "exit2") /\ ~End(r, "exit1")
        BY <2>4, <3>2 DEF Analyze, BeginStaging, ProgressInv, TypeOK, Active
      <3> QED
        BY <3>1, <3>2
    <2>5. ASSUME NEW r \in Runs, Stage(r) PROVE ProgressInv'
      <3>1. CASE End(r, "exit1")
        BY <2>1, <3>1 DEF Exited
      <3>2. CASE ~End(r, "exit1")
        <4>1. PICK chosen \in SUBSET Optional :
                /\ listed' = [listed EXCEPT ![r] = (Core \ {Manifest}) \union chosen]
                /\ staged' = [staged EXCEPT ![r] = Core \union chosen]
                /\ pc' = [pc EXCEPT ![r] = "validating"] /\ pc[r] = "staging"
                /\ UNCHANGED <<disk, published, skipped>>
          BY <2>5, <3>2 DEF Stage, FilesListed
        <4>2. /\ Core \union chosen = ((Core \ {Manifest}) \union chosen) \union {Manifest}
              /\ Log \notin (Core \ {Manifest}) \union chosen
          OBVIOUS
        <4>3. \A q \in Runs : q # r => /\ pc'[q] = pc[q] /\ listed'[q] = listed[q]
                                       /\ staged'[q] = staged[q] /\ todo'[q] = todo[q]
          BY <2>5, <3>2, <4>1 DEF Stage, TypeOK
        <4>4. /\ pc'[r] = "validating" /\ published'[r] = {}
              /\ staged'[r] = listed'[r] \union {Manifest} /\ Log \notin listed'[r]
          BY <4>1, <4>2 DEF ProgressInv, TypeOK, Active
        <4> QED
          BY <4>1, <4>3, <4>4 DEF ProgressInv
      <3> QED
        BY <3>1, <3>2
    <2>6. ASSUME NEW r \in Runs, ValidateNext(r) PROVE ProgressInv'
      <3>1. CASE End(r, "exit2")
        BY <2>1, <3>1 DEF Exited
      <3>2. CASE ~End(r, "exit2")
        BY <2>6, <3>2 DEF ValidateNext, Visited, ProgressInv, TypeOK
      <3> QED
        BY <3>1, <3>2
    <2>7. ASSUME NEW r \in Runs, BeginPublish(r) PROVE ProgressInv'
      BY <2>7 DEF BeginPublish, ProgressInv, TypeOK, Active
    <2>8. ASSUME NEW r \in Runs, PublishNext(r) PROVE ProgressInv'
      <3>1. CASE End(r, "exit1")
        BY <2>1, <3>1 DEF Exited
      <3>2. CASE ~End(r, "exit1")
        BY <2>8, <3>2 DEF PublishNext, IsNext, Put, Visited, SeqInv, OneActive, ValidInv,
           ProgressInv, TypeOK, Active
      <3> QED
        BY <3>1, <3>2
    <2>9. ASSUME NEW r \in Runs, BeginCleanup(r) PROVE ProgressInv'
      BY <2>9 DEF BeginCleanup, SeqInv, ValidInv, ProgressInv, TypeOK, Active
    <2>10. ASSUME NEW r \in Runs, CleanNext(r) PROVE ProgressInv'
      BY <2>10 DEF CleanNext, RemoveStale, IsNext, Put, Visited, SeqInv, OneActive, OwnInv,
         ProgressInv, TypeOK, Active
    <2>11. ASSUME NEW r \in Runs, Finish(r) \/ Kill(r) PROVE ProgressInv'
      BY <2>1, <2>11 DEF Finish, Kill, Exited
    <2>12. CASE UserEdit
      BY <2>12 DEF UserEdit, Quiet, ProgressInv, Active
    <2>13. CASE UNCHANGED vars
      BY <2>13 DEF vars, ProgressInv
    <2> QED
      BY <2>2, <2>3, <2>4, <2>5, <2>6, <2>7, <2>8, <2>9, <2>10, <2>11, <2>12, <2>13
      DEF Next, Step
  <1> QED
    BY <1>1, <1>2, TypeCorrect, EarlyInvariant, SequentialInvariant, PTL DEF Spec

\* With one run at a time, a successful run leaves all its artifacts in place: its
\* cleanup removes none of them, and its manifest is the one on disk.
THEOREM SuccessIsComplete ==
    ASSUME Interference = FALSE
    PROVE  Spec => ArtifactsComplete
  <1> DEFINE Complete ==
        \A r \in Runs : pc[r] = "cleaning" /\ pc'[r] = "exit0" =>
            \A n \in listed[r] \union {Manifest} : disk[n] = r
  <1>1. ProgressInv => Complete
    BY DEF ProgressInv, Active
  <1> QED
    BY <1>1, ProgressInvariant, PTL DEF ArtifactsComplete

\* With one run at a time, a report of another run under an allowlisted name survives
\* a success only if the cleanup reported that it could not remove it.
THEOREM SuccessIsFresh ==
    ASSUME Interference = FALSE
    PROVE  Spec => FreshAfterSuccess
  <1> DEFINE Fresh ==
        \A r \in Runs : pc[r] = "cleaning" /\ pc'[r] = "exit0" =>
            \A n \in Generated \ {Log} : disk[n] \in Runs \ {r} => n \in skipped[r]
  <1>1. TypeOK /\ ProgressInv /\ [Next]_vars => [Fresh]_vars
    <2> SUFFICES ASSUME TypeOK, ProgressInv, Next, NEW r \in Runs,
                        pc[r] = "cleaning", pc'[r] = "exit0",
                        NEW n \in Generated \ {Log}, disk[n] \in Runs \ {r}
                 PROVE  n \in skipped[r]
      BY DEF vars
    <2>1. Finish(r)
      <3>1. PICK q \in Runs : Step(q) \/ Kill(q)
        BY DEF Next, UserEdit, runVars
      <3>2. q = r
        BY <3>1 DEF Step, Start, OpenLog, Analyze, BeginStaging, Stage, ValidateNext,
           BeginPublish, PublishNext, BeginCleanup, CleanNext, Finish, Kill, End, Goto, runVars,
           TypeOK
      <3> QED
        BY <3>1, <3>2 DEF Step, Start, OpenLog, Analyze, BeginStaging, Stage, ValidateNext,
           BeginPublish, PublishNext, BeginCleanup, CleanNext, Finish, Kill, End, Goto, TypeOK
    <2> QED
      BY <2>1 DEF Finish, ProgressInv
  <1> QED
    BY <1>1, TypeCorrect, ProgressInvariant, PTL DEF Spec, FreshAfterSuccess

LEMMA ManifestStep ==
    ASSUME Interference = FALSE, TypeOK, OwnsNothingEarly, SeqInv, OrderInv, ProgressInv,
           ManifestNotAhead, [Next]_vars
    PROVE  ManifestNotAhead'
  <1> USE RunsAssumption DEF Goto, runVars
  <1>2. ASSUME NEW r \in Runs, NEW code \in Exited, End(r, code)
        PROVE  ManifestNotAhead'
    BY <1>2 DEF End, ManifestNotAhead, TypeOK
  \* A run that is active is not older than the run of the manifest.
  <1>3. ASSUME NEW r \in Runs, pc[r] \in Active, disk[Manifest] \in Runs
        PROVE  r >= disk[Manifest]
    BY <1>3 DEF OrderInv, OwnsNothingEarly, Unpublished
  <1>4. ASSUME NEW r \in Runs, OpenLog(r) PROVE ManifestNotAhead'
    <2>1. CASE End(r, "exit2")
      BY <1>2, <2>1 DEF Exited
    <2>2. CASE ~End(r, "exit2")
      <3>1. /\ listed' = listed /\ pc[r] \in Active
            /\ disk' = [disk EXCEPT ![Log] = r] \/ disk' = disk
        BY <1>4, <2>2 DEF OpenLog, Put, Active
      <3> QED
        BY <1>3, <3>1 DEF ManifestNotAhead, TypeOK
    <2> QED
      BY <2>1, <2>2
  <1>5. ASSUME NEW r \in Runs, Stage(r) PROVE ManifestNotAhead'
    <2>1. CASE End(r, "exit1")
      BY <1>2, <2>1 DEF Exited
    <2>2. CASE ~End(r, "exit1")
      <3>1. disk' = disk /\ \A q \in Runs : q # r => listed'[q] = listed[q]
        BY <1>5, <2>2 DEF Stage, TypeOK
      <3>2. disk[Manifest] # r
        BY <1>5 DEF Stage, OwnsNothingEarly, Unpublished
      <3> QED
        BY <3>1, <3>2 DEF ManifestNotAhead
    <2> QED
      BY <2>1, <2>2
  <1>6. ASSUME NEW r \in Runs, PublishNext(r) PROVE ManifestNotAhead'
    <2>1. CASE End(r, "exit1")
      BY <1>2, <2>1 DEF Exited
    <2>2. CASE ~End(r, "exit1")
      <3>1. PICK k \in Names : IsNext(k, r) /\ disk' = [disk EXCEPT ![k] = r] /\ listed' = listed
        BY <1>6, <2>2 DEF PublishNext, Put
      <3>2. pc[r] = "publishing" /\ pc[r] \in Active
        BY <1>6 DEF PublishNext, Active
      <3>3. CASE k = Manifest
        <4>1. SUFFICES ASSUME NEW n \in listed[r], Rank[n] < Rank[Manifest]
                       PROVE  disk'[n] = r
          BY <3>1, <3>3 DEF ManifestNotAhead, TypeOK
        <4>2. n \in Names /\ n \notin todo[r]
          BY <3>1, <3>3, <4>1 DEF IsNext, TypeOK
        <4>3. n \in published[r]
          BY <3>2, <4>1, <4>2 DEF SeqInv, ValidInv, ProgressInv
        <4> QED
          BY <3>1, <3>2, <4>2, <4>3 DEF ProgressInv, TypeOK
      <3>4. CASE k # Manifest
        BY <1>3, <3>1, <3>2, <3>4 DEF ManifestNotAhead, TypeOK
      <3> QED
        BY <3>3, <3>4
    <2> QED
      BY <2>1, <2>2
  <1>7. ASSUME NEW r \in Runs, CleanNext(r) PROVE ManifestNotAhead'
    BY <1>7 DEF CleanNext, RemoveStale, Put, ManifestNotAhead, TypeOK
  <1>8. ASSUME UserEdit PROVE ManifestNotAhead'
    BY <1>8 DEF UserEdit, Put, Special, ManifestNotAhead, TypeOK
  <1>9. ASSUME UNCHANGED <<disk, listed>> PROVE ManifestNotAhead'
    BY <1>9 DEF ManifestNotAhead
  <1>10. ASSUME NEW r \in Runs,
                \/ Start(r) \/ Analyze(r) \/ BeginStaging(r) \/ ValidateNext(r)
                \/ BeginPublish(r) \/ BeginCleanup(r) \/ Finish(r) \/ Kill(r)
         PROVE  ManifestNotAhead'
    BY <1>2, <1>9, <1>10 DEF Start, Analyze, BeginStaging, ValidateNext, BeginPublish,
       BeginCleanup, Finish, Kill, Exited
  <1> QED
    BY <1>4, <1>5, <1>6, <1>7, <1>8, <1>9, <1>10 DEF Next, Step, vars

\* With one run at a time, a report that sorts before the manifest is never older than
\* the run the manifest names, even after crashes and failed renames.
THEOREM ManifestIsLast ==
    ASSUME Interference = FALSE
    PROVE  Spec => []ManifestNotAhead
  <1>1. Init => ManifestNotAhead
    BY DEF Init, ManifestNotAhead
  <1>2. /\ TypeOK /\ OwnsNothingEarly /\ SeqInv /\ OrderInv /\ ProgressInv
        /\ ManifestNotAhead /\ [Next]_vars
        => ManifestNotAhead'
    BY ManifestStep
  <1> QED
    BY <1>1, <1>2, TypeCorrect, EarlyInvariant, SequentialInvariant, OrderInvariant,
       ProgressInvariant, PTL DEF Spec
===============================================================================
