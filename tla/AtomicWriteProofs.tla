--------------------------- MODULE AtomicWriteProofs ---------------------------
(***************************************************************************)
(* For any set of concurrent calls: type correctness, who may leave a      *)
(* temporary file, no torn file while fsync works, and the implementation  *)
(* of AtomicFile by AtomicWrite.                                           *)
(***************************************************************************)
EXTENDS AtomicWrite, TLAPS

-------------------------------------------------------------------------------
\* Every variable keeps its type (the values the calls of output_safety pass
\* around).
THEOREM TypeCorrect == Spec => []TypeOK
  <1>1. Init => TypeOK
    BY DEF Init, TypeOK, Entry, Content, Special, Running, OnTheWay
  <1>2. TypeOK /\ [Next]_vars => TypeOK'
    <2> SUFFICES ASSUME TypeOK, [Next]_vars PROVE TypeOK'
      OBVIOUS
    <2> USE DEF TypeOK, Goto, Running, OnTheWay, Handlers, Ended, history
    <2>1. ASSUME NEW w \in Writers, NEW l \in Running \union Ended, Raise(w, l) PROVE TypeOK'
      BY <2>1 DEF Raise
    <2>2. ASSUME NEW w \in Writers, Fsync(w) PROVE synced' \subseteq Writers
      BY <2>2 DEF Fsync
    <2>3. ASSUME NEW w \in Writers, Validate(w) PROVE TypeOK'
      BY <2>1, <2>3 DEF Validate
    <2>4. ASSUME NEW w \in Writers, CreateTemp(w) PROVE TypeOK'
      BY <2>1, <2>4 DEF CreateTemp
    <2>5. ASSUME NEW w \in Writers, WriteContent(w) PROVE TypeOK'
      BY <2>1, <2>2, <2>5 DEF WriteContent
    <2>6. ASSUME NEW w \in Writers, Recheck(w) PROVE TypeOK'
      BY <2>1, <2>2, <2>6 DEF Recheck
    <2>7. ASSUME NEW w \in Writers, Replace(w) PROVE TypeOK'
      BY <2>1, <2>7 DEF Replace, Entry, Content
    <2>8. ASSUME NEW w \in Writers, Return(w) PROVE TypeOK'
      BY <2>8 DEF Return
    <2>9. ASSUME NEW w \in Writers, Interrupt(w) PROVE TypeOK'
      BY <2>1, <2>9 DEF Interrupt, Caught
    <2>10. ASSUME NEW w \in Writers, Crash(w) PROVE TypeOK'
      BY <2>10 DEF Crash
    <2>11. ASSUME Meddle PROVE TypeOK'
      BY <2>11 DEF Meddle, Entry, Special
    <2>12. ASSUME Settle PROVE TypeOK'
      BY <2>12 DEF Settle
    <2>13. ASSUME PowerLoss PROVE TypeOK'
      BY <2>13 DEF PowerLoss
    <2>14. CASE UNCHANGED vars
      BY <2>14 DEF vars
    <2>15. ASSUME NEW w \in Writers, Cleanup(w) PROVE TypeOK'
      BY <2>15 DEF Cleanup
    <2> QED
      BY <2>3, <2>4, <2>5, <2>6, <2>7, <2>8, <2>9, <2>10, <2>11, <2>12, <2>13,
         <2>14, <2>15
      DEF Next, Step
  <1> QED
    BY <1>1, <1>2, PTL DEF Spec

-------------------------------------------------------------------------------
\* A call that returned has no temporary file, and one that raised leaves its
\* file only if every unlink its handlers tried failed, or it ended before the
\* try block that owns the file (atomic_replace_file and the except branches
\* of atomic_write_text).  An invariant of its own says that no unlink has been
\* tried before the handlers.
NothingTried == \A w \in Writers : pc[w] \in OnTheWay => unlinks[w] = {}

\* In the outer handler, the unlink of the inner one worked or the file is there
\* for nothing else than its failure.
TriedSoFar ==
    \A w \in Writers : temp[w] # "none" /\ pc[w] \in Handlers => unlinks[w] \subseteq {"left"}

THEOREM NoTempLeak == Spec => []NoTempLeft
  <1> DEFINE Inv == NoTempLeft /\ NothingTried /\ TriedSoFar
  <1>1. Init => Inv
    BY DEF Init, NoTempLeft, NothingTried, TriedSoFar
  <1>2. TypeOK /\ Inv /\ [Next]_vars => Inv'
    <2> SUFFICES ASSUME TypeOK, Inv, [Next]_vars PROVE Inv'
      OBVIOUS
    <2> USE DEF TypeOK, NoTempLeft, MayLeave, NothingTried, TriedSoFar, Goto, history,
            Running, OnTheWay, Handlers
    <2>1. ASSUME NEW w \in Writers, NEW l \in Handlers \union {"leaked"}, Raise(w, l),
                 pc[w] \in OnTheWay \union {"replaced"}
          PROVE  Inv'
      BY <2>1 DEF Raise
    <2>2. ASSUME NEW w \in Writers, Raise(w, "failed"), pc[w] \in {"begin", "checked"}
          PROVE  Inv'
      BY <2>2 DEF Raise
    <2>3. ASSUME NEW w \in Writers, Validate(w) \/ CreateTemp(w)
          PROVE  Inv'
      BY <2>2, <2>3 DEF Validate, CreateTemp
    <2>4. ASSUME NEW w \in Writers, WriteContent(w) \/ Recheck(w) PROVE Inv'
      BY <2>1, <2>4 DEF WriteContent, Recheck
    <2>5. ASSUME NEW w \in Writers, Return(w) PROVE Inv'
      BY <2>5 DEF Return
    <2>6. ASSUME NEW w \in Writers, Replace(w) PROVE Inv'
      BY <2>1, <2>6 DEF Replace
    <2>7. ASSUME NEW w \in Writers, Interrupt(w) PROVE Inv'
      BY <2>1, <2>2, <2>7 DEF Interrupt, Caught
    <2>8. ASSUME NEW w \in Writers, Crash(w) PROVE Inv'
      BY <2>8 DEF Crash
    <2>9. ASSUME NEW w \in Writers, Cleanup(w) PROVE Inv'
      <3>1. CASE temp' = [temp EXCEPT ![w] = "none"]
        BY <2>9, <3>1 DEF Cleanup
      <3>2. CASE temp' = temp /\ unlinks' = [unlinks EXCEPT ![w] = @ \union {"left"}]
        BY <2>9, <3>2 DEF Cleanup
      <3> QED
        BY <2>9, <3>1, <3>2 DEF Cleanup
    <2>10. CASE Meddle \/ Settle \/ PowerLoss \/ UNCHANGED vars
      BY <2>10 DEF Meddle, Settle, PowerLoss, vars
    <2> QED
      BY <2>3, <2>4, <2>5, <2>6, <2>7, <2>8, <2>9, <2>10 DEF Next, Step
  <1> QED
    BY <1>1, <1>2, TypeCorrect, PTL DEF Spec

\* While a file is torn, or may become so in a power failure, some temporary
\* file was published of which no fsync worked: atomic_write_text's "write,
\* fsync, rename".  It rests on PublishedPassed: a published call is past its
\* fsyncs, which could still come for one that is not.
PublishedPassed == \A w \in published : pc[w] \notin OnTheWay

LEMMA PublishedStays ==
    ASSUME TypeOK, PublishedPassed, [Next]_vars
    PROVE  PublishedPassed'
  <1> USE DEF TypeOK, PublishedPassed, Goto, history, Running, OnTheWay, Handlers, Ended
  <1>1. ASSUME NEW w \in Writers, NEW l \in Handlers \union Ended, Raise(w, l)
        PROVE  PublishedPassed'
    BY <1>1 DEF Raise
  <1>2. ASSUME NEW w \in Writers, Validate(w) \/ CreateTemp(w) PROVE PublishedPassed'
    BY <1>1, <1>2 DEF Validate, CreateTemp
  <1>3. ASSUME NEW w \in Writers, WriteContent(w) \/ Recheck(w) PROVE PublishedPassed'
    BY <1>1, <1>3 DEF WriteContent, Recheck
  <1>4. ASSUME NEW w \in Writers, Return(w) \/ Cleanup(w) PROVE PublishedPassed'
    BY <1>4 DEF Return, Cleanup
  <1>5. ASSUME NEW w \in Writers, Replace(w) PROVE PublishedPassed'
    BY <1>1, <1>5 DEF Replace
  <1>6. ASSUME NEW w \in Writers, Interrupt(w) \/ Crash(w) PROVE PublishedPassed'
    BY <1>1, <1>6 DEF Interrupt, Caught, Crash
  <1>7. CASE Meddle \/ Settle \/ PowerLoss \/ UNCHANGED vars
    BY <1>7 DEF Meddle, Settle, PowerLoss, vars
  <1> QED
    BY <1>2, <1>3, <1>4, <1>5, <1>6, <1>7 DEF Next, Step

\* What a step does to the sets of published and synced writers.
LEMMA SyncedOnTheWay ==
    ASSUME TypeOK, [Next]_vars, NEW w \in Writers, w \notin synced,
           pc[w] \notin OnTheWay
    PROVE  w \notin synced'
  BY DEF TypeOK, Next, Step, Validate, CreateTemp, WriteContent, Recheck, Replace,
     Return, Cleanup, Interrupt, Crash, Meddle, Settle, PowerLoss, Raise, Goto,
     Fsync, history, vars, OnTheWay

THEOREM TornNeedsLostSync == Spec => []TornOnlyUnsynced
  <1> DEFINE Inv == TornOnlyUnsynced /\ PublishedPassed
  <1>1. Init => Inv
    BY DistinctEntries DEF Init, TornOnlyUnsynced, PublishedPassed, Special
  <1>2. TypeOK /\ Inv /\ [Next]_vars => Inv'
    <2> SUFFICES ASSUME TypeOK, Inv, [Next]_vars, Torn \in ({entry} \union durable)'
                 PROVE  (published \ synced # {})'
      BY PublishedStays DEF TornOnlyUnsynced
    <2>1. ASSUME Torn \in {entry} \union durable
          PROVE  (published \ synced # {})'
      <3>1. PICK w \in published : w \notin synced /\ pc[w] \notin OnTheWay
        BY <2>1 DEF TornOnlyUnsynced, PublishedPassed
      <3>2. w \notin synced'
        BY <3>1, SyncedOnTheWay DEF TypeOK
      <3>3. w \in published'
        BY <3>1 DEF Next, Step, Validate, CreateTemp, WriteContent, Recheck, Replace,
           Return, Cleanup, Interrupt, Crash, Meddle, Settle, PowerLoss, Raise,
           history, vars
      <3> QED
        BY <3>2, <3>3
    <2>2. ASSUME Torn \notin {entry} \union durable
          PROVE  (published \ synced # {})'
      <3>1. PICK w \in Writers : Replace(w) /\ entry' = w
        BY <2>2, DistinctEntries DEF Next, Step, Validate, CreateTemp, WriteContent,
           Recheck, Return, Cleanup, Interrupt, Crash, Meddle, Settle, PowerLoss,
           Raise, Replace, vars, Special
      <3>2. ~Raise(w, "inner")
        BY <2>2, <3>1 DEF Raise
      <3>3. w \notin synced' /\ w \in published'
        BY <2>2, <3>1, <3>2, DistinctEntries DEF Replace
      <3> QED
        BY <3>3
    <2> QED
      BY <2>1, <2>2
  <1> QED
    BY <1>1, <1>2, TypeCorrect, PTL DEF Spec

-------------------------------------------------------------------------------
\* When fsync works, a call about to rename has synced its file; and a call
\* about to return has renamed it.
SyncedBeforeRename ==
    /\ \A w \in Writers : pc[w] \in {"written", "rechecked"} => w \in synced
    /\ \A w \in Writers : pc[w] = "replaced" => w \in published

\* With an fsync that works, atomic_write_text implements AtomicFile: each call
\* takes effect at its os.replace, entirely or not at all, and a power failure
\* brings back complete contents only.
THEOREM AtomicWriteRefines ==
    ASSUME FsyncMayFail = FALSE
    PROVE  Spec => ImplementsAtomicFile
  <1> DEFINE Inv == SyncedBeforeRename /\ PublishedPassed
  <1>1. Init => AF!Init
    BY DEF Init, AF!Init, AF!Special, Special, OutcomeOf, Running, OnTheWay
  <1>2. Init => Inv
    BY DEF Init, SyncedBeforeRename, PublishedPassed
  <1>3. TypeOK /\ Inv /\ [Next]_vars => Inv'
    <2> SUFFICES ASSUME TypeOK, Inv, [Next]_vars PROVE SyncedBeforeRename'
      BY PublishedStays
    <2> QED
      BY DEF TypeOK, SyncedBeforeRename, Next, Step, Validate, CreateTemp,
       WriteContent, Recheck, Replace, Return, Cleanup, Interrupt, Caught, Crash,
       Meddle, Settle, PowerLoss, Raise, Goto, Fsync, history, vars, Running,
       OnTheWay, Handlers, Ended
  <1>4. TypeOK /\ Inv /\ [Next]_vars => [AF!Next]_(AF!vars)
    <2> SUFFICES ASSUME TypeOK, Inv, [Next]_vars
                 PROVE  [AF!Next]_(AF!vars)
      OBVIOUS
    <2> DEFINE oc == [w \in Writers |-> OutcomeOf(w)]
    <2> USE DEF TypeOK, Goto, Running, OnTheWay, Handlers, Ended, history, OutcomeOf
    <2>1. ASSUME NEW w \in Writers, Raise(w, "failed"), pc[w] \in OnTheWay PROVE AF!Fail(w)
      BY <2>1 DEF Raise, AF!Fail, Inv, PublishedPassed
    <2>2. ASSUME NEW w \in Writers, Raise(w, "leaked"), pc[w] \in OnTheWay PROVE AF!Fail(w)
      BY <2>2 DEF Raise, AF!Fail, Inv, PublishedPassed
    <2>3. ASSUME NEW w \in Writers, NEW l \in Handlers, Raise(w, l), pc[w] \in Running
          PROVE  UNCHANGED AF!vars
      BY <2>3 DEF Raise, AF!vars
    <2>4. ASSUME NEW w \in Writers, Validate(w) PROVE [AF!Next]_(AF!vars)
      <3>1. CASE Raise(w, "failed")
        BY <2>1, <2>4, <3>1 DEF Validate, AF!Next
      <3>2. CASE ~Raise(w, "failed")
        BY <2>4, <3>2 DEF Validate, AF!vars
      <3> QED
        BY <3>1, <3>2
    <2>5. ASSUME NEW w \in Writers, CreateTemp(w) PROVE [AF!Next]_(AF!vars)
      <3>1. CASE Raise(w, "failed")
        BY <2>1, <2>5, <3>1 DEF CreateTemp, AF!Next
      <3>2. CASE ~Raise(w, "failed")
        BY <2>5, <3>2 DEF CreateTemp, AF!vars
      <3> QED
        BY <3>1, <3>2
    <2>6. ASSUME NEW w \in Writers, WriteContent(w) PROVE [AF!Next]_(AF!vars)
      <3>1. CASE Raise(w, "leaked")
        BY <2>2, <2>6, <3>1 DEF WriteContent, AF!Next
      <3>2. CASE Raise(w, "outer")
        BY <2>3, <2>6, <3>2 DEF WriteContent
      <3>3. CASE ~Raise(w, "leaked") /\ ~Raise(w, "outer")
        BY <2>6, <3>3 DEF WriteContent, AF!vars
      <3> QED
        BY <3>1, <3>2, <3>3
    <2>7. ASSUME NEW w \in Writers, Recheck(w) PROVE [AF!Next]_(AF!vars)
      <3>1. CASE Raise(w, "inner")
        BY <2>3, <2>7, <3>1 DEF Recheck
      <3>2. CASE ~Raise(w, "inner")
        BY <2>7, <3>2 DEF Recheck, AF!vars
      <3> QED
        BY <3>1, <3>2
    <2>8. ASSUME NEW w \in Writers, Replace(w) PROVE [AF!Next]_(AF!vars)
      <3>1. CASE Raise(w, "inner")
        BY <2>3, <2>8, <3>1 DEF Replace
      <3>2. CASE ~Raise(w, "inner")
        <4>1. w \in synced /\ w \notin published
          BY <2>8 DEF Replace, SyncedBeforeRename, PublishedPassed
        <4>2. AF!Commit(w)
          <5>1. /\ entry # Directory /\ entry' = w
                /\ durable' = durable \union {w}
                /\ pc' = [pc EXCEPT ![w] = "replaced"]
                /\ published' = published \union {w}
                /\ pc[w] = "rechecked"
            BY <2>8, <3>2, <4>1 DEF Replace
          <5>2. oc[w] = "pending" /\ oc'[w] = "committed"
            BY <4>1, <5>1
          <5>3. \A v \in Writers \ {w} : oc'[v] = oc[v]
            BY <5>1
          <5>4. oc' = [oc EXCEPT ![w] = "committed"]
            <6> HIDE DEF OutcomeOf
            <6>1. oc = [v \in Writers |-> oc[v]] /\ oc' = [v \in Writers |-> oc'[v]]
              OBVIOUS
            <6> HIDE DEF oc
            <6> QED
              BY <5>2, <5>3, <6>1
          <5> QED
            BY <5>1, <5>2, <5>4 DEF AF!Commit
        <4> QED
          BY <4>2 DEF AF!Next
      <3> QED
        BY <3>1, <3>2
    <2>9. ASSUME NEW w \in Writers, Return(w) PROVE [AF!Next]_(AF!vars)
      <3>1. AF!Return(w)
        BY <2>9 DEF Return, AF!Return, SyncedBeforeRename
      <3> QED
        BY <3>1 DEF AF!Next
    <2>10. ASSUME NEW w \in Writers, Cleanup(w) PROVE [AF!Next]_(AF!vars)
      <3>1. CASE pc[w] = "inner"
        BY <2>10, <3>1 DEF Cleanup, AF!vars
      <3>2. CASE pc[w] = "outer"
        <4>1. AF!Fail(w)
          BY <2>10, <3>2 DEF Cleanup, AF!Fail
        <4> QED
          BY <4>1 DEF AF!Next
      <3> QED
        BY <2>10, <3>1, <3>2 DEF Cleanup
    <2>11. ASSUME NEW w \in Writers, Interrupt(w) PROVE [AF!Next]_(AF!vars)
      <3>1. PICK l \in Caught(pc[w]) : Raise(w, l)
        BY <2>11 DEF Interrupt
      <3>2. CASE l \in Handlers
        BY <2>3, <2>11, <3>1, <3>2 DEF Interrupt
      <3>3. CASE l \notin Handlers
        <4>1. l \in {"failed", "leaked"} /\ pc[w] \in OnTheWay
          BY <2>11, <3>1, <3>3 DEF Interrupt, Caught
        <4> QED
          BY <2>1, <2>2, <3>1, <4>1 DEF AF!Next
      <3> QED
        BY <3>2, <3>3
    <2>12. ASSUME NEW w \in Writers, Crash(w) PROVE [AF!Next]_(AF!vars)
      <3>1. AF!Die(w)
        BY <2>12 DEF Crash, AF!Die
      <3> QED
        BY <3>1 DEF AF!Next
    <2>13. ASSUME Meddle PROVE [AF!Next]_(AF!vars)
      BY <2>13 DEF Meddle, AF!Meddle, AF!Next, AF!Special, Special
    <2>14. ASSUME Settle PROVE [AF!Next]_(AF!vars)
      BY <2>14 DEF Settle, AF!Settle, AF!Next
    <2>15. ASSUME PowerLoss PROVE [AF!Next]_(AF!vars)
      <3>1. AF!PowerLoss
        BY <2>15 DEF PowerLoss, AF!PowerLoss
      <3> QED
        BY <3>1 DEF AF!Next
    <2>16. CASE UNCHANGED vars
      BY <2>16 DEF vars, AF!vars
    <2> QED
      BY <2>4, <2>5, <2>6, <2>7, <2>8, <2>9, <2>10, <2>11, <2>12, <2>13, <2>14,
         <2>15, <2>16
      DEF Next, Step
  <1> QED
    BY <1>1, <1>2, <1>3, <1>4, TypeCorrect, PTL
    DEF Spec, ImplementsAtomicFile, AF!Spec
===============================================================================
