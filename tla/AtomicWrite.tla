------------------------------ MODULE AtomicWrite -----------------------------
(***************************************************************************)
(* output_safety.atomic_write_text / atomic_write_bytes as the sequence of *)
(* file-system calls it makes: validate the destination, create a private  *)
(* temporary file, write and fsync it, validate again, fsync again, rename *)
(* it over the destination.  Several calls may run at once (two            *)
(* invocations of the tool on one output directory), any call may raise,   *)
(* the unlinks of the two except branches included, be interrupted         *)
(* (KeyboardInterrupt is a BaseException) or be killed, and the machine    *)
(* may lose power.                                                         *)
(***************************************************************************)
EXTENDS FiniteSets

CONSTANTS
    Writers,         \* calls of atomic_write_text, each with its own content
    Old,             \* content of the destination before any call
    Absent, Directory, Link,
    Torn,            \* a file whose data did not reach the disk
    FsyncMayFail     \* whether os.fsync may raise (the code ignores it)

ASSUME FsyncMayFailAssumption == FsyncMayFail \in BOOLEAN
ASSUME DistinctEntries ==
    /\ Old \notin Writers /\ Absent \notin Writers
    /\ Torn \notin Writers \union {Old, Absent, Directory, Link}
    /\ Directory \notin Writers \union {Old, Absent, Link}
    /\ Link \notin Writers \union {Old, Absent}

Special == {Directory, Link}
Content == Writers \union {Old}
Entry   == Content \union Special \union {Absent, Torn}

VARIABLES
    entry,       \* the directory entry at the destination
    durable,     \* entries a power failure may bring back
    pc,          \* writer -> the next step of its call
    temp,        \* writer -> its .nfa-tmp- file: "none", "empty" or "full"
    synced,      \* writers whose temporary file reached the disk
    published,   \* history: the writers that renamed
    unlinks      \* history: writer -> how the unlinks it came to ended

history == <<published, unlinks>>
vars == <<entry, durable, pc, temp, synced, published, unlinks>>

\* The labels name the last step done; "inner" and "outer" are the except
\* branches of atomic_replace_file and of atomic_write_text around it.
OnTheWay == {"begin", "checked", "created", "written", "rechecked"}
Handlers == {"inner", "outer"}
Running  == OnTheWay \union {"replaced"} \union Handlers
Ended    == {"ok", "failed", "leaked", "dead"}

TypeOK ==
    /\ entry \in Entry
    /\ durable \subseteq Entry
    /\ pc \in [Writers -> Running \union Ended]
    /\ temp \in [Writers -> {"none", "empty", "full"}]
    /\ synced \subseteq Writers
    /\ published \subseteq Writers
    /\ unlinks \in [Writers -> SUBSET {"done", "left"}]

Init ==
    /\ entry \in {Old, Absent} \union Special
    /\ durable = {entry}
    /\ pc = [w \in Writers |-> "begin"]
    /\ temp = [w \in Writers |-> "none"]
    /\ synced = {}
    /\ published = {}
    /\ unlinks = [w \in Writers |-> {}]

-------------------------------------------------------------------------------
(* Mutants of the steps below: bugs the properties must notice.            *)

\* "except Exception": an interrupt passes both handlers by.
Interrupt_Bypass(w) ==
    /\ pc[w] \in Running
    /\ pc' = [pc EXCEPT ![w] = "failed"]
    /\ UNCHANGED <<entry, durable, temp, synced, published, unlinks>>

\* fsync is left out.
Fsync_None(w) == synced' = synced

\* A destination that became special is waited for.
Recheck_Wait(w) ==
    /\ pc[w] = "written"
    /\ entry \notin Special
    /\ pc' = [pc EXCEPT ![w] = "rechecked"]
    /\ UNCHANGED <<entry, durable, temp, synced, published, unlinks>>

\* The content is copied over the destination, which no fsync covers.
Replace_Copy(w) ==
    /\ pc[w] = "rechecked"
    /\ entry' = w
    /\ durable' = durable \union {w, Torn}
    /\ published' = published \union {w}
    /\ pc' = [pc EXCEPT ![w] = "replaced"]
    /\ temp' = [temp EXCEPT ![w] = "none"]
    /\ UNCHANGED <<synced, unlinks>>

-------------------------------------------------------------------------------
(* The steps of one call.                                                  *)

Goto(w, label) == pc' = [pc EXCEPT ![w] = label]

\* An exception that changes nothing but where the call is.
Raise(w, label) ==
    /\ Goto(w, label)
    /\ UNCHANGED <<entry, durable, temp, synced, history>>

Validate(w) ==
    /\ pc[w] = "begin"
    /\ \/ /\ entry \notin Special
          /\ Goto(w, "checked")
          /\ UNCHANGED <<entry, durable, temp, synced, history>>
       \/ Raise(w, "failed")           \* refused, or lstat raises

CreateTemp(w) ==
    /\ pc[w] = "checked"
    /\ \/ /\ Goto(w, "created")
          /\ temp' = [temp EXCEPT ![w] = "empty"]
          /\ UNCHANGED <<entry, durable, synced, history>>
       \/ Raise(w, "failed")           \* mkstemp raises

\* An fsync: the file reaches the disk unless the call fails, silently.
Fsync(w) == synced' \in {synced \union {w}} \union IF FsyncMayFail THEN {synced} ELSE {}

\* os.close of the new descriptor is outside the try block, the write inside.
WriteContent(w) ==
    /\ pc[w] = "created"
    /\ \/ /\ Goto(w, "written")
          /\ temp' = [temp EXCEPT ![w] = "full"]
          /\ Fsync(w)
          /\ UNCHANGED <<entry, durable, history>>
       \/ Raise(w, "leaked")           \* os.close raises
       \/ Raise(w, "outer")            \* the disk is full

\* atomic_replace_file, up to the rename.
Recheck(w) ==
    /\ pc[w] = "written"
    /\ \/ /\ entry \notin Special
          /\ Goto(w, "rechecked")
          /\ Fsync(w)
          /\ UNCHANGED <<entry, durable, temp, history>>
       \/ Raise(w, "inner")

Replace(w) ==
    /\ pc[w] = "rechecked"
    /\ \/ /\ entry # Directory
          /\ entry' = w
          /\ durable' = durable \union {w} \union (IF w \in synced THEN {} ELSE {Torn})
          /\ published' = published \union {w}
          /\ Goto(w, "replaced")
          /\ temp' = [temp EXCEPT ![w] = "none"]
          /\ UNCHANGED <<synced, unlinks>>
       \/ Raise(w, "inner")            \* os.replace raises

Return(w) ==
    /\ pc[w] = "replaced"
    /\ Goto(w, "ok")
    /\ UNCHANGED <<entry, durable, temp, synced, history>>

\* The except branches: unlink(missing_ok=True) and re-raise.  The unlink may
\* raise itself, or an interrupt come before it; the exception that leaves the
\* inner branch runs into the outer one either way.
Cleanup(w) ==
    /\ pc[w] \in Handlers
    /\ \/ /\ temp' = [temp EXCEPT ![w] = "none"]
          /\ unlinks' = [unlinks EXCEPT ![w] = @ \union {"done"}]
       \/ /\ unlinks' = [unlinks EXCEPT ![w] = @ \union {"left"}]
          /\ UNCHANGED temp
    /\ Goto(w, IF pc[w] = "inner" THEN "outer" ELSE "failed")
    /\ UNCHANGED <<entry, durable, synced, published>>

\* Where a KeyboardInterrupt may take a call, by the last step it did: between
\* mkstemp and the try block nobody owns the temporary file yet.
Caught(label) ==
    CASE label \in {"begin", "checked"} -> {"failed"}
      [] label = "created" -> {"leaked", "outer"}
      [] label \in {"written", "replaced"} -> {"outer", "inner"}
      [] label = "rechecked" -> {"inner"}

Interrupt(w) ==
    /\ pc[w] \in Running \ Handlers
    /\ \E label \in Caught(pc[w]) : Raise(w, label)

-------------------------------------------------------------------------------
(* The environment.                                                        *)

Crash(w) ==
    /\ pc[w] \in Running
    /\ Goto(w, "dead")
    /\ UNCHANGED <<entry, durable, temp, synced, history>>

Meddle ==
    /\ entry' \in Special \union {Absent}
    /\ durable' = durable \union {entry'}
    /\ UNCHANGED <<pc, temp, synced, history>>

Settle ==
    /\ durable' = {entry}
    /\ UNCHANGED <<entry, pc, temp, synced, history>>

PowerLoss ==
    /\ entry' \in durable
    /\ durable' = {entry'}
    /\ pc' = [w \in Writers |-> IF pc[w] \in Running THEN "dead" ELSE pc[w]]
    /\ UNCHANGED <<temp, synced, history>>

Step(w) ==
    \/ Validate(w) \/ CreateTemp(w) \/ WriteContent(w)
    \/ Recheck(w) \/ Replace(w) \/ Return(w) \/ Cleanup(w)

Next ==
    \/ \E w \in Writers : Step(w) \/ Interrupt(w) \/ Crash(w)
    \/ Meddle
    \/ Settle
    \/ PowerLoss

Spec == Init /\ [][Next]_vars

\* A call that is not killed keeps executing.
FairSpec == Spec /\ \A w \in Writers : WF_vars(Step(w))

-------------------------------------------------------------------------------
(* Properties.                                                             *)

\* A reader never sees, and a power failure never leaves, a file whose data
\* is incomplete, unless all fsyncs of a file that was renamed over the
\* destination failed: the order "write, fsync, rename" of atomic_write_text
\* and atomic_replace_file.
TornOnlyUnsynced ==
    Torn \in {entry} \union durable => published \ synced # {}

\* Who may leave a temporary file: a call that is under way, one that was
\* killed, one that ended between mkstemp and the try block (an interrupt, or
\* os.close raising), and one that raised after every unlink it came to had
\* failed.  A call that returned, and one that raised with one working unlink
\* among its handlers', leaves none (the except branches of atomic_replace_file
\* and atomic_write_text).
MayLeave(w) ==
    \/ pc[w] \in {"created", "written", "rechecked"} \union Handlers
    \/ pc[w] \in {"dead", "leaked"}
    \/ pc[w] = "failed" /\ unlinks[w] = {"left"}
NoTempLeft == \A w \in Writers : temp[w] # "none" => MayLeave(w)

\* The refinement mapping: a call's effect is its os.replace.
OutcomeOf(w) ==
    CASE pc[w] = "ok" -> "ok"
      [] pc[w] \in {"failed", "leaked"} -> "failed"
      [] pc[w] = "dead" -> "dead"
      [] pc[w] \in Running -> IF w \in published THEN "committed" ELSE "pending"

AF == INSTANCE AtomicFile WITH outcome <- [w \in Writers |-> OutcomeOf(w)]

\* With an fsync that works, atomic_write_text implements AtomicFile: an
\* all-or-nothing write whose failure leaves the previous content.
ImplementsAtomicFile == AF!Spec

\* Every call that is not killed ends, whatever the other calls do.
CallsEnd == \A w \in Writers : <>(pc[w] \in Ended)
===============================================================================
