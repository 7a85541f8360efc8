------------------------------ MODULE AtomicFile ------------------------------
(***************************************************************************)
(* What output_safety.atomic_write_text promises its callers, without its  *)
(* temporary files: every write takes effect at one instant, entirely or   *)
(* not at all, a write reported as successful did take effect, and a power *)
(* failure brings back some complete content, never a torn one.            *)
(***************************************************************************)
EXTENDS FiniteSets

CONSTANTS
    Writers,     \* one call of atomic_write_text each; it writes the content w
    Old,         \* what the destination holds before any call
    Absent,      \* no directory entry
    Directory,   \* a directory sits at the destination
    Link         \* a symbolic link sits at the destination

Special == {Directory, Link}
Content == Writers \union {Old}
Entry   == Content \union Special \union {Absent}

VARIABLES
    entry,       \* what a reader of the destination sees
    durable,     \* what a reader may see after a power failure
    outcome      \* writer -> how far its call came

vars == <<entry, durable, outcome>>

Outcome == {"pending", "committed", "ok", "failed", "dead"}

Init ==
    /\ entry \in {Old, Absent} \union Special
    /\ durable = {entry}
    /\ outcome = [w \in Writers |-> "pending"]

\* The only step that changes the destination on behalf of a writer.
Commit(w) ==
    /\ outcome[w] = "pending"
    /\ entry # Directory
    /\ entry' = w
    /\ durable' = durable \union {w}
    /\ outcome' = [outcome EXCEPT ![w] = "committed"]

Return(w) ==
    /\ outcome[w] = "committed"
    /\ outcome' = [outcome EXCEPT ![w] = "ok"]
    /\ UNCHANGED <<entry, durable>>

\* The call raises: before its effect, or (an interrupt) just after it.
Fail(w) ==
    /\ outcome[w] \in {"pending", "committed"}
    /\ outcome' = [outcome EXCEPT ![w] = "failed"]
    /\ UNCHANGED <<entry, durable>>

Die(w) ==
    /\ outcome[w] \in {"pending", "committed"}
    /\ outcome' = [outcome EXCEPT ![w] = "dead"]
    /\ UNCHANGED <<entry, durable>>

\* Somebody else puts a directory or a link at the destination, or clears it.
Meddle ==
    /\ entry' \in Special \union {Absent}
    /\ durable' = durable \union {entry'}
    /\ UNCHANGED outcome

\* The system writes its caches back.
Settle ==
    /\ durable' = {entry}
    /\ UNCHANGED <<entry, outcome>>

PowerLoss ==
    /\ entry' \in durable
    /\ durable' = {entry'}
    /\ outcome' = [w \in Writers |->
                     IF outcome[w] \in {"pending", "committed"}
                     THEN "dead" ELSE outcome[w]]

Next ==
    \/ \E w \in Writers : Commit(w) \/ Return(w) \/ Fail(w) \/ Die(w)
    \/ Meddle
    \/ Settle
    \/ PowerLoss

Spec == Init /\ [][Next]_vars
===============================================================================
