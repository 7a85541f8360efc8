# TLA+ models of the network flow analyzer

This directory holds TLA+ models of the analyzer under `src/nmap_flow_analyzer`,
TLC configurations that check them on small instances, and proofs, checked by
TLAPS, that hold for every value of the constants. Every definition is
translated from the source; `PROJECT.json` maps each one to its lines.

Paths below are relative to `src/nmap_flow_analyzer/` unless they start with `src/`.

## 1. The system

One invocation (`cli._main`) reads Nmap XML, a YAML configuration and, if asked,
Zeek logs; derives flows; correlates them with Zeek's passive observations; makes
candidate firewall rules; and publishes about two dozen reports in one output
directory. It is sequential inside, but it shares the directory with other
invocations, with its user and with the machine's failures. A second command
family (`ingestion.py`) reads other evidence formats with budgets and
checkpoints; a third (`update.py`) downloads and installs releases.

| Component | State it keeps | Operations | What is hard | What makes it correct |
|---|---|---|---|---|
| Output safety, `output_safety.py` | destination, private temp file | `validate_output_destination`, `atomic_write_text/bytes`, `atomic_replace_file`, `safe_remove_stale` | interrupts, kills, power loss, failing fsync, the destination changed between check and rename | all-or-nothing, never torn, no temporary file left while an unlink works |
| Invocation and publication, `cli.py` | output directory, staging directory, manifest, streamed log | collision check, staging, validation, publication loop, stale cleanup | failure or kill between any two renames, overlapping runs, stale manifests | existing reports survive refusals and failures; after a success the directory is the run's; the user's files are never touched unless a manifest lists them |
| Approved-network policy, `policy_scope.py` | none (pure) | `evaluate_rule_scope` | nested zones, precedence of levels, textual against numeric comparison | the most specific policy decides |
| Candidate rules, `firewall_rules.py` | rules, seen keys, review items | `build_inbound`, `build_outbound`, `_return_rules` | keys that collide after sources are replaced, partial refusals, strict and stateless modes | unique rules, nothing lost, nothing over-broad, policy enforced |
| Zeek correlation, `zeek_correlation.py` | flows and their index, service sets, reviews, findings | `run`, `_handle_successful`, `_handle_attempted`, merges, annotations | order of aggregates, thresholds, evidence that contradicts the scan | passive evidence never promotes, conflicts are withheld, confidence falls with the sensor |
| Zeek aggregation and sensor health, `zeek_aggregation.py`, `zeek_models.py` | bounded maps of aggregates and uids | `add`, `classify_connection`, `assess_sensor_health` | duplicate uids over rotated logs, limits | each connection counted once |
| Zeek log reader, `zeek_parser.py` | header state, line and record counters | TSV and JSON readers | headers that change in mid-file, malformed lines | every line accounted for |
| Nmap parser, normalization, roles and risk, `parser.py`, `normalization.py`, `role_inference.py`, `risk_analysis.py` | hosts and service records | merging of duplicate ports and hosts, service names, `assess_port`, `infer_role` | which of two duplicates survives, overrides, verdicts of scripts | no evidence lost in a merge, risk not below what a script found |
| Flow analysis, `flow_analysis.py` | flows, reviews, emitted keys | observed, declared and inferred flows, `_dedupe_and_sort` | which of two flows with one key survives, reasons to withhold that meet | every flow has its ground, one best flow per key, withholding is not lost |
| Evidence ingestion, `ingestion.py` | offset, counters, flow table, local checkpoint, summary | EVE, PCAP and PCAPNG adapters as generators | limits met in mid-record, cancellation at any moment, resume after a replaced file, eviction | a chain of sessions is one read of the file, losses show |
| Configuration, `config.py` | validated settings | `load_config`, `resolve_source` | contradictions between sections | one answer per address |
| Logging, `logging_config.py` | handlers, `execution.log` | `setup_logging`, `close` | reuse of the root logger | only own handlers are closed |
| Self-update, `update.py` | `.part` files, package and inventory, staging, target | download, verify, install | kill between steps, two downloads, the target filled after it was looked at | what is left when all is quiet and every cleanup worked is verified, an installation is of verified bytes |
| Diagrams, reports, Excel, sanitization, preflight, runtime, packaging scripts | none that outlives a call | pure functions and formatters | — | unit-tested; outside the models |
| Shadow evidence, `shadow_evidence.py` | external package `shadow_core` | export, import, verify | — | not in the repository |

Interactions. `cli._main` calls the components in sequence and passes data by
value: flow analysis → Zeek correlation (which edits the flows in place) → firewall
rules (which consult the policy) → reports. The one state that several actors
share is the output directory: reports are renamed into it one by one
(`os.replace`), other invocations do the same, the user edits it, and the next
invocation reads the manifest and the allowlist to decide what it may remove.

The hazards this leads to are listed, line by line, in `PROJECT.json`.

## 2. Modules

`AtomicFile` is the abstract specification of a safe write; `AtomicWrite` is the
code, and implements it. `Publication` uses the result: a rename is one step
there, and the content of a staged file is never torn. `FirewallRules` extends
`PolicyScope`, as `firewall_rules.py` calls `policy_scope.py`. `ZeekCorrelation`
is the step before them; its `Candidate` is the condition under which
`FirewallRules` makes a rule of a flow. `ZeekLogs` produces the aggregates and the
sensor condition that `ZeekCorrelation` takes. `FlowBuilder` extends `ScanRecords`
and makes the flows that the correlation starts from. `Ingestion` and
`UpdateInstall` stand by themselves, as their command families do. A module `X` is accompanied by `XProofs`
(theorems) and `MC_X` (the instances TLC checks). In the modules a definition
whose comment starts with "Mutant" is a variant with a plausible bug, used only to
see that a property notices it.

### AtomicFile and AtomicWrite

| TLA+ | Code |
|---|---|
| `entry`, `durable` | the destination; what may be there after a power failure |
| `temp[w]`, `synced` | the `.nfa-tmp-` file of call `w`; whether its data reached the disk |
| `Validate` | the first `validate_output_destination` |
| `CreateTemp`, `WriteContent` | `mkstemp`; write, flush and `_fsync_file` |
| `Recheck`, `Replace` | `atomic_replace_file`: validate, fsync, `os.replace` |
| `Cleanup` | the two nested `except BaseException` branches, of `atomic_replace_file` and of its caller: unlink, which may fail or be interrupted, and re-raise |
| `published`, `unlinks` | history: who renamed; how the unlinks of a call ended |
| `Interrupt`, `Crash`, `PowerLoss`, `Settle`, `Meddle` | KeyboardInterrupt; SIGKILL; loss of unsynced data; write-back; somebody else changing the destination |

A failed `os.fsync` is ignored by the code, so `Fsync` may leave the data
unsynced without any other effect (`FsyncMayFail`). An exception goes to the inner
branch, then to the outer one, or to the outer one at once (`Caught`, `Raise`). In the gap between
`mkstemp` and the `try` block an interrupt, or an `os.close` that raises, leaks the
temporary file ("leaked"); a call whose every unlink failed leaves it too. `NoTempLeft`
names these cases, in `MayLeave`, and no other. The refinement mapping takes a call's effect to be its `os.replace`.

### Publication

The content of a generated entry is the number of the run that made it. `pc` is
the place in `_main`; `staged`, `todo`, `previous`, `published` and `skipped` are
the local variables of the same purpose, and `listed` is what the manifest of a
run lists (it stays readable on disk after the run ended), and what the manifest that
the user put there lists: `_read_previous_manifest` believes any JSON with
`generated_files`, so the cleanup removes names the tool never made (`endorsed` remembers
all that such manifests listed). One action per step:
`Start` (`check_output_dir`), `OpenLog`, `Analyze`, `BeginStaging`
(`_read_previous_manifest`), `Stage`, one `ValidateNext` per destination,
`BeginPublish`, one `PublishNext` per rename, `BeginCleanup`, one `CleanNext` per
stale name, `Finish`. Each may fail where the code may raise, with the exit code
the code returns; `Kill` is possible between any two. `UserEdit` puts a file, a
directory or a dangling link under any name, or removes what is there; a file put under
the manifest's name lists one of `UserLists`, or makes `BeginStaging` end the run with an
AttributeError, as JSON that is no object does.

Abstractions: staging and temporary names are random and private, so a run's
staging directory is its variable; whether `rmtree` of the staging directory works
changes nothing that is read later; a KeyboardInterrupt is a kill; the analysis
between log and staging is one step. A directory that somebody else removes
while a run is active makes the run fail like any other failing call.

### PolicyScope and FirewallRules

Addresses are numbers of `Bits` bits, and an endpoint is *written*: "10.0.0.4"
and "10.0.0.4/32" are different texts of one network, and some text does not
parse at all. Where the code compares text the model compares endpoints, and
where it parses it compares networks. `Status` is `_resolve_policy`,
`Statuses`/`Violation`/`NeedsReview` are what `evaluate_rule_scope` reports.
`OutsidePolicy` is an independent reference, in terms of sets of addresses, of
what README section 13 of the repository promises; `PolicyEnforced` compares the two on every rule.

`InboundFlow` and `OutboundFlow` are one iteration of the loops over flows, with
the inner loop over sources (`TakeInbound`): no two sources of one flow make the
same key, so that loop has the same result in any order. `BeginOutbound`
separates the functions, `FinishOutbound` adds the return rules of a stateless
run. A rule keeps its key, the flow it came from and its violation flag; names,
addresses kept for display, evidence texts and rule numbers are left out. A
review item names its sources, flow and category.

Notes on faithfulness. Neither caller passes a comma-separated source to
`evaluate_rule_scope`, so its handling of one is not modelled. An empty list of a
zone refuses everything while an empty list of a host or of the global policy is
ignored: the model keeps the difference. The status "ambiguous" is in `Status`, but cannot occur once
`load_config` refused one network in two zones; nested zones, which are legal, are in the instance. The key of an inbound rule stays seen when the
rule is withheld, that of an outbound one does not; `Accounted` shows that the
former loses nothing, because the withheld rule left an item with the same key.

### ZeekCorrelation

An aggregate is what `zeek_aggregation` can produce (ICMP never counts as
successful); a flow is what `flow_analysis` can deliver, and carries the fields
that decide about rules and reports. `Skip`, `MergeScanner`, `Corroborate`,
`Discover` and `Attempt` are the branches of the loop of `run`; `Annotate` is
`_annotate_uncorrelated` and `_annotate_nmap_only_services`. The code visits the
aggregates in sorted order, the model in any order, so what holds does not depend
on the sort. `compute_zeek_confidence` is kept as arithmetic because
`DegradedDevalues` is about numbers. Not modelled: service-name conflicts, the endpoint
inventory, findings of supporting logs, sensor reviews, counters.

### ZeekLogs

| TLA+ | Code |
|---|---|
| `input`, `format` | the discovered files per log type; `--zeek-format` |
| `stage`, `at`, `lineno`, `mode`, `headed` | the place in `load_zeek` and in the generator `iter_log_records`; whether `_tsv_records` has `fields` |
| `entry`, `processed`, `warned` | the entry of `files_processed`, that list, the files with a warning |
| `raw`, `usable`, `malformed` | the counters of `ZeekInputMetadata` per log type |
| `aggregates`, `seen` | `ZeekAggregator.aggregates`, `seen_uids` |
| `retained`, `truncated` | the stored samples of `files.log`, `samples_truncated` |
| `evidence`, `status` | what `assess_sensor_health` collected; its verdict |

`SkipUnreadable`, `SkipUnrecognized`, `Open`, `ReadLine`, `Close` are what
`iter_log_records` does to a file; a record it yields is taken in the same step
(`Take`), as the consumer runs before the generator goes on. `NextLog`, `GiveUp`
and `Judge` are `load_zeek`. `BreakOff` is the EOFError of a cut gzip stream. As
gzip reads ahead of the lines it delivers, it may come at any moment of reading
the file. Four logs stand for all: conn; files for the logs with capped samples;
capture_loss and reporter. The logs that only enrich (names, certificates,
services) go through the same reader and change nothing that is modelled.
`UsableAt` is an independent reading of the input, in terms of lines and not of
reader state, against which `CountedOnce` and `NotHealthyAgainstEvidence` compare
the results.

### ScanRecords and FlowBuilder

`ScanRecords` has the pure functions from the report's elements to assessed service
records; `FlowBuilder` is `FlowBuilder.build`, one action per iteration of its loops.

| TLA+ | Code |
|---|---|
| `MergePort`, `MergeHost`, `ParseHost` | `_richness`, `_add_port`, `_merge_host`, `parse_nmap_xml` in `parser.py` |
| `Normalize`, `Equivalent` | `normalize_service` and its equivalence groups |
| `AssessPort`, `ServiceRecord`, `AlwaysReview` | `risk_analysis`: indicators, overrides, approval, policy review |
| `ZoneForIp`, `Approvals`, `Configured` | `zone_for_ip`, `host_cfg`, `approved_entry` |
| `InferRole` | `infer_role`, its choice among the scores |
| `Parse`, `Enrich` | the loop over host elements; `enrich_hosts` and `build_service_records` |
| `Observe` | one record in `_observed_flows`: open, `open\|filtered` or nothing |
| `Define`, `Expect` | `_user_defined_flows`: the defined flows; the expected traffic of configured hosts |
| `Infer`, `CrossReference` | `_inferred_outbound`, a category at a time; `_nse_cross_references` |
| `Dedupe` | `_dedupe_and_sort`, one flow per step |

`ToWithhold` collects what must not be let through unseen: the approval list, the
scanner's zone under `--strict`, the policy by port, by final, registered or reported name.
`WithheldStays` says where that shows in the result.

A name, a script's text or a product is what the code finds in it (`verdict`,
`hint`, `mentions`). The lookup tables and the scoring rules are constants, since no
property depends on which service has which port. A flow keeps key, evidence,
confidence, risk, reason, scripts and purpose; numbers and texts are left out.

### Ingestion

A file is a sequence of items (lines, packets, blocks), each of a kind the
adapter tells apart; a byte offset is the number of items before it.

| TLA+ | Code |
|---|---|
| `at`, `line`, `count`, `interfaces` | `handle.tell()`, the line counter, the record counter, the section's interfaces |
| `flows` | `BoundedFlowTable`, least recently used first |
| `status`, `last`, `diagnosed`, `delivered` | the local status and checkpoint, the diagnostics, the records yielded |
| `cancelled`, `stage` | the cancellation token; where the generator is |
| `checkpoint`, `accepted` | what a consumer keeps of a session that returned a summary |

`Open` is everything before the loop (header, hash against checkpoint, seek);
`EveLong`, `EveMalformed`, `EveEvent`, `PcapDamage`, `PcapPacket`, `Block`, `BlockCut`,
`BlockRaises` and `BlockPacket` are the branches of the three loops; `Summarise` is what
follows them. `Cancel` may come at any moment, `Abandon` at any record, `Rewrite`
replaces the file between two sessions. `OneRead` is an independent account of what
one uninterrupted read of the whole file delivers, in terms of positions alone.

### UpdateInstall

A directory entry is the file one attempt created, so that an attempt whose file
was renamed or unlinked by another keeps writing to it, as POSIX has it.

| TLA+ | Code |
|---|---|
| `part[n]`, `final[n]` | `name.part` and `name`, for the checksum inventory and the package |
| `pc[a]` | the next file-system or network call of the attempt |
| `target`, `staging[i]` | the installation target; the `mkdtemp` directory of an installation |
| `Look`, `Open`, `Write`, `Rename`, `Unpart`, `Parse`, `Verify`, `Unlink` | `download_release` and `_download_file`, with their cleanups |
| `Hash`, `LookTarget`, `Stage`, `Extract`, `RenameTree`, `Rmtree` | `verify_package` and `install_portable` |
| `Kill`, `MakeTarget` | SIGKILL or KeyboardInterrupt; somebody else making a directory at the target |

Each call that uses the network or changes a file may fail, also the unlinks and the
`rmtree` of the cleanups, whose failure is remembered in `botched`; `rmtree(ignore_errors=True)`
fails silently. `alone` chooses between behaviours in which downloads never overlap and those in
which they may; properties that need the former say so.

## 3. What each run checks

| Run | Bounds | What holds |
|---|---|---|
| `atomic_write` | 3 writers of one destination; it starts as a file, absent, a directory or a link; fsyncs may fail | `TornOnlyUnsynced`: a torn file needs a writer that renamed and none of whose fsyncs worked; `NoTempLeft`: who may leave a temporary file (2.8 million states) |
| `atomic_write_refines` | 2 writers, fsync works, fairness | `ImplementsAtomicFile`, `CallsEnd` |
| `publication` | 3 runs one after another, 6 names, 1 user edit between runs, with two possible lists in a manifest of the user's (4.0 million states) | `ManifestNotAhead`, `UnrelatedUntouched`, `NoSilentOverwrite`, `FreshAfterSuccess`, `ArtifactsComplete` |
| `publication_overlap` | 2 runs and 1 user edit at any interleaving, 4 names, fairness (263,000 states) | `RefusalLeavesReports`: an exit 2, also one in the middle of the validation loop, leaves the reports alone; `RunsEnd` |
| `firewall_rules` | every list of at most 2 flows of a pool of 17, 240 configurations, addresses of 3 bits | `Accounted`, `NeverAnyAny`, `PolicyEnforced`, `ReturnPaths` |
| `zeek_logs` | 3774 inputs: every conn.log of at most 3 lines of 10 kinds, all pairs of rotated files of at most 2 of 6 connections, 80 kinds of connection, 686 combinations of the other logs; 3 formats; 3 records per file, 2 samples; fairness | `BooksBalance`, `NothingSkipped`, `CountedOnce`, `NotHealthyAgainstEvidence`, `LoadEnds` |
| `zeek_correlation` | at most 2 aggregates of 9 and 2 flows of 8, 5 settings, 3 sensors, 4 scans | `ConflictsWithheld`, `NewCandidatesEarned`, `OwnTraffic`, `DegradedDevalues`, `ServicesTruthful`, `NeverPromoted` |
| `flow_builder` | 11 configurations, reports with duplicate hosts and ports in several states (27,791 states) | `NothingInvented`, `UncertainReviewed`, `WithheldStays`, `BestOfEachKey`, `EvidenceKept` |
| `ingestion` | every EVE file of at most 4 lines, PCAPNG file of at most 5 blocks, PCAP file of at most 5 packets of 3 flows; flow table of 2, budgets 2 and 5, 2 diagnostics, 3 sessions; fairness (426,843 states) | `ChainIsOneRead`, `LossesShow`, `TableIsRecent`, `RaiseDeserved`, `SessionsEnd` |
| `update_install` | 3 attempts out of 2 downloads and 2 installations; fairness (167,712 states) | `QuietMeansVerified`, `DeliveredStays`, `InstalledIsVerified`, `AttemptsEnd` |
| `publication_failure`, `zeek_logs_damage` | the same instances | violations, see section 6 |

Why the bounds are enough. *AtomicWrite*: writers interact through one entry
only; two are needed for a write to meet another one's, the third for a write
between them. The refinement compares one writer's step with one abstract step, for which
another writer and the meddling program are all there is to meet. *Publication*: the six names are the classes the code tells apart
(always made or optional, on the allowlist or not, the manifest, the log, a
foreign name), with an optional one before and a core one after the manifest in
sorted order, so that a run killed in the loop leaves both kinds of mixture;
three runs in sequence give a complete one, one that fails half-way and one that
cleans up after both, and an edit puts a foreign entry under any of the names between them. The
overlapping run needs fewer names, as each is one of a loop's (first and last, the
manifest, the log); its one edit makes a destination unsafe after the runs have
started, which is how a run refuses in the middle of the validation. *Rules*: two
flows are needed for a collision, and no step relates more than two; the pool
has each kind of scope (host, subnet, too broad, any, any written otherwise,
unparsable, written with the target's own address), both directions and each
evidence class that is treated differently; three bits hold two nested zones, a network outside
both and the limit on prefix lengths. *Correlation*: aggregates meet in a flow, in a service
or in the ICMP item, pairwise; the pool has both sides of each threshold, the
scanner, an external peer, ICMP and an uncorrelated protocol. *Logs*: a line meets
at most the header before it and the limit after it, which three lines and a
limit of three show; a uid repeats within a file, across files and under another
key; each of the other logs is missing, fine, bad, cut, unreadable or unrecognized.
*Flows*: duplicates of a port and of a host meet pairwise; the configurations turn
on one source of flows or reason to withhold after the other, and two of them several that
share a key. *Ingestion*: a swallowed line needs the line before and the one after
it, a limit of two records leaves a third to be refused, three flows overflow a table
of two and return to it, and the third session resumes from a checkpoint made by
a resumed session. *Update*: two downloads are needed for one to take the other's
`.part` file or to find what it left, two installations to meet at the target, and the third
attempt installs what the others delivered; for more of them the theorems hold.

Deadlock is checked for `AtomicWrite` (the environment can always act). It is
not for the others: those models stop when their runs, sessions or loops are over.

Fairness. `WF(Step(w))` for each call, `WF(Step(r))` for each run and `WF(Step)` for the load: a process
that was started and is not killed keeps executing its next system call. Nothing
more is assumed; user edits, kills and interrupts are never required to happen.
Under it `LoadEnds` says that reading visits each line once, and `CallsEnd` and `RunsEnd` say that no call or run waits for another one
and no loop over names repeats itself: the code takes no locks and retries nothing.
`SessionsEnd` assumes a consumer that keeps asking (`WF` of the adapter's steps): a
generator runs only then, and one that is dropped has ended. `AttemptsEnd` assumes that each call of an attempt returns (`WF` per
attempt), as the network calls have a timeout and a size limit; what killed
attempts left behind never makes a later one wait.

Each property of a passing run has a mutant in `PROJECT.json`: a definition and a
plausible bug in the code it models, under which TLC reports the property violated.

## 4. What is proved

TLAPS checks these for any number of writers, runs, names, flows and
configurations, from the named assumptions on the constants in each module.

*AtomicWriteProofs.* `TypeCorrect`. `NoTempLeak` needs to know, beside the property,
what the history of unlinks says at each label: a call on its way has tried none, and one
in a handler branch whose file is still there has seen each fail. `TornNeedsLostSync` by
`PublishedPassed`: who has renamed is past its fsyncs, and none can come later
(`SyncedOnTheWay`). `AtomicWriteRefines`: `Spec` implements
`AtomicFile`, provided fsync works (`FsyncMayFail = FALSE`). The invariant carried
along, `SyncedBeforeRename`, says that what is about to be renamed has reached the
disk; with it each step maps to one abstract step or a stutter.

*PublicationProofs.* `TypeCorrect`. `UnrelatedFilesUntouched`: by `NamesInv`, all
names a run stages or publishes are names of the tool, and what it cleans up beyond these
was listed by a manifest of the user's; the manifest is the reason why this needs an
invariant, as one run's list becomes another run's work. `RefusalSafe`: by `OwnsNothingEarly`, a run that has
not begun to publish owns nothing but the log; no publication step ends in exit 2.
Both hold for overlapping runs. `ValidationComesFirst` and `OverwriteIsExplicit`
assume `Interference = FALSE`, as the code offers no protection against a
concurrent change; their invariant `SeqInv` says that at most one run is active
(`OneActive`), that the destinations validated so far are still safe (`ValidInv`),
and that a run without `--overwrite` shares the allowlisted names with no file but its own (`OwnInv`).

`SuccessIsComplete`, `SuccessIsFresh` and `ManifestIsLast` (`ArtifactsComplete`,
`FreshAfterSuccess`, `ManifestNotAhead`) assume the same; for them `OrderInv` says that
the active run is the newest and `ProgressInv` what is published, yet to be
published and yet to be cleaned in each phase.

*FirewallRulesProofs.* `TypeCorrect`. `RulesUnique` and `NoAnyAny` by `RulesInv`: every rule's key
is among the seen ones of its phase, a checked end is never any, and
return rules have a port no direct rule has. `NothingDisappears` by
`CoverageInv`: each flow already visited is covered, and each key seen by
`build_inbound` has a rule or an item, which is why suppressing a duplicate of a
withheld rule is harmless. `ReturnsMatch` (`ReturnPaths`) by `PortsInv`: before the
return rules are made every rule and key has a port, which theirs lack, so that the
filter on seen keys removes none of them. `PolicyIsEnforced` (`PolicyEnforced`)
compares the code's search through zones with the reference in terms of sets: on
networks, which are aligned blocks, the code's comparison of prefixes is inclusion
(`SubnetMeansSubset`; blocks are halved prefix by prefix, `Blocks` and `TwoHalves`); of the zones
around an address one with the longest prefix is inside the others (`LongestPrefix`), so
the zones the code asks are those that govern (`TopZonesGovern`); `JudgedInv` carries the
comparison to each rule made so far. It assumes that the configured lists hold
networks (`NetworksAssumption`), since `load_config` drops what it cannot parse.

*ZeekLogsProofs.* `TypeCorrect`; `SamplesKept` and `RecordsBalance`, which follow
from what one step does to the counters. `CorrelationServed` (by `FitInv`)
discharges the assumptions of `ZeekCorrelation` on its aggregates. `HealthEarned`
is the deepest: the reference looks at the whole input, the code at one line at a
time, so `ReaderInv` says that the reader's state agrees with the lines read so
far, `PassedByTaking` that a usable record comes to lie behind the reader only by
being taken, and `EvidenceInv` that each record behind the reader that speaks against
the sensor has left its mark, unless it repeats an earlier uid. `NothingIsSkipped` needs `EntryKeepsUp`:
the counters of the open file reach the number of data lines read so far; a file
behind the reader then has a warning or such an entry. `EachCountsOnce` (`CountedOnce`) needs
`CountsFirst`, the same equation for the records behind the reader, and that
`seen_uids` is exactly the uids behind it (`UidsFromRecords`, `UidsComplete`).
`TheBooksBalance` (`BooksBalance`): the sums over files are folds over a set, of
which the definition says only that some order of the files gives them. `SumExists` and
`SumTakesAny` show, by least counterexamples, that every order gives the same sum, and
`SumsInv` adds that the counters are the sums over the closed files and the open one.

*ZeekCorrelationProofs.* `TypeCorrect`, `KeysAreUnique`, and the six properties of the run:
`PassiveNeverPromotes`, `OwnTrafficOnly`, `DegradationCounts`, `ConflictsAreWithheld`,
`CandidatesAreEarned`, `ServiceReportsTrue`. All rest on `KeysInv` (one flow per
communication and perspective, one aggregate per key), as a second flow with a
key could escape what was done to the first; `ServiceInv` adds that the sets of
touched and genuinely used services are those of the aggregates handled so far.

*IngestionProofs.* `Invariant`: types, and `ChainInv` — what was kept and what the
session delivered are one read of the file up to the local checkpoint
(`SessionInv`), and between two items the counters are those of that read and the next
item is one it comes to (`LoopInv`). `OneReadOnly` (`ChainIsOneRead`) follows.
`RaisesOnlyIfDamaged` adds `CutInv`: a checkpoint is made only where a PCAPNG file
has no more packets to read. `NothingLostSilently` (`LossesShow`) adds `LossInv`: each
item passed is shown in one of the ways the property lists. That a count of swallowed lines
alternates is an induction over positions, done by taking a least counterexample.
`TableHoldsTheRecent` (`TableIsRecent`) relates the flow table, which is edited packet by
packet, to a statement about all packets seen. The statement is lifted to any set of
positions (`Recent`); `ObserveTable` shows that it goes from one set to the next when a
flow is observed: the flows seen after the last packet of a row are those of the rows behind
it (`RowsFacts`), so that the row dropped is the one flow that falls out of the last
`FlowLimit` ones (`OthersStay`), and what was counted up to an earlier packet does not
change (`LaterKeepsEarlier`). `TypeCorrect` includes that the table stays within its limit.

*FlowBuilderProofs.* The five properties of the builder, from one invariant (`Inv`) of seven
parts. What the folds of `ScanRecords` compute is reached through the sequence of their
intermediate values (`FoldPath`): what holds of the first and goes from each to the next holds of
the last (`Counting`). `HostsInv` says that each parsed host holds, for
each port, the merged record of all that the elements read so far reported of it (`Kept`: a state
somebody reported, and every script); `RecordsInv` that the inventory is the
ports of the hosts. `FlowsInv` says that each flow is grounded in a record, a declaration or a
role, `TreatedInv` that each record looked at has its flow or its review item,
`OnceInv` that inferred flows do not repeat a key, and `BestInv` that the result so far beats every flow
merged. `BestIsKept`, `UncertainIsReviewed`, `NothingIsInvented`, `WithheldIsKept` and
`EvidenceIsKept` then relate the result to the report itself. `BestIsKept` is why `ZeekCorrelation` may
assume that the flows it gets have distinct keys. `WithheldIsKept` has a part for each kind of
flow: the observed flow of an open port is made with a reason (`WithheldHasReason`) and beats every
other of its key (`OpenWins`); what beats the flow of an uncertain port has a reason itself or is
declared (`UncertainStays`).

*UpdateInstallProofs.* `TypeCorrect`; `DownloadInvariant`: for overlapping downloads, a
`.part` file or an unverified package has a download that still has to deal with it or
was killed or is `botched` (`OverlapInv`); for downloads one at a time, what the active one knows
of the directory at each of its steps (`AloneInv`). From it `QuietDirectoryVerified`,
`DeliveryStays` and, with the staging directory added, `InstallationVerified`.

Proved but not among the run's properties, since they are parts of other
invariants: type correctness (`TypeCorrect`; for the builder part of `Inv`), `KeysUnique`, `ValidatedBeforeReplaced`,
`SamplesAccounted` and `FitForCorrelation`.

Only model-checked: liveness (`CallsEnd`, `RunsEnd`, `LoadEnds`, `SessionsEnd`,
`AttemptsEnd`), which needs fairness and ENABLED and is outside what the prover does. Every
safety property that a passing run checks is also a theorem. Two kinds of these have the
premise that their run has: `ImplementsAtomicFile` that fsync works, and the properties of
a successful run that invocations do not overlap. No recursive operators are used.

## 5. Assumptions

- A rename is atomic, an fsync that reports success reached the disk (POSIX).
- Temporary and staging names do not collide.
- The constants' assumptions: the allowlist contains the core artifacts, the
  manifest and the log (`GENERATED_FILES`); flows are unique per key
  (`_dedupe_and_sort`); configurations passed `load_config`.
- In the sequential `publication` run the user does not edit during a run.
- An unlinked or renamed file can still be written by who has it open (POSIX); on
  Windows the interleavings of `UpdateInstall` that need this fail instead.
- The scores of roles and the sorted orders of addresses and ports are constants of
  `FlowBuilder`, which must name every address and port of a report
  (`OrdersAssumption`, `ScansAssumption`); networks of zones are nested or disjoint, as
  CIDR blocks are, and what a host is expected to send leaves from its own address
  (`ConfigsAssumption`).
- A file under ingestion changes between sessions only. That it grows during a
  session, after its hash was taken, is not modelled.
- No hash collides: verified means the bytes that were published.
- Reading back a file that is there does not fail in `UpdateInstall`: the calls that may fail
  are those that use the network or change a file or directory.
- An interrupt in a cleanup of `UpdateInstall` is a kill, since its handlers catch `Exception` only.

## 6. Where code and documentation disagree

Two runs each check one sentence of the documentation or of a message, and TLC
shows a trace of the code that violates it.

| Run | Sentence | What the code does |
|---|---|---|
| `publication_failure` | "no reports were replaced; previous run left intact" (`cli.py:787`) | logged also when a later rename of the loop failed |
| `zeek_logs_damage` | without `--zeek-required` the run continues with a warning (`src/README.md:476`) | a cut gzip stream, of an optional log too, ends the run with EOFError |

Other disagreements and surprises met while modelling, without a run of their own:

- "Violations are flagged in normal mode and withheld to manual review under `--strict`"
  (`src/README.md:358`): a peer network written with the target's own address counts as the
  target and is judged by no list (`policy_scope.py:139`). `PolicyEnforced` excepts these peers.
- "Existing targets are never overwritten" (`src/docs/UPDATES.md:32`): an empty directory made at
  the target after the check is replaced (`update.py:202`). `InstalledIsVerified` excepts it.
- "Services that must always be reviewed by a human, regardless of state"
  (`src/network_config.example.yaml:123`): `always_manual_review` is consulted for open ports
  only (`flow_analysis.py:284`, line 417); a closed port that it names has no review item.
- `always_manual_review` compares its entries with the normalized detected name
  (`risk_analysis.py:328`), but flow analysis, its only caller, hands it the name as Nmap wrote it
  (`flow_analysis.py:817`): a policy that lists "HTTP Proxy" is not applied to an open tcp/8080
  reported as `http-proxy`. `ToWithhold` follows the code.
- "The temp file is removed if anything fails" (`output_safety.py:159`): not if the unlinks of both
  handlers fail (lines 170 and 194), nor after an interrupt between `mkstemp` and the `try` block.
- "Unrelated files are always preserved" (`src/README.md:436`): a file that a manifest lists is removed,
  whoever wrote the manifest (`cli.py:318`, lines 794-802). The test
  `test_previous_manifest_identifies_prior_artifacts_for_cleanup` expects it.
- "A missing or corrupt manifest is handled safely" (`cli.py:308`): JSON that is no object, or that
  lists what is none, ends the run with an AttributeError (line 316).
- A failed installation may leave its staging directory and say nothing (`update.py:204`), and a
  cleanup whose unlink raises leaves the `.part` file or the unverified package (lines 242 and 286).
- A declared flow is reported as "not observed" (`zeek_correlation.py:702`) although
  successful connections below the threshold were seen (line 1028).
- "Never assume healthy without evidence" (`zeek_aggregation.py:686`): a record of
  capture_loss.log without a readable percentage makes the sensor healthy (line 640).
- "Only files this tool generates are ever replaced" (`src/README.md:286`): a name that is
  generated but neither on the allowlist nor in the manifest (`cli.py:265`) replaces a user's file without `--overwrite`.
- "Any source or destination of 0.0.0.0/0 is diverted" (`firewall_rules.py:5`): one
  end of each direction is checked (lines 253 and 427).
- "Every candidate rule is checked" (`policy_scope.py:3`): return rules are not (`firewall_rules.py:493`).
- "Blank lines, whitespace-only lines and TSV header directives are never counted as data
  records" (`src/CHANGELOG.md:108`): in a TSV log a line of spaces, and a directive
  behind a byte-order mark, are counted as malformed records (`zeek_parser.py:213`).
- A port written as infinity raises OverflowError in the validation (`zeek_parser.py:419`), which ends the run.
- Two overlapping runs replace each other's reports without `--overwrite`
  (`cli.py:257`): the collision check is made once, at the start.
- An artifact outside the allowlist survives a later successful run when the
  manifest that listed it was lost (`src/README.md:430`, "reflects exactly the current run").
- A run that failed early leaves `execution.log`, and the next one refuses the
  directory because it "already contains generated reports" (`cli.py:269`).
- Several services of one pair of hosts share one return rule, since it has no
  service port; "each inbound allow gets a matching return rule"
  (`src/network_config.example.yaml:18`) holds in this sense (`ReturnPaths`).
- The comment at `policy_scope.py:134` says that an endpoint that is the target
  falls through to zone and global lists; the code skips those for it, too.
- A declared flow becomes "observed" when traffic corroborates it, while `src/README.md:212` says
  classes are never upgraded.
- Traffic that was attempted only leaves the annotation of an open service empty
  (`zeek_correlation.py:733`), although the comment calls it "already annotated as corroborated".
- A port the scan saw as `closed|filtered` or `unfiltered` is reported as
  "not covered by the Nmap scan" (`zeek_correlation.py:604`).
- A line of EVE JSON of exactly the limit swallows the next record (`ingestion.py:122`).
- A PCAP resumed with the same budget after its record limit makes no progress, since
  the counter continues from the checkpoint (`ingestion.py:263`). PCAPNG has no limit of records.
- Simple packet blocks of PCAPNG (type 3) are skipped without a diagnostic and the
  status is complete; every other unknown block has one.
- A download killed between rename and verification leaves an unverified package under
  its final name, and every later download refuses because it exists (`update.py:281`).
- A database with an entry `approved: false` is assessed "approved in configuration"
  (`risk_analysis.py:252`).
- A zone written as a single network is a source "Observed" (`flow_analysis.py:369`).
- A bare open record loses to a richer `open|filtered` duplicate; of two verdicts of
  one script in duplicates one is lost (`parser.py:125`).
- The review reason of a doubtful flow is lost if a declared flow has its key
  (`flow_analysis.py:785`), and a purpose taken from a dropped flow comes without its evidence.
- Of two inferred flows with one key the first category's is made, even if weaker
  (backup before patching, both on 443).

## 7. Plan

Done, in this order: AtomicFile/AtomicWrite (everything else rests on it),
Publication, PolicyScope/FirewallRules, ZeekCorrelation, ZeekLogs, Ingestion,
UpdateInstall, ScanRecords/FlowBuilder, and the proofs of every safety property they state.

Next, most important first:

1. `Pipeline`: FlowBuilder, ZeekCorrelation and FirewallRules composed: no rule
   without eligible evidence, end to end; it discharges the assumption that the
   correlation's flows have distinct keys, which `BestIsKept` proves of the builder, inside one specification.
2. `LoggingLifecycle`: which handlers of the root logger are closed by whom.

Not planned, and why: the reading of single documents, formatters, lookup tables,
probes of the environment and packaging scripts keep no state, and unit tests reach
their cases; Graphviz and `shadow_core` are external.
