--------------------------- MODULE StorageRetention ---------------------------
(***************************************************************************)
(* Archive-first retention (StorageLifecycleService): the lifecycle item   *)
(* of one conversation, the scans that reconcile, preview and archive it   *)
(* under a lease, and the users who work in the conversation, change the   *)
(* policy, pin, archive and restore meanwhile.                             *)
(***************************************************************************)
EXTENDS Integers, FiniteSets

CONSTANTS
    Scanners,       \* workers that run storage_retention_scan
    Browsers,       \* users who open the preview
    Policies,       \* retention days, in steps of the clock; 0 is off
    MaxClock,       \* bound on the clock
    MaxScans,       \* bound on the scan rows
    MaxWork         \* bound on the runs of the conversation

ASSUME RetentionBounds == /\ Policies \subseteq Nat /\ 0 \in Policies
                          /\ {MaxClock, MaxScans, MaxWork} \subseteq Nat

VARIABLES
    item,           \* storage_lifecycle_items: [state, last, pinned]
    manifest,       \* state of its storage_archive_manifest
    policy,         \* retention_days of the tenant
    clock,
    work,           \* the conversation's runs: [busy, begun]
    scans,          \* storage_retention_runs of operation "scan"
    scanner,        \* per worker: where it is, and its scan row
    preview         \* per process in preview: what it has read and decided

retentionVars == <<item, manifest, policy, clock, work, scans, scanner, preview>>

Previewers == Scanners \cup Browsers
NoItem == [state |-> "none", last |-> 0, pinned |-> FALSE]
Items == [state : {"none", "active", "eligible", "archived"}, last : 0..MaxClock,
          pinned : BOOLEAN]
NoPreview == [pc |-> "off", seen |-> NoItem, safe |-> FALSE]
IdleScanner == [pc |-> "idle", scan |-> 0, mismatch |-> FALSE]

RetentionTypeOK ==
    /\ item \in Items /\ item # NoItem
    /\ manifest \in {"none", "archived", "restored"}
    /\ policy \in Policies /\ clock \in 0..MaxClock
    /\ work \in [busy : BOOLEAN, begun : 0..MaxWork]
    /\ scans \in [1..MaxScans -> {"none", "held", "expired", "complete"}]
    /\ scanner \in [Scanners -> [pc : {"idle", "insert", "reconcile", "preview", "previewed",
                                       "archive", "complete"},
                                 scan : 0..MaxScans, mismatch : BOOLEAN]]
    /\ preview \in [Previewers -> [pc : {"off", "check", "commit"}, seen : Items, safe : BOOLEAN]]

RetentionInit ==
    /\ item = [state |-> "active", last |-> 0, pinned |-> FALSE]
    /\ manifest = "none"
    /\ policy = 0 /\ clock = 0
    /\ work = [busy |-> FALSE, begun |-> 0]
    /\ scans = [n \in 1..MaxScans |-> "none"]
    /\ scanner = [s \in Scanners |-> IdleScanner]
    /\ preview = [p \in Previewers |-> NoPreview]
-----------------------------------------------------------------------------
(* The conversation and its owner. *)

\* record_activity: an upsert, so it waits for the row; an archived item is active
\* again, its manifest stays.
Touched == [item EXCEPT !.state = "active", !.last = clock]

\* create_run and finish_run, each with its activity in one transaction.
StartWork ==
    /\ ~work.busy /\ work.begun < MaxWork
    /\ work' = [busy |-> TRUE, begun |-> work.begun + 1]
    /\ item' = Touched
    /\ UNCHANGED <<manifest, policy, clock, scans, scanner, preview>>

EndWork ==
    /\ work.busy
    /\ work' = [work EXCEPT !.busy = FALSE]
    /\ item' = Touched
    /\ UNCHANGED <<manifest, policy, clock, scans, scanner, preview>>

SetPolicy(days) ==
    /\ policy # days
    /\ policy' = days
    /\ UNCHANGED <<item, manifest, clock, work, scans, scanner, preview>>

\* set_source_protection
SetPinned(pinned) ==
    /\ item.pinned # pinned
    /\ item' = [item EXCEPT !.pinned = pinned]
    /\ UNCHANGED <<manifest, policy, clock, work, scans, scanner, preview>>

Passes ==
    /\ clock < MaxClock
    /\ clock' = clock + 1
    /\ UNCHANGED <<item, manifest, policy, work, scans, scanner, preview>>

\* Mutation: runs do not protect.
ProtectedByPin(pinned) == pinned
\* _protection_reason of an eligible item: nothing pins it and nothing runs.
Protected(pinned) == pinned \/ work.busy

\* archive_item and archive_eligible_items hold the row of the item from the look at
\* its state to the commit.
Archives ==
    /\ item.state = "eligible" /\ ~Protected(item.pinned)
    /\ item' = [item EXCEPT !.state = "archived"]
    /\ manifest' = "archived"

ArchiveItem ==
    /\ Archives
    /\ UNCHANGED <<policy, clock, work, scans, scanner, preview>>

RestoreItem ==
    /\ manifest # "none"
    /\ item' = Touched
    /\ manifest' = "restored"
    /\ UNCHANGED <<policy, clock, work, scans, scanner, preview>>
-----------------------------------------------------------------------------
(* The preview of a scan or of a user: the inactive items are selected without *)
(* locks, each is checked, then all are marked.                                *)

ReadPreview(p) ==
    preview' = [preview EXCEPT ![p] =
        IF item.state \in {"active", "eligible"} /\ item.last <= clock - policy
        THEN [pc |-> "check", seen |-> item, safe |-> FALSE]
        ELSE [NoPreview EXCEPT !.pc = "commit"]]

\* One preview of a tenant at a time (pg_advisory_xact_lock).
MayPreview(p) == policy > 0 /\ \A o \in Previewers : preview[o].pc = "off"

OpenPreview(p) ==
    /\ p \in Browsers /\ MayPreview(p) /\ ReadPreview(p)
    /\ UNCHANGED <<item, manifest, policy, clock, work, scans, scanner>>

CheckItem(p) ==
    /\ preview[p].pc = "check"
    /\ preview' = [preview EXCEPT ![p].pc = "commit",
                                  ![p].safe = ~Protected(preview[p].seen.pinned)]
    /\ UNCHANGED <<item, manifest, policy, clock, work, scans, scanner>>

\* A state that was loaded as eligible is not written again.
MarkEligible(p) ==
    /\ preview[p].pc = "commit"
    /\ item' = IF preview[p].safe /\ preview[p].seen.state # "eligible"
               THEN [item EXCEPT !.state = "eligible"] ELSE item
    /\ preview' = [preview EXCEPT ![p] = NoPreview]
    /\ scanner' = IF p \in Scanners THEN [scanner EXCEPT ![p].pc = "previewed"] ELSE scanner
    /\ UNCHANGED <<manifest, policy, clock, work, scans>>
-----------------------------------------------------------------------------
(* storage_retention_scan *)

ScanAt(s, pc) == scanner[s].pc = pc
ScanGoes(s, pc) == scanner' = [scanner EXCEPT ![s].pc = pc]

Scanning(n) == scans[n] \in {"held", "expired"}

\* claim_scan_run: the newest running scan is left alone while its lease holds and
\* taken when it has expired; without one, or when its row is locked, a new row is
\* inserted afterwards.
ClaimScan(s) ==
    /\ ScanAt(s, "idle")
    /\ \/ \E n \in 1..MaxScans :
              /\ scans[n] = "expired" /\ \A m \in n + 1..MaxScans : ~Scanning(m)
              /\ scans' = [scans EXCEPT ![n] = "held"]
              /\ scanner' = [scanner EXCEPT ![s] = [IdleScanner EXCEPT !.pc = "reconcile",
                                                                       !.scan = n]]
       \/ (\A n \in 1..MaxScans : ~Scanning(n)) /\ ScanGoes(s, "insert") /\ UNCHANGED scans
    /\ UNCHANGED <<item, manifest, policy, clock, work, preview>>

InsertScan(s) ==
    /\ ScanAt(s, "insert")
    /\ \E n \in 1..MaxScans :
           /\ scans[n] = "none" /\ \A m \in 1..n - 1 : scans[m] # "none"
           /\ scans' = [scans EXCEPT ![n] = "held"]
           /\ scanner' = [scanner EXCEPT ![s].pc = "reconcile", ![s].scan = n]
    /\ UNCHANGED <<item, manifest, policy, clock, work, preview>>

\* advance_scan_run renews the lease, or raises when the row is not running any more,
\* which ends the scan.
Advances(s, pc) ==
    LET n == scanner[s].scan
    IN  IF Scanning(n) THEN scans' = [scans EXCEPT ![n] = "held"] /\ ScanGoes(s, pc)
        ELSE scanner' = [scanner EXCEPT ![s] = IdleScanner] /\ UNCHANGED scans

\* reconcile_tenant keeps the state of an item it knows; it may find a mismatch.
Reconcile(s) ==
    /\ ScanAt(s, "reconcile")
    /\ LET n == scanner[s].scan
       IN  \E mismatch \in BOOLEAN :
             IF Scanning(n)
             THEN /\ scans' = [scans EXCEPT ![n] = "held"]
                  /\ scanner' = [scanner EXCEPT ![s].pc = "preview", ![s].mismatch = mismatch]
             ELSE scanner' = [scanner EXCEPT ![s] = IdleScanner] /\ UNCHANGED scans
    /\ UNCHANGED <<item, manifest, policy, clock, work, preview>>

PreviewScan(s) ==
    /\ ScanAt(s, "preview") /\ preview[s].pc = "off"
    /\ IF policy = 0 THEN ScanGoes(s, "previewed") /\ UNCHANGED preview
       ELSE MayPreview(s) /\ ReadPreview(s) /\ UNCHANGED scanner
    /\ UNCHANGED <<item, manifest, policy, clock, work, scans>>

\* A preview that was off, or a mismatch, leads to no archive.
AfterPreview(s) ==
    /\ ScanAt(s, "previewed")
    /\ \/ Advances(s, "complete")
       \/ ~scanner[s].mismatch /\ Advances(s, "archive")
    /\ UNCHANGED <<item, manifest, policy, clock, work, preview>>

ArchiveScan(s) ==
    /\ ScanAt(s, "archive")
    /\ Archives \/ UNCHANGED <<item, manifest>>
    /\ ScanGoes(s, "complete")
    /\ UNCHANGED <<policy, clock, work, scans, preview>>

CompleteScan(s) ==
    /\ ScanAt(s, "complete")
    /\ scans' = [scans EXCEPT ![scanner[s].scan] = "complete"]
    /\ scanner' = [scanner EXCEPT ![s] = IdleScanner]
    /\ UNCHANGED <<item, manifest, policy, clock, work, preview>>

\* A scan that is slow, or whose worker is gone.
LeaseRunsOut(n) ==
    /\ scans[n] = "held"
    /\ scans' = [scans EXCEPT ![n] = "expired"]
    /\ UNCHANGED <<item, manifest, policy, clock, work, scanner, preview>>

LoseScanner(s) ==
    /\ ~ScanAt(s, "idle")
    /\ scanner' = [scanner EXCEPT ![s] = IdleScanner]
    /\ preview' = [preview EXCEPT ![s] = NoPreview]
    /\ UNCHANGED <<item, manifest, policy, clock, work, scans>>

Scan(s) == ClaimScan(s) \/ InsertScan(s) \/ Reconcile(s) \/ PreviewScan(s) \/ AfterPreview(s)
           \/ ArchiveScan(s) \/ CompleteScan(s)

RetentionNext ==
    \/ StartWork \/ EndWork \/ ArchiveItem \/ RestoreItem \/ Passes
    \/ \E days \in Policies : SetPolicy(days)
    \/ \E pinned \in BOOLEAN : SetPinned(pinned)
    \/ \E p \in Previewers : OpenPreview(p) \/ CheckItem(p) \/ MarkEligible(p)
    \/ \E s \in Scanners : Scan(s) \/ LoseScanner(s)
    \/ \E n \in 1..MaxScans : LeaseRunsOut(n)

RetentionSpec == RetentionInit /\ [][RetentionNext]_retentionVars
-----------------------------------------------------------------------------
\* "Active work wins": while a run of the conversation is active its item is not
\* archived, whatever a preview had decided before the run began.
WorkIsNotArchived == work.busy => item.state # "archived"
=============================================================================
