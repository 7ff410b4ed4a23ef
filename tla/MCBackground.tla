----------------------------- MODULE MCBackground -----------------------------
(***************************************************************************)
(* The safety of the streams, and of the services and background work of   *)
(* which only safety is checked, for TLC.  They share no state and no      *)
(* step: subject says which one a behaviour follows, the others rest in an *)
(* initial state.                                                          *)
(***************************************************************************)
EXTENDS RunEventProperties, StorageRetention, AuthSessions, IngestionJobs, DataErasure,
        EmailOutbox, DatasetIndexing, DocumentSchedules

VARIABLE subject

Subjects == {"streams", "retention", "sessions", "ingestion", "erasure", "emails", "datasets",
             "schedules"}

background == <<subject, vars, retentionVars, authVars, ingestionVars, erasureVars, mailVars,
               datasetVars, scheduleVars>>

BackgroundTypeOK ==
    /\ subject \in Subjects
    /\ TypeOK /\ RetentionTypeOK /\ AuthTypeOK /\ IngestionTypeOK /\ ErasureTypeOK
    /\ EmailTypeOK /\ DatasetTypeOK /\ SchedulesTypeOK

BackgroundInit ==
    /\ subject \in Subjects
    /\ Init /\ RetentionInit /\ AuthInit /\ IngestionInit /\ ErasureInit
    /\ EmailInit /\ DatasetInit /\ SchedulesInit
    /\ subject # "ingestion" => document.text /\ passes = {}
    /\ subject # "erasure" => records = {}
    /\ subject # "datasets" => file = "live"
    /\ subject # "schedules" => \A s \in Schedules : ~schedules[s].enabled

Follows(name) == subject = name /\ UNCHANGED subject

BackgroundNext ==
    \/ /\ Follows("streams") /\ Next
       /\ UNCHANGED <<retentionVars, authVars, ingestionVars, erasureVars, mailVars,
                       datasetVars, scheduleVars>>
    \/ /\ Follows("retention") /\ RetentionNext
       /\ UNCHANGED <<vars, authVars, ingestionVars, erasureVars, mailVars, datasetVars,
                       scheduleVars>>
    \/ /\ Follows("sessions") /\ AuthNext
       /\ UNCHANGED <<vars, retentionVars, ingestionVars, erasureVars, mailVars,
                       datasetVars, scheduleVars>>
    \/ /\ Follows("ingestion") /\ IngestionNext
       /\ UNCHANGED <<vars, retentionVars, authVars, erasureVars, mailVars, datasetVars,
                       scheduleVars>>
    \/ /\ Follows("erasure") /\ ErasureNext
       /\ UNCHANGED <<vars, retentionVars, authVars, ingestionVars, mailVars, datasetVars,
                       scheduleVars>>
    \/ /\ Follows("emails") /\ EmailNext
       /\ UNCHANGED <<vars, retentionVars, authVars, ingestionVars, erasureVars,
                       datasetVars, scheduleVars>>
    \/ /\ Follows("datasets") /\ DatasetNext
       /\ UNCHANGED <<vars, retentionVars, authVars, ingestionVars, erasureVars, mailVars,
                       scheduleVars>>
    \/ /\ Follows("schedules") /\ SchedulesNext
       /\ UNCHANGED <<vars, retentionVars, authVars, ingestionVars, erasureVars, mailVars,
                       datasetVars>>

BackgroundSpec == BackgroundInit /\ [][BackgroundNext]_background
=============================================================================
