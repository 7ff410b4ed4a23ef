--------------------------- MODULE BackgroundProofs ---------------------------
(***************************************************************************)
(* The work in the background of an account: its erasure, its sessions,    *)
(* the lifecycle of its storage and its e-mails.                           *)
(***************************************************************************)
EXTENDS DataErasure, AuthSessions, StorageRetention, EmailOutbox, FiniteSetTheorems,
        TLAPS

-----------------------------------------------------------------------------
(***************************************************************************)
(* The erasure of an account and the purges it requested exclude each      *)
(* other, and no object in storage is forgotten, for any number of workers *)
(* and documents.                                                          *)
(***************************************************************************)

PurgerIdle(p) == purger[p].pc = "idle"

\* One approval, one message, one purge: while the purge waits for an approval or for
\* its submission there is no message, while there is a message no worker has begun, and
\* a worker that has begun is alone.  A submission that is wrongly reported as failed
\* marks the row under the worker, which is why the property excepts it.
OnePurge ==
    /\ admin # "idle" \/ approved => deletion.status # "awaiting_approval"
    /\ admin # "idle" => ~approved
    /\ approved \/ admin # "idle" \/ deletion.status = "awaiting_approval"
       => \A p \in Purgers : PurgerIdle(p)
    /\ \A p, o \in Purgers : ~PurgerIdle(p) /\ ~PurgerIdle(o) => p = o
    /\ \A p \in Purgers : Purging(p) => deletion.status = "processing" /\ eraser.pc = "idle"

PurgeInv == ErasureTypeOK /\ (~misreported => OnePurge)

LEMMA ErasureTypeInit == ErasureInit => ErasureTypeOK
<1> SUFFICES ASSUME ErasureInit PROVE ErasureTypeOK
  OBVIOUS
<1> USE DEF ErasureInit, ErasureTypeOK, PurgeStatuses, NoPurge
<1>1. purger \in [Purgers -> [pc : {"idle", "mark", "list", "remove", "commit"},
                              listed : SUBSET Documents, kept : SUBSET Documents]]
  OBVIOUS
<1>2. records \subseteq Documents /\ blobs \subseteq Documents /\ unlisted \subseteq Documents
  OBVIOUS
<1>3. cleanup \in [Documents -> {"none", "pending", "failed"}]
  OBVIOUS
<1>4. /\ deletion \in [status : PurgeStatuses, approver : {"none", "self", "other"}]
      /\ eraser \in [pc : {"idle", "locked"}, listed : SUBSET Documents]
  OBVIOUS
<1> QED
  BY <1>1, <1>2, <1>3, <1>4

LEMMA ErasureTypeStep == ErasureTypeOK /\ [ErasureNext]_erasureVars => ErasureTypeOK'
<1> SUFFICES ASSUME ErasureTypeOK, [ErasureNext]_erasureVars PROVE ErasureTypeOK'
  OBVIOUS
<1> USE DEF ErasureTypeOK, PurgeStatuses, NoPurge, StoreUnchanged
<1>1. ASSUME NEW approver \in {"self", "other"}, Approve(approver) PROVE ErasureTypeOK'
  BY <1>1 DEF Approve
<1>2. CASE SubmitPurge
  BY <1>2 DEF SubmitPurge
<1>3. CASE ReportFailure
  BY <1>3 DEF ReportFailure
<1>4. CASE CancelPurge \/ ApproverLeaves
  BY <1>4 DEF CancelPurge, ApproverLeaves
<1>5. ASSUME NEW p \in Purgers, Purge(p) PROVE ErasureTypeOK'
  <2>a. ASSUME NEW pc \in {"mark", "list"}, purger' = [purger EXCEPT ![p].pc = pc]
        PROVE  purger' \in [Purgers -> [pc : {"idle", "mark", "list", "remove", "commit"},
                                       listed : SUBSET Documents, kept : SUBSET Documents]]
    BY <2>a
  <2>1. CASE ReceivePurge(p)
    <3>1. purger' \in [Purgers -> [pc : {"idle", "mark", "list", "remove", "commit"},
                                  listed : SUBSET Documents, kept : SUBSET Documents]]
      BY <2>1, <2>a DEF ReceivePurge
    <3> QED
      BY <2>1, <3>1 DEF ReceivePurge
  <2>2. CASE MarkProcessing(p)
    <3>1. purger' \in [Purgers -> [pc : {"idle", "mark", "list", "remove", "commit"},
                                  listed : SUBSET Documents, kept : SUBSET Documents]]
      BY <2>2, <2>a DEF MarkProcessing
    <3> QED
      BY <2>2, <3>1 DEF MarkProcessing
  <2>3. CASE ListObjects(p)
    BY <2>3 DEF ListObjects
  <2>4. CASE RemoveObjects(p)
    <3>1. PICK kept \in SUBSET purger[p].listed :
              /\ purger' = [purger EXCEPT ![p].pc = "commit", ![p].kept = kept]
              /\ blobs' = blobs \ (purger[p].listed \ kept)
      BY <2>4 DEF RemoveObjects
    <3>2. kept \in SUBSET Documents
      OBVIOUS
    <3>3. purger' \in [Purgers -> [pc : {"idle", "mark", "list", "remove", "commit"},
                                  listed : SUBSET Documents, kept : SUBSET Documents]]
      BY ZenonT(60), <3>1, <3>2
    <3> QED
      BY <2>4, <3>1, <3>3 DEF RemoveObjects
  <2>5. CASE CommitPurge(p)
    BY <2>5 DEF CommitPurge, WithJobs
  <2>6. CASE FailPurge(p)
    <3>1. purger' \in [Purgers -> [pc : {"idle", "mark", "list", "remove", "commit"},
                                  listed : SUBSET Documents, kept : SUBSET Documents]]
      BY <2>6 DEF FailPurge
    <3> QED
      BY <2>6, <3>1 DEF FailPurge
  <2> QED
    BY <1>5, <2>1, <2>2, <2>3, <2>4, <2>5, <2>6 DEF Purge
<1>6. CASE BeginErasure \/ RollBackErasure
  BY <1>6 DEF BeginErasure, RollBackErasure
<1>7. CASE CommitErasure
  BY <1>7 DEF CommitErasure, WithJobs
<1>8. ASSUME NEW d \in Documents, UploadDocument(d) \/ DeleteObject(d) \/ RunCleanup(d) \/ RetryCleanup(d)
      PROVE  ErasureTypeOK'
  BY <1>8 DEF UploadDocument, DeleteObject, RunCleanup, RetryCleanup
<1>9. CASE UNCHANGED erasureVars
  BY <1>9 DEF erasureVars
<1> QED
  BY <1>1, <1>2, <1>3, <1>4, <1>5, <1>6, <1>7, <1>8, <1>9 DEF ErasureNext

LEMMA OnePurgeStep ==
    ASSUME PurgeInv, [ErasureNext]_erasureVars, ~misreported'
    PROVE  OnePurge'
<1> USE DEF OnePurge, PurgerIdle, Purging, NoPurge
<1>0. ErasureTypeOK /\ (~misreported => OnePurge)
  BY DEF PurgeInv
<1> USE <1>0
<1>t. purger \in [Purgers -> [pc : {"idle", "mark", "list", "remove", "commit"},
                              listed : SUBSET Documents, kept : SUBSET Documents]]
  BY DEF ErasureTypeOK
<1>d. /\ deletion \in [status : PurgeStatuses, approver : {"none", "self", "other"}]
      /\ eraser \in [pc : {"idle", "locked"}, listed : SUBSET Documents]
  BY DEF ErasureTypeOK
<1>1. ASSUME NEW approver \in {"self", "other"}, Approve(approver) PROVE OnePurge'
  BY <1>1, <1>d DEF Approve
<1>2. CASE SubmitPurge
  BY <1>2 DEF SubmitPurge
<1>3. CASE ReportFailure
  BY <1>3, <1>d DEF ReportFailure
<1>4. CASE CancelPurge \/ ApproverLeaves
  BY <1>4, <1>d DEF CancelPurge, ApproverLeaves
<1>5. ASSUME NEW p \in Purgers, Purge(p) PROVE OnePurge'
  <2>1. CASE ReceivePurge(p)
    BY <2>1, <1>t, <1>d DEF ReceivePurge
  <2>2. CASE MarkProcessing(p)
    BY <2>2, <1>t, <1>d DEF MarkProcessing, RowIsFree
  <2>3. CASE ListObjects(p)
    BY <2>3, <1>t DEF ListObjects
  <2>4. CASE RemoveObjects(p)
    BY <2>4, <1>t DEF RemoveObjects
  <2>5. CASE CommitPurge(p)
    BY <2>5, <1>t, <1>d DEF CommitPurge
  <2>6. CASE FailPurge(p)
    BY <2>6, <1>t, <1>d DEF FailPurge
  <2> QED
    BY <1>5, <2>1, <2>2, <2>3, <2>4, <2>5, <2>6 DEF Purge
<1>6. CASE BeginErasure
  BY <1>6, <1>d DEF BeginErasure
<1>7. CASE CommitErasure
  BY <1>7, <1>d DEF CommitErasure
<1>8. CASE RollBackErasure
  BY <1>8, <1>d DEF RollBackErasure
<1>9. ASSUME NEW d \in Documents, UploadDocument(d) \/ DeleteObject(d) \/ RunCleanup(d) \/ RetryCleanup(d)
      PROVE  OnePurge'
  BY <1>9 DEF UploadDocument, DeleteObject, RunCleanup, RetryCleanup
<1>10. CASE UNCHANGED erasureVars
  BY <1>10 DEF erasureVars
<1> QED
  BY <1>1, <1>2, <1>3, <1>4, <1>5, <1>6, <1>7, <1>8, <1>9, <1>10 DEF ErasureNext

\* The erasure of an account and a purge that it requested never overlap.
THEOREM ErasureExcludes == ErasureSpec => []ErasureExcludesPurge
<1>1. ErasureInit => PurgeInv
  BY ErasureTypeInit DEF ErasureInit, PurgeInv, OnePurge, PurgerIdle, Purging, NoPurge
<1>2. PurgeInv /\ [ErasureNext]_erasureVars => PurgeInv'
  BY ErasureTypeStep, OnePurgeStep DEF PurgeInv
<1>3. PurgeInv => ErasureExcludesPurge
  BY DEF PurgeInv, OnePurge, ErasureExcludesPurge
<1> QED
  BY <1>1, <1>2, <1>3, PTL DEF ErasureSpec
-----------------------------------------------------------------------------
\* What a purge has removed from storage, before its rows are gone, does not come back:
\* nobody uploads under an id that a purge has listed.
Removed == \A p \in Purgers : purger[p].pc = "commit"
                             => blobs \cap (purger[p].listed \ purger[p].kept) = {}

OrphanInv == ErasureTypeOK /\ Removed /\ NothingIsOrphaned

LEMMA OrphansStep ==
    ASSUME OrphanInv, [ErasureNext]_erasureVars
    PROVE  Removed' /\ NothingIsOrphaned'
<1> USE DEF OrphanInv, Removed, NothingIsOrphaned, NoPurge, StoreUnchanged
<1>t. /\ purger \in [Purgers -> [pc : {"idle", "mark", "list", "remove", "commit"},
                                 listed : SUBSET Documents, kept : SUBSET Documents]]
      /\ records \subseteq Documents /\ blobs \subseteq Documents
      /\ cleanup \in [Documents -> {"none", "pending", "failed"}]
  BY DEF ErasureTypeOK
<1> HIDE DEF ErasureTypeOK
<1>1. CASE SubmitPurge \/ ReportFailure \/ CancelPurge \/ ApproverLeaves
  BY <1>1 DEF SubmitPurge, ReportFailure, CancelPurge, ApproverLeaves
<1>2. ASSUME NEW approver \in {"self", "other"}, Approve(approver)
      PROVE  Removed' /\ NothingIsOrphaned'
  BY <1>2 DEF Approve
<1>3. ASSUME NEW p \in Purgers, Purge(p)
      PROVE  Removed' /\ NothingIsOrphaned'
  <2>1. CASE ReceivePurge(p)
    BY <1>t, <2>1 DEF ReceivePurge
  <2>2. CASE MarkProcessing(p)
    BY <1>t, <2>2 DEF MarkProcessing
  <2>3. CASE ListObjects(p)
    BY <1>t, <2>3 DEF ListObjects
  <2>4. CASE RemoveObjects(p)
    BY <1>t, <2>4 DEF RemoveObjects
  <2>5. CASE CommitPurge(p)
    <3>1. Removed'
      BY <1>t, <2>5 DEF CommitPurge
    <3>2. NothingIsOrphaned'
      BY <1>t, <2>5 DEF CommitPurge, WithJobs
    <3> QED
      BY <3>1, <3>2
  <2>6. CASE FailPurge(p)
    BY <1>t, <2>6 DEF FailPurge
  <2> QED
    BY <1>3, <2>1, <2>2, <2>3, <2>4, <2>5, <2>6 DEF Purge
<1>4. CASE BeginErasure \/ RollBackErasure
  BY <1>4 DEF BeginErasure, RollBackErasure
<1>5. CASE CommitErasure
  BY <1>t, <1>5 DEF CommitErasure, WithJobs
<1>6. ASSUME NEW d \in Documents, UploadDocument(d)
      PROVE  Removed' /\ NothingIsOrphaned'
  BY <1>t, <1>6 DEF UploadDocument, IsNew
<1>7. ASSUME NEW d \in Documents, DeleteObject(d) \/ RunCleanup(d) \/ RetryCleanup(d)
      PROVE  Removed' /\ NothingIsOrphaned'
  BY <1>t, <1>7 DEF DeleteObject, RunCleanup, RetryCleanup
<1>8. CASE UNCHANGED erasureVars
  BY <1>8 DEF erasureVars
<1> QED
  BY <1>1, <1>2, <1>3, <1>4, <1>5, <1>6, <1>7, <1>8 DEF ErasureNext

\* Whatever storage refuses to delete, whichever transaction is rolled back and whoever
\* is killed, an object without a document has a cleanup job or was never listed.
THEOREM NothingOrphaned == ErasureSpec => []NothingIsOrphaned
<1>1. ErasureInit => OrphanInv
  BY ErasureTypeInit DEF ErasureInit, OrphanInv, Removed, NothingIsOrphaned, NoPurge
<1>2. OrphanInv /\ [ErasureNext]_erasureVars => OrphanInv'
  BY ErasureTypeStep, OrphansStep DEF OrphanInv
<1>3. OrphanInv => NothingIsOrphaned
  BY DEF OrphanInv
<1> QED
  BY <1>1, <1>2, <1>3, PTL DEF ErasureSpec
-----------------------------------------------------------------------------
(***************************************************************************)
(* A session has at most one token that can be refreshed, for any number   *)
(* of requests that present the same token, log out or are the victim of a *)
(* deadlock: the row lock of get_by_hash is what makes it so.              *)
(***************************************************************************)

TokenRow == [state : {"none", "live", "rotated", "revoked"}, expired : BOOLEAN]
CallRow == [op : {"none", "check", "rotate", "family", "logout", "end"}, token : 0..MaxTokens,
            tokens : SUBSET Ages, session : BOOLEAN, seen : SUBSET Ages]

Refreshing(c) == call[c].op \in {"check", "rotate"}

\* A refresh that goes on holds the lock of its token, which nobody else holds, so that
\* the token stays as it was read until the refresh replaces it - or the session ends.
Locked == /\ \A c, o \in Calls : c # o => call[c].tokens \cap call[o].tokens = {}
          /\ \A c \in Calls : Refreshing(c) =>
                 /\ call[c].token \in Ages /\ call[c].token \in call[c].tokens
                 /\ ~revoked => token[call[c].token].state = "live"

TokenInv == AuthTypeOK /\ Locked /\ OneLiveToken

LEMMA TypeParts == AuthTypeOK <=> /\ token \in [Ages -> TokenRow] /\ revoked \in BOOLEAN
                                  /\ call \in [Calls -> CallRow] /\ calls \in 0..MaxCalls
BY DEF AuthTypeOK, TokenRow, CallRow

LEMMA NoCallType == NoCall \in CallRow
BY AuthBounds DEF NoCall, CallRow, Ages

LEMMA RefreshRow ==
    ASSUME NEW op \in {"family", "check"}, NEW a \in Ages, NEW seen \in SUBSET Ages
    PROVE  \E new \in CallRow :
               /\ new = [NoCall EXCEPT !.op = op, !.token = a, !.tokens = {a}, !.seen = seen]
               /\ new.op = op /\ new.token = a /\ new.tokens = {a}
<1> DEFINE new == [NoCall EXCEPT !.op = op, !.token = a, !.tokens = {a}, !.seen = seen]
<1>1. a \in 0..MaxTokens /\ {a} \in SUBSET Ages
  BY AuthBounds DEF Ages
<1>2. new \in CallRow /\ new.op = op /\ new.token = a /\ new.tokens = {a}
  BY <1>1, NoCallType DEF CallRow
<1> QED
  BY <1>2

\* What a step of one request does to the others.
LEMMA OneCallChanges ==
    ASSUME call \in [Calls -> CallRow], NEW c \in Calls, NEW new \in CallRow,
           call' = [call EXCEPT ![c] = new]
    PROVE  /\ call' \in [Calls -> CallRow] /\ call'[c] = new
           /\ \A o \in Calls : o # c => call'[o] = call[o]
OBVIOUS

\* A request that takes no lock but free ones, and refreshes nothing or what it has locked.
LEMMA LockedKept ==
    ASSUME TokenInv, NEW c \in Calls, NEW new \in CallRow, call' = [call EXCEPT ![c] = new],
           UNCHANGED <<token, revoked>>,
           new.tokens \cap LockedByOthers(c) = {},
           new.op \in {"check", "rotate"} =>
               \/ new.token \in Ages /\ new.token \in new.tokens /\ token[new.token].state = "live"
               \/ Refreshing(c) /\ new.token = call[c].token /\ new.tokens = call[c].tokens
    PROVE  Locked' /\ OneLiveToken'
<1>1. /\ call'[c] = new
      /\ \A o \in Calls : o # c => call'[o] = call[o]
  BY OneCallChanges, TypeParts DEF TokenInv
<1>2. \A o \in Calls : o # c => call[o].tokens \cap new.tokens = {}
  BY DEF LockedByOthers
<1>3. OneLiveToken'
  BY DEF TokenInv, OneLiveToken, Live
<1>4. \A a, b \in Calls : a # b => call'[a].tokens \cap call'[b].tokens = {}
  BY <1>1, <1>2 DEF TokenInv, Locked
<1>5. \A a \in Calls : Refreshing(a)' =>
          /\ call'[a].token \in Ages /\ call'[a].token \in call'[a].tokens
          /\ ~revoked' => token'[call'[a].token].state = "live"
  <2> SUFFICES ASSUME NEW a \in Calls, Refreshing(a)'
               PROVE  /\ call'[a].token \in Ages /\ call'[a].token \in call'[a].tokens
                      /\ ~revoked' => token'[call'[a].token].state = "live"
    OBVIOUS
  <2>1. CASE a = c
    BY <1>1, <2>1 DEF TokenInv, Locked, Refreshing
  <2>2. CASE a # c
    BY <1>1, <2>2 DEF TokenInv, Locked, Refreshing
  <2> QED
    BY <2>1, <2>2
<1> QED
  BY <1>3, <1>4, <1>5 DEF Locked

\* A request keeps its locks apart from those of the others.
LEMMA OwnLocks == ASSUME Locked, NEW c \in Calls PROVE call[c].tokens \cap LockedByOthers(c) = {}
BY DEF Locked, LockedByOthers

LEMMA TokenInvStep == TokenInv /\ [AuthNext]_authVars => TokenInv'
<1> SUFFICES ASSUME TokenInv, [AuthNext]_authVars PROVE TokenInv'
  OBVIOUS
<1>t. /\ token \in [Ages -> TokenRow] /\ revoked \in BOOLEAN
      /\ call \in [Calls -> CallRow] /\ calls \in 0..MaxCalls
  BY TypeParts DEF TokenInv
<1>i. Locked /\ OneLiveToken
  BY DEF TokenInv
<1>l. Live \subseteq Ages
  BY DEF Live
\* Every step of a request that leaves the rows alone.
<1>k. ASSUME NEW c \in Calls, NEW new \in CallRow, call' = [call EXCEPT ![c] = new],
             UNCHANGED <<token, revoked>>, calls' \in 0..MaxCalls,
             new.tokens \cap LockedByOthers(c) = {},
             new.op \in {"check", "rotate"} =>
                 \/ new.token \in Ages /\ new.token \in new.tokens /\ token[new.token].state = "live"
                 \/ Refreshing(c) /\ new.token = call[c].token /\ new.tokens = call[c].tokens
      PROVE  TokenInv'
  <2>1. Locked' /\ OneLiveToken'
    BY <1>k, LockedKept
  <2>2. AuthTypeOK'
    BY <1>k, <1>t DEF AuthTypeOK, TokenRow, CallRow
  <2> QED
    BY <2>1, <2>2 DEF TokenInv
<1>b. ASSUME NEW c \in Calls, Begins(c) PROVE calls' \in 0..MaxCalls
  BY <1>b, <1>t, AuthBounds DEF Begins
<1>r. ASSUME NEW c \in Calls, Returns(c), UNCHANGED <<token, revoked>>, calls' \in 0..MaxCalls
      PROVE  TokenInv'
  <2>1. NoCall.tokens = {} /\ NoCall.op = "none"
    BY DEF NoCall
  <2> QED
    BY <1>k, <1>r, <2>1, NoCallType DEF Returns
<1>1. ASSUME NEW c \in Calls, NEW a \in Ages, Refresh(c, a)
      PROVE  TokenInv'
  <2>1. /\ a \notin LockedByOthers(c) /\ token[a].state \in {"live", "rotated"}
        /\ UNCHANGED <<token, revoked>>
    BY <1>1 DEF Refresh
  <2>2. calls' \in 0..MaxCalls
    BY <1>1, <1>b DEF Refresh
  <2>3. {a} \cap LockedByOthers(c) = {} /\ {} \in SUBSET Ages /\ Live \in SUBSET Ages
    BY <1>l, <2>1
  <2>4. CASE token[a].state = "rotated"
    <3>0. PICK seen \in SUBSET Ages : seen = Live
      BY <2>3
    <3>1. PICK new \in CallRow : /\ new = [NoCall EXCEPT !.op = "family", !.token = a,
                                                         !.tokens = {a}, !.seen = seen]
                                 /\ new.op = "family" /\ new.token = a /\ new.tokens = {a}
      BY ZenonT(60), RefreshRow
    <3>2. call' = [call EXCEPT ![c] = new]
      BY <1>1, <2>4, <3>0, <3>1 DEF Refresh
    <3> QED
      BY <1>k, <2>1, <2>2, <2>3, <3>1, <3>2
  <2>5. CASE token[a].state = "live"
    <3>1. PICK new \in CallRow : /\ new = [NoCall EXCEPT !.op = "check", !.token = a,
                                                         !.tokens = {a}, !.seen = {}]
                                 /\ new.op = "check" /\ new.token = a /\ new.tokens = {a}
      BY ZenonT(60), <2>3, RefreshRow
    <3>2. call' = [call EXCEPT ![c] = new]
      BY <1>1, <2>5, <3>1 DEF Refresh
    <3>3. new.op \in {"check", "rotate"} =>
              \/ new.token \in Ages /\ new.token \in new.tokens /\ token[new.token].state = "live"
              \/ Refreshing(c) /\ new.token = call[c].token /\ new.tokens = call[c].tokens
      BY <2>5, <3>1
    <3>4. new.tokens \cap LockedByOthers(c) = {}
      BY <2>3, <3>1
    <3> QED
      BY <1>k, <2>1, <2>2, <3>2, <3>3, <3>4
  <2> QED
    BY <2>1, <2>4, <2>5
<1>2. ASSUME NEW c \in Calls, CheckSession(c)
      PROVE  TokenInv'
  <2>1. call[c].op = "check" /\ UNCHANGED <<token, revoked, calls>>
    BY <1>2 DEF CheckSession
  <2>2. call[c].token \in Ages /\ call[c].tokens \cap LockedByOthers(c) = {}
    BY <1>i, <2>1, OwnLocks DEF Locked, Refreshing
  <2>3. CASE Returns(c)
    BY <1>r, <1>t, <2>1, <2>3
  <2>4. CASE call' = [call EXCEPT ![c].op = "rotate"]
    <3> DEFINE new == [call[c] EXCEPT !.op = "rotate"]
    <3>1. /\ new \in CallRow /\ new.op = "rotate" /\ new.token = call[c].token
          /\ new.tokens = call[c].tokens /\ call' = [call EXCEPT ![c] = new]
      BY <1>t, <2>4 DEF CallRow
    <3> HIDE DEF new
    <3> QED
      BY <1>k, <1>t, <2>1, <2>2, <3>1 DEF Refreshing
  <2>5. ASSUME NEW op \in {"end", "family"}, NEW seen \in SUBSET Ages,
               call' = [call EXCEPT ![c].op = op, ![c].seen = seen]
        PROVE  TokenInv'
    <3> DEFINE new == [call[c] EXCEPT !.op = op, !.seen = seen]
    <3>1. /\ new \in CallRow /\ new.op = op /\ new.tokens = call[c].tokens
          /\ call' = [call EXCEPT ![c] = new]
      BY <1>t, <2>5 DEF CallRow
    <3> HIDE DEF new
    <3> QED
      BY <1>k, <1>t, <2>1, <2>2, <3>1
  <2>6. {call[c].token} \in SUBSET Ages
    BY <2>2
  <2> QED
    BY <1>2, <1>l, <2>3, <2>4, <2>5, <2>6 DEF CheckSession
<1>3. ASSUME NEW c \in Calls, Rotate(c)
      PROVE  TokenInv'
  <2> DEFINE old == call[c].token
  <2>1. /\ call[c].op = "rotate" /\ call' = [call EXCEPT ![c] = NoCall] /\ UNCHANGED <<revoked, calls>>
        /\ old \in Ages
    BY <1>3, <1>i DEF Rotate, Returns, Locked, Refreshing
  <2>2. PICK new \in Ages :
            /\ token[new].state = "none"
            /\ token' = [token EXCEPT ![old].state = "rotated", ![new].state = "live"]
    BY <1>3 DEF Rotate
  <2>3. AuthTypeOK'
    <3>1. token' \in [Ages -> TokenRow]
      BY <1>t, <2>1, <2>2 DEF TokenRow
    <3>2. call' \in [Calls -> CallRow]
      BY <1>t, <2>1, NoCallType
    <3> QED
      BY <1>t, <2>1, <3>1, <3>2 DEF AuthTypeOK, TokenRow, CallRow
  <2>4. /\ call'[c] = NoCall /\ NoCall.tokens = {} /\ NoCall.op = "none"
        /\ \A o \in Calls : o # c => call'[o] = call[o]
    BY <1>t, <2>1 DEF NoCall
  <2>5. CASE revoked
    BY <1>i, <2>1, <2>3, <2>4, <2>5 DEF TokenInv, Locked, OneLiveToken, Refreshing
  <2>6. CASE ~revoked
    <3>1. token[old].state = "live"
      BY <1>i, <2>1, <2>6 DEF Locked, Refreshing
    <3>2. \A a \in Ages : token[a].state = "live" => a = old
      BY <1>i, <2>1, <2>6, <3>1 DEF OneLiveToken, Live
    <3>3. new # old
      BY <2>2, <3>1
    <3>4. \A a \in Ages : a # new => token'[a].state # "live"
      BY <1>t, <2>1, <2>2, <3>2, <3>3 DEF TokenRow
    <3>5. OneLiveToken'
      BY <3>4 DEF OneLiveToken, Live
    <3>6. \A o \in Calls : o # c => ~Refreshing(o)
      <4> SUFFICES ASSUME NEW o \in Calls, o # c, Refreshing(o) PROVE FALSE
        OBVIOUS
      <4>1. call[o].token = old /\ call[o].token \in call[o].tokens /\ old \in call[c].tokens
        BY <1>i, <2>1, <2>6, <3>2 DEF Locked, Refreshing
      <4> QED
        BY <1>i, <4>1 DEF Locked
    <3>7. Locked'
      BY <1>i, <2>1, <2>4, <3>6 DEF Locked, Refreshing
    <3> QED
      BY <2>3, <3>5, <3>7 DEF TokenInv
  <2> QED
    BY <2>5, <2>6
<1>4. ASSUME NEW c \in Calls, NEW session \in BOOLEAN,
             call' = [call EXCEPT ![c] = [NoCall EXCEPT !.op = "family", !.session = session,
                                                        !.seen = Live]],
             UNCHANGED <<token, revoked>>, calls' \in 0..MaxCalls
      PROVE  TokenInv'
  <2> DEFINE new == [NoCall EXCEPT !.op = "family", !.session = session, !.seen = Live]
  <2>1. new \in CallRow /\ new.op = "family" /\ new.tokens = {}
    BY <1>l, NoCallType DEF NoCall, CallRow
  <2> HIDE DEF new
  <2> QED
    BY <1>k, <1>4, <2>1 DEF new
<1>5. ASSUME NEW c \in Calls, Logout(c)
      PROVE  TokenInv'
  <2>1. calls' \in 0..MaxCalls /\ UNCHANGED <<token, revoked>>
    BY <1>5, <1>b DEF Logout
  <2>2. CASE revoked
    <3>1. UNCHANGED call
      BY <1>5, <2>2 DEF Logout
    <3> QED
      BY <1>i, <1>t, <2>1, <3>1 DEF TokenInv, Locked, OneLiveToken, Refreshing, Live, AuthTypeOK,
         TokenRow, CallRow
  <2>3. CASE ~revoked
    BY <1>4, <1>5, <2>1, <2>3 DEF Logout
  <2> QED
    BY <2>2, <2>3
<1>6. ASSUME NEW c \in Calls, LogoutAll(c)
      PROVE  TokenInv'
  <2> DEFINE new == [NoCall EXCEPT !.op = "family", !.seen = Live]
  <2>1. new \in CallRow /\ new.op = "family" /\ new.tokens = {}
    BY <1>l, NoCallType DEF NoCall, CallRow
  <2>2. /\ call' = [call EXCEPT ![c] = new] /\ UNCHANGED <<token, revoked>>
        /\ calls' \in 0..MaxCalls
    BY <1>6, <1>b DEF LogoutAll
  <2> HIDE DEF new
  <2> QED
    BY <1>k, <2>1, <2>2
<1>7. ASSUME NEW c \in Calls, RevokeTokens(c)
      PROVE  TokenInv'
  <2> DEFINE new == [call[c] EXCEPT !.op = "end", !.seen = @ \cap Live,
                                    !.tokens = @ \cup (call[c].seen \cap Live)]
  <2>1. /\ new \in CallRow /\ new.op = "end" /\ new.tokens = call[c].tokens \cup (call[c].seen \cap Live)
        /\ call' = [call EXCEPT ![c] = new]
    BY <1>7, <1>l, <1>t DEF RevokeTokens, CallRow
  <2>2. new.tokens \cap LockedByOthers(c) = {}
    BY <1>7, <1>i, <2>1, OwnLocks DEF RevokeTokens
  <2>3. UNCHANGED <<token, revoked, calls>>
    BY <1>7 DEF RevokeTokens
  <2> HIDE DEF new
  <2> QED
    BY <1>k, <1>t, <2>1, <2>2, <2>3
<1>8. ASSUME NEW c \in Calls, RevokeSession(c)
      PROVE  TokenInv'
  <2>1. revoked' = TRUE /\ call' = [call EXCEPT ![c] = NoCall] /\ UNCHANGED calls
    BY <1>8 DEF RevokeSession, Returns
  <2>2. token' \in [Ages -> TokenRow]
    BY <1>8, <1>t DEF RevokeSession, TokenRow
  <2>3. AuthTypeOK'
    BY <1>t, <2>1, <2>2, NoCallType DEF AuthTypeOK, TokenRow, CallRow
  <2>4. /\ call'[c] = NoCall /\ NoCall.tokens = {} /\ NoCall.op = "none"
        /\ \A o \in Calls : o # c => call'[o] = call[o]
    BY <1>t, <2>1 DEF NoCall
  <2> QED
    BY <1>i, <2>1, <2>3, <2>4 DEF TokenInv, Locked, OneLiveToken, Refreshing
<1>9. ASSUME NEW c \in Calls, Deadlock(c)
      PROVE  TokenInv'
  BY <1>9, <1>r, <1>t DEF Deadlock
<1>10. ASSUME NEW a \in Ages, Expire(a)
       PROVE  TokenInv'
  <2>1. /\ token' \in [Ages -> TokenRow] /\ \A b \in Ages : token'[b].state = token[b].state
        /\ UNCHANGED <<revoked, call, calls>>
    BY <1>10, <1>t DEF Expire, TokenRow
  <2>2. Live' = Live
    BY <2>1 DEF Live
  <2> QED
    BY <1>i, <1>t, <2>1, <2>2 DEF TokenInv, Locked, OneLiveToken, Refreshing, AuthTypeOK, TokenRow, CallRow
<1>11. CASE UNCHANGED authVars
  BY <1>11, <1>i, <1>t DEF authVars, TokenInv, Locked, OneLiveToken, Refreshing, Live, AuthTypeOK,
     TokenRow, CallRow
<1> QED
  BY <1>1, <1>2, <1>3, <1>5, <1>6, <1>7, <1>8, <1>9, <1>10, <1>11 DEF AuthNext

\* However many requests present a refresh token at the same time, the session never has
\* two tokens that can be refreshed.
THEOREM OneTokenLives == AuthSpec => []OneLiveToken
<1>1. AuthInit => TokenInv
  <2> SUFFICES ASSUME AuthInit PROVE TokenInv
    OBVIOUS
  <2>1. AuthTypeOK
    <3>1. token \in [Ages -> TokenRow]
      BY DEF AuthInit, TokenRow
    <3>2. call \in [Calls -> CallRow]
      BY NoCallType DEF AuthInit
    <3>3. revoked \in BOOLEAN
      BY DEF AuthInit
    <3>4. calls \in 0..MaxCalls
      BY AuthBounds DEF AuthInit
    <3> QED
      BY <3>1, <3>2, <3>3, <3>4, TypeParts
  <2>2. OneLiveToken
    BY DEF AuthInit, OneLiveToken, Live
  <2>3. Locked
    BY DEF AuthInit, Locked, Refreshing, NoCall
  <2> QED
    BY <2>1, <2>2, <2>3 DEF TokenInv
<1>2. TokenInv => OneLiveToken
  BY DEF TokenInv
<1> QED
  BY <1>1, <1>2, TokenInvStep, PTL DEF AuthSpec
-----------------------------------------------------------------------------
(***************************************************************************)
(* An artifact with work in progress is never archived, for any number of  *)
(* scans and previews and however old what they have read is.              *)
(***************************************************************************)

ItemRow == [state : {"none", "active", "eligible", "archived"}, last : Int, pinned : BOOLEAN]

\* Nothing but the item and the run matters, whatever the scans and previews have read:
\* the run makes the item active in its own transaction, and only an eligible item is
\* archived, under its lock, after another look at the runs.
WorkInv == /\ item \in ItemRow /\ clock \in Int
           /\ work \in [busy : BOOLEAN, begun : Int]
           /\ WorkIsNotArchived

LEMMA WorkStep == ASSUME WorkInv, [RetentionNext]_retentionVars PROVE WorkInv'
<1> USE DEF WorkInv, WorkIsNotArchived
<1>1. ASSUME StartWork \/ EndWork \/ RestoreItem PROVE WorkInv'
  <2>1. Touched \in ItemRow /\ Touched.state = "active"
    BY DEF Touched, ItemRow
  <2>2. item' = Touched /\ clock' = clock
    BY <1>1 DEF StartWork, EndWork, RestoreItem
  <2>3. work' \in [busy : BOOLEAN, begun : Int]
    <3>1. CASE StartWork
      <4>1. work.begun + 1 \in Int
        OBVIOUS
      <4> QED
        BY <3>1, <4>1 DEF StartWork
    <3>2. CASE EndWork
      BY <3>2 DEF EndWork
    <3>3. CASE RestoreItem
      BY <3>3 DEF RestoreItem
    <3> QED
      BY <1>1, <3>1, <3>2, <3>3
  <2> QED
    BY <2>1, <2>2, <2>3
<1>2. ASSUME Archives, UNCHANGED <<work, clock>> PROVE WorkInv'
  BY <1>2 DEF Archives, Protected, ItemRow
<1>3. ASSUME NEW p \in Previewers, MarkEligible(p) PROVE WorkInv'
  BY <1>3 DEF MarkEligible, ItemRow
<1>4. ASSUME NEW pinned \in BOOLEAN, SetPinned(pinned) PROVE WorkInv'
  BY <1>4 DEF SetPinned, ItemRow
<1>5. CASE Passes
  BY <1>5, RetentionBounds DEF Passes
<1>6. ASSUME UNCHANGED <<item, clock, work>> PROVE WorkInv'
  BY <1>6
<1>7. CASE ArchiveItem
  BY <1>2, <1>7 DEF ArchiveItem
<1>8. ASSUME NEW s \in Scanners, ArchiveScan(s) PROVE WorkInv'
  BY <1>2, <1>6, <1>8 DEF ArchiveScan
<1>9. ASSUME NEW days \in Policies, SetPolicy(days) PROVE WorkInv'
  BY <1>6, <1>9 DEF SetPolicy
<1>10. ASSUME NEW p \in Previewers, OpenPreview(p) \/ CheckItem(p) PROVE WorkInv'
  BY <1>6, <1>10 DEF OpenPreview, CheckItem
<1>11. ASSUME NEW s \in Scanners, ClaimScan(s) \/ InsertScan(s) \/ Reconcile(s) \/ PreviewScan(s)
                                  \/ AfterPreview(s) \/ CompleteScan(s) \/ LoseScanner(s)
       PROVE  WorkInv'
  BY <1>6, <1>11 DEF ClaimScan, InsertScan, Reconcile, PreviewScan, AfterPreview, CompleteScan,
                     LoseScanner
<1>12. ASSUME NEW n \in 1..MaxScans, LeaseRunsOut(n) PROVE WorkInv'
  BY <1>6, <1>12 DEF LeaseRunsOut
<1>13. CASE UNCHANGED retentionVars
  BY <1>6, <1>13 DEF retentionVars
<1> QED
  BY <1>1, <1>3, <1>4, <1>5, <1>7, <1>8, <1>9, <1>10, <1>11, <1>12, <1>13 DEF RetentionNext, Scan

\* While a run of the conversation is active its item is not archived, for any number of
\* scans and previews, policies and clocks.
THEOREM WorkWins == RetentionSpec => []WorkIsNotArchived
<1>1. RetentionInit => WorkInv
  BY DEF RetentionInit, WorkInv, WorkIsNotArchived, ItemRow
<1>2. WorkInv /\ [RetentionNext]_retentionVars => WorkInv'
  BY WorkStep
<1>3. WorkInv => WorkIsNotArchived
  BY DEF WorkInv
<1> QED
  BY <1>1, <1>2, <1>3, PTL DEF RetentionSpec
-----------------------------------------------------------------------------
(***************************************************************************)
(* E-mails: one is sent twice only when a worker was lost or a send        *)
(* outlasted its claim, once for each, and one that a preference silences  *)
(* is not sent later. The proof counts: every send beyond the first, and   *)
(* every attempt that can still become one, is paid for by such a cause    *)
(* (Budget).                                                               *)
(***************************************************************************)

(* Cardinalities. *)

Bit(p) == IF p THEN 1 ELSE 0

\* Sets that differ in m at most.
LEMMA ButOne ==
    ASSUME NEW S, NEW T, NEW m, IsFiniteSet(S), S \ {m} = T \ {m}
    PROVE  /\ IsFiniteSet(T) /\ Cardinality(S) \in Int /\ Cardinality(T) \in Int
           /\ Cardinality(T) = Cardinality(S) + Bit(m \in T) - Bit(m \in S)
<1> DEFINE R == S \ {m}
<1>1. IsFiniteSet(R) /\ m \notin R
  BY FS_RemoveElement
<1>2. Cardinality(R) \in Int
  BY <1>1, FS_CardinalityType
<1>3. IsFiniteSet(R \cup {m}) /\ Cardinality(R \cup {m}) = Cardinality(R) + 1
  BY <1>1, FS_AddElement
<1>4. S = IF m \in S THEN R \cup {m} ELSE R
  OBVIOUS
<1>5. T = IF m \in T THEN R \cup {m} ELSE R
  OBVIOUS
<1> HIDE DEF R
<1>6. Cardinality(S) = Cardinality(R) + Bit(m \in S)
  BY <1>2, <1>3, <1>4 DEF Bit
<1>7. Cardinality(T) = Cardinality(R) + Bit(m \in T) /\ IsFiniteSet(T)
  BY <1>1, <1>2, <1>3, <1>5 DEF Bit
<1> QED
  BY <1>2, <1>6, <1>7 DEF Bit
-----------------------------------------------------------------------------
(* Types, and what a worker has in its hand. *)

OutboxRow == [status : {"none", "added", "pending", "processing", "delivered", "suppressed",
                        "failed"},
              attempts : Int, due : BOOLEAN, leased : BOOLEAN]
PreferenceRow == [enabled : BOOLEAN, digest : BOOLEAN, muted : SUBSET Emails]
MailerRow == [pc : {"idle", "group", "recheck", "send", "sent", "refused"},
              groups : SUBSET SUBSET Emails, hand : SUBSET Emails]
FaultRow == [updates : Int, lost : Int, lapsed : Int, unclear : Int]

MailTypes == /\ outbox \in [Emails -> OutboxRow]
             /\ preference \in PreferenceRow
             /\ mailer \in [Mailers -> MailerRow]
             /\ accepted \in [Emails -> Int]
             /\ silenced \subseteq Emails
             /\ mailFaults \in FaultRow

Disjoint(sets) == \A g, h \in sets : g # h => g \cap h = {}

\* An e-mail is in one group of a worker, or in its hand.
Hands == \A m \in Mailers :
             /\ mailer[m].pc \in {"idle", "group", "recheck"} => mailer[m].hand = {}
             /\ mailer[m].pc = "idle" => mailer[m].groups = {}
             /\ Disjoint(mailer[m].groups)
             /\ mailer[m].hand \cap UNION mailer[m].groups = {}

MailShape == MailTypes /\ Hands

Others(m) == \A o \in Mailers : o # m => mailer'[o] = mailer[o]

LEMMA ContinuesTo ==
    ASSUME MailTypes, NEW m \in Mailers, NEW gs \in SUBSET SUBSET Emails, Continues(m, gs)
    PROVE  /\ mailer' \in [Mailers -> MailerRow] /\ Others(m)
           /\ mailer'[m].groups = gs /\ mailer'[m].hand = {}
           /\ mailer'[m].pc \in {"idle", "recheck"} /\ (mailer'[m].pc = "idle" => gs = {})
<1> DEFINE new == IF gs = {} THEN Idle ELSE [pc |-> "recheck", groups |-> gs, hand |-> {}]
<1>1. new \in MailerRow /\ new.groups = gs /\ new.hand = {} /\ new.pc \in {"idle", "recheck"}
      /\ (new.pc = "idle" => gs = {})
  BY DEF Idle, MailerRow
<1>2. mailer' = [mailer EXCEPT ![m] = new]
  BY DEF Continues
<1> HIDE DEF new
<1> QED
  BY <1>1, <1>2 DEF MailTypes, Others

LEMMA SuppressedRows ==
    ASSUME MailTypes, NEW es, Suppressed(es)
    PROVE  /\ outbox' \in [Emails -> OutboxRow]
           /\ \A e \in Emails : /\ e \in es => outbox'[e].status = "suppressed"
                                /\ e \notin es => outbox'[e] = outbox[e]
<1>1. \A e \in Emails : /\ [outbox[e] EXCEPT !.status = "suppressed", !.leased = FALSE] \in OutboxRow
                        /\ [outbox[e] EXCEPT !.status = "suppressed", !.leased = FALSE].status
                           = "suppressed"
  BY DEF MailTypes, OutboxRow
<1> QED
  BY <1>1 DEF Suppressed, MailTypes
-----------------------------------------------------------------------------
(* What a step of worker m does to e-mail e. *)

\* The worker may still have it accepted.
Unsent(m, e) == \/ e \in UNION mailer[m].groups
                \/ e \in mailer[m].hand /\ mailer[m].pc # "sent"

\* A worker may claim it, perhaps after its lease has run out with no worker.
Loose(e) == \/ outbox[e].status \in {"none", "added", "pending"}
            \/ /\ outbox[e].status = "processing"
               /\ ~outbox[e].leased \/ \A m \in Mailers : ~HasEmail(m, e)

Spent == mailFaults.lost + mailFaults.lapsed + mailFaults.unclear

\* The step does not add to what has been and may still be accepted more than to the
\* faults; only what is in the hand of the worker is accepted, and what has been
\* suppressed before it came there stays out of it.
Within(m, e) ==
    /\ accepted'[e] + Bit(Unsent(m, e)') + Bit(Loose(e)') - Spent'
       <= accepted[e] + Bit(Unsent(m, e)) + Bit(Loose(e)) - Spent
    /\ accepted'[e] # accepted[e] => e \in mailer[m].hand
    /\ outbox[e].status = "suppressed" /\ e \notin mailer[m].hand
       => outbox'[e].status = "suppressed" /\ e \notin mailer'[m].hand

LEMMA LooseAsBefore ==
    ASSUME NEW m \in Mailers, NEW e \in Emails, Others(m), outbox'[e] = outbox[e],
           outbox[e].status # "processing" \/ (HasEmail(m, e)' <=> HasEmail(m, e))
    PROVE  Loose(e)' <=> Loose(e)
<1>1. \A o \in Mailers : o # m => (HasEmail(o, e)' <=> HasEmail(o, e))
  BY DEF Others, HasEmail
<1> QED
  BY <1>1 DEF Loose

LEMMA SpentType ==
    ASSUME MailTypes
    PROVE  /\ Spent \in Int
           /\ \A kind \in {"lost", "lapsed", "unclear"} :
                  Fault(kind) => mailFaults' \in FaultRow /\ Spent' = Spent + 1
<1>1. Spent \in Int
  BY DEF MailTypes, FaultRow, Spent
<1>2. ASSUME NEW kind \in {"lost", "lapsed", "unclear"}, Fault(kind)
      PROVE  mailFaults' \in FaultRow /\ Spent' = Spent + 1
  <2>1. mailFaults' = [mailFaults EXCEPT ![kind] = @ + 1]
    BY <1>2 DEF Fault
  <2>2. CASE kind = "lost"
    <3>1. mailFaults' = [mailFaults EXCEPT !.lost = @ + 1]
      BY <2>1, <2>2
    <3> QED
      BY <3>1 DEF MailTypes, FaultRow, Spent
  <2>3. CASE kind = "lapsed"
    <3>1. mailFaults' = [mailFaults EXCEPT !.lapsed = @ + 1]
      BY <2>1, <2>3
    <3> QED
      BY <3>1 DEF MailTypes, FaultRow, Spent
  <2>4. CASE kind = "unclear"
    <3>1. mailFaults' = [mailFaults EXCEPT !.unclear = @ + 1]
      BY <2>1, <2>4
    <3> QED
      BY <3>1 DEF MailTypes, FaultRow, Spent
  <2> QED
    BY <1>2, <2>2, <2>3, <2>4
<1> QED
  BY <1>1, <1>2

LEMMA ClaimWithin ==
    ASSUME MailShape, NEW m \in Mailers, ClaimEmails(m)
    PROVE  MailShape' /\ Others(m) /\ \A e \in Emails : Within(m, e)
<1> USE DEF MailShape
<1> DEFINE taken == DueEmails
           new == [pc |-> "group", groups |-> {taken}, hand |-> {}]
<1>1. /\ taken \subseteq Emails
      /\ \A e \in taken : \/ outbox[e].status = "pending"
                          \/ outbox[e].status = "processing" /\ ~outbox[e].leased
  BY DEF DueEmails, In
<1>2. mailer' = [mailer EXCEPT ![m] = new] /\ new \in MailerRow
  BY <1>1 DEF ClaimEmails, MailerRow
<1>3. \A e \in Emails : outbox'[e] = IF e \in taken THEN [outbox[e] EXCEPT !.status = "processing",
                                                                         !.leased = TRUE]
                                     ELSE outbox[e]
  BY DEF ClaimEmails
<1>4. mailer[m].pc = "idle" /\ mailer[m].groups = {} /\ mailer[m].hand = {}
  BY DEF ClaimEmails, Hands
<1>5. UNCHANGED <<preference, accepted, silenced, mailFaults>>
  BY DEF ClaimEmails
<1>6. outbox' \in [Emails -> OutboxRow]
  <2>1. \A e \in Emails : [outbox[e] EXCEPT !.status = "processing", !.leased = TRUE] \in OutboxRow
    BY DEF MailTypes, OutboxRow
  <2> QED
    BY <2>1 DEF ClaimEmails, MailTypes
<1>7. Disjoint({taken}) /\ UNION {taken} = taken
  BY DEF Disjoint
<1> HIDE DEF taken
<1>8. mailer'[m].pc = "group" /\ mailer'[m].hand = {} /\ UNION mailer'[m].groups = taken
      /\ mailer'[m].groups = {taken}
  BY <1>2, <1>7 DEF MailTypes
<1>9. Others(m) /\ mailer' \in [Mailers -> MailerRow]
  BY <1>2 DEF Others, MailTypes
<1>10. Hands'
  BY <1>7, <1>8, <1>9 DEF Hands, Others
<1>11. MailTypes'
  BY <1>5, <1>6, <1>9 DEF MailTypes
<1>12. ASSUME NEW e \in Emails PROVE Within(m, e)
  <2>1. ~Unsent(m, e) /\ ~HasEmail(m, e) /\ Spent' = Spent /\ accepted'[e] = accepted[e]
    BY <1>4, <1>5 DEF Unsent, HasEmail, Spent
  <2>2. accepted[e] \in Int /\ Spent \in Int
    BY SpentType DEF MailTypes
  <2>3. CASE e \in taken
    <3>1. outbox'[e].status = "processing" /\ outbox'[e].leased
      BY <1>3, <2>3 DEF MailTypes, OutboxRow
    <3>2. HasEmail(m, e)'
      BY <1>8, <2>3 DEF HasEmail
    <3>3. Loose(e) /\ ~Loose(e)'
      BY <1>1, <2>3, <3>1, <3>2 DEF Loose
    <3>4. outbox[e].status # "suppressed"
      BY <1>1, <2>3
    <3> QED
      BY <2>1, <2>2, <3>3, <3>4 DEF Within, Bit
  <2>4. CASE e \notin taken
    <3>1. ~HasEmail(m, e)' /\ ~Unsent(m, e)' /\ outbox'[e] = outbox[e]
      BY <1>3, <1>8, <2>4 DEF HasEmail, Unsent
    <3>2. Loose(e)' <=> Loose(e)
      BY <1>9, <2>1, <3>1, LooseAsBefore
    <3>3. e \notin mailer'[m].hand
      BY <1>8
    <3> QED
      BY <2>1, <2>2, <3>1, <3>2, <3>3 DEF Within, Bit
  <2> QED
    BY <2>3, <2>4
<1> QED
  BY <1>9, <1>10, <1>11, <1>12

LEMMA GroupWithin ==
    ASSUME MailShape, NEW m \in Mailers, GroupEmails(m)
    PROVE  MailShape' /\ Others(m) /\ \A e \in Emails : Within(m, e)
<1> USE DEF MailShape
<1> DEFINE held == (UNION mailer[m].groups) \cap In({"processing"})
           kept == {e \in held : Wanted(e)}
           gs   == IF preference.digest THEN {kept} \ {{}} ELSE {{e} : e \in kept}
<1>1. Suppressed(held \ kept) /\ Continues(m, gs) /\ mailer[m].pc = "group"
      /\ UNCHANGED <<preference, accepted, silenced, mailFaults>>
  BY DEF GroupEmails
<1>2. /\ kept \subseteq held /\ held \subseteq UNION mailer[m].groups /\ held \subseteq Emails
      /\ \A e \in Emails :
             e \in held <=> e \in UNION mailer[m].groups /\ outbox[e].status = "processing"
  <2>1. held \subseteq UNION mailer[m].groups /\ held \subseteq Emails
        /\ \A e \in Emails :
               e \in held <=> e \in UNION mailer[m].groups /\ outbox[e].status = "processing"
    <3>1. In({"processing"}) = {e \in Emails : outbox[e].status = "processing"}
      BY DEF In
    <3> QED
      BY <3>1
  <2>2. kept \subseteq held
    OBVIOUS
  <2> QED
    BY <2>1, <2>2
<1> HIDE DEF held
<1>3. kept \in SUBSET Emails /\ preference.digest \in BOOLEAN
  BY <1>2 DEF MailTypes, PreferenceRow
<1> HIDE DEF kept
<1>4. gs \in SUBSET SUBSET Emails /\ UNION gs = kept /\ Disjoint(gs)
  <2>1. CASE preference.digest
    <3>1. gs = IF kept = {} THEN {} ELSE {kept}
      BY <2>1
    <3> QED
      BY <1>3, <3>1 DEF Disjoint
  <2>2. CASE ~preference.digest
    <3>1. gs = {{e} : e \in kept}
      BY <2>2
    <3> HIDE DEF gs
    <3>2. \A e : e \in UNION gs <=> e \in kept
      BY <3>1
    <3>3. \A g \in gs : \E e \in kept : g = {e}
      BY <3>1
    <3>4. gs \in SUBSET SUBSET Emails
      BY <1>3, <3>3
    <3>5. ASSUME NEW g \in gs, NEW h \in gs, g # h
          PROVE  g \cap h = {}
      <4>1. PICK e \in kept : g = {e}
        BY <3>3
      <4>2. PICK f \in kept : h = {f}
        BY <3>3
      <4> QED
        BY <3>5, <4>1, <4>2
    <3>6. Disjoint(gs)
      BY <3>5 DEF Disjoint
    <3> QED
      BY <3>2, <3>4, <3>6
  <2> QED
    BY <1>3, <2>1, <2>2
<1> HIDE DEF gs
<1>5. /\ mailer' \in [Mailers -> MailerRow] /\ Others(m)
      /\ mailer'[m].groups = gs /\ mailer'[m].hand = {}
      /\ mailer'[m].pc \in {"idle", "recheck"} /\ (mailer'[m].pc = "idle" => gs = {})
  BY <1>1, <1>4, ContinuesTo
<1>6. /\ outbox' \in [Emails -> OutboxRow]
      /\ \A e \in Emails : /\ e \in held \ kept => outbox'[e].status = "suppressed"
                           /\ e \notin held \ kept => outbox'[e] = outbox[e]
  BY <1>1, SuppressedRows
<1>7. Hands'
  BY <1>4, <1>5 DEF Hands, Others
<1>8. MailTypes'
  BY <1>1, <1>5, <1>6 DEF MailTypes
<1>9. ASSUME NEW e \in Emails PROVE Within(m, e)
  <2>1. Spent' = Spent /\ accepted'[e] = accepted[e] /\ e \notin mailer'[m].hand
    BY <1>1, <1>5 DEF Spent
  <2>2. accepted[e] \in Int /\ Spent \in Int
    BY SpentType DEF MailTypes
  <2>3. mailer[m].hand = {}
    BY <1>1 DEF Hands
  <2>4. Unsent(m, e)' <=> e \in kept
    BY <1>4, <1>5 DEF Unsent
  <2>5. e \in kept => Unsent(m, e)
    BY <1>2 DEF Unsent
  <2>6. CASE e \in held \ kept
    <3>1. outbox'[e].status = "suppressed"
      BY <1>6, <2>6
    <3>2. ~Loose(e)' /\ ~Unsent(m, e)'
      BY <2>4, <2>6, <3>1 DEF Loose
    <3> QED
      BY <2>1, <2>2, <3>1, <3>2 DEF Within, Bit
  <2>7. CASE e \notin held \ kept
    <3>1. outbox'[e] = outbox[e]
      BY <1>6, <2>7
    <3>2. outbox[e].status # "processing" \/ (HasEmail(m, e)' <=> HasEmail(m, e))
      BY <1>2, <1>4, <1>5, <2>3, <2>7 DEF HasEmail
    <3>3. Loose(e)' <=> Loose(e)
      BY <1>5, <3>1, <3>2, LooseAsBefore
    <3> QED
      BY <2>1, <2>2, <2>4, <2>5, <3>1, <3>3 DEF Within, Bit
  <2> QED
    BY <2>6, <2>7
<1> QED
  BY <1>5, <1>7, <1>8, <1>9

LEMMA RecheckWithin ==
    ASSUME MailShape, NEW m \in Mailers, RecheckGroup(m)
    PROVE  MailShape' /\ Others(m) /\ \A e \in Emails : Within(m, e)
<1> USE DEF MailShape
<1>1. PICK group \in mailer[m].groups :
          LET held == StillHeld(group)
              kept == {e \in held : Wanted(e)}
              rest == mailer[m].groups \ {group}
          IN  /\ Suppressed(held \ kept)
              /\ IF kept = {} THEN Continues(m, rest)
                 ELSE mailer' = [mailer EXCEPT ![m] = [pc |-> "send", groups |-> rest,
                                                       hand |-> kept]]
  BY DEF RecheckGroup
<1> DEFINE held == StillHeld(group)
           kept == {e \in held : Wanted(e)}
           rest == mailer[m].groups \ {group}
           new  == [pc |-> "send", groups |-> rest, hand |-> kept]
<1>2. /\ mailer[m].pc = "recheck" /\ mailer[m].hand = {}
      /\ UNCHANGED <<preference, accepted, silenced, mailFaults>>
  BY DEF RecheckGroup, Hands
<1>3. mailer[m].groups \in SUBSET SUBSET Emails /\ Disjoint(mailer[m].groups)
  BY DEF MailTypes, MailerRow, Hands
<1>4. /\ held \subseteq group
      /\ \A e \in Emails : e \in held <=> e \in group /\ outbox[e].status = "processing"
  BY DEF StillHeld, In
<1>5. group \subseteq Emails /\ rest \in SUBSET SUBSET Emails /\ Disjoint(rest)
      /\ group \cap UNION rest = {} /\ UNION mailer[m].groups = group \cup UNION rest
  BY <1>3 DEF Disjoint
<1>6. kept \subseteq held
  OBVIOUS
<1>7. Suppressed(held \ kept)
      /\ IF kept = {} THEN Continues(m, rest) ELSE mailer' = [mailer EXCEPT ![m] = new]
  BY <1>1
<1> HIDE DEF held, kept, rest
<1>8. /\ mailer' \in [Mailers -> MailerRow] /\ Others(m)
      /\ mailer'[m].groups = rest /\ mailer'[m].hand = kept
      /\ mailer'[m].pc \in {"idle", "recheck", "send"}
      /\ (mailer'[m].pc = "idle" => rest = {}) /\ (mailer'[m].pc # "send" => kept = {})
  <2>1. CASE kept = {}
    BY <1>5, <1>7, <2>1, ContinuesTo
  <2>2. CASE kept # {}
    <3>1. new \in MailerRow
      BY <1>4, <1>5, <1>6 DEF MailerRow
    <3> QED
      BY <1>7, <2>2, <3>1 DEF MailTypes, Others
  <2> QED
    BY <2>1, <2>2
<1>9. /\ outbox' \in [Emails -> OutboxRow]
      /\ \A e \in Emails : /\ e \in held \ kept => outbox'[e].status = "suppressed"
                           /\ e \notin held \ kept => outbox'[e] = outbox[e]
  BY <1>7, SuppressedRows
<1>10. Hands'
  <2>1. kept \cap UNION rest = {}
    BY <1>4, <1>5, <1>6
  <2>2. /\ mailer'[m].pc \in {"idle", "group", "recheck"} => mailer'[m].hand = {}
        /\ mailer'[m].pc = "idle" => mailer'[m].groups = {}
        /\ Disjoint(mailer'[m].groups) /\ mailer'[m].hand \cap UNION mailer'[m].groups = {}
    BY <1>5, <1>8, <2>1
  <2> QED
    BY <1>8, <2>2 DEF Hands, Others
<1>11. MailTypes'
  BY <1>2, <1>8, <1>9 DEF MailTypes
<1>12. ASSUME NEW e \in Emails PROVE Within(m, e)
  <2>1. Spent' = Spent /\ accepted'[e] = accepted[e]
    BY <1>2 DEF Spent
  <2>2. accepted[e] \in Int /\ Spent \in Int
    BY SpentType DEF MailTypes
  <2>3. Unsent(m, e)' => e \in kept \/ e \in UNION rest
    BY <1>8 DEF Unsent
  <2>4. e \in group \/ e \in UNION rest => Unsent(m, e) /\ HasEmail(m, e)
    BY <1>5 DEF Unsent, HasEmail
  <2>5. HasEmail(m, e)' <=> e \in kept \/ e \in UNION rest
    BY <1>8 DEF HasEmail
  <2>6. HasEmail(m, e) <=> e \in group \/ e \in UNION rest
    BY <1>2, <1>5 DEF HasEmail
  <2>7. outbox[e].status = "suppressed" => e \notin kept
    BY <1>4, <1>6
  <2>8. Unsent(m, e)' => Unsent(m, e)
    BY <1>4, <1>6, <2>3, <2>4
  <2>9. CASE e \in held \ kept
    <3>1. outbox'[e].status = "suppressed"
      BY <1>9, <2>9
    <3>2. ~Loose(e)'
      BY <3>1 DEF Loose
    <3> QED
      BY <1>8, <2>1, <2>2, <2>7, <2>8, <3>1, <3>2 DEF Within, Bit
  <2>10. CASE e \notin held \ kept
    <3>1. outbox'[e] = outbox[e]
      BY <1>9, <2>10
    <3>2. outbox[e].status # "processing" \/ (HasEmail(m, e)' <=> HasEmail(m, e))
      BY <1>4, <1>6, <2>5, <2>6, <2>10
    <3>3. Loose(e)' <=> Loose(e)
      BY <1>8, <3>1, <3>2, LooseAsBefore
    <3> QED
      BY <1>8, <2>1, <2>2, <2>7, <2>8, <3>1, <3>3 DEF Within, Bit
  <2> QED
    BY <2>9, <2>10
<1> QED
  BY <1>8, <1>10, <1>11, <1>12

LEMMA SendWithin ==
    ASSUME MailShape, NEW m \in Mailers, SendGroup(m)
    PROVE  MailShape' /\ Others(m) /\ \A e \in Emails : Within(m, e)
<1> USE DEF MailShape
<1>1. PICK taken, told \in BOOLEAN :
          /\ told => taken
          /\ IF taken /\ ~told THEN Fault("unclear") ELSE UNCHANGED mailFaults
          /\ accepted' = [e \in Emails |-> IF taken /\ e \in mailer[m].hand THEN accepted[e] + 1
                                           ELSE accepted[e]]
          /\ mailer' = [mailer EXCEPT ![m].pc = IF told THEN "sent" ELSE "refused"]
  BY DEF SendGroup
<1>2. mailer[m].pc = "send" /\ UNCHANGED <<outbox, preference, silenced>>
  BY DEF SendGroup
<1>3. /\ mailer' \in [Mailers -> MailerRow] /\ Others(m)
      /\ mailer'[m].groups = mailer[m].groups /\ mailer'[m].hand = mailer[m].hand
      /\ mailer'[m].pc = IF told THEN "sent" ELSE "refused"
  BY <1>1 DEF MailTypes, MailerRow, Others
<1>4. Hands'
  BY <1>3 DEF Hands, Others
<1>5. /\ Spent \in Int /\ mailFaults' \in FaultRow
      /\ Spent' = IF taken /\ ~told THEN Spent + 1 ELSE Spent
  BY <1>1, SpentType DEF MailTypes, Spent
<1>6. accepted' \in [Emails -> Int]
      /\ \A e \in Emails : accepted'[e] = IF taken /\ e \in mailer[m].hand THEN accepted[e] + 1
                                          ELSE accepted[e]
  BY <1>1 DEF MailTypes
<1>7. MailTypes'
  BY <1>2, <1>3, <1>5, <1>6 DEF MailTypes
<1>8. ASSUME NEW e \in Emails PROVE Within(m, e)
  <2>1. Loose(e)' <=> Loose(e)
    BY <1>2, <1>3, LooseAsBefore DEF HasEmail
  <2>2. e \in mailer[m].hand => Unsent(m, e) /\ e \notin UNION mailer[m].groups
    BY <1>2 DEF Unsent, Hands
  <2>3. e \in mailer[m].hand /\ told => ~Unsent(m, e)'
    BY <1>3, <2>2 DEF Unsent
  <2>4. Unsent(m, e)' => Unsent(m, e)
    BY <1>2, <1>3 DEF Unsent
  <2>5. accepted[e] \in Int
    BY DEF MailTypes
  <2>6. CASE e \in mailer[m].hand
    BY <1>1, <1>3, <1>5, <1>6, <2>1, <2>2, <2>3, <2>5, <2>6 DEF Within, Bit
  <2>7. CASE e \notin mailer[m].hand
    BY <1>2, <1>3, <1>5, <1>6, <2>1, <2>4, <2>5, <2>7 DEF Within, Bit
  <2> QED
    BY <2>6, <2>7
<1> QED
  BY <1>3, <1>4, <1>7, <1>8

LEMMA RecordWithin ==
    ASSUME MailShape, NEW m \in Mailers, RecordGroup(m)
    PROVE  MailShape' /\ Others(m) /\ \A e \in Emails : Within(m, e)
<1> USE DEF MailShape
<1>1. /\ mailer[m].pc \in {"sent", "refused"} /\ Continues(m, mailer[m].groups)
      /\ UNCHANGED <<preference, accepted, silenced, mailFaults>>
  BY DEF RecordGroup
<1>2. mailer[m].groups \in SUBSET SUBSET Emails /\ Disjoint(mailer[m].groups)
      /\ mailer[m].hand \cap UNION mailer[m].groups = {}
  BY DEF MailTypes, MailerRow, Hands
<1>3. /\ mailer' \in [Mailers -> MailerRow] /\ Others(m)
      /\ mailer'[m].groups = mailer[m].groups /\ mailer'[m].hand = {}
      /\ mailer'[m].pc \in {"idle", "recheck"}
      /\ (mailer'[m].pc = "idle" => mailer[m].groups = {})
  BY <1>1, <1>2, ContinuesTo
<1>4. Hands'
  BY <1>2, <1>3 DEF Hands, Others
<1>5. \A e \in Emails :
          outbox'[e] = IF e \notin mailer[m].hand THEN outbox[e]
                       ELSE IF mailer[m].pc = "sent" THEN AfterSend(e) ELSE AfterError(e)
  BY DEF RecordGroup
<1>6. \A e \in Emails : /\ AfterSend(e) \in OutboxRow /\ AfterSend(e).status = "delivered"
                        /\ AfterError(e) \in OutboxRow
  <2> SUFFICES ASSUME NEW e \in Emails
               PROVE  /\ AfterSend(e) \in OutboxRow /\ AfterSend(e).status = "delivered"
                      /\ AfterError(e) \in OutboxRow
    OBVIOUS
  <2>1. outbox[e] \in OutboxRow /\ outbox[e].attempts + 1 \in Int
    BY DEF MailTypes, OutboxRow
  <2>2. AfterSend(e) \in OutboxRow /\ AfterSend(e).status = "delivered"
    BY <2>1 DEF AfterSend, OutboxRow
  <2>3. AfterError(e) \in OutboxRow
    BY <2>1 DEF AfterError, OutboxRow
  <2> QED
    BY <2>2, <2>3
<1>7. outbox' \in [Emails -> OutboxRow]
  BY <1>6 DEF RecordGroup, MailTypes
<1>8. MailTypes'
  BY <1>1, <1>3, <1>7 DEF MailTypes
<1>9. ASSUME NEW e \in Emails PROVE Within(m, e)
  <2>1. Spent' = Spent /\ accepted'[e] = accepted[e] /\ e \notin mailer'[m].hand
        /\ accepted[e] \in Int /\ Spent \in Int
    BY <1>1, <1>3, SpentType DEF Spent, MailTypes
  <2>2. CASE e \in mailer[m].hand
    <3>1. ~Unsent(m, e)'
      BY <1>2, <1>3, <2>2 DEF Unsent
    <3>2. CASE mailer[m].pc = "sent"
      <4>1. outbox'[e].status = "delivered"
        BY <1>5, <1>6, <2>2, <3>2
      <4>2. ~Loose(e)'
        BY <4>1 DEF Loose
      <4> QED
        BY <2>1, <2>2, <3>1, <4>2 DEF Within, Bit
    <3>3. CASE mailer[m].pc = "refused"
      <4>1. Unsent(m, e)
        BY <2>2, <3>3 DEF Unsent
      <4> QED
        BY <2>1, <2>2, <3>1, <4>1 DEF Within, Bit
    <3> QED
      BY <1>1, <3>2, <3>3
  <2>3. CASE e \notin mailer[m].hand
    <3>1. outbox'[e] = outbox[e]
      BY <1>5, <2>3
    <3>2. (HasEmail(m, e)' <=> HasEmail(m, e)) /\ (Unsent(m, e)' <=> Unsent(m, e))
      BY <1>3, <2>3 DEF HasEmail, Unsent
    <3>3. Loose(e)' <=> Loose(e)
      BY <1>3, <3>1, <3>2, LooseAsBefore
    <3> QED
      BY <2>1, <3>1, <3>2, <3>3 DEF Within, Bit
  <2> QED
    BY <2>2, <2>3
<1> QED
  BY <1>3, <1>4, <1>8, <1>9

LEMMA LoseWithin ==
    ASSUME MailShape, NEW m \in Mailers, LoseMailer(m)
    PROVE  MailShape' /\ Others(m) /\ \A e \in Emails : Within(m, e)
<1> USE DEF MailShape
<1>1. /\ Fault("lost") /\ mailer' = [mailer EXCEPT ![m] = Idle]
      /\ UNCHANGED <<outbox, preference, accepted, silenced>>
  BY DEF LoseMailer
<1>2. Idle \in MailerRow /\ Idle.groups = {} /\ Idle.hand = {} /\ Disjoint(Idle.groups)
  BY DEF Idle, MailerRow, Disjoint
<1>3. mailer' \in [Mailers -> MailerRow] /\ Others(m) /\ mailer'[m] = Idle
  BY <1>1, <1>2 DEF MailTypes, Others
<1>4. Hands'
  BY <1>2, <1>3 DEF Hands, Others
<1>5. Spent \in Int /\ mailFaults' \in FaultRow /\ Spent' = Spent + 1
  BY <1>1, SpentType
<1>6. MailTypes'
  BY <1>1, <1>3, <1>5 DEF MailTypes
<1>7. ASSUME NEW e \in Emails PROVE Within(m, e)
  <2>1. ~Unsent(m, e)' /\ e \notin mailer'[m].hand
    BY <1>2, <1>3 DEF Unsent
  <2>2. accepted[e] \in Int
    BY DEF MailTypes
  <2> QED
    BY <1>1, <1>5, <2>1, <2>2 DEF Within, Bit
<1> QED
  BY <1>3, <1>4, <1>6, <1>7

-----------------------------------------------------------------------------
(* The other steps, which leave the workers alone. *)

Aside(e) ==
    /\ accepted'[e] = accepted[e]
    /\ Bit(Loose(e)') - Spent' <= Bit(Loose(e)) - Spent
    /\ outbox[e].status = "suppressed" => outbox'[e].status = "suppressed"

LEMMA RowAside ==
    ASSUME MailShape, NEW e \in Emails,
           AddEmail(e) \/ CommitEmail(e) \/ FallDue(e)
    PROVE  MailShape' /\ UNCHANGED <<mailer, silenced>> /\ \A d \in Emails : Aside(d)
<1> USE DEF MailShape
<1>1. UNCHANGED <<preference, mailer, accepted, silenced, mailFaults>>
  BY DEF AddEmail, CommitEmail, FallDue
<1>2. /\ outbox[e].status \in {"none", "added", "pending"}
      /\ \A d \in Emails : d # e => outbox'[d] = outbox[d]
      /\ outbox'[e].status \in {"added", "pending"} /\ outbox' \in [Emails -> OutboxRow]
  <2>1. outbox[e] \in OutboxRow /\ preference.digest \in BOOLEAN
    BY DEF MailTypes, PreferenceRow
  <2>2. CASE AddEmail(e)
    BY <2>1, <2>2 DEF AddEmail, MailTypes, OutboxRow
  <2>3. CASE CommitEmail(e)
    BY <2>1, <2>3 DEF CommitEmail, MailTypes, OutboxRow
  <2>4. CASE FallDue(e)
    BY <2>1, <2>4 DEF FallDue, MailTypes, OutboxRow
  <2> QED
    BY <2>2, <2>3, <2>4
<1>3. Hands'
  BY <1>1 DEF Hands
<1>4. MailTypes'
  BY <1>1, <1>2 DEF MailTypes
<1>5. ASSUME NEW d \in Emails PROVE Aside(d)
  <2>1. Spent' = Spent /\ Spent \in Int /\ accepted'[d] = accepted[d]
    BY <1>1, SpentType DEF Spent
  <2>2. Loose(d)' <=> Loose(d)
    BY <1>1, <1>2 DEF Loose, HasEmail
  <2>3. outbox[d].status = "suppressed" => outbox'[d].status = "suppressed"
    BY <1>2
  <2> QED
    BY <2>1, <2>2, <2>3 DEF Aside, Bit
<1> QED
  BY <1>1, <1>3, <1>4, <1>5

LEMMA LapseAside ==
    ASSUME MailShape, NEW e \in Emails, LapseEmail(e)
    PROVE  MailShape' /\ UNCHANGED <<mailer, silenced>> /\ \A d \in Emails : Aside(d)
<1> USE DEF MailShape
<1>1. /\ UNCHANGED <<preference, mailer, accepted, silenced>>
      /\ outbox[e].status = "processing" /\ outbox[e].leased
      /\ outbox' = [outbox EXCEPT ![e].leased = FALSE]
      /\ IF \E m \in Mailers : HasEmail(m, e) THEN Fault("lapsed") ELSE UNCHANGED mailFaults
  BY DEF LapseEmail
<1>2. /\ \A d \in Emails : d # e => outbox'[d] = outbox[d]
      /\ outbox' \in [Emails -> OutboxRow] /\ outbox'[e].status = outbox[e].status
  BY <1>1 DEF MailTypes, OutboxRow
<1>3. /\ Spent \in Int /\ mailFaults' \in FaultRow
      /\ Spent' = IF \E m \in Mailers : HasEmail(m, e) THEN Spent + 1 ELSE Spent
  BY <1>1, SpentType DEF Spent, MailTypes
<1>4. Hands'
  BY <1>1 DEF Hands
<1>5. MailTypes'
  BY <1>1, <1>2, <1>3 DEF MailTypes
<1>6. ASSUME NEW d \in Emails PROVE Aside(d)
  <2>1. accepted'[d] = accepted[d]
    BY <1>1
  <2>2. outbox[d].status = "suppressed" => outbox'[d].status = "suppressed"
    BY <1>2
  <2>3. CASE d = e
    <3>1. (\A m \in Mailers : ~HasEmail(m, e)) => Loose(e)
      BY <1>1 DEF Loose
    <3> QED
      BY <1>3, <2>1, <2>2, <2>3, <3>1 DEF Aside, Bit
  <2>4. CASE d # e
    <3>1. Loose(d)' <=> Loose(d)
      BY <1>1, <1>2, <2>4 DEF Loose, HasEmail
    <3> QED
      BY <1>3, <2>1, <2>2, <3>1 DEF Aside, Bit
  <2> QED
    BY <2>3, <2>4
<1> QED
  BY <1>1, <1>4, <1>5, <1>6

LEMMA PreferencesAside ==
    ASSUME MailShape, NEW new \in PreferenceRow, UpdatePreferences(new)
    PROVE  /\ MailShape' /\ UNCHANGED mailer /\ \A d \in Emails : Aside(d)
           /\ \A d \in silenced' : \/ d \in silenced
                                   \/ /\ outbox'[d].status = "suppressed"
                                      /\ \A m \in Mailers : d \notin mailer[m].hand
<1> USE DEF MailShape
<1> DEFINE unwanted == IF preference.enabled /\ ~new.enabled THEN Emails
                       ELSE new.muted \ preference.muted
           Off(e) == [outbox[e] EXCEPT !.status = "suppressed", !.leased = FALSE]
<1>1. /\ UNCHANGED <<mailer, accepted>> /\ preference' = new
      /\ mailFaults' = [mailFaults EXCEPT !.updates = @ + 1]
      /\ outbox' = [e \in Emails |-> IF e \in OptOut \cap unwanted THEN Off(e)
                                     ELSE IF new.digest # preference.digest
                                     THEN Redated(e, new.digest) ELSE outbox[e]]
      /\ silenced' = silenced \cup {e \in unwanted \cap In({"pending", "processing"}) :
                                        \A m \in Mailers : e \notin mailer[m].hand}
  BY DEF UpdatePreferences
<1> HIDE DEF unwanted
<1>2. \A e \in Emails : Off(e) \in OutboxRow /\ Off(e).status = "suppressed"
  BY DEF MailTypes, OutboxRow
<1>3. \A e \in Emails : /\ Redated(e, new.digest) \in OutboxRow
                        /\ Redated(e, new.digest).status = outbox[e].status
                        /\ Redated(e, new.digest).leased = outbox[e].leased
  BY DEF MailTypes, OutboxRow, PreferenceRow, Redated
<1> HIDE DEF Off
<1>4. outbox' \in [Emails -> OutboxRow]
  BY <1>1, <1>2, <1>3 DEF MailTypes
<1>5. \A e \in Emails : \/ outbox'[e].status = "suppressed"
                        \/ /\ outbox'[e].status = outbox[e].status
                           /\ outbox'[e].leased = outbox[e].leased
  BY <1>1, <1>2, <1>3
<1>6. silenced' \subseteq Emails
  BY <1>1 DEF MailTypes, In
<1>7. mailFaults' \in FaultRow /\ Spent' = Spent /\ Spent \in Int
  BY <1>1, SpentType DEF MailTypes, FaultRow, Spent
<1>8. Hands'
  BY <1>1 DEF Hands
<1>9. MailTypes'
  BY <1>1, <1>4, <1>6, <1>7 DEF MailTypes
<1>10. ASSUME NEW d \in Emails PROVE Aside(d)
  <2>1. Loose(d)' => Loose(d)
    BY <1>1, <1>5 DEF Loose, HasEmail
  <2> QED
    BY <1>1, <1>5, <1>7, <2>1 DEF Aside, Bit
<1>11. ASSUME NEW d \in silenced', d \notin silenced
       PROVE  outbox'[d].status = "suppressed" /\ \A m \in Mailers : d \notin mailer[m].hand
  <2>1. d \in OptOut \cap unwanted /\ d \in Emails /\ \A m \in Mailers : d \notin mailer[m].hand
    BY <1>1, <1>11 DEF OptOut, In
  <2> QED
    BY <1>1, <1>2, <2>1
<1> QED
  BY <1>1, <1>8, <1>9, <1>10, <1>11
-----------------------------------------------------------------------------
\* What has been accepted and what may still be, with and without a claim, is one more
\* than the faults at most.
Budget == \A e \in Emails :
              /\ IsFiniteSet({m \in Mailers : Unsent(m, e)})
              /\ accepted[e] + Cardinality({m \in Mailers : Unsent(m, e)}) + Bit(Loose(e))
                 <= 1 + Spent

\* What is silenced is suppressed, and in nobody's hand.
Silent == \A e \in silenced : /\ outbox[e].status = "suppressed"
                              /\ \A m \in Mailers : e \notin mailer[m].hand

MailInv == MailShape /\ Budget /\ Silent

LEMMA MailInit == EmailInit => MailInv
<1> SUFFICES ASSUME EmailInit PROVE MailInv
  OBVIOUS
<1>1. \A m \in Mailers : mailer[m].groups = {} /\ mailer[m].hand = {}
  BY DEF EmailInit, Idle
<1>2. outbox \in [Emails -> OutboxRow] /\ preference \in PreferenceRow
  BY DEF EmailInit, OutboxRow, PreferenceRow
<1>3. mailer \in [Mailers -> MailerRow]
  BY DEF EmailInit, Idle, MailerRow
<1>4. mailFaults \in FaultRow /\ Spent = 0
  BY DEF EmailInit, FaultRow, Spent
<1>5. MailTypes
  BY <1>2, <1>3, <1>4 DEF EmailInit, MailTypes
<1>6. Hands
  BY <1>1 DEF Hands, Disjoint
<1>7. ASSUME NEW e \in Emails
      PROVE  /\ IsFiniteSet({m \in Mailers : Unsent(m, e)})
             /\ accepted[e] + Cardinality({m \in Mailers : Unsent(m, e)}) + Bit(Loose(e))
                <= 1 + Spent
  <2>1. {m \in Mailers : Unsent(m, e)} = {}
    BY <1>1 DEF Unsent
  <2>2. IsFiniteSet({}) /\ Cardinality({}) = 0
    BY FS_EmptySet
  <2>3. accepted[e] = 0
    BY DEF EmailInit
  <2> QED
    BY <1>4, <2>1, <2>2, <2>3 DEF Bit
<1>8. Silent
  BY DEF EmailInit, Silent
<1> QED
  BY <1>5, <1>6, <1>7, <1>8 DEF MailInv, MailShape, Budget

\* A step of one worker keeps the budget.
LEMMA WithinBudget ==
    ASSUME MailInv, NEW m \in Mailers, Others(m), MailShape', \A e \in Emails : Within(m, e)
    PROVE  Budget'
<1> SUFFICES ASSUME NEW e \in Emails
             PROVE  /\ IsFiniteSet({o \in Mailers : Unsent(o, e)'})
                    /\ accepted'[e] + Cardinality({o \in Mailers : Unsent(o, e)'}) + Bit(Loose(e)')
                       <= 1 + Spent'
  BY DEF Budget
<1> DEFINE S == {o \in Mailers : Unsent(o, e)}
           T == {o \in Mailers : Unsent(o, e)'}
<1>1. \A o \in Mailers : o # m => (Unsent(o, e)' <=> Unsent(o, e))
  BY DEF Others, Unsent
<1>2. S \ {m} = T \ {m}
  BY <1>1
<1>3. IsFiniteSet(S) /\ accepted[e] + Cardinality(S) + Bit(Loose(e)) <= 1 + Spent
  BY DEF MailInv, Budget
<1>4. (m \in S <=> Unsent(m, e)) /\ (m \in T <=> Unsent(m, e)')
  OBVIOUS
<1> HIDE DEF S, T
<1>5. /\ IsFiniteSet(T) /\ Cardinality(S) \in Int /\ Cardinality(T) \in Int
      /\ Cardinality(T) = Cardinality(S) + Bit(m \in T) - Bit(m \in S)
  BY <1>2, <1>3, ButOne
<1>6. accepted'[e] + Bit(Unsent(m, e)') + Bit(Loose(e)') - Spent'
      <= accepted[e] + Bit(Unsent(m, e)) + Bit(Loose(e)) - Spent
  BY DEF Within
<1>7. accepted[e] \in Int /\ accepted'[e] \in Int /\ Spent \in Int /\ Spent' \in Int
  BY DEF MailInv, MailShape, MailTypes, FaultRow, Spent
<1>8. accepted'[e] + Cardinality(T) + Bit(Loose(e)') <= 1 + Spent'
  BY <1>3, <1>4, <1>5, <1>6, <1>7 DEF Bit
<1> QED
  BY <1>5, <1>8 DEF T

LEMMA AsideBudget ==
    ASSUME MailInv, UNCHANGED mailer, MailShape', \A e \in Emails : Aside(e)
    PROVE  Budget'
<1> SUFFICES ASSUME NEW e \in Emails
             PROVE  /\ IsFiniteSet({o \in Mailers : Unsent(o, e)'})
                    /\ accepted'[e] + Cardinality({o \in Mailers : Unsent(o, e)'}) + Bit(Loose(e)')
                       <= 1 + Spent'
  BY DEF Budget
<1> DEFINE S == {o \in Mailers : Unsent(o, e)}
           T == {o \in Mailers : Unsent(o, e)'}
<1>1. T = S
  BY DEF Unsent
<1>2. IsFiniteSet(S) /\ accepted[e] + Cardinality(S) + Bit(Loose(e)) <= 1 + Spent
  BY DEF MailInv, Budget
<1> HIDE DEF S, T
<1>3. Cardinality(S) \in Int
  BY <1>2, FS_CardinalityType
<1>4. accepted'[e] = accepted[e] /\ Bit(Loose(e)') - Spent' <= Bit(Loose(e)) - Spent
  BY DEF Aside
<1>5. accepted[e] \in Int /\ Spent \in Int /\ Spent' \in Int
  BY DEF MailInv, MailShape, MailTypes, FaultRow, Spent
<1>6. accepted'[e] + Cardinality(S) + Bit(Loose(e)') <= 1 + Spent'
  <2>1. Bit(Loose(e)) \in Int /\ Bit(Loose(e)') \in Int
    BY DEF Bit
  <2> QED
    BY <1>2, <1>3, <1>4, <1>5, <2>1
<1>7. IsFiniteSet(T) /\ accepted'[e] + Cardinality(T) + Bit(Loose(e)') <= 1 + Spent'
  BY <1>1, <1>2, <1>6
<1> QED
  BY <1>7 DEF T

LEMMA MailStep ==
    ASSUME MailInv, [EmailNext]_mailVars
    PROVE  MailInv' /\ \A e \in silenced : accepted'[e] = accepted[e]
<1>0. MailShape /\ Silent /\ silenced \subseteq Emails
  BY DEF MailInv, MailShape, MailTypes
<1>1. ASSUME NEW m \in Mailers, Mail(m) \/ LoseMailer(m)
      PROVE  MailInv' /\ \A e \in silenced : accepted'[e] = accepted[e]
  <2>1. MailShape' /\ Others(m) /\ \A e \in Emails : Within(m, e)
    BY <1>0, <1>1, ClaimWithin, GroupWithin, RecheckWithin, SendWithin, RecordWithin, LoseWithin
       DEF Mail
  <2>2. Budget'
    BY <2>1, WithinBudget
  <2>3. silenced' = silenced
    BY <1>1 DEF Mail, LoseMailer, ClaimEmails, GroupEmails, RecheckGroup, SendGroup, RecordGroup
  <2>4. \A e \in silenced : accepted'[e] = accepted[e] /\ outbox'[e].status = "suppressed"
                            /\ e \notin mailer'[m].hand
    BY <1>0, <2>1 DEF Silent, Within
  <2>5. Silent'
    BY <1>0, <2>1, <2>3, <2>4 DEF Silent, Others
  <2> QED
    BY <2>1, <2>2, <2>4, <2>5 DEF MailInv
<1>2. ASSUME NEW d \in Emails,
             AddEmail(d) \/ CommitEmail(d) \/ FallDue(d) \/ LapseEmail(d)
      PROVE  MailInv' /\ \A e \in silenced : accepted'[e] = accepted[e]
  <2>1. MailShape' /\ UNCHANGED <<mailer, silenced>> /\ \A e \in Emails : Aside(e)
    BY <1>0, <1>2, RowAside, LapseAside
  <2>2. Budget'
    BY <2>1, AsideBudget
  <2>3. Silent'
    BY <1>0, <2>1 DEF Silent, Aside
  <2> QED
    BY <1>0, <2>1, <2>2, <2>3 DEF MailInv, Aside
<1>3. ASSUME NEW new \in PreferenceRow, UpdatePreferences(new)
      PROVE  MailInv' /\ \A e \in silenced : accepted'[e] = accepted[e]
  <2>1. /\ MailShape' /\ UNCHANGED mailer /\ \A e \in Emails : Aside(e)
        /\ \A e \in silenced' : \/ e \in silenced
                                \/ /\ outbox'[e].status = "suppressed"
                                   /\ \A m \in Mailers : e \notin mailer[m].hand
    BY <1>0, <1>3, PreferencesAside
  <2>2. Budget'
    BY <2>1, AsideBudget
  <2>3. Silent'
    BY <1>0, <2>1 DEF Silent, Aside
  <2> QED
    BY <1>0, <2>1, <2>2, <2>3 DEF MailInv, Aside
<1>4. ASSUME UNCHANGED mailVars
      PROVE  MailInv' /\ \A e \in silenced : accepted'[e] = accepted[e]
  <2>1. UNCHANGED <<outbox, preference, mailer, accepted, silenced, mailFaults>>
    BY <1>4 DEF mailVars
  <2>2. MailShape' /\ Silent'
    BY <1>0, <2>1 DEF MailShape, MailTypes, Hands, Silent
  <2>3. \A e \in Emails : Aside(e)
    BY <1>0, <2>1, SpentType DEF MailShape, Aside, Loose, HasEmail, Bit, Spent
  <2>4. Budget'
    BY <2>1, <2>2, <2>3, AsideBudget
  <2> QED
    BY <2>1, <2>2, <2>4 DEF MailInv
<1>5. \A enabled, digest \in BOOLEAN, muted \in SUBSET Emails :
          [enabled |-> enabled, digest |-> digest, muted |-> muted] \in PreferenceRow
  BY DEF PreferenceRow
<1> QED
  BY <1>1, <1>2, <1>3, <1>4, <1>5 DEF EmailNext

\* An e-mail is accepted more than once only after a lost worker, a lease that lapsed
\* under a worker or an error that hid an acceptance, and once more for each.
THEOREM DuplicatesCaused == EmailSpec => []DuplicatesHaveACause
<1>1. EmailInit => MailInv
  BY MailInit
<1>2. MailInv /\ [EmailNext]_mailVars => MailInv'
  BY MailStep
<1>3. MailInv => DuplicatesHaveACause
  <2> SUFFICES ASSUME MailInv, NEW e \in Emails
               PROVE  accepted[e] <= 1 + mailFaults.lost + mailFaults.lapsed + mailFaults.unclear
    BY DEF DuplicatesHaveACause
  <2> DEFINE S == {m \in Mailers : Unsent(m, e)}
  <2>1. IsFiniteSet(S) /\ accepted[e] + Cardinality(S) + Bit(Loose(e)) <= 1 + Spent
    BY DEF MailInv, Budget
  <2> HIDE DEF S
  <2>2. Cardinality(S) \in Nat
    BY <2>1, FS_CardinalityType
  <2>3. accepted[e] \in Int /\ mailFaults \in FaultRow
    BY DEF MailInv, MailShape, MailTypes
  <2> QED
    BY <2>1, <2>2, <2>3 DEF Bit, Spent, FaultRow
<1> QED
  BY <1>1, <1>2, <1>3, PTL DEF EmailSpec

\* What an opt-out has suppressed before it was in the hand of a worker is never sent,
\* whatever preferences, leases and workers do later.
THEOREM SilencedUnsent == EmailSpec => SilencedStaysUnsent
<1>1. EmailInit => MailInv
  BY MailInit
<1>2. MailInv /\ [EmailNext]_mailVars
      => MailInv' /\ [\A e \in silenced : accepted'[e] = accepted[e]]_mailVars
  BY MailStep
<1> QED
  BY <1>1, <1>2, PTL DEF EmailSpec, SilencedStaysUnsent
===============================================================================
