-------------------------- MODULE BackupRetention --------------------------
(***************************************************************************)
(* What the blocks of the backup schedule leave on the node's disk and in  *)
(* the object store: executeWebsiteBackup, executeContainerBackup and      *)
(* executeDatabaseBackup of node/function/schedule/runner.js, the backup   *)
(* managers they call and the retention of s3oss/s3-upload-task.js.        *)
(*                                                                         *)
(* One target (a site, a container or a database), the plan's blocks for   *)
(* it, and a user who makes and deletes backups by hand and may give them  *)
(* any name.  The uploads of a block go to a folder of the object store    *)
(* that is named after the block, cut short and not unique: blocks of this *)
(* target and of others may share it.  Blocks take turns here              *)
(* (ScheduleRunner is about their overlaps).                               *)
(*                                                                         *)
(* The name of a backup is what follows "sched-" in it (the id of a block, *)
(* or what the user typed; Plain if it begins otherwise) and the second it *)
(* carries; what listings, sorting and patterns make of that name are      *)
(* Scheduled, Before, ObjectKey and TimeOf.                                *)
(***************************************************************************)
EXTENDS Integers, FiniteSets

CONSTANTS Kind,          \* "website" | "container" | "database"
          Blocks,        \* ids of the plan's blocks for this target
          Others,        \* ids of blocks for other targets of this kind
          LocalCopies,   \* of every block: local copies to keep
          RemoteCopies,  \* of every block: remote copies to keep, 0 without a profile
          Folders,       \* buckets and prefixes of the object store
          Folder,        \* of every block: the bucket of its profile and its prefix
          Typed,         \* what the user may write behind "sched-", or Plain
          Limit,         \* 30 in the code: backups of a site or a container
          UnlinkMayFail,
          MaxStamp       \* bound: backups ever begun

Manual == 0
Plain == 0
AllBlocks == Blocks \cup Others

ASSUME RetentionAssumption ==
  /\ Kind \in {"website", "container", "database"}
  /\ AllBlocks \subseteq Nat \ {Manual} /\ Blocks \cap Others = {}
  /\ LocalCopies \in [Blocks -> Nat \ {0}]
  /\ RemoteCopies \in [AllBlocks -> Nat]
  /\ Folder \in [AllBlocks -> Folders]
  /\ Typed \subseteq Nat
  /\ Limit \in Nat \ {0} /\ MaxStamp \in Nat \ {0}
  /\ UnlinkMayFail \in BOOLEAN

VARIABLES
  local,     \* the backups on disk: whose they are, what they are named after,
             \* their second, when they were last written, their data
  remote,    \* the objects in every folder
  now,       \* the second of the last backup, or of its end
  job,       \* the block at work and its backup
  made,      \* history: the backups whose task was completed, the user's too
  sent,      \* history: the backups that were uploaded
  pruned,    \* history: the backups the retention has deleted
  removed    \* history: the seconds of the backups the user has deleted

vars == <<local, remote, now, job, made, sent, pruned, removed>>

Stamp == 1..MaxStamp
Copy == [by : AllBlocks \cup {Manual}, name : AllBlocks \cup Typed, stamp : Stamp,
         end : Stamp, data : {"none", "part", "whole"}]
NoJob == [step |-> "idle", by |-> Manual, stamp |-> 1]

\* In a listing sorted by key the name data.tgz of every container backup is
\* one and the same.
DataTgz == 0

TypeOK ==
  /\ local \in SUBSET Copy
  /\ \A f \in Folders : remote[f] \in SUBSET [key : Stamp \cup {DataTgz}, stamp : Stamp]
  /\ now \in 0..MaxStamp
  /\ job \in [step : {"idle", "archive", "prune", "upload", "trim"},
              by : AllBlocks \cup {Manual}, stamp : Stamp]
  /\ made \in SUBSET Copy /\ sent \in SUBSET Copy /\ pruned \in SUBSET Copy
  /\ removed \in SUBSET Stamp
  /\ \A c, d \in local : c.stamp = d.stamp => c = d

Init ==
  /\ local = {}
  /\ remote = [f \in Folders |-> {}]
  /\ now = 0
  /\ job = NoJob
  /\ made = {} /\ sent = {} /\ pruned = {}
  /\ removed = {}

At(step) == job.step = step
Mine == {c \in local : c.stamp = job.stamp}
Goto(step) == job' = [job EXCEPT !.step = step]
-----------------------------------------------------------------------------
(***************************************************************************)
(* Making a backup.                                                        *)
(***************************************************************************)

\* createBackupAsync refuses a site's or a container's backup at the limit.
Refused == Kind # "database" /\ Cardinality(local) >= Limit

New(b, name, data) ==
  [by |-> b, name |-> name, stamp |-> now + 1, end |-> now + 1, data |-> data]

\* The file of a backup, or for a container its directory, is there before its
\* data is.
Begin(b) ==
  /\ At("idle") /\ ~ Refused /\ now < MaxStamp
  /\ now' = now + 1
  /\ local' = local \cup {New(b, b, "none")}
  /\ job' = [step |-> "archive", by |-> b, stamp |-> now + 1]
  /\ UNCHANGED <<remote, made, sent, pruned, removed>>

\* A block of another target has made its backup, in a directory of its own.
BeginElsewhere(b) ==
  /\ At("idle") /\ RemoteCopies[b] > 0 /\ now < MaxStamp
  /\ now' = now + 1
  /\ job' = [step |-> "upload", by |-> b, stamp |-> now + 1]
  /\ UNCHANGED <<local, remote, made, sent, pruned, removed>>

\* The task ends well if there is a file: the exit status of tar is not looked
\* at, and that of mysqldump is lost in the pipe into gzip.  If it fails before
\* that, a container keeps the directory it was going to fill, the others
\* nothing or a piece of the file.
ArchiveEnds ==
  /\ At("archive") /\ now < MaxStamp
  /\ now' = now + 1
  /\ \/ /\ Mine # {}
        /\ \E data \in {"part", "whole"} :
             LET c == [by |-> job.by, name |-> job.by, stamp |-> job.stamp,
                       end |-> now + 1, data |-> data] IN
             /\ local' = (local \ Mine) \cup {c}
             /\ made' = made \cup {c}
        /\ Goto("prune")
     \/ /\ \/ UNCHANGED local
           \/ Kind # "container" /\ local' = local \ Mine
        /\ job' = NoJob
        /\ UNCHANGED made
  /\ UNCHANGED <<remote, sent, pruned, removed>>

\* The user makes a backup under a name of their own, which may begin with
\* "sched-" too, or deletes one.
ManualBackup(name) ==
  /\ ~ Refused /\ now < MaxStamp
  /\ now' = now + 1
  /\ local' = local \cup {New(Manual, name, "whole")}
  /\ made' = made \cup {New(Manual, name, "whole")}
  /\ UNCHANGED <<remote, job, sent, pruned, removed>>

ManualDelete(c) ==
  /\ local' = local \ {c}
  /\ removed' = removed \cup {c.stamp}
  /\ UNCHANGED <<remote, now, job, made, sent, pruned>>
-----------------------------------------------------------------------------
(***************************************************************************)
(* The local retention: the names that begin with "sched-", newest first,  *)
(* but for the copies to keep.                                             *)
(***************************************************************************)

\* buildBackupFileName writes "sched_db_" for the prefix "sched-db-".
ScheduledDropped(c) == FALSE
Scheduled(c) == c.name # Plain /\ Kind # "database"

\* By time of modification, or by name, which begins with the block's id.
BeforeOldest(c, d) == c.end < d.end
Before(c, d) ==
  IF Kind = "container" THEN c.name > d.name \/ (c.name = d.name /\ c.stamp > d.stamp)
                        ELSE c.end > d.end

Surplus(keep) ==
  LET list == {c \in local : Scheduled(c)} IN
  {c \in list : Cardinality({d \in list : Before(d, c)}) >= keep}

Prune ==
  /\ At("prune")
  /\ \E kept \in (IF UnlinkMayFail THEN SUBSET Surplus(LocalCopies[job.by]) ELSE {{}}) :
       LET gone == Surplus(LocalCopies[job.by]) \ kept IN
       /\ local' = local \ gone
       /\ pruned' = pruned \cup gone
  /\ IF RemoteCopies[job.by] > 0 THEN Goto("upload") ELSE job' = NoJob
  /\ UNCHANGED <<remote, now, made, sent, removed>>
-----------------------------------------------------------------------------
(***************************************************************************)
(* The upload and the remote retention.                                    *)
(***************************************************************************)

\* buildObjectKeyFromLocal takes the last name of the path.
ObjectKeyOne(stamp) == DataTgz
ObjectKey(stamp) == IF Kind = "container" THEN DataTgz ELSE stamp

\* The backup to upload: this target's is on disk unless the user has deleted it.
ToUpload ==
  IF job.by \in Blocks THEN {c \in Mine : c.data # "none"}
  ELSE {[by |-> job.by, name |-> job.by, stamp |-> job.stamp, end |-> job.stamp,
         data |-> "whole"]}

Upload ==
  /\ At("upload")
  /\ \/ \E c \in ToUpload :
          /\ remote' = [remote EXCEPT ![Folder[job.by]] =
                          {o \in @ : o.key # ObjectKey(c.stamp)}
                            \cup {[key |-> ObjectKey(c.stamp), stamp |-> c.stamp]}]
          /\ sent' = sent \cup {c}
          /\ Goto("trim")
     \/ job' = NoJob /\ UNCHANGED <<remote, sent>>
  /\ UNCHANGED <<local, now, made, pruned, removed>>

\* The time a key carries, which is looked for behind the last "-" of the name;
\* a name without one counts as the oldest.  sort() is stable, on a listing in
\* the order of the keys.
TimeOf(o) == IF Kind = "website" THEN o.key ELSE 0
EarlierInList(o, q) == TimeOf(o) > TimeOf(q) \/ (TimeOf(o) = TimeOf(q) /\ o.key < q.key)

Excess(objects, keep) ==
  {o \in objects : Cardinality({q \in objects : EarlierInList(q, o)}) >= keep}

\* Everything in the folder is listed, whichever block has uploaded it.
Trim ==
  /\ At("trim")
  /\ \/ remote' = [remote EXCEPT ![Folder[job.by]] = @ \ Excess(@, RemoteCopies[job.by])]
     \/ UNCHANGED remote
  /\ job' = NoJob
  /\ UNCHANGED <<local, now, made, sent, pruned, removed>>

Next ==
  \/ \E b \in Blocks : Begin(b)
  \/ \E b \in Others : BeginElsewhere(b)
  \/ ArchiveEnds \/ Prune \/ Upload \/ Trim
  \/ \E name \in Typed : ManualBackup(name)
  \/ \E c \in local : ManualDelete(c)

Spec == Init /\ [][Next]_vars
-----------------------------------------------------------------------------
(***************************************************************************)
(* Properties.  The last five are what the names and comments of the code  *)
(* promise and it does not keep.                                           *)
(***************************************************************************)
Count(S) == Cardinality(S)

\* After a successful backup there are at most as many copies of the plan's
\* blocks on disk as the block says ("本地保留份数", TaskEditorModal.vue:52).
LocalBounded ==
  At("upload") /\ job.by \in Blocks =>
    Count({c \in local : c.by # Manual}) <= LocalCopies[job.by]

\* The retention makes room for a newer backup: one it deletes was written before
\* another one, of a block or under a "sched-" name of the user's, was made.
NewestLocalKept ==
  \A c \in pruned : \E d \in made : d.name # Plain /\ d.end > c.end

\* The newest uploads to a folder are in it, as many as all the blocks that share
\* it want to keep ("远端保留份数", TaskEditorModal.vue:64), also after failed
\* deletions: no retention takes an upload that is among the newest for its own
\* block and for every other one that trims the folder.
FolderHistoryKept ==
  \A c \in sent :
     (\A b \in AllBlocks : Folder[b] = Folder[c.by] /\ RemoteCopies[b] > 0 =>
        Count({d \in sent : Folder[d.by] = Folder[c.by] /\ d.stamp > c.stamp}) < RemoteCopies[b])
       => \E o \in remote[Folder[c.by]] : o.stamp = c.stamp

\* Among the copies of S, c is one of the k newest of its block.
AmongNewest(c, S, k) == Count({d \in S : d.by = c.by /\ d.stamp > c.stamp}) < k

\* The newest uploads of a block are in the object store, as many as it says
\* ("远端保留份数", TaskEditorModal.vue:64), whatever other blocks upload.
RemoteHistoryKept ==
  \A c \in sent : AmongNewest(c, sent, RemoteCopies[c.by])
                    => \E o \in remote[Folder[c.by]] : o.stamp = c.stamp

\* The retention of the schedule deletes no backup that was made by hand.
ManualKept == \A c \in pruned : c.by # Manual

\* A block keeps as many of its own newest backups as it says, unless the user
\* deletes them ("本地保留份数", TaskEditorModal.vue:52).
OwnCopiesKept ==
  \A c \in made : c.by \in Blocks /\ AmongNewest(c, made, LocalCopies[c.by])
                    => c.stamp \in removed \/ \E d \in local : d.stamp = c.stamp

\* A backup that is reported as done (runner.js:436 "备份完成") is whole.
SuccessIsComplete == \A c \in made : c.by # Manual => c.data = "whole"

\* Scheduled backups alone never bring a target to the limit, where every later
\* one is refused: the editor offers up to 99 copies (TaskEditorModal.vue:53).
RoomForNext == (At("idle") /\ Refused) => \E c \in local : c.by = Manual
=============================================================================
