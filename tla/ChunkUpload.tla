----------------------------- MODULE ChunkUpload -----------------------------
(***************************************************************************)
(* A file goes from a browser to a node in chunks: the upload dialogue     *)
(* (vue/src/views/file), the forwarding of the panel, which gives up after *)
(* fifteen silent seconds, and the agent's two requests, one that stores a *)
(* chunk and one that merges them (node/function/file/upload.js).          *)
(*                                                                         *)
(* The agent stores the body of every chunk request as one and the same    *)
(* file first, here Slot: the form sends the chunk before the fields that  *)
(* would name the place, so multer files it as temp/unknown/chunk_0, and   *)
(* uploadChunk renames it.  An open file goes where a rename takes it:     *)
(* that is fd.  The chunks of a file are kept under the hash of its        *)
(* contents, so dialogues that send one text share them.  A job is one     *)
(* request the agent works on; an action is what it does between two       *)
(* awaits.                                                                 *)
(***************************************************************************)
EXTENDS Integers, FiniteSets

CONSTANTS File,   \* the files being uploaded, each by a browser of its own
          Text,   \* what a file may hold, which its hash stands for
          Job,    \* bound: requests the agent works on at a time
          Last,   \* the index of the last chunk
          MaxLost, \* bound: files and kinds of failures that befall them
          Slot,   \* temp/unknown/chunk_0
          Torn,   \* contents that are no chunk of any file
          NoFile, NoPlace, NoJob

ASSUME UploadAssumption ==
  /\ Last \in Nat /\ MaxLost \in Nat
  /\ Slot \notin Text \X (0..Last) /\ NoPlace \notin (Text \X (0..Last)) \cup {Slot}
  /\ NoJob \notin Job /\ NoFile \notin File /\ Torn # NoFile
  /\ {Torn, NoFile} \cap (Text \X (0..Last)) = {}

VARIABLES
  text,    \* what every file holds
  disk,    \* the slot and temp/<hash>/chunk_<i>
  target,  \* the file of every upload, chunk by chunk
  job,     \* what every request is about and the await it is at
  fd,      \* the place of the file a chunk request has open or has stored
  client,  \* the dialogue of every file
  met,     \* history: files of requests that used the slot together, and of
           \* dialogues at work on one text at a time
  lost     \* history: whose request for a chunk or to merge lost its answer, whose
           \* request failed on the disk, for whom a chunk was copied in part

vars == <<text, disk, target, job, fd, client, met, lost>>

Chunk == Text \X (0..Last)
Place == Chunk \cup {Slot}
Content == Chunk \cup {Torn, NoFile}
Merge == Last + 1   \* the request after the last chunk
Free == [pc |-> "free", file |-> NoFile, part |-> 0, at |-> 0]

TypeOK ==
  /\ text \in [File -> Text]
  /\ disk \in [Place -> Content]
  /\ target \in [File -> [0..Last -> Content]]
  /\ job \in [Job -> [pc : {"free", "open", "fill", "clear", "move", "check", "truncate",
                            "append", "unlink"},
                      file : File \cup {NoFile}, part : 0..Merge, at : 0..Merge]]
  /\ fd \in [Job -> Place \cup {NoPlace}]
  /\ client \in [File -> [pc : {"ready", "waiting", "completed", "error"},
                          part : 0..Merge, job : Job \cup {NoJob}]]
  /\ met \in SUBSET File /\ lost \in SUBSET (File \X {"chunk", "merge", "disk", "copy"})
  /\ \A f \in File : client[f].pc = "waiting" =>
       client[f].job # NoJob /\ job[client[f].job].file = f

Init ==
  /\ text \in [File -> Text]
  /\ disk = [p \in Place |-> NoFile]
  /\ target = [f \in File |-> [i \in 0..Last |-> NoFile]]
  /\ job = [j \in Job |-> Free]
  /\ fd = [j \in Job |-> NoPlace]
  /\ client = [f \in File |-> [pc |-> "ready", part |-> 0, job |-> NoJob]]
  /\ met = {} /\ lost = {}

At(j, pc) == job[j].pc = pc
Goto(j, pc) == job' = [job EXCEPT ![j].pc = pc]
Whole(f) == target[f] = [i \in 0..Last |-> <<text[f], i>>]

\* The dialogue is between its first and its last request, or one goes on.
Active(f) ==
  \/ client[f].pc = "waiting"
  \/ client[f].pc = "ready" /\ client[f].part > 0
  \/ \E j \in Job : job[j].file = f

\* The other dialogues at work on what f holds.
Beside(f) == {g \in File \ {f} : text[g] = text[f] /\ Active(g)}

(***************************************************************************)
(* The browser: one request after the other, from chunk 0 again when the   *)
(* user repeats a failed upload.                                           *)
(***************************************************************************)
Send(f) ==
  \E j \in Job :
    LET part == IF client[f].pc = "error" THEN 0 ELSE client[f].part IN
    /\ client[f].pc \in {"ready", "error"}
    /\ At(j, "free")
    /\ client' = [client EXCEPT ![f] = [pc |-> "waiting", part |-> part, job |-> j]]
    /\ job' = [job EXCEPT ![j] = [pc |-> IF part = Merge THEN "check" ELSE "open",
                                  file |-> f, part |-> part, at |-> 0]]
    /\ met' = IF Beside(f) = {} THEN met ELSE met \cup Beside(f) \cup {f}
    /\ UNCHANGED <<text, disk, target, fd, lost>>

AdvancedPastMerge(c) == [c EXCEPT !.pc = "ready", !.part = @ + 1]

\* uploadFileWithChunks: a request of this part was answered with success.
Advanced(c) == IF c.part = Merge THEN [c EXCEPT !.pc = "completed"]
               ELSE [c EXCEPT !.pc = "ready", !.part = @ + 1]

\* The request ends; a browser that still waits for it hears of it.
Answer(j, ok) ==
  /\ job' = [job EXCEPT ![j] = Free]
  /\ client' = [f \in File |->
       IF client[f].pc # "waiting" \/ client[f].job # j THEN client[f]
       ELSE IF ok THEN Advanced(client[f]) ELSE [client[f] EXCEPT !.pc = "error"]]

\* The panel's forwarding gives up.  A body that is still arriving may be cut off;
\* otherwise the request goes on and nobody waits for it.
Lose(f) ==
  LET j == client[f].job IN
  /\ client[f].pc = "waiting"
  /\ lost' = lost \cup {<<f, IF client[f].part = Merge THEN "merge" ELSE "chunk">>}
  /\ Cardinality(lost') <= MaxLost
  /\ client' = [client EXCEPT ![f].pc = "error"]
  /\ \/ /\ job[j].pc \in {"open", "fill"}
        /\ job' = [job EXCEPT ![j] = Free]
        /\ fd' = [fd EXCEPT ![j] = NoPlace]
     \/ UNCHANGED <<job, fd>>
  /\ UNCHANGED <<text, disk, target, met>>

(***************************************************************************)
(* A chunk request.                                                        *)
(***************************************************************************)
Users(p) == {j \in Job : fd[j] = p}

\* multer opens the slot, which truncates what is there.
Open(j) ==
  /\ At(j, "open")
  /\ disk' = [disk EXCEPT ![Slot] = Torn]
  /\ fd' = [fd EXCEPT ![j] = Slot]
  /\ met' = IF Users(Slot) = {} THEN met
            ELSE met \cup {job[k].file : k \in Users(Slot) \cup {j}}
  /\ Goto(j, "fill")
  /\ UNCHANGED <<text, target, client, lost>>

AlwaysClear(j) == "clear"

\* uploadChunk: chunk 0 begins the upload anew.
AfterFill(j) == IF job[j].part = 0 THEN "clear" ELSE "move"

\* The body is stored in the open file, wherever that is by now; two bodies that
\* are stored in one file at a time leave either or a mixture.
Fill(j) ==
  LET data == <<text[job[j].file], job[j].part>>
      shared == \/ disk[fd[j]] # Torn   \* another body was stored after Open
                \/ \E k \in Users(fd[j]) \ {j} : At(k, "fill") IN
  /\ At(j, "fill")
  /\ IF fd[j] = NoPlace THEN disk' = disk
     ELSE \E c \in {data} \cup (IF shared THEN {Torn} ELSE {}) :
            disk' = [disk EXCEPT ![fd[j]] = c]
  /\ Goto(j, AfterFill(j))
  /\ UNCHANGED <<text, target, fd, client, met, lost>>

Unlink(places) ==
  /\ disk' = [p \in Place |-> IF p \in places THEN NoFile ELSE disk[p]]
  /\ fd' = [j \in Job |-> IF fd[j] \in places THEN NoPlace ELSE fd[j]]

\* The chunks of this text are removed, whichever dialogue sent them.
Clear(j) ==
  /\ At(j, "clear")
  /\ Unlink({text[job[j].file]} \X (0..Last))
  /\ Goto(j, "move")
  /\ UNCHANGED <<text, target, client, met, lost>>

\* The rename takes what is in the slot now, if anything.
Move(j) ==
  LET to == <<text[job[j].file], job[j].part>>
      ok == disk[Slot] # NoFile IN
  /\ At(j, "move")
  /\ disk' = IF ok THEN [disk EXCEPT ![to] = disk[Slot], ![Slot] = NoFile] ELSE disk
  /\ fd' = [k \in Job |-> IF k = j \/ (ok /\ fd[k] = to) THEN NoPlace
                          ELSE IF ok /\ fd[k] = Slot THEN to ELSE fd[k]]
  /\ met' = IF Users(Slot) = {j} THEN met
            ELSE met \cup {job[k].file : k \in Users(Slot) \cup {j}}
  /\ Answer(j, ok)
  /\ UNCHANGED <<text, target, lost>>

\* A file call fails for f.
Fails(f, kind) ==
  /\ lost' = lost \cup {<<f, kind>>}
  /\ Cardinality(lost') <= MaxLost

\* A directory or a file cannot be made, a body cannot be written to its end, or the
\* slot can neither be renamed nor copied; the error ends the request.
StoreFails(j) ==
  LET to == <<text[job[j].file], job[j].part>> IN
  /\ \/ /\ job[j].pc \in {"open", "fill", "clear", "move"}
        /\ Fails(job[j].file, "disk")
        /\ UNCHANGED disk
     \/ /\ At(j, "fill")
        /\ fd[j] # NoPlace
        /\ Fails(job[j].file, "disk")
        /\ disk' = [disk EXCEPT ![fd[j]] = Torn]
     \/ /\ At(j, "move")
        /\ Fails(job[j].file, "copy")
        /\ disk' = [disk EXCEPT ![to] = Torn]
  /\ fd' = [fd EXCEPT ![j] = NoPlace]
  /\ Answer(j, FALSE)
  /\ UNCHANGED <<text, target, met>>

(***************************************************************************)
(* mergeChunks: all chunks there, then append them, then remove them.      *)
(***************************************************************************)
Check(j) ==
  LET ok == \A i \in 0..Last : disk[<<text[job[j].file], i>>] # NoFile IN
  /\ At(j, "check")
  /\ IF ok THEN Goto(j, "truncate") /\ UNCHANGED client ELSE Answer(j, FALSE)
  /\ UNCHANGED <<text, disk, target, fd, met, lost>>

Truncate(j) ==
  /\ At(j, "truncate")
  /\ target' = [target EXCEPT ![job[j].file] = [i \in 0..Last |-> NoFile]]
  /\ Goto(j, "append")
  /\ UNCHANGED <<text, disk, fd, client, met, lost>>

NextChunk(j) ==
  LET i == job[j].at IN
  /\ job' = [job EXCEPT ![j].at = IF i = Last THEN 0 ELSE i + 1,
                        ![j].pc = IF i = Last THEN "unlink" ELSE "append"]
  /\ UNCHANGED client

ReadFailsSilently(j) == NextChunk(j)

\* A chunk that cannot be read ends the merge.
ReadFails(j) == Answer(j, FALSE)

Append(j) ==
  LET f == job[j].file
      i == job[j].at IN
  /\ At(j, "append")
  /\ IF disk[<<text[f], i>>] = NoFile
     THEN ReadFails(j) /\ UNCHANGED target
     ELSE target' = [target EXCEPT ![f][i] = disk[<<text[f], i>>]] /\ NextChunk(j)
  /\ UNCHANGED <<text, disk, fd, met, lost>>

MergedButFirst(j) == {<<text[job[j].file], job[j].at>>} \ (Text \X {0})

\* The chunk the loop after the merge removes; errors of unlink and rmdir are ignored.
Merged(j) == {<<text[job[j].file], job[j].at>>}

UnlinkOne(j) ==
  LET i == job[j].at IN
  /\ At(j, "unlink")
  /\ Unlink(Merged(j))
  /\ IF i = Last THEN Answer(j, TRUE)
     ELSE job' = [job EXCEPT ![j].at = i + 1] /\ UNCHANGED client
  /\ UNCHANGED <<text, target, met, lost>>

\* The file cannot be made or written to its end, or cannot be looked at after all.
MergeFails(j) ==
  LET f == job[j].file
      i == job[j].at IN
  /\ \/ /\ job[j].pc \in {"truncate", "append"}
        /\ UNCHANGED <<target, disk, fd>>
     \/ /\ At(j, "append")
        /\ target' = [target EXCEPT ![f][i] = Torn]
        /\ UNCHANGED <<disk, fd>>
     \/ /\ At(j, "unlink") /\ i = Last
        /\ Unlink(Merged(j))
        /\ UNCHANGED target
  /\ Fails(f, "disk")
  /\ Answer(j, FALSE)
  /\ UNCHANGED <<text, met>>

JobStep(j) ==
  \/ Open(j) \/ Fill(j) \/ Clear(j) \/ Move(j) \/ StoreFails(j)
  \/ Check(j) \/ Truncate(j) \/ Append(j) \/ UnlinkOne(j) \/ MergeFails(j)

Next ==
  \/ \E f \in File : Send(f) \/ Lose(f)
  \/ \E j \in Job : JobStep(j)

Spec == Init /\ [][Next]_vars

\* A request of f's lost its answer or failed on the disk.
Lost(f) == \E k \in {"chunk", "merge", "disk", "copy"} : <<f, k>> \in lost

\* Not begun, or done.
Over(f) ==
  \/ client[f].pc = "completed"
  \/ client[f].pc = "ready" /\ client[f].part = 0

\* A file the dialogue calls uploaded is what the user chose, also when requests
\* failed and chunks were sent again; unless one of its chunks shared the slot with
\* another request's, another dialogue was at work on the same text, the upload was
\* repeated while a merge nobody waited for was still at work, or a chunk was copied
\* in part.
CompletedIsWhole ==
  \A f \in File : client[f].pc = "completed" =>
    Whole(f) \/ f \in met \/ <<f, "merge">> \in lost \/ <<f, "copy">> \in lost

\* The dialogue reports a failure only after a lost answer, a failing file call, a
\* shared slot, or another dialogue at work on the same text.
FailuresHaveCauses ==
  \A f \in File : client[f].pc = "error" => Lost(f) \/ f \in met

\* A completed upload leaves no chunk behind, unless a dialogue that sends the same
\* text failed, met another or is not over.
NothingLeft ==
  \A f \in File : client[f].pc = "completed" =>
    \/ \E g \in File : text[g] = text[f] /\ (Lost(g) \/ g \in met \/ ~Over(g))
    \/ \A i \in 0..Last : disk[<<text[f], i>>] = NoFile
=============================================================================
