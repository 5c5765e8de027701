---------------------------- MODULE UploadProofs ----------------------------
(***************************************************************************)
(* Proofs about ChunkUpload, for any files, texts, requests and number of  *)
(* chunks.                                                                 *)
(*                                                                         *)
(* A lost answer leaves a request that nobody waits for, a shared slot     *)
(* mixes chunks of several files, and dialogues that send one text share   *)
(* their chunks.  So the invariant comes in five layers, each resting on   *)
(* the ones before: Books (who waits for which request), Alone (dialogues  *)
(* at work on one text have met), Stored (what the slot and the chunk      *)
(* places hold, for a file that never met another), Mergeable (how far a   *)
(* merge has come with its file) and Present (the chunks that were sent    *)
(* are there).                                                             *)
(***************************************************************************)
EXTENDS ChunkUpload, TLAPS

Storing == {"open", "fill", "clear", "move"}
Merging == {"check", "truncate", "append", "unlink"}
Kinds == {"chunk", "merge", "disk", "copy"}

Request == [pc : {"free", "open", "fill", "clear", "move", "check", "truncate",
                  "append", "unlink"},
            file : File \cup {NoFile}, part : 0..Merge, at : 0..Merge]
Dialogue == [pc : {"ready", "waiting", "completed", "error"},
             part : 0..Merge, job : Job \cup {NoJob}]

\* A request is about one chunk of a file or about its merge.
JobOK(j) ==
  /\ job[j].pc = "free" <=> job[j].file = NoFile
  /\ job[j].pc \in Storing => job[j].part \in 0 .. Last
  /\ job[j].pc \in Merging => job[j].part = Merge
  /\ job[j].pc \in {"check", "truncate"} => job[j].at = 0
  /\ job[j].pc \in {"append", "unlink"} => job[j].at \in 0 .. Last
  /\ job[j].pc = "clear" => job[j].part = 0
  /\ fd[j] # NoPlace => job[j].pc \in {"fill", "clear", "move"}

WaitsFor(f, j) == client[f].pc = "waiting" /\ client[f].job = j

\* A dialogue waits for the request that it sent.
ClientOK(f) ==
  \A j \in Job : WaitsFor(f, j) => job[j].file = f /\ job[j].part = client[f].part

\* Somebody waits for a request whose answer was not lost.
Owned(j) ==
  /\ job[j].pc \in Merging /\ <<job[j].file, "merge">> \notin lost => WaitsFor(job[j].file, j)
  /\ job[j].pc # "free" /\ ~ Lost(job[j].file) => WaitsFor(job[j].file, j)

Books ==
  /\ TypeOK
  /\ \A j \in Job : JobOK(j) /\ Owned(j)
  /\ \A f \in File : ClientOK(f)

\* Dialogues at work on one text have met.
Alone ==
  \A f, g \in File : f # g /\ text[f] = text[g] /\ Active(f) /\ Active(g) => f \in met

\* A file that never met another has the slot for itself.
SlotOK(j) ==
  job[j].pc \in {"fill", "clear", "move"} /\ job[j].file \notin met =>
    /\ Users(Slot) = {j}
    /\ disk[Slot] = IF job[j].pc = "fill" THEN Torn ELSE <<text[job[j].file], job[j].part>>

\* The dialogue has removed the chunks of earlier ones.
Cleared(f) ==
  \/ client[f].pc \in {"ready", "waiting"} /\ client[f].part # 0
  \/ \E j \in Job : WaitsFor(f, j) /\ job[j].pc = "move"

\* A descriptor that leads to a stored chunk got there by a meeting in the slot.
FdFrom(j) ==
  \A f \in File, i \in 0 .. Last : fd[j] = <<text[f], i>> =>
    \E g \in met : text[g] = text[f]

FdOK(f) ==
  f \notin met /\ Cleared(f) => \A j \in Job, i \in 0 .. Last : fd[j] # <<text[f], i>>

ChunksOK(f) ==
  f \notin met /\ <<f, "copy">> \notin lost /\ Cleared(f) =>
    \A i \in 0 .. Last : disk[<<text[f], i>>] \in {<<text[f], i>>, NoFile}

Stored ==
  /\ \A j \in Job : SlotOK(j) /\ FdFrom(j)
  /\ \A f \in File : FdOK(f) /\ ChunksOK(f)

\* What excuses a file that is not what the user chose.
Spoilt(f) == f \in met \/ <<f, "merge">> \in lost \/ <<f, "copy">> \in lost

\* How far a merge has come with the file.
MergeOK(j) ==
  LET f == job[j].file IN
  job[j].pc \in Merging /\ ~ Spoilt(f) =>
    /\ job[j].pc = "append" =>
         \A i \in 0 .. Last : i < job[j].at => target[f][i] = <<text[f], i>>
    /\ job[j].pc = "unlink" => Whole(f)

Mergeable == CompletedIsWhole /\ \A j \in Job : MergeOK(j)

\* An upload of which no request failed and no chunk met another's has not failed,
\* and the chunks it has sent are there until they are merged.
Undisturbed(f) ==
  ~ Lost(f) /\ f \notin met =>
    /\ client[f].pc # "error"
    /\ client[f].pc = "ready" =>
         \A i \in 0 .. Last : i < client[f].part => disk[<<text[f], i>>] # NoFile
    /\ \A j \in Job : WaitsFor(f, j) =>
         IF job[j].pc = "unlink"
         THEN \A i \in 0 .. Last : i < job[j].at => disk[<<text[f], i>>] = NoFile
         ELSE \A i \in 0 .. Last : i < client[f].part => disk[<<text[f], i>>] # NoFile

Present == NothingLeft /\ \A f \in File : Undisturbed(f)

UploadInv == Books /\ Alone /\ Stored /\ Mergeable /\ Present
-----------------------------------------------------------------------------
(***************************************************************************)
(* What the helpers of the actions do.                                     *)
(***************************************************************************)
LEMMA Typed ==
  ASSUME TypeOK
  PROVE  /\ job \in [Job -> Request] /\ client \in [File -> Dialogue]
         /\ \A j \in Job : job[j] \in Request /\ fd[j] \in Place \cup {NoPlace}
         /\ \A f \in File : client[f] \in Dialogue /\ text[f] \in Text
BY DEF TypeOK, Request, Dialogue

LEMMA PlacesDiffer ==
  /\ Slot \in Place /\ \A t \in Text, i \in 0 .. Last : <<t, i>> \in Place /\ <<t, i>> # Slot
  /\ NoPlace \notin Place
  /\ \A t \in Text, i \in 0 .. Last :
       <<t, i>> # NoFile /\ <<t, i>> # Torn /\ <<t, i>> # NoPlace
BY UploadAssumption DEF Place, Chunk

LEMMA FreeIsTyped == Free \in Request
BY UploadAssumption DEF Free, Request, Merge

\* Answer: the request is gone, and its dialogue goes on or fails.
LEMMA AnswerIs ==
  ASSUME TypeOK, NEW j \in Job, NEW ok \in BOOLEAN, Answer(j, ok)
  PROVE  /\ job' \in [Job -> Request] /\ client' \in [File -> Dialogue]
         /\ job'[j] = Free
         /\ \A k \in Job \ {j} : job'[k] = job[k]
         /\ \A f \in File : ~ WaitsFor(f, j) => client'[f] = client[f]
         /\ \A f \in File : WaitsFor(f, j) =>
              /\ ~ ok => client'[f].pc = "error"
              /\ ok /\ client[f].part = Merge => client'[f].pc = "completed"
              /\ ok /\ client[f].part # Merge =>
                   client'[f].pc = "ready" /\ client'[f].part = client[f].part + 1
<1>. USE Typed
<1>1. job' \in [Job -> Request] /\ job'[j] = Free /\ \A k \in Job \ {j} : job'[k] = job[k]
  BY FreeIsTyped DEF Answer
<1>2. ASSUME NEW f \in File, WaitsFor(f, j)
      PROVE  /\ client'[f] \in Dialogue
             /\ ~ ok => client'[f].pc = "error"
             /\ ok /\ client[f].part = Merge => client'[f].pc = "completed"
             /\ ok /\ client[f].part # Merge =>
                  client'[f].pc = "ready" /\ client'[f].part = client[f].part + 1
  <2>1. client'[f] = IF ok THEN Advanced(client[f]) ELSE [client[f] EXCEPT !.pc = "error"]
    BY <1>2 DEF Answer, WaitsFor
  <2>2. client[f] \in Dialogue
    OBVIOUS
  <2>3. CASE ~ ok
    BY <2>1, <2>2, <2>3 DEF Dialogue
  <2>4. CASE ok /\ client[f].part = Merge
    BY <2>1, <2>2, <2>4 DEF Advanced, Dialogue
  <2>5. CASE ok /\ client[f].part # Merge
    <3>1. client'[f] = [client[f] EXCEPT !.pc = "ready", !.part = @ + 1]
      BY <2>1, <2>5 DEF Advanced
    <3>2. client[f].part + 1 \in 0 .. Merge
      BY <2>2, <2>5, UploadAssumption DEF Dialogue, Merge
    <3>. QED  BY <2>2, <2>5, <3>1, <3>2 DEF Dialogue
  <2>. QED  BY <2>3, <2>4, <2>5
<1>3. ASSUME NEW f \in File, ~ WaitsFor(f, j)
      PROVE  client'[f] = client[f]
  BY <1>3 DEF Answer, WaitsFor
<1>4. client' \in [File -> Dialogue]
  <2>1. \A f \in File : client'[f] \in Dialogue
    BY <1>2, <1>3
  <2>. QED  BY <2>1 DEF Answer
<1>. QED  BY <1>1, <1>2, <1>3, <1>4

\* Goto: only the await changes.
LEMMA GotoIs ==
  ASSUME TypeOK, NEW j \in Job, NEW pc \in Storing \cup Merging, Goto(j, pc)
  PROVE  /\ job' \in [Job -> Request]
         /\ job'[j].pc = pc /\ job'[j].at = job[j].at
         /\ job'[j].file = job[j].file /\ job'[j].part = job[j].part
         /\ \A k \in Job \ {j} : job'[k] = job[k]
<1>1. job \in [Job -> Request] /\ job[j] \in Request
  BY Typed
<1>. QED  BY <1>1 DEF Goto, Request, Storing, Merging

\* The moves of a merge from chunk to chunk.
LEMMA MoveOnIs ==
  ASSUME TypeOK, NEW j \in Job, NEW pc \in Merging, NEW at \in 0 .. Merge,
         \/ job' = [job EXCEPT ![j].at = at, ![j].pc = pc]
         \/ job' = [job EXCEPT ![j].at = at] /\ pc = job[j].pc
  PROVE  /\ job' \in [Job -> Request]
         /\ job'[j].pc = pc /\ job'[j].at = at
         /\ job'[j].file = job[j].file /\ job'[j].part = job[j].part
         /\ \A k \in Job \ {j} : job'[k] = job[k]
<1>. USE DEF Request, Merging
<1>0. job \in [Job -> Request] /\ job[j] \in Request
  BY Typed
<1>1. CASE job' = [job EXCEPT ![j].at = at, ![j].pc = pc]
  BY <1>0, <1>1
<1>2. CASE job' = [job EXCEPT ![j].at = at] /\ pc = job[j].pc
  BY <1>0, <1>2
<1>. QED  BY <1>1, <1>2

\* Unlink: what had one of the places open or stored there leads nowhere now.
LEMMA UnlinkIs ==
  ASSUME TypeOK, NEW places \in SUBSET Place, Unlink(places)
  PROVE  /\ disk' \in [Place -> Content] /\ fd' \in [Job -> Place \cup {NoPlace}]
         /\ \A p \in Place : disk'[p] = IF p \in places THEN NoFile ELSE disk[p]
         /\ \A j \in Job : fd'[j] = IF fd[j] \in places THEN NoPlace ELSE fd[j]
BY DEF TypeOK, Unlink, Content
-----------------------------------------------------------------------------
(***************************************************************************)
(* Books: who waits for which request.                                     *)
(***************************************************************************)

\* A step of a request that goes on leaves the books as they are.
LEMMA GoOnKeepsBooks ==
  ASSUME Books, NEW j \in Job,
         text' = text, client' = client, lost' = lost, met' \in SUBSET File,
         disk' \in [Place -> Content], target' \in [File -> [0 .. Last -> Content]],
         fd' \in [Job -> Place \cup {NoPlace}], job' \in [Job -> Request],
         \A k \in Job \ {j} : job'[k] = job[k] /\ (fd'[k] # NoPlace => fd[k] # NoPlace),
         job'[j].file = job[j].file, job'[j].part = job[j].part,
         job[j].pc # "free", job'[j].pc # "free",
         job'[j].pc \in Merging => job[j].pc \in Merging,
         JobOK(j)'
  PROVE  Books'
<1>. USE DEF Books
<1>1. TypeOK'
  <2>1. \A f \in File : client'[f].pc = "waiting" =>
          client'[f].job # NoJob /\ job'[client'[f].job].file = f
    <3>1. \A k \in Job : job'[k].file = job[k].file
      OBVIOUS
    <3>2. \A f \in File : client[f].job \in Job \cup {NoJob}
      BY Typed DEF Dialogue
    <3>3. \A f \in File : client[f].pc = "waiting" =>
            client[f].job # NoJob /\ job[client[f].job].file = f
      BY DEF TypeOK
    <3>. QED  BY <3>1, <3>2, <3>3
  <2>. QED  BY <2>1 DEF TypeOK, Request
<1>2. \A k \in Job : JobOK(k)'
  BY DEF JobOK
<1>3. ASSUME NEW k \in Job PROVE Owned(k)'
  <2>1. job'[k].file = job[k].file
    OBVIOUS
  <2>2. /\ job'[k].pc \in Merging => job[k].pc \in Merging
        /\ job'[k].pc # "free" => job[k].pc # "free"
    OBVIOUS
  <2>3. WaitsFor(job[k].file, k)' <=> WaitsFor(job[k].file, k)
    BY <2>1 DEF WaitsFor
  <2>4. Lost(job[k].file)' <=> Lost(job[k].file)
    BY <2>1 DEF Lost
  <2>. QED  BY <2>1, <2>2, <2>3, <2>4 DEF Owned
<1>4. ASSUME NEW f \in File PROVE ClientOK(f)'
  BY DEF ClientOK, WaitsFor
<1>. QED  BY <1>1, <1>2, <1>3, <1>4

\* So does the end of one.
LEMMA AnswerKeepsBooks ==
  ASSUME Books, NEW j \in Job, NEW ok \in BOOLEAN, Answer(j, ok),
         text' = text, lost \subseteq lost', lost' \in SUBSET (File \X Kinds),
         met' \in SUBSET File,
         disk' \in [Place -> Content], target' \in [File -> [0 .. Last -> Content]],
         fd' \in [Job -> Place \cup {NoPlace}], fd'[j] = NoPlace,
         \A k \in Job \ {j} : fd'[k] # NoPlace => fd[k] # NoPlace
  PROVE  Books'
<1>. USE AnswerIs DEF Books
<1>0. /\ \A f \in File : WaitsFor(f, j) => client'[f].pc # "waiting"
      /\ \A f \in File : ~ WaitsFor(f, j) => client'[f] = client[f]
  BY Zenon
<1>1. TypeOK'
  <2>1. \A f \in File : client'[f].pc = "waiting" =>
          client'[f].job # NoJob /\ job'[client'[f].job].file = f
    <3>. SUFFICES ASSUME NEW f \in File, client'[f].pc = "waiting"
                  PROVE  client'[f].job # NoJob /\ job'[client'[f].job].file = f
      OBVIOUS
    <3>1. ~ WaitsFor(f, j) /\ client'[f] = client[f]
      BY <1>0
    <3>2. client[f].job # NoJob /\ job[client[f].job].file = f /\ client[f].job \in Job \ {j}
      BY <3>1, Typed DEF TypeOK, Dialogue, WaitsFor
    <3>. QED  BY <3>1, <3>2
  <2>. QED  BY <2>1 DEF TypeOK, Request, Dialogue, Kinds
<1>2. \A k \in Job : JobOK(k)'
  BY DEF JobOK, Free, Storing, Merging
<1>3. ASSUME NEW k \in Job PROVE Owned(k)'
  <2>1. CASE k = j
    BY <2>1 DEF Owned, Free, Merging
  <2>2. CASE k # j
    <3>1. job'[k] = job[k]
      BY <2>2
    <3>4. Lost(job[k].file) => Lost(job[k].file)'
      BY <3>1 DEF Lost
    <3>2. ASSUME WaitsFor(job[k].file, k), job[k].file \in File PROVE WaitsFor(job[k].file, k)'
      BY <1>0, <2>2, <3>1, <3>2 DEF WaitsFor
    <3>3. job[k].pc # "free" => job[k].file \in File
      BY Typed DEF JobOK, Request
    <3>. QED  BY <3>1, <3>2, <3>3, <3>4 DEF Owned, Merging
  <2>. QED  BY <2>1, <2>2
<1>4. ASSUME NEW f \in File PROVE ClientOK(f)'
  BY <1>0 DEF ClientOK, WaitsFor
<1>. QED  BY <1>1, <1>2, <1>3, <1>4

\* The parts and positions of a request lie where they should.
LEMMA Bounds ==
  /\ Last \in Nat /\ Merge = Last + 1 /\ 0 \in 0 .. Last /\ 0 \in 0 .. Merge
  /\ Merge \in 0 .. Merge /\ 0 .. Last \subseteq 0 .. Merge /\ Merge \notin 0 .. Last
  /\ \A i \in 0 .. Merge : i # Merge => i \in 0 .. Last
  /\ \A i \in 0 .. Last : i + 1 \in 0 .. Merge
BY UploadAssumption DEF Merge

LEMMA BusyIsTyped ==
  ASSUME Books, NEW j \in Job, job[j].pc # "free"
  PROVE  /\ job[j].file \in File
         /\ text[job[j].file] \in Text
         /\ \A i \in 0 .. Last : <<text[job[j].file], i>> \in Place
         /\ job[j].at \in 0 .. Merge
BY Typed, PlacesDiffer DEF Books, JobOK, Request

LEMMA SendKeepsBooks ==
  ASSUME Books, NEW f \in File, Send(f)
  PROVE  Books'
<1>. USE Typed, Bounds DEF Books
<1>1. PICK j \in Job, part \in 0 .. Merge :
        /\ client[f].pc \in {"ready", "error"} /\ job[j].pc = "free"
        /\ client' = [client EXCEPT ![f] = [pc |-> "waiting", part |-> part, job |-> j]]
        /\ job' = [job EXCEPT ![j] = [pc |-> IF part = Merge THEN "check" ELSE "open",
                                      file |-> f, part |-> part, at |-> 0]]
        /\ met' = IF Beside(f) = {} THEN met ELSE met \cup Beside(f) \cup {f}
        /\ UNCHANGED <<text, disk, target, fd, lost>>
  BY DEF Send, At, Dialogue
<1>2. /\ job' \in [Job -> Request] /\ client' \in [File -> Dialogue]
      /\ job'[j] = [pc |-> IF part = Merge THEN "check" ELSE "open",
                    file |-> f, part |-> part, at |-> 0]
      /\ client'[f] = [pc |-> "waiting", part |-> part, job |-> j]
      /\ \A k \in Job \ {j} : job'[k] = job[k]
      /\ \A g \in File \ {f} : client'[g] = client[g]
  BY <1>1 DEF Request, Dialogue
<1>3. job[j].file = NoFile /\ fd[j] = NoPlace
  BY <1>1 DEF JobOK
<1>4. \A g \in File \ {f} : client[g].pc = "waiting" => client[g].job \in Job \ {j}
  BY <1>3, UploadAssumption DEF TypeOK, Dialogue
<1>5. TypeOK'
  <2>1. \A g \in File : client'[g].pc = "waiting" =>
          client'[g].job # NoJob /\ job'[client'[g].job].file = g
    <3>1. j # NoJob
      BY UploadAssumption
    <3>2. \A g \in File : client[g].pc = "waiting" =>
            client[g].job # NoJob /\ job[client[g].job].file = g
      BY DEF TypeOK
    <3>. QED  BY <1>2, <1>4, <3>1, <3>2
  <2>2. met' \in SUBSET File
    BY <1>1 DEF TypeOK, Beside
  <2>. QED  BY <1>1, <1>2, <2>1, <2>2 DEF TypeOK, Request, Dialogue
<1>6. ASSUME NEW k \in Job PROVE JobOK(k)'
  <2>1. CASE k = j
    BY <1>1, <1>2, <1>3, <2>1, UploadAssumption DEF JobOK, Storing, Merging
  <2>2. CASE k # j
    <3>1. job'[k] = job[k] /\ fd'[k] = fd[k]
      BY <1>1, <1>2, <2>2
    <3>. QED  BY <3>1 DEF JobOK
  <2>. QED  BY <2>1, <2>2
<1>7. ASSUME NEW k \in Job PROVE Owned(k)'
  <2>1. CASE k = j
    BY <1>2, <2>1 DEF Owned, WaitsFor
  <2>2. CASE k # j
    <3>1. job'[k] = job[k] /\ Lost(job[k].file)' = Lost(job[k].file)
      BY <1>1, <1>2, <2>2 DEF Lost
    <3>2. ASSUME WaitsFor(job[k].file, k), job[k].file \in File
          PROVE  WaitsFor(job[k].file, k)'
      BY <1>1, <1>2, <3>1, <3>2 DEF WaitsFor
    <3>. QED  BY <1>1, <3>1, <3>2, BusyIsTyped DEF Owned, Merging
  <2>. QED  BY <2>1, <2>2
<1>8. ASSUME NEW g \in File PROVE ClientOK(g)'
  BY <1>2, <1>4 DEF ClientOK, WaitsFor
<1>. QED  BY <1>5, <1>6, <1>7, <1>8

LEMMA LoseKeepsBooks ==
  ASSUME Books, NEW f \in File, Lose(f)
  PROVE  Books'
<1>. USE Typed DEF Books
<1>1. PICK j \in Job : WaitsFor(f, j) /\ job[j].file = f /\ job[j].part = client[f].part
  <2>1. client[f].job \in Job
    BY DEF Lose, TypeOK, Dialogue
  <2>. QED  BY <2>1 DEF Lose, ClientOK, WaitsFor
<1>2. /\ client' = [client EXCEPT ![f].pc = "error"]
      /\ lost' = lost \cup {<<f, IF client[f].part = Merge THEN "merge" ELSE "chunk">>}
      /\ UNCHANGED <<text, disk, target, met>>
      /\ \/ /\ job[j].pc \in {"open", "fill"}
            /\ job' = [job EXCEPT ![j] = Free]
            /\ fd' = [fd EXCEPT ![j] = NoPlace]
         \/ UNCHANGED <<job, fd>>
  BY <1>1 DEF Lose, WaitsFor
<1>3. /\ client' \in [File -> Dialogue] /\ client'[f].pc = "error"
      /\ \A g \in File \ {f} : client'[g] = client[g]
  BY <1>2 DEF Dialogue
<1>4. /\ job' \in [Job -> Request] /\ \A k \in Job \ {j} : job'[k] = job[k]
      /\ fd' \in [Job -> Place \cup {NoPlace}] /\ \A k \in Job \ {j} : fd'[k] = fd[k]
      /\ (job'[j] = job[j] /\ fd'[j] = fd[j]) \/ (job'[j] = Free /\ fd'[j] = NoPlace)
  <2>1. CASE UNCHANGED <<job, fd>>
    BY <2>1 DEF TypeOK
  <2>2. CASE job' = [job EXCEPT ![j] = Free] /\ fd' = [fd EXCEPT ![j] = NoPlace]
    BY <2>2, FreeIsTyped DEF TypeOK
  <2>. QED  BY <1>2, <2>1, <2>2
<1>5. \A g \in File \ {f} : client[g].pc = "waiting" =>
        client[g].job # NoJob /\ job[client[g].job].file = g /\ client[g].job \in Job \ {j}
  BY <1>1, UploadAssumption DEF TypeOK, Dialogue
<1>6. TypeOK'
  <2>1. \A g \in File : client'[g].pc = "waiting" =>
          client'[g].job # NoJob /\ job'[client'[g].job].file = g
    BY <1>3, <1>4, <1>5
  <2>2. lost' \in SUBSET (File \X {"chunk", "merge", "disk", "copy"})
    BY <1>2 DEF TypeOK
  <2>. QED  BY <1>2, <1>3, <1>4, <2>1, <2>2 DEF TypeOK, Request, Dialogue
<1>7. ASSUME NEW k \in Job PROVE JobOK(k)'
  <2>1. CASE job'[k] = job[k] /\ fd'[k] = fd[k]
    BY <2>1 DEF JobOK
  <2>2. CASE job'[k] = Free /\ fd'[k] = NoPlace
    BY <2>2 DEF JobOK, Free, Storing, Merging
  <2>. QED  BY <1>4, <2>1, <2>2
<1>8. ASSUME NEW k \in Job PROVE Owned(k)'
  <2>1. CASE job'[k] = Free
    BY <2>1 DEF Owned, Free, Merging
  <2>2. CASE job'[k] = job[k] /\ job[k].pc # "free" /\ job[k].file # f
    <3>1. WaitsFor(job[k].file, k)' <=> WaitsFor(job[k].file, k)
      BY <1>3, <2>2, BusyIsTyped DEF WaitsFor
    <3>2. Lost(job[k].file)' <=> Lost(job[k].file)
      BY <1>2, <2>2 DEF Lost
    <3>3. <<job[k].file, "merge">> \in lost' <=> <<job[k].file, "merge">> \in lost
      BY <1>2, <2>2
    <3>. QED  BY <2>2, <3>1, <3>2, <3>3 DEF Owned
  <2>3. CASE job'[k] = job[k] /\ job[k].pc # "free" /\ job[k].file = f
    <3>1. Lost(f)'
      BY <1>2 DEF Lost
    <3>2. CASE job[k].pc \in Merging /\ <<f, "merge">> \notin lost'
      <4>1. <<f, "merge">> \notin lost /\ client[f].part # Merge
        BY <1>2, <3>2
      <4>2. WaitsFor(f, k)
        BY <2>3, <3>2, <4>1 DEF Owned
      <4>3. job[k].part = client[f].part /\ job[k].part = Merge
        BY <3>2, <4>2 DEF ClientOK, JobOK
      <4>. QED  BY <4>1, <4>3
    <3>. QED  BY <2>3, <3>1, <3>2 DEF Owned
  <2>4. CASE job'[k] = job[k] /\ job[k].pc = "free"
    BY <2>4 DEF Owned, Merging
  <2>. QED  BY <1>4, <2>1, <2>2, <2>3, <2>4
<1>9. ASSUME NEW g \in File PROVE ClientOK(g)'
  BY <1>3, <1>4, <1>5 DEF ClientOK, WaitsFor
<1>. QED  BY <1>6, <1>7, <1>8, <1>9

\* Only files that are being stored meet in the slot.
LEMMA MetIsTyped ==
  ASSUME Books, NEW j \in Job, job[j].pc # "free"
  PROVE  met \cup {job[k].file : k \in Users(Slot) \cup {j}} \in SUBSET File
<1>1. ASSUME NEW k \in Users(Slot) PROVE k \in Job /\ job[k].pc # "free"
  BY PlacesDiffer DEF Users, Books, JobOK
<1>. QED  BY <1>1, BusyIsTyped DEF Books, TypeOK

\* Fill: the body is stored where the file that is open has gone, by itself unless
\* something else was stored there or is being stored.
LEMMA FillIs ==
  ASSUME Books, NEW j \in Job, Fill(j)
  PROVE  /\ disk' \in [Place -> Content]
         /\ fd[j] = NoPlace => disk' = disk
         /\ fd[j] # NoPlace =>
              /\ \A p \in Place \ {fd[j]} : disk'[p] = disk[p]
              /\ \/ disk'[fd[j]] = <<text[job[j].file], job[j].part>>
                 \/ disk[fd[j]] # Torn
                 \/ \E k \in Users(fd[j]) \ {j} : job[k].pc = "fill"
<1>1. <<text[job[j].file], job[j].part>> \in Content /\ Torn \in Content
  BY BusyIsTyped DEF Fill, At, Books, JobOK, Storing, Content, Chunk
<1>2. disk \in [Place -> Content] /\ fd[j] \in Place \cup {NoPlace}
  BY DEF Books, TypeOK
<1>3. CASE fd[j] = NoPlace
  BY <1>2, <1>3 DEF Fill
<1>4. CASE fd[j] # NoPlace
  <2> DEFINE data == <<text[job[j].file], job[j].part>>
  <2>1. PICK c \in {data, Torn} :
          /\ disk' = [disk EXCEPT ![fd[j]] = c]
          /\ \/ c = data
             \/ disk[fd[j]] # Torn
             \/ \E k \in Users(fd[j]) \ {j} : At(k, "fill")
    BY <1>4 DEF Fill
  <2>. QED  BY <1>1, <1>2, <1>4, <2>1 DEF At
<1>. QED  BY <1>3, <1>4

LEMMA StoringKeepsBooks ==
  ASSUME Books, NEW j \in Job, Open(j) \/ Fill(j) \/ Clear(j) \/ Move(j) \/ StoreFails(j)
  PROVE  Books'
<1>. USE Typed, PlacesDiffer, BusyIsTyped DEF At
<1>0. TypeOK /\ JobOK(j)
  BY DEF Books
<1>1. CASE Open(j)
  <2>. USE <1>1 DEF Open
  <2>1. /\ job' \in [Job -> Request]
        /\ job'[j].pc = "fill" /\ job'[j].file = job[j].file /\ job'[j].part = job[j].part
        /\ \A k \in Job \ {j} : job'[k] = job[k]
    BY <1>0, GotoIs DEF Storing
  <2>2. /\ disk' \in [Place -> Content] /\ fd' \in [Job -> Place \cup {NoPlace}]
        /\ \A k \in Job \ {j} : fd'[k] = fd[k]
    BY <1>0 DEF TypeOK, Content
  <2>3. met' \in SUBSET File
    BY <1>0, MetIsTyped DEF TypeOK
  <2>4. JobOK(j)'
    BY <1>0, <2>1, BusyIsTyped, UploadAssumption DEF JobOK, Storing, Merging
  <2>. QED  BY <1>0, <2>1, <2>2, <2>3, <2>4, GoOnKeepsBooks DEF TypeOK, Merging
<1>2. CASE Fill(j)
  <2>. USE <1>2 DEF Fill
  <2>1. /\ job' \in [Job -> Request]
        /\ job'[j].pc = AfterFill(j)
        /\ job'[j].file = job[j].file /\ job'[j].part = job[j].part
        /\ \A k \in Job \ {j} : job'[k] = job[k]
    BY <1>0, GotoIs DEF Storing, AfterFill
  <2>2. disk' \in [Place -> Content]
    BY FillIs
  <2>3. JobOK(j)'
    BY <1>0, <2>1, UploadAssumption DEF JobOK, Storing, Merging, AfterFill
  <2>. QED  BY <1>0, <2>1, <2>2, <2>3, GoOnKeepsBooks DEF TypeOK, Merging, AfterFill
<1>3. CASE Clear(j)
  <2>. USE <1>3 DEF Clear
  <2>1. /\ job' \in [Job -> Request]
        /\ job'[j].pc = "move" /\ job'[j].file = job[j].file /\ job'[j].part = job[j].part
        /\ \A k \in Job \ {j} : job'[k] = job[k]
    BY <1>0, GotoIs DEF Storing
  <2>2. {text[job[j].file]} \X (0 .. Last) \in SUBSET Place
    BY DEF Place, Chunk
  <2>3. /\ disk' \in [Place -> Content] /\ fd' \in [Job -> Place \cup {NoPlace}]
        /\ \A k \in Job : fd'[k] # NoPlace => fd[k] # NoPlace
    BY <1>0, <2>2, UnlinkIs
  <2>4. JobOK(j)'
    BY <1>0, <2>1, <2>3, UploadAssumption DEF JobOK, Storing, Merging
  <2>. QED  BY <1>0, <2>1, <2>3, <2>4, GoOnKeepsBooks DEF TypeOK, Merging
<1>4. CASE Move(j)
  <2>. USE <1>4 DEF Move
  <2>1. PICK ok \in BOOLEAN : Answer(j, ok) /\ ok = (disk[Slot] # NoFile)
    OBVIOUS
  <2>2. <<text[job[j].file], job[j].part>> \in Place
    BY <1>0 DEF JobOK, Storing
  <2>3. disk' \in [Place -> Content]
    BY <1>0, <2>2 DEF TypeOK, Content
  <2>4. /\ fd' \in [Job -> Place \cup {NoPlace}] /\ fd'[j] = NoPlace
        /\ \A k \in Job \ {j} : fd'[k] # NoPlace => fd[k] # NoPlace
    <3>1. \A k \in Job : fd[k] \in Place \cup {NoPlace}
      BY <1>0
    <3>. QED  BY <2>2, <3>1 DEF Place
  <2>5. met' \in SUBSET File
    BY <1>0, MetIsTyped DEF TypeOK
  <2>. QED  BY <1>0, <2>1, <2>3, <2>4, <2>5, AnswerKeepsBooks DEF TypeOK, Kinds
<1>5. CASE StoreFails(j)
  <2>. DEFINE to == <<text[job[j].file], job[j].part>>
  <2>1. /\ job[j].pc \in Storing
        /\ fd' = [fd EXCEPT ![j] = NoPlace] /\ Answer(j, FALSE)
        /\ UNCHANGED <<text, target, met>>
        /\ \E kind \in Kinds : lost' = lost \cup {<<job[j].file, kind>>}
        /\ \/ disk' = disk
           \/ fd[j] # NoPlace /\ disk' = [disk EXCEPT ![fd[j]] = Torn]
           \/ disk' = [disk EXCEPT ![to] = Torn]
    BY <1>5 DEF StoreFails, Fails, Storing, Kinds
  <2>2. job[j].file \in File /\ to \in Place
    BY <1>0, <2>1 DEF JobOK, Storing
  <2>3. disk' \in [Place -> Content]
    BY <1>0, <2>1, <2>2 DEF TypeOK, Content
  <2>4. lost \subseteq lost' /\ lost' \in SUBSET (File \X Kinds)
    BY <1>0, <2>1, <2>2 DEF TypeOK, Kinds
  <2>5. /\ fd' \in [Job -> Place \cup {NoPlace}] /\ fd'[j] = NoPlace
        /\ \A k \in Job \ {j} : fd'[k] = fd[k]
    BY <1>0, <2>1 DEF TypeOK
  <2>. QED  BY <1>0, <2>1, <2>3, <2>4, <2>5, AnswerKeepsBooks DEF TypeOK
<1>. QED  BY <1>1, <1>2, <1>3, <1>4, <1>5

LEMMA MergingKeepsBooks ==
  ASSUME Books, NEW j \in Job,
         Check(j) \/ Truncate(j) \/ Append(j) \/ UnlinkOne(j) \/ MergeFails(j)
  PROVE  Books'
<1>. USE Typed, PlacesDiffer, BusyIsTyped, Bounds DEF At
<1>0. /\ TypeOK /\ JobOK(j) /\ job[j].pc # "free" /\ fd[j] = NoPlace /\ job[j].file \in File
      /\ job[j].part = Merge
  BY DEF Books, Check, Truncate, Append, UnlinkOne, MergeFails, JobOK, Merging
<1>1. CASE Check(j)
  <2>1. CASE Goto(j, "truncate") /\ UNCHANGED client
    <3>1. /\ job' \in [Job -> Request]
          /\ job'[j].pc = "truncate" /\ job'[j].file = job[j].file /\ job'[j].part = job[j].part
          /\ job'[j].at = job[j].at
          /\ \A k \in Job \ {j} : job'[k] = job[k]
      BY <1>0, <2>1, GotoIs DEF Merging
    <3>2. JobOK(j)'
      BY <1>0, <1>1, <3>1, UploadAssumption DEF JobOK, Storing, Merging, Check
    <3>. QED  BY <1>0, <1>1, <2>1, <3>1, <3>2, GoOnKeepsBooks DEF TypeOK, Merging, Check
  <2>2. CASE Answer(j, FALSE)
    BY <1>0, <1>1, <2>2, AnswerKeepsBooks DEF TypeOK, Kinds, Check
  <2>. QED  BY <1>1, <2>1, <2>2 DEF Check
<1>2. CASE Truncate(j)
  <2>1. /\ job' \in [Job -> Request]
        /\ job'[j].pc = "append" /\ job'[j].file = job[j].file /\ job'[j].part = job[j].part
        /\ \A k \in Job \ {j} : job'[k] = job[k]
        /\ job'[j].at = job[j].at
    BY <1>0, <1>2, GotoIs DEF Merging, Truncate
  <2>2. target' \in [File -> [0 .. Last -> Content]]
    BY <1>0, <1>2 DEF TypeOK, Truncate, Content
  <2>3. JobOK(j)'
    BY <1>0, <1>2, <2>1, UploadAssumption DEF JobOK, Storing, Merging, Truncate
  <2>. QED  BY <1>0, <1>2, <2>1, <2>2, <2>3, GoOnKeepsBooks DEF TypeOK, Merging, Truncate
<1>3. CASE Append(j)
  <2>1. job[j].at \in 0 .. Last
    BY <1>0, <1>3 DEF JobOK, Append
  <2>2. CASE ReadFails(j) /\ UNCHANGED target
    BY <1>0, <1>3, <2>2, AnswerKeepsBooks DEF TypeOK, Kinds, Append, ReadFails
  <2>3. CASE /\ NextChunk(j)
             /\ target' = [target EXCEPT ![job[j].file][job[j].at] =
                             disk[<<text[job[j].file], job[j].at>>]]
    <3>1. PICK pc \in {"append", "unlink"}, at \in 0 .. Last :
            job' = [job EXCEPT ![j].at = at, ![j].pc = pc]
      <4>1. job[j].at = Last \/ job[j].at + 1 \in 0 .. Last
        BY <2>1
      <4>. QED  BY <2>3, <4>1 DEF NextChunk
    <3>2. /\ job' \in [Job -> Request]
          /\ job'[j].pc = pc /\ job'[j].file = job[j].file /\ job'[j].part = job[j].part
          /\ job'[j].at = at /\ \A k \in Job \ {j} : job'[k] = job[k]
      BY <1>0, <3>1, MoveOnIs DEF Merging
    <3>3. target' \in [File -> [0 .. Last -> Content]]
      BY <1>0, <2>1, <2>3 DEF TypeOK
    <3>4. JobOK(j)'
      BY <1>0, <1>3, <3>2, UploadAssumption DEF JobOK, Storing, Merging, Append
    <3>. QED  BY <1>0, <1>3, <2>3, <3>2, <3>3, <3>4, GoOnKeepsBooks
              DEF TypeOK, Merging, Append, NextChunk
  <2>. QED  BY <1>3, <2>2, <2>3 DEF Append
<1>4. CASE UnlinkOne(j)
  <2>1. job[j].at \in 0 .. Last
    BY <1>0, <1>4 DEF JobOK, UnlinkOne
  <2>2. Merged(j) \in SUBSET Place
    BY <1>0, <2>1 DEF Merged
  <2>3. /\ disk' \in [Place -> Content] /\ fd' \in [Job -> Place \cup {NoPlace}]
        /\ \A k \in Job : fd'[k] # NoPlace => fd[k] # NoPlace
    BY <1>0, <1>4, <2>2, UnlinkIs DEF UnlinkOne
  <2>4. CASE Answer(j, TRUE)
    BY <1>0, <1>4, <2>3, <2>4, AnswerKeepsBooks DEF TypeOK, Kinds, UnlinkOne
  <2>5. CASE job[j].at # Last /\ job' = [job EXCEPT ![j].at = job[j].at + 1] /\ UNCHANGED client
    <3>1. job[j].at + 1 \in 0 .. Last
      BY <2>1, <2>5
    <3>2. /\ job' \in [Job -> Request]
          /\ job'[j].pc = job[j].pc /\ job'[j].file = job[j].file /\ job'[j].part = job[j].part
          /\ job'[j].at = job[j].at + 1 /\ \A k \in Job \ {j} : job'[k] = job[k]
      BY <1>0, <1>4, <2>5, <3>1, MoveOnIs DEF Merging, UnlinkOne
    <3>3. JobOK(j)'
      BY <1>0, <1>4, <2>3, <3>1, <3>2, UploadAssumption DEF JobOK, Storing, Merging, UnlinkOne
    <3>. QED  BY <1>0, <1>4, <2>3, <2>5, <3>2, <3>3, GoOnKeepsBooks
              DEF TypeOK, Merging, UnlinkOne
  <2>. QED  BY <1>4, <2>4, <2>5 DEF UnlinkOne
<1>5. CASE MergeFails(j)
  <2>1. /\ Answer(j, FALSE) /\ UNCHANGED <<text, met>>
        /\ lost' = lost \cup {<<job[j].file, "disk">>}
    BY <1>5 DEF MergeFails, Fails
  <2>2. lost \subseteq lost' /\ lost' \in SUBSET (File \X Kinds)
    BY <1>0, <2>1 DEF TypeOK, Kinds
  <2>3. target' \in [File -> [0 .. Last -> Content]]
    <3>1. Torn \in Content /\ target \in [File -> [0 .. Last -> Content]]
      BY <1>0 DEF TypeOK, Content
    <3>2. CASE target' = target
      BY <3>1, <3>2
    <3>3. CASE /\ job[j].pc = "append"
               /\ target' = [target EXCEPT ![job[j].file][job[j].at] = Torn]
      BY <1>0, <3>1, <3>3
    <3>. QED  BY <1>5, <3>2, <3>3 DEF MergeFails
  <2>4. /\ disk' \in [Place -> Content] /\ fd' \in [Job -> Place \cup {NoPlace}]
        /\ \A k \in Job : fd'[k] # NoPlace => fd[k] # NoPlace
    <3>1. CASE UNCHANGED <<disk, fd>>
      BY <1>0, <3>1 DEF TypeOK
    <3>2. CASE job[j].pc = "unlink" /\ Unlink(Merged(j))
      <4>1. Merged(j) \in SUBSET Place
        BY <1>0, <3>2 DEF Merged, JobOK
      <4>. QED  BY <1>0, <3>2, <4>1, UnlinkIs
    <3>. QED  BY <1>5, <3>1, <3>2 DEF MergeFails
  <2>. QED  BY <1>0, <2>1, <2>2, <2>3, <2>4, AnswerKeepsBooks DEF TypeOK
<1>. QED  BY <1>1, <1>2, <1>3, <1>4, <1>5

LEMMA BooksInit == Init => Books
<1>. SUFFICES ASSUME Init PROVE Books
  OBVIOUS
<1>1. TypeOK
  BY FreeIsTyped, Bounds DEF Init, TypeOK, Request, Content
<1>. QED
  BY <1>1, Bounds DEF Init, Books, JobOK, Owned, ClientOK, WaitsFor, Free, Storing, Merging

LEMMA BooksStep == Books /\ [Next]_vars => Books'
<1>. SUFFICES ASSUME Books, [Next]_vars PROVE Books'
  OBVIOUS
<1>1. CASE UNCHANGED vars
  BY <1>1 DEF vars, Books, TypeOK, JobOK, Owned, ClientOK, WaitsFor, Lost
<1>. QED
  BY <1>1, SendKeepsBooks, LoseKeepsBooks, StoringKeepsBooks, MergingKeepsBooks
  DEF Next, JobStep
-----------------------------------------------------------------------------
(***************************************************************************)
(* Alone: dialogues at work on one text have met.                          *)
(***************************************************************************)

\* What every step of a request has in common.
LEMMA JobStepIs ==
  ASSUME Books, NEW j \in Job, JobStep(j)
  PROVE  /\ job[j].pc # "free" /\ job[j].file \in File
         /\ \A k \in Job \ {j} : job'[k] = job[k]
         /\ job'[j].file = job[j].file \/ job'[j] = Free
         /\ \A f \in File : ~ WaitsFor(f, j) => client'[f] = client[f]
         /\ \/ UNCHANGED client /\ (job'[j].pc = "move" => Fill(j) \/ Clear(j))
            \/ \E ok \in BOOLEAN : Answer(j, ok) /\ (ok => job[j].pc \in {"move", "unlink"})
         /\ text' = text /\ met \subseteq met' /\ lost \subseteq lost'
<1>. USE DEF At
<1>1. TypeOK /\ job[j].pc # "free" /\ job[j].file \in File
  BY BusyIsTyped
  DEF JobStep, Open, Fill, Clear, Move, StoreFails, Check, Truncate, Append, UnlinkOne,
      MergeFails, Books
<1>2. text' = text /\ met \subseteq met' /\ lost \subseteq lost'
  BY DEF JobStep, Open, Fill, Clear, Move, StoreFails, Check, Truncate, Append, UnlinkOne,
         MergeFails, Fails
<1>3. \/ /\ UNCHANGED client
         /\ \/ \E pc \in Storing \cup Merging :
                  Goto(j, pc) /\ (pc = "move" => Fill(j) \/ Clear(j))
            \/ NextChunk(j)
            \/ job[j].pc = "unlink" /\ job' = [job EXCEPT ![j].at = job[j].at + 1]
      \/ \E ok \in BOOLEAN : Answer(j, ok) /\ (ok => job[j].pc \in {"move", "unlink"})
  <2>1. CASE Open(j) \/ Fill(j) \/ Clear(j)
    BY <2>1 DEF Open, Fill, Clear, AfterFill, Storing
  <2>2. CASE Move(j)
    BY <2>2 DEF Move
  <2>3. CASE StoreFails(j) \/ MergeFails(j)
    BY <2>3 DEF StoreFails, MergeFails
  <2>4. CASE Check(j) \/ Truncate(j)
    <3>1. \/ UNCHANGED client /\ \E pc \in {"truncate", "append"} : Goto(j, pc)
          \/ Answer(j, FALSE)
      BY <2>4 DEF Check, Truncate
    <3>. QED  BY <3>1 DEF Merging
  <2>5. CASE Append(j)
    BY <2>5 DEF Append, ReadFails, NextChunk
  <2>6. CASE UnlinkOne(j)
    BY <2>6 DEF UnlinkOne
  <2>. QED  BY <2>1, <2>2, <2>3, <2>4, <2>5, <2>6 DEF JobStep
<1>4. CASE UNCHANGED client
  <2>1. ASSUME NEW pc \in Storing \cup Merging, Goto(j, pc)
        PROVE  job'[j].pc = pc /\ job'[j].file = job[j].file /\ \A k \in Job \ {j} : job'[k] = job[k]
    BY <1>1, <2>1, GotoIs
  <2>2. ASSUME \/ NextChunk(j)
               \/ job[j].pc = "unlink" /\ job' = [job EXCEPT ![j].at = job[j].at + 1]
        PROVE  /\ job'[j].pc # "move" /\ job'[j].file = job[j].file
               /\ \A k \in Job \ {j} : job'[k] = job[k]
    BY <1>1, <2>2, Typed DEF NextChunk, Request
  <2>3. ASSUME NEW ok \in BOOLEAN, Answer(j, ok)
        PROVE  /\ job'[j] = Free /\ job'[j].pc # "move"
               /\ \A k \in Job \ {j} : job'[k] = job[k]
    BY <1>1, <2>3, AnswerIs DEF Free
  <2>4. /\ \A k \in Job \ {j} : job'[k] = job[k]
        /\ job'[j].file = job[j].file \/ job'[j] = Free
        /\ job'[j].pc = "move" => Fill(j) \/ Clear(j)
    <3>1. CASE \E pc \in Storing \cup Merging :
                 Goto(j, pc) /\ (pc = "move" => Fill(j) \/ Clear(j))
      <4>1. PICK pc \in Storing \cup Merging :
                   Goto(j, pc) /\ (pc = "move" => Fill(j) \/ Clear(j))
        BY <3>1
      <4>. QED  BY <2>1, <4>1
    <3>2. CASE NextChunk(j)
      BY <2>2, <3>2
    <3>3. CASE job[j].pc = "unlink" /\ job' = [job EXCEPT ![j].at = job[j].at + 1]
      BY <2>2, <3>3
    <3>4. CASE \E ok \in BOOLEAN : Answer(j, ok) /\ (ok => job[j].pc \in {"move", "unlink"})
      BY <2>3, <3>4
    <3>. QED  BY <1>3, <3>1, <3>2, <3>3, <3>4, Zenon
  <2>. QED  BY <1>1, <1>2, <1>4, <2>4
<1>5. ASSUME NEW ok \in BOOLEAN, Answer(j, ok), ok => job[j].pc \in {"move", "unlink"}
      PROVE  /\ job'[j] = Free
             /\ \A k \in Job \ {j} : job'[k] = job[k]
             /\ \A f \in File : ~ WaitsFor(f, j) => client'[f] = client[f]
  BY <1>1, <1>5, AnswerIs
<1>. QED  BY <1>1, <1>2, <1>3, <1>4, <1>5

\* Only Send sets a dialogue to work.
LEMMA ActiveStays ==
  ASSUME Books, NEW f \in File, Active(f)',
         \A k \in Job : job'[k].file = job[k].file \/ job'[k] = Free,
         client'[f] = client[f] \/ client[f].pc = "waiting"
  PROVE  Active(f)
BY UploadAssumption DEF Active, Free

LEMMA AloneInit == Init => Alone
BY UploadAssumption DEF Init, Alone, Active, Free

LEMMA AloneStep == Books /\ Alone /\ [Next]_vars => Alone'
<1>. SUFFICES ASSUME Books, Alone, [Next]_vars,
                     NEW f \in File, NEW g \in File, f # g, text'[f] = text'[g],
                     Active(f)', Active(g)'
              PROVE  f \in met'
  BY DEF Alone
<1>0. TypeOK
  BY DEF Books
<1>1. CASE UNCHANGED vars
  BY <1>1 DEF vars, Active, Alone
<1>2. ASSUME NEW h \in File, Send(h) PROVE f \in met'
  <2>1. PICK j \in Job :
          /\ met' = IF Beside(h) = {} THEN met ELSE met \cup Beside(h) \cup {h}
          /\ text' = text /\ job'[j].file = h
          /\ \A k \in Job \ {j} : job'[k] = job[k]
          /\ \A e \in File \ {h} : client'[e] = client[e]
    BY <1>0, <1>2, Typed DEF Send
  <2>2. ASSUME NEW e \in File \ {h}, Active(e)' PROVE Active(e)
    BY <2>1, <2>2 DEF Active
  <2>3. CASE f = h
    <3>1. g \in Beside(h)
      BY <2>1, <2>2, <2>3 DEF Beside
    <3>. QED  BY <2>1, <2>3, <3>1
  <2>4. CASE g = h
    <3>1. f \in Beside(h)
      BY <2>1, <2>2, <2>4 DEF Beside
    <3>. QED  BY <2>1, <3>1
  <2>5. CASE f # h /\ g # h
    BY <2>1, <2>2, <2>5 DEF Alone
  <2>. QED  BY <2>3, <2>4, <2>5
<1>3. ASSUME text' = text, met \subseteq met', Active(f), Active(g) PROVE f \in met'
  BY <1>3 DEF Alone
<1>4. ASSUME NEW h \in File, Lose(h) PROVE f \in met'
  <2>1. text' = text /\ met' = met
    BY <1>4 DEF Lose
  <2>2. \A k \in Job : job'[k].file = job[k].file \/ job'[k] = Free
    BY <1>0, <1>4, Typed DEF Lose
  <2>3. \A e \in File : client'[e] = client[e] \/ client[e].pc = "waiting"
    BY <1>0, <1>4, Typed DEF Lose
  <2>. QED  BY <1>3, <2>1, <2>2, <2>3, ActiveStays
<1>5. ASSUME NEW j \in Job, JobStep(j) PROVE f \in met'
  <2>1. /\ text' = text /\ met \subseteq met'
        /\ \A k \in Job : job'[k].file = job[k].file \/ job'[k] = Free
    BY <1>5, JobStepIs
  <2>2. \A e \in File : client'[e] = client[e] \/ client[e].pc = "waiting"
    BY <1>5, JobStepIs DEF WaitsFor
  <2>. QED  BY <1>3, <2>1, <2>2, ActiveStays
<1>. QED  BY <1>1, <1>2, <1>4, <1>5 DEF Next

\* While a dialogue that never met another is at work, no other request is about its text.
LEMMA OnlyOwn ==
  ASSUME Books, Alone, NEW j \in Job, job[j].pc # "free", NEW f \in File, f \notin met,
         Active(f), text[job[j].file] = text[f]
  PROVE  job[j].file = f
<1>1. job[j].file \in File /\ Active(job[j].file)
  BY BusyIsTyped DEF Active
<1>. QED  BY <1>1 DEF Alone

LEMMA ClearedIsActive ==
  ASSUME TypeOK, NEW f \in File, Cleared(f)
  PROVE  Active(f)
<1>1. client[f].part \in 0 .. Merge
  BY Typed DEF Dialogue
<1>. QED  BY <1>1, Bounds DEF Cleared, Active, WaitsFor

\* Only Clear begins an upload anew.
LEMMA ClearedStays ==
  ASSUME Books, NEW j \in Job, JobStep(j), ~ Clear(j), NEW f \in File, Cleared(f)'
  PROVE  Cleared(f)
<1>. USE JobStepIs
<1>1. CASE client'[f] = client[f]
  <2>1. CASE client[f].part # 0
    BY <1>1, <2>1 DEF Cleared, WaitsFor
  <2>2. CASE client[f].part = 0
    <3>1. PICK k \in Job : WaitsFor(f, k) /\ job'[k].pc = "move"
      BY <1>1, <2>2 DEF Cleared, WaitsFor
    <3>2. ASSUME k = j PROVE FALSE
      <4>1. Fill(j)
        BY <3>1, <3>2, AnswerIs DEF Books, Free
      <4>2. job[j].part = 0
        BY <2>2, <3>1, <3>2 DEF Books, ClientOK
      <4>3. job'[j].pc = "clear"
        BY <4>1, <4>2, GotoIs DEF Fill, AfterFill, Books, Storing
      <4>. QED  BY <3>1, <3>2, <4>3
    <3>. QED  BY <3>1, <3>2 DEF Cleared
  <2>. QED  BY <2>1, <2>2
<1>2. CASE client'[f] # client[f]
  <2>1. WaitsFor(f, j) /\ client[f].part = job[j].part /\ JobOK(j)
    BY <1>2 DEF Books, ClientOK
  <2>2. PICK ok \in BOOLEAN : Answer(j, ok) /\ (ok => job[j].pc \in {"move", "unlink"})
    BY <1>2
  <2>3. client'[f].pc \in {"ready", "waiting"}
    <3>1. client'[f].pc # "waiting"
      BY <2>1, <2>2, AnswerIs DEF Books
    <3>. QED  BY <3>1 DEF Cleared, WaitsFor
  <2>4. ok /\ client[f].part # Merge
    BY <2>1, <2>2, <2>3, AnswerIs DEF Books
  <2>5. job[j].pc = "move"
    BY <2>1, <2>2, <2>4 DEF JobOK, Merging
  <2>. QED  BY <2>1, <2>5 DEF Cleared
<1>. QED  BY <1>1, <1>2
-----------------------------------------------------------------------------
(***************************************************************************)
(* Stored: what the slot and the places of the chunks hold.                *)
(***************************************************************************)

LEMMA FdFromStays ==
  ASSUME Books, NEW k \in Job, FdFrom(k), text' = text, met \subseteq met',
         fd'[k] \in {fd[k], NoPlace, Slot}
  PROVE  FdFrom(k)'
<1>. SUFFICES ASSUME NEW f \in File, NEW i \in 0 .. Last, fd'[k] = <<text[f], i>>
              PROVE  \E g \in met' : text[g] = text[f]
  BY DEF FdFrom
<1>1. <<text[f], i>> # NoPlace /\ <<text[f], i>> # Slot
  BY PlacesDiffer, Typed DEF Books
<1>2. fd[k] = <<text[f], i>>
  BY <1>1
<1>. QED  BY <1>2 DEF FdFrom

\* A step that brings nothing to a place disturbs no file that has the slot for itself.
LEMMA KeepsStored ==
  ASSUME Books, Stored, text' = text, met \subseteq met', lost \subseteq lost',
         \A f \in File : Cleared(f)' => Cleared(f),
         \A f \in File \ met' : Cleared(f) /\ <<f, "copy">> \notin lost' =>
           \A i \in 0 .. Last : disk'[<<text[f], i>>] \in {disk[<<text[f], i>>], NoFile},
         \A k \in Job : fd'[k] \in {NoPlace, fd[k]},
         \A k \in Job : job'[k].pc \in {"fill", "clear", "move"} =>
           /\ job[k].pc \in {"fill", "clear", "move"}
           /\ job'[k].file = job[k].file /\ job'[k].part = job[k].part
           /\ job'[k].pc = "fill" <=> job[k].pc = "fill"
           /\ fd[k] = Slot => fd'[k] = Slot
           /\ job[k].file \notin met' => disk'[Slot] = disk[Slot]
  PROVE  Stored'
<1>. USE PlacesDiffer DEF Stored
<1>0. \A f \in File : text[f] \in Text
  BY Typed DEF Books
<1>1. ASSUME NEW k \in Job PROVE SlotOK(k)'
  <2>. SUFFICES ASSUME job'[k].pc \in {"fill", "clear", "move"}, job'[k].file \notin met'
                PROVE  /\ Users(Slot)' = {k}
                       /\ disk'[Slot] = IF job'[k].pc = "fill" THEN Torn
                                        ELSE <<text[job'[k].file], job'[k].part>>
    BY DEF SlotOK
  <2>1. /\ Users(Slot) = {k} /\ disk'[Slot] = disk[Slot]
        /\ disk[Slot] = IF job[k].pc = "fill" THEN Torn ELSE <<text[job[k].file], job[k].part>>
    BY DEF SlotOK
  <2>2. \A l \in Job : fd[l] = Slot <=> l = k
    BY <2>1 DEF Users
  <2>3. \A l \in Job : fd'[l] = Slot <=> l = k
    BY <2>2
  <2>. QED  BY <2>1, <2>3 DEF Users
<1>2. ASSUME NEW k \in Job PROVE FdFrom(k)'
  BY FdFromStays
<1>3. ASSUME NEW f \in File PROVE FdOK(f)'
  <2>. SUFFICES ASSUME f \notin met', Cleared(f), NEW k \in Job, NEW i \in 0 .. Last
                PROVE  fd'[k] # <<text[f], i>>
    BY DEF FdOK
  <2>1. fd[k] # <<text[f], i>> /\ NoPlace # <<text[f], i>>
    BY <1>0 DEF FdOK
  <2>. QED  BY <2>1
<1>4. ASSUME NEW f \in File PROVE ChunksOK(f)'
  BY DEF ChunksOK
<1>. QED  BY <1>1, <1>2, <1>3, <1>4

LEMMA OpenKeepsStored ==
  ASSUME Books, Stored, NEW j \in Job, Open(j)
  PROVE  Stored'
<1>. USE PlacesDiffer DEF Open, At
<1>0. /\ \A f \in File : text[f] \in Text
      /\ \A f \in File : Cleared(f)' => Cleared(f)
  BY Typed, ClearedStays DEF Books, JobStep, Clear
<1>1. /\ job'[j].pc = "fill" /\ job'[j].file = job[j].file
      /\ \A k \in Job \ {j} : job'[k] = job[k]
  BY GotoIs DEF Books, Storing
<1>2. /\ fd'[j] = Slot /\ disk'[Slot] = Torn
      /\ \A k \in Job \ {j} : fd'[k] = fd[k]
      /\ \A p \in Place \ {Slot} : disk'[p] = disk[p]
  BY DEF Books, TypeOK
<1>3. met \subseteq met' /\ text' = text /\ lost' = lost
  OBVIOUS
<1>4. ASSUME NEW k \in Job, job'[k].pc \in {"fill", "clear", "move"}, job'[k].file \notin met'
      PROVE  k = j /\ Users(Slot) = {}
  <2>1. CASE Users(Slot) = {}
    <3>1. ASSUME k # j PROVE FALSE
      BY <1>1, <1>3, <1>4, <2>1, <3>1 DEF Stored, SlotOK
    <3>. QED  BY <2>1, <3>1
  <2>2. CASE Users(Slot) # {}
    <3>1. met' = met \cup {job[l].file : l \in Users(Slot) \cup {j}}
      BY <2>2
    <3>2. k # j
      BY <1>1, <1>4, <3>1
    <3>3. Users(Slot) = {k}
      BY <1>1, <1>3, <1>4, <3>2 DEF Stored, SlotOK
    <3>. QED  BY <1>1, <1>4, <3>1, <3>2, <3>3
  <2>. QED  BY <2>1, <2>2
<1>5. ASSUME NEW k \in Job PROVE SlotOK(k)'
  <2>. SUFFICES ASSUME job'[k].pc \in {"fill", "clear", "move"}, job'[k].file \notin met'
                PROVE  Users(Slot)' = {k} /\ job'[k].pc = "fill" /\ disk'[Slot] = Torn
    BY DEF SlotOK
  <2>1. k = j /\ \A l \in Job : fd[l] # Slot
    BY <1>4 DEF Users
  <2>. QED  BY <1>1, <1>2, <2>1 DEF Users
<1>6. ASSUME NEW k \in Job PROVE FdFrom(k)'
  BY <1>2, <1>3, FdFromStays DEF Stored
<1>7. ASSUME NEW f \in File PROVE FdOK(f)'
  <2>. SUFFICES ASSUME f \notin met', Cleared(f), NEW k \in Job, NEW i \in 0 .. Last
                PROVE  fd'[k] # <<text[f], i>>
    BY <1>0 DEF FdOK
  <2>1. fd[k] # <<text[f], i>> /\ Slot # <<text[f], i>>
    BY <1>0, <1>3 DEF Stored, FdOK
  <2>. QED  BY <1>2, <2>1
<1>8. ASSUME NEW f \in File PROVE ChunksOK(f)'
  BY <1>0, <1>2, <1>3 DEF Stored, ChunksOK
<1>. QED  BY <1>5, <1>6, <1>7, <1>8 DEF Stored

LEMMA FillKeepsStored ==
  ASSUME Books, Stored, NEW j \in Job, Fill(j)
  PROVE  Stored'
<1>. USE PlacesDiffer DEF At
<1>0. /\ \A f \in File : text[f] \in Text
      /\ \A f \in File : Cleared(f)' => Cleared(f)
  BY Typed, ClearedStays DEF Books, JobStep, Fill, Clear
<1>1. /\ job[j].pc = "fill" /\ job'[j].pc \in {"clear", "move"}
      /\ job'[j].file = job[j].file /\ job'[j].part = job[j].part
      /\ \A k \in Job \ {j} : job'[k] = job[k]
  BY GotoIs DEF Fill, AfterFill, Books, Storing
<1>2. /\ fd' = fd /\ met' = met /\ text' = text /\ lost' = lost
      /\ fd[j] \in Place \cup {NoPlace}
      /\ disk' = disk \/ \A p \in Place \ {fd[j]} : disk'[p] = disk[p]
  BY FillIs DEF Fill, Books, TypeOK
<1>3. ASSUME NEW k \in Job PROVE SlotOK(k)'
  <2>. SUFFICES ASSUME job'[k].pc \in {"fill", "clear", "move"}, job'[k].file \notin met
                PROVE  /\ Users(Slot) = {k}
                       /\ disk'[Slot] = IF job'[k].pc = "fill" THEN Torn
                                        ELSE <<text[job'[k].file], job'[k].part>>
    BY <1>2 DEF SlotOK, Users
  <2>1. /\ Users(Slot) = {k}
        /\ disk[Slot] = IF job[k].pc = "fill" THEN Torn ELSE <<text[job[k].file], job[k].part>>
    BY <1>1 DEF Stored, SlotOK
  <2>2. CASE k = j
    <3>1. fd[j] = Slot /\ disk[Slot] = Torn /\ Users(fd[j]) \ {j} = {}
      BY <1>1, <2>1, <2>2 DEF Users
    <3>2. disk'[Slot] = <<text[job[j].file], job[j].part>>
      BY <3>1, FillIs
    <3>. QED  BY <1>1, <2>1, <2>2, <3>2
  <2>3. CASE k # j
    <3>1. fd[j] # Slot
      BY <2>1, <2>3 DEF Users
    <3>. QED  BY <1>1, <1>2, <2>1, <2>3, <3>1
  <2>. QED  BY <2>2, <2>3
<1>4. ASSUME NEW k \in Job PROVE FdFrom(k)'
  BY <1>2, FdFromStays DEF Stored
<1>5. ASSUME NEW f \in File PROVE FdOK(f)'
  BY <1>0, <1>2 DEF Stored, FdOK
<1>6. ASSUME NEW f \in File PROVE ChunksOK(f)'
  <2>. SUFFICES ASSUME f \notin met, <<f, "copy">> \notin lost, Cleared(f), NEW i \in 0 .. Last
                PROVE  disk'[<<text[f], i>>] \in {<<text[f], i>>, NoFile}
    BY <1>0, <1>2 DEF ChunksOK
  <2>1. fd[j] # <<text[f], i>>
    BY DEF Stored, FdOK
  <2>. QED  BY <1>0, <1>2, <2>1 DEF Stored, ChunksOK
<1>. QED  BY <1>3, <1>4, <1>5, <1>6 DEF Stored

\* The chunks of the text are gone, and no descriptor leads to them.
LEMMA ClearKeepsStored ==
  ASSUME Books, Stored, NEW j \in Job, Clear(j)
  PROVE  Stored'
<1>. DEFINE gone == {text[job[j].file]} \X (0 .. Last)
<1>. USE PlacesDiffer DEF At
<1>1. /\ job[j].pc = "clear" /\ job'[j].pc = "move"
      /\ job'[j].file = job[j].file /\ job'[j].part = job[j].part
      /\ \A k \in Job \ {j} : job'[k] = job[k]
      /\ UNCHANGED <<text, client, met, lost>>
  BY GotoIs DEF Clear, Books, Storing
<1>2. gone \in SUBSET Chunk
  BY <1>1, BusyIsTyped DEF Chunk
<1>3. /\ \A p \in Place : disk'[p] = IF p \in gone THEN NoFile ELSE disk[p]
      /\ \A k \in Job : fd'[k] = IF fd[k] \in gone THEN NoPlace ELSE fd[k]
      /\ Slot \notin gone
  <2>1. gone \in SUBSET Place /\ Unlink(gone) /\ TypeOK
    BY <1>2 DEF Clear, Place, Books
  <2>2. Slot \notin Chunk
    BY UploadAssumption DEF Chunk
  <2>. QED  BY <1>2, <2>1, <2>2, UnlinkIs
<1>4. ASSUME NEW k \in Job PROVE SlotOK(k)'
  <2>. SUFFICES ASSUME job'[k].pc \in {"fill", "clear", "move"}, job'[k].file \notin met
                PROVE  /\ Users(Slot)' = {k}
                       /\ disk'[Slot] = IF job'[k].pc = "fill" THEN Torn
                                        ELSE <<text[job'[k].file], job'[k].part>>
    BY <1>1 DEF SlotOK
  <2>1. /\ Users(Slot) = {k}
        /\ disk[Slot] = IF job[k].pc = "fill" THEN Torn ELSE <<text[job[k].file], job[k].part>>
    BY <1>1 DEF Stored, SlotOK
  <2>2. Users(Slot)' = Users(Slot)
    BY <1>3 DEF Users
  <2>. QED  BY <1>1, <1>3, <2>1, <2>2
<1>5. ASSUME NEW k \in Job PROVE FdFrom(k)'
  BY <1>1, <1>3, FdFromStays DEF Stored
<1>6. ASSUME NEW f \in File, Cleared(f)', f \notin met
      PROVE  text[f] = text[job[j].file] \/ Cleared(f)
  <2>1. CASE Cleared(f)
    BY <2>1
  <2>2. CASE ~ Cleared(f)
    <3>1. WaitsFor(f, j)
      BY <1>1, <1>6, <2>2 DEF Cleared, WaitsFor
    <3>. QED  BY <3>1 DEF Books, ClientOK
  <2>. QED  BY <2>1, <2>2
<1>7. ASSUME NEW f \in File PROVE FdOK(f)'
  <2>. SUFFICES ASSUME f \notin met, Cleared(f)', NEW k \in Job, NEW i \in 0 .. Last
                PROVE  fd'[k] # <<text[f], i>>
    BY <1>1 DEF FdOK
  <2>1. CASE text[f] = text[job[j].file]
    <3>1. <<text[f], i>> \in gone /\ NoPlace # <<text[f], i>>
      BY <2>1, Typed DEF Books
    <3>. QED  BY <1>3, <3>1
  <2>2. CASE Cleared(f)
    <3>1. fd[k] # <<text[f], i>> /\ NoPlace # <<text[f], i>>
      BY <2>2, Typed DEF Stored, FdOK, Books
    <3>. QED  BY <1>3, <3>1
  <2>. QED  BY <1>6, <2>1, <2>2
<1>8. ASSUME NEW f \in File PROVE ChunksOK(f)'
  <2>. SUFFICES ASSUME f \notin met, <<f, "copy">> \notin lost, Cleared(f)', NEW i \in 0 .. Last
                PROVE  disk'[<<text[f], i>>] \in {<<text[f], i>>, NoFile}
    BY <1>1 DEF ChunksOK
  <2>1. <<text[f], i>> \in Place
    BY Typed DEF Books
  <2>2. CASE text[f] = text[job[j].file]
    BY <1>3, <2>1, <2>2
  <2>3. CASE Cleared(f)
    BY <1>3, <2>1, <2>3 DEF Stored, ChunksOK
  <2>. QED  BY <1>6, <2>2, <2>3
<1>. QED  BY <1>4, <1>5, <1>7, <1>8 DEF Stored

LEMMA MoveKeepsStored ==
  ASSUME Books, Alone, Stored, NEW j \in Job, Move(j)
  PROVE  Stored'
<1>. DEFINE to == <<text[job[j].file], job[j].part>>
<1>. USE PlacesDiffer
<1>0. /\ \A f \in File : text[f] \in Text
      /\ \A f \in File : Cleared(f)' => Cleared(f)
      /\ text' = text /\ lost' = lost
  BY Typed, ClearedStays DEF Books, JobStep, Move, Clear, At
<1>1. /\ job[j].pc = "move" /\ to \in Place /\ to # Slot /\ job[j].part \in 0 .. Last
      /\ job[j].file \in File
  BY BusyIsTyped DEF Move, At, Books, JobOK, Storing
<1>2. job'[j] = Free /\ \A k \in Job \ {j} : job'[k] = job[k]
  BY AnswerIs DEF Move, Books
<1>3. /\ fd'[j] = NoPlace
      /\ \A k \in Job \ {j} : \/ fd'[k] = NoPlace
                              \/ fd'[k] = fd[k]
                              \/ fd[k] = Slot /\ fd'[k] = to
      /\ \A k \in Job \ {j} : fd[k] = NoPlace => fd'[k] # Slot
  BY DEF Move
<1>4. /\ \A p \in Place \ {Slot, to} : disk'[p] = disk[p]
      /\ disk'[to] \in {disk[to], disk[Slot]}
  BY <1>1 DEF Move, Books, TypeOK
<1>5. /\ met \subseteq met'
      /\ job[j].file \notin met' => Users(Slot) = {j}
      /\ Users(Slot) # {j} => \A k \in Users(Slot) : job[k].file \in met'
  BY DEF Move
<1>6. ASSUME NEW k \in Job PROVE SlotOK(k)'
  <2>. SUFFICES ASSUME job'[k].pc \in {"fill", "clear", "move"}, job'[k].file \notin met'
                PROVE  FALSE
    BY DEF SlotOK
  <2>1. k # j /\ job'[k] = job[k]
    BY <1>2 DEF Free
  <2>2. Users(Slot) = {k}
    BY <1>5, <2>1 DEF Stored, SlotOK
  <2>. QED  BY <1>5, <2>1, <2>2
<1>7. ASSUME NEW k \in Job, k # j, fd[k] = Slot PROVE job[j].file \in met'
  BY <1>5, <1>7 DEF Users
<1>8. ASSUME NEW f \in File \ met', Cleared(f), NEW i \in 0 .. Last, <<text[f], i>> = to
      PROVE  job[j].file = f
  BY <1>0, <1>1, <1>5, <1>8, OnlyOwn, ClearedIsActive DEF Books
<1>9. ASSUME NEW k \in Job PROVE FdFrom(k)'
  <2>. SUFFICES ASSUME NEW f \in File, NEW i \in 0 .. Last, fd'[k] = <<text[f], i>>
                PROVE  \E g \in met' : text[g] = text[f]
    BY <1>0 DEF FdFrom
  <2>1. NoPlace # <<text[f], i>>
    BY <1>0
  <2>2. CASE fd'[k] = fd[k]
    BY <1>5, <2>2 DEF Stored, FdFrom
  <2>3. CASE k # j /\ fd[k] = Slot /\ fd'[k] = to
    BY <1>7, <2>3
  <2>. QED  BY <1>3, <2>1, <2>2, <2>3
<1>10. ASSUME NEW f \in File PROVE FdOK(f)'
  <2>. SUFFICES ASSUME f \notin met', Cleared(f), NEW k \in Job, NEW i \in 0 .. Last
                PROVE  fd'[k] # <<text[f], i>>
    BY <1>0 DEF FdOK
  <2>1. NoPlace # <<text[f], i>> /\ fd[k] # <<text[f], i>>
    BY <1>0, <1>5 DEF Stored, FdOK
  <2>2. CASE k # j /\ fd[k] = Slot /\ fd'[k] = to
    BY <1>7, <1>8, <2>2
  <2>. QED  BY <1>3, <2>1, <2>2
<1>11. ASSUME NEW f \in File PROVE ChunksOK(f)'
  <2>. SUFFICES ASSUME f \notin met', <<f, "copy">> \notin lost, Cleared(f), NEW i \in 0 .. Last
                PROVE  disk'[<<text[f], i>>] \in {<<text[f], i>>, NoFile}
    BY <1>0 DEF ChunksOK
  <2>1. disk[<<text[f], i>>] \in {<<text[f], i>>, NoFile}
    BY <1>5 DEF Stored, ChunksOK
  <2>2. CASE <<text[f], i>> = to
    <3>1. disk[Slot] = to
      BY <1>1, <1>5, <1>8, <2>2 DEF Stored, SlotOK
    <3>. QED  BY <1>4, <2>1, <2>2, <3>1
  <2>3. CASE <<text[f], i>> # to
    BY <1>0, <1>4, <2>1, <2>3
  <2>. QED  BY <2>2, <2>3
<1>. QED  BY <1>6, <1>9, <1>10, <1>11 DEF Stored

\* A broken copy is a file's that is said to have one.
LEMMA StoreFailsKeepsStored ==
  ASSUME Books, Alone, Stored, NEW j \in Job, StoreFails(j)
  PROVE  Stored'
<1>. DEFINE to == <<text[job[j].file], job[j].part>>
<1>. USE PlacesDiffer DEF At
<1>1. /\ job[j].pc \in Storing /\ job[j].part \in 0 .. Last /\ to \in Chunk
      /\ to # Slot /\ fd[j] \in Place \cup {NoPlace}
  <2>1. job[j].pc \in Storing
    BY DEF StoreFails, Storing
  <2>. QED  BY <2>1, BusyIsTyped, Typed DEF Books, JobOK, Storing, Chunk
<1>2. /\ job'[j].pc = "free" /\ \A k \in Job \ {j} : job'[k] = job[k]
      /\ fd'[j] = NoPlace /\ \A k \in Job \ {j} : fd'[k] = fd[k]
  <2>1. PICK ok \in BOOLEAN : Answer(j, ok)
    BY DEF StoreFails
  <2>. QED  BY <2>1, AnswerIs DEF StoreFails, Books, TypeOK, Free
<1>0. /\ \A f \in File : text[f] \in Text
      /\ \A f \in File : Cleared(f)' => Cleared(f)
      /\ text' = text /\ met' = met /\ lost \subseteq lost'
  <2>1. ~ Clear(j)
    BY <1>2, GotoIs DEF Clear, Books, Storing
  <2>2. JobStep(j) /\ met' = met
    BY DEF JobStep, StoreFails
  <2>. QED  BY <2>1, <2>2, ClearedStays, JobStepIs, Typed DEF Books
<1>3. \/ disk' = disk
      \/ fd[j] # NoPlace /\ \A p \in Place \ {fd[j]} : disk'[p] = disk[p]
      \/ /\ <<job[j].file, "copy">> \in lost'
         /\ \A p \in Place \ {to} : disk'[p] = disk[p]
  BY DEF StoreFails, Fails, Books, TypeOK
<1>4. ASSUME NEW f \in File \ met, Cleared(f), <<f, "copy">> \notin lost', NEW i \in 0 .. Last
      PROVE  disk'[<<text[f], i>>] = disk[<<text[f], i>>]
  <2>1. fd[j] # <<text[f], i>>
    BY <1>4 DEF Stored, FdOK
  <2>2. <<job[j].file, "copy">> \in lost' => <<text[f], i>> # to
    <3>1. text[f] = text[job[j].file] => job[j].file = f
      BY <1>1, <1>4, OnlyOwn, ClearedIsActive DEF Books, Storing
    <3>. QED  BY <1>4, <3>1
  <2>. QED  BY <1>0, <1>3, <2>1, <2>2
<1>5. ASSUME NEW k \in Job \ {j}, job[k].pc \in {"fill", "clear", "move"}, job[k].file \notin met
      PROVE  disk'[Slot] = disk[Slot]
  <2>1. fd[j] # Slot
    BY <1>5 DEF Stored, SlotOK, Users
  <2>. QED  BY <1>1, <1>3, <2>1
<1>. QED  BY <1>0, <1>2, <1>4, <1>5, KeepsStored

LEMMA StoredInit == Init => Stored
<1>. SUFFICES ASSUME Init PROVE Stored
  OBVIOUS
<1>1. \A f \in File : text[f] \in Text
  BY DEF Init
<1>2. \A f \in File : ~ Cleared(f)
  BY Bounds DEF Init, Cleared, WaitsFor
<1>. QED  BY <1>1, <1>2, PlacesDiffer DEF Init, Stored, SlotOK, FdFrom, FdOK, ChunksOK, Free

LEMMA StoredStep == Books /\ Alone /\ Stored /\ [Next]_vars => Stored'
<1>. SUFFICES ASSUME Books, Alone, Stored, [Next]_vars PROVE Stored'
  OBVIOUS
<1>. USE PlacesDiffer DEF At
<1>0. TypeOK
  BY DEF Books
<1>1. CASE UNCHANGED vars
  <2>1. \A f \in File : Cleared(f)' => Cleared(f)
    BY <1>1 DEF vars, Cleared, WaitsFor
  <2>. QED  BY <1>1, <2>1, KeepsStored DEF vars
<1>2. ASSUME NEW f \in File, Send(f) PROVE Stored'
  <2>1. PICK j \in Job :
          /\ job[j].pc = "free" /\ UNCHANGED <<text, disk, fd, lost>> /\ met \subseteq met'
          /\ job'[j].pc \in {"check", "open"}
          /\ \A k \in Job \ {j} : job'[k] = job[k]
          /\ client'[f].job = j
          /\ client'[f].part = IF client[f].pc = "error" THEN 0 ELSE client[f].part
          /\ client[f].pc \in {"ready", "error"}
          /\ \A g \in File \ {f} : client'[g] = client[g]
    BY <1>0, <1>2, Typed DEF Send
  <2>2. ASSUME NEW g \in File, Cleared(g)' PROVE Cleared(g)
    <3>1. CASE g = f
      BY <2>1, <2>2, <3>1 DEF Cleared, WaitsFor
    <3>2. CASE g # f
      BY <2>1, <2>2, <3>2 DEF Cleared, WaitsFor
    <3>. QED  BY <3>1, <3>2
  <2>. QED  BY <2>1, <2>2, KeepsStored
<1>3. ASSUME NEW f \in File, Lose(f) PROVE Stored'
  <2>. DEFINE j == client[f].job
  <2>1. UNCHANGED <<text, disk, met>> /\ lost \subseteq lost'
    BY <1>3 DEF Lose
  <2>2. /\ client'[f].pc = "error" /\ \A g \in File \ {f} : client'[g] = client[g]
    BY <1>0, <1>3, Typed DEF Lose, Dialogue
  <2>3. /\ \A k \in Job : (job'[k] = job[k] /\ fd'[k] = fd[k]) \/ job'[k].pc = "free"
        /\ \A k \in Job : fd'[k] \in {NoPlace, fd[k]}
    BY <1>0, <1>3, Typed DEF Lose, TypeOK, Free
  <2>4. ASSUME NEW g \in File, Cleared(g)' PROVE Cleared(g)
    BY <2>2, <2>3, <2>4 DEF Cleared, WaitsFor
  <2>. QED  BY <2>1, <2>3, <2>4, KeepsStored
<1>4. ASSUME NEW j \in Job, Check(j) \/ Truncate(j) \/ Append(j) \/ UnlinkOne(j) \/ MergeFails(j)
      PROVE  Stored'
  <2>1. JobStep(j) /\ ~ Clear(j) /\ met' = met
    BY <1>4 DEF JobStep, Clear, Check, Truncate, Append, UnlinkOne, MergeFails
  <2>2. /\ \A f \in File : Cleared(f)' => Cleared(f)
        /\ text' = text /\ lost \subseteq lost'
        /\ \A k \in Job \ {j} : job'[k] = job[k]
    BY <2>1, ClearedStays, JobStepIs
  <2>3. job'[j].pc \in {"truncate", "append", "unlink", "free"}
    <3>1. Check(j) => job'[j].pc \in {"truncate", "free"}
      BY <1>0, Typed DEF Check, Answer, Goto, Free, Request
    <3>2. Truncate(j) => job'[j].pc = "append"
      BY <1>0, Typed DEF Truncate, Goto, Request
    <3>3. Append(j) => job'[j].pc \in {"append", "unlink", "free"}
      BY <1>0, Typed DEF Append, ReadFails, NextChunk, Answer, Free, Request
    <3>4. UnlinkOne(j) => job'[j].pc \in {"unlink", "free"}
      BY <1>0, Typed DEF UnlinkOne, Answer, Free, Request
    <3>5. MergeFails(j) => job'[j].pc = "free"
      BY <1>0, Typed DEF MergeFails, Answer, Free, Request
    <3>. QED  BY <1>4, <3>1, <3>2, <3>3, <3>4, <3>5
  <2>4. /\ \A p \in Place : disk'[p] \in {disk[p], NoFile}
        /\ disk'[Slot] = disk[Slot]
        /\ \A k \in Job : fd'[k] \in {NoPlace, fd[k]} /\ (fd[k] = Slot => fd'[k] = Slot)
    <3>1. CASE UNCHANGED <<disk, fd>>
      BY <3>1
    <3>2. CASE job[j].pc = "unlink" /\ Unlink(Merged(j))
      <4>1. Merged(j) \in SUBSET Chunk
        BY <3>2, BusyIsTyped DEF Merged, Books, JobOK, Chunk
      <4>. QED  BY <1>0, <3>2, <4>1, UnlinkIs DEF Place, Chunk
    <3>. QED  BY <1>4, <3>1, <3>2 DEF Check, Truncate, Append, UnlinkOne, MergeFails
  <2>5. \A f \in File, i \in 0 .. Last : <<text[f], i>> \in Place
    BY <1>0, Typed
  <2>. QED  BY <2>1, <2>2, <2>3, <2>4, <2>5, KeepsStored
<1>. QED
  BY <1>1, <1>2, <1>3, <1>4, OpenKeepsStored, FillKeepsStored, ClearKeepsStored, MoveKeepsStored,
     StoreFailsKeepsStored
  DEF Next, JobStep
-----------------------------------------------------------------------------
(***************************************************************************)
(* Mergeable: how far a merge has come, and what a completed upload is.    *)
(***************************************************************************)

\* As long as no merge lost its answer, a file has one merge at a time, and
\* none once the dialogue says it is done.
LEMMA OneMerge ==
  ASSUME Books, NEW j \in Job, job[j].pc \in Merging, <<job[j].file, "merge">> \notin lost
  PROVE  /\ WaitsFor(job[j].file, j)
         /\ \A k \in Job \ {j} : job[k].pc \in Merging => job[k].file # job[j].file
BY DEF Books, Owned, WaitsFor

\* A step that leaves the files alone.
LEMMA KeepsMergeable ==
  ASSUME Mergeable, text' = text, target' = target, met \subseteq met', lost \subseteq lost',
         \A k \in Job : job'[k].pc \in {"append", "unlink"} =>
           \/ job'[k] = job[k]
           \/ job'[k].pc = "unlink" /\ job[k].pc = "unlink" /\ job'[k].file = job[k].file,
         \A f \in File : client'[f].pc = "completed" =>
           client[f].pc = "completed" \/ Whole(f) \/ Spoilt(f)'
  PROVE  Mergeable'
<1>0. \A f \in File : Spoilt(f) => Spoilt(f)'
  BY DEF Spoilt
<1>1. CompletedIsWhole'
  BY <1>0 DEF Mergeable, CompletedIsWhole, Whole, Spoilt
<1>2. ASSUME NEW k \in Job PROVE MergeOK(k)'
  <2>. SUFFICES ASSUME job'[k].pc \in {"append", "unlink"}
                PROVE  MergeOK(k)'
    BY DEF MergeOK
  <2>1. MergeOK(k)
    BY DEF Mergeable
  <2>2. CASE job'[k] = job[k]
    BY <2>1, <2>2 DEF MergeOK, Whole, Spoilt
  <2>3. CASE job'[k].pc = "unlink" /\ job[k].pc = "unlink" /\ job'[k].file = job[k].file
    BY <2>1, <2>3 DEF MergeOK, Whole, Merging, Spoilt
  <2>. QED  BY <2>2, <2>3
<1>. QED  BY <1>1, <1>2 DEF Mergeable

\* A step that rewrites the file of the merge it belongs to.
LEMMA RewritesOwnFile ==
  ASSUME Books, Mergeable, NEW j \in Job, job[j].pc \in Merging,
         text' = text, met \subseteq met', lost \subseteq lost',
         \A f \in File : client'[f].pc = "completed" => client[f].pc = "completed",
         \A f \in File \ {job[j].file} : target'[f] = target[f],
         \A k \in Job \ {j} : job'[k] = job[k],
         MergeOK(j)'
  PROVE  Mergeable'
<1>0. \A k \in Job : job[k].pc \in Merging => job[k].file \in File
  BY BusyIsTyped DEF Merging
<1>1. CompletedIsWhole'
  <2>. SUFFICES ASSUME NEW f \in File, client[f].pc = "completed", ~ Spoilt(f)
                PROVE  Whole(f)'
    BY DEF CompletedIsWhole, Spoilt
  <2>1. f # job[j].file
    BY OneMerge DEF WaitsFor, Spoilt
  <2>. QED  BY <2>1 DEF Mergeable, CompletedIsWhole, Whole, Spoilt
<1>2. ASSUME NEW k \in Job PROVE MergeOK(k)'
  <2>. SUFFICES ASSUME k # j, job[k].pc \in Merging, ~ Spoilt(job[k].file)
                PROVE  MergeOK(k)'
    BY DEF MergeOK, Spoilt
  <2>1. job[k].file \in File /\ job[k].file # job[j].file
    BY <1>0, OneMerge DEF Spoilt
  <2>2. job'[k] = job[k] /\ target'[job[k].file] = target[job[k].file]
    BY <2>1
  <2>. QED  BY <2>2 DEF Mergeable, MergeOK, Whole, Spoilt
<1>. QED  BY <1>1, <1>2 DEF Mergeable

LEMMA TruncateKeepsMergeable ==
  ASSUME Books, Mergeable, NEW j \in Job, Truncate(j)
  PROVE  Mergeable'
<1>1. /\ job[j].pc = "truncate" /\ job[j].at = 0
      /\ job'[j].pc = "append" /\ job'[j].at = 0 /\ job'[j].file = job[j].file
      /\ \A k \in Job \ {j} : job'[k] = job[k]
  BY GotoIs DEF Truncate, At, Books, JobOK, Merging
<1>2. \A f \in File \ {job[j].file} : target'[f] = target[f]
  BY DEF Truncate, Books, TypeOK
<1>3. MergeOK(j)'
  BY <1>1 DEF MergeOK
<1>. QED  BY <1>1, <1>2, <1>3, RewritesOwnFile DEF Truncate, Merging

LEMMA AppendKeepsMergeable ==
  ASSUME Books, Stored, Mergeable, NEW j \in Job, Append(j)
  PROVE  Mergeable'
<1>. DEFINE f == job[j].file
            i == job[j].at
<1>1. /\ job[j].pc = "append" /\ f \in File /\ i \in 0 .. Last /\ TypeOK
  BY BusyIsTyped DEF Append, At, Books, JobOK
<1>2. CASE ReadFails(j) /\ UNCHANGED target
  <2>1. Answer(j, FALSE)
    BY <1>2 DEF ReadFails
  <2>2. /\ \A k \in Job \ {j} : job'[k] = job[k]
        /\ job'[j].pc = "free"
        /\ \A g \in File : client'[g].pc = "completed" => client[g].pc = "completed"
    <3>1. PICK ok \in BOOLEAN : ~ ok /\ Answer(j, ok)
      BY <2>1
    <3>. QED  BY <1>1, <3>1, AnswerIs DEF Free
  <2>. QED  BY <1>2, <2>2, KeepsMergeable DEF Append
<1>3. CASE /\ disk[<<text[f], i>>] # NoFile /\ NextChunk(j)
           /\ target' = [target EXCEPT ![f][i] = disk[<<text[f], i>>]]
  <2>1. /\ job'[j].pc = IF i = Last THEN "unlink" ELSE "append"
        /\ job'[j].at = IF i = Last THEN 0 ELSE i + 1
        /\ job'[j].file = f /\ \A k \in Job \ {j} : job'[k] = job[k]
    BY <1>1, <1>3, Typed DEF NextChunk, Request
  <2>2. /\ \A g \in File \ {f} : target'[g] = target[g]
        /\ target'[f] = [target[f] EXCEPT ![i] = disk[<<text[f], i>>]]
        /\ target[f] \in [0 .. Last -> Content]
    BY <1>1, <1>3 DEF TypeOK
  <2>3. MergeOK(j)'
    <3>. SUFFICES ASSUME ~ Spoilt(f)
                  PROVE  /\ job'[j].pc = "append" =>
                              \A n \in 0 .. Last : n < job'[j].at => target'[f][n] = <<text[f], n>>
                         /\ job'[j].pc = "unlink" => Whole(f)'
      BY <2>1 DEF MergeOK, Append, Whole, Spoilt
    <3>0. Cleared(f)
      BY <1>1, OneMerge, Bounds DEF Books, JobOK, ClientOK, Cleared, WaitsFor, Merging, Spoilt
    <3>1. disk[<<text[f], i>>] = <<text[f], i>>
      BY <1>1, <1>3, <3>0 DEF Stored, ChunksOK, Spoilt
    <3>2. \A n \in 0 .. Last : n < i => target[f][n] = <<text[f], n>>
      BY <1>1 DEF Mergeable, MergeOK, Merging
    <3>3. \A n \in 0 .. Last : n < i + 1 => target'[f][n] = <<text[f], n>>
      <4>. SUFFICES ASSUME NEW n \in 0 .. Last, n < i + 1 PROVE target'[f][n] = <<text[f], n>>
        OBVIOUS
      <4>1. n = i \/ n < i
        BY <1>1
      <4>. QED  BY <1>1, <2>2, <3>1, <3>2, <4>1
    <3>4. CASE i = Last
      <4>1. \A n \in 0 .. Last : target'[f][n] = <<text[f], n>>
        BY <3>3, <3>4, Bounds
      <4>2. target'[f] = [n \in 0 .. Last |-> <<text[f], n>>]
        BY <2>2, <4>1
      <4>. QED  BY <2>1, <3>4, <4>2 DEF Whole, Append
    <3>5. CASE i # Last
      BY <2>1, <3>3, <3>5
    <3>. QED  BY <3>4, <3>5
  <2>. QED  BY <1>1, <1>3, <2>1, <2>2, <2>3, RewritesOwnFile DEF Append, NextChunk, Merging
<1>. QED  BY <1>2, <1>3 DEF Append

\* A merge that fails is not answered with success.
LEMMA MergeFailsKeepsMergeable ==
  ASSUME Books, Mergeable, NEW j \in Job, MergeFails(j)
  PROVE  Mergeable'
<1>1. /\ job[j].pc \in Merging /\ TypeOK
      /\ text' = text /\ met' = met /\ lost \subseteq lost'
  BY DEF MergeFails, Fails, At, Merging, Books
<1>2. PICK ok \in BOOLEAN : ~ ok /\ Answer(j, ok)
  BY DEF MergeFails
<1>3. /\ \A k \in Job \ {j} : job'[k] = job[k]
      /\ job'[j].pc = "free"
      /\ \A f \in File : client'[f].pc = "completed" => client[f].pc = "completed"
  BY <1>1, <1>2, AnswerIs DEF Free
<1>4. \A f \in File \ {job[j].file} : target'[f] = target[f]
  BY <1>1 DEF MergeFails, TypeOK
<1>5. MergeOK(j)'
  BY <1>3 DEF MergeOK, Merging
<1>. QED  BY <1>1, <1>3, <1>4, <1>5, RewritesOwnFile

LEMMA MergeableInit == Init => Mergeable
BY DEF Init, Mergeable, CompletedIsWhole, MergeOK, Merging, Free

LEMMA MergeableStep == Books /\ Stored /\ Mergeable /\ [Next]_vars => Mergeable'
<1>. SUFFICES ASSUME Books, Stored, Mergeable, [Next]_vars PROVE Mergeable'
  OBVIOUS
<1>. USE DEF At
<1>0. TypeOK
  BY DEF Books
<1>1. CASE UNCHANGED vars
  BY <1>1, KeepsMergeable DEF vars
<1>2. ASSUME NEW f \in File, Send(f) PROVE Mergeable'
  <2>1. PICK j \in Job : /\ UNCHANGED <<text, target, lost>> /\ met \subseteq met'
                         /\ job'[j].pc \in {"check", "open"}
                         /\ \A k \in Job \ {j} : job'[k] = job[k]
                         /\ client'[f].pc = "waiting"
                         /\ \A g \in File \ {f} : client'[g] = client[g]
    BY <1>0, <1>2, Typed DEF Send
  <2>. QED  BY <2>1, KeepsMergeable
<1>3. ASSUME NEW f \in File, Lose(f) PROVE Mergeable'
  <2>1. /\ UNCHANGED <<text, target, met>> /\ lost \subseteq lost'
        /\ client'[f].pc = "error" /\ \A g \in File \ {f} : client'[g] = client[g]
    BY <1>0, <1>3, Typed DEF Lose, Dialogue
  <2>2. \A k \in Job : job'[k] = job[k] \/ job'[k].pc = "free"
    BY <1>0, <1>3, Typed DEF Lose, Free
  <2>. QED  BY <2>1, <2>2, KeepsMergeable
<1>4. ASSUME NEW j \in Job, Open(j) \/ Fill(j) \/ Clear(j) PROVE Mergeable'
  <2>1. UNCHANGED <<text, target, client, lost>> /\ met \subseteq met'
    BY <1>4 DEF Open, Fill, Clear
  <2>2. /\ \A k \in Job \ {j} : job'[k] = job[k]
        /\ job'[j].pc \in {"fill", "clear", "move"}
    <3>1. PICK pc \in {"fill", "clear", "move"} : Goto(j, pc)
      BY <1>4 DEF Open, Fill, Clear, AfterFill
    <3>. QED  BY <1>0, <3>1, GotoIs DEF Storing
  <2>. QED  BY <2>1, <2>2, KeepsMergeable
<1>5. ASSUME NEW j \in Job, Move(j) \/ StoreFails(j) PROVE Mergeable'
  <2>1. PICK ok \in BOOLEAN : Answer(j, ok)
    BY <1>5 DEF Move, StoreFails
  <2>2. UNCHANGED <<text, target>> /\ lost \subseteq lost' /\ met \subseteq met'
    BY <1>5 DEF Move, StoreFails, Fails
  <2>0. job[j].pc \in Storing
    BY <1>5 DEF Move, StoreFails, Storing
  <2>3. ASSUME NEW f \in File, WaitsFor(f, j) PROVE client[f].part # Merge
    BY <2>0, <2>3, Bounds DEF Books, ClientOK, JobOK, Storing
  <2>4. /\ \A k \in Job \ {j} : job'[k] = job[k]
        /\ job'[j].pc = "free"
        /\ \A f \in File : client'[f].pc = "completed" => client[f].pc = "completed"
    BY <1>0, <2>1, <2>3, AnswerIs DEF Free
  <2>. QED  BY <2>2, <2>4, KeepsMergeable
<1>6. ASSUME NEW j \in Job, Check(j) PROVE Mergeable'
  <2>1. UNCHANGED <<text, target, lost, met>>
    BY <1>6 DEF Check
  <2>2. CASE Goto(j, "truncate") /\ UNCHANGED client
    <3>1. job'[j].pc = "truncate" /\ \A k \in Job \ {j} : job'[k] = job[k]
      BY <1>0, <2>2, GotoIs DEF Merging
    <3>. QED  BY <2>1, <2>2, <3>1, KeepsMergeable
  <2>3. CASE Answer(j, FALSE)
    <3>1. /\ \A k \in Job \ {j} : job'[k] = job[k]
          /\ job'[j].pc = "free"
          /\ \A f \in File : client'[f].pc = "completed" => client[f].pc = "completed"
      <4>1. PICK ok \in BOOLEAN : ~ ok /\ Answer(j, ok)
        BY <2>3
      <4>. QED  BY <1>0, <4>1, AnswerIs DEF Free
    <3>. QED  BY <2>1, <3>1, KeepsMergeable
  <2>. QED  BY <1>6, <2>2, <2>3 DEF Check
<1>7. ASSUME NEW j \in Job, UnlinkOne(j) PROVE Mergeable'
  <2>1. UNCHANGED <<text, target, lost, met>> /\ job[j].pc = "unlink"
    BY <1>7 DEF UnlinkOne
  <2>2. CASE job' = [job EXCEPT ![j].at = job[j].at + 1] /\ UNCHANGED client
    <3>1. /\ job'[j].pc = "unlink" /\ job'[j].file = job[j].file
          /\ \A k \in Job \ {j} : job'[k] = job[k]
      BY <1>0, <2>1, <2>2, Typed DEF Request
    <3>. QED  BY <2>1, <2>2, <3>1, KeepsMergeable
  <2>3. CASE Answer(j, TRUE)
    <3>1. /\ \A k \in Job \ {j} : job'[k] = job[k]
          /\ job'[j].pc = "free"
          /\ \A f \in File : ~ WaitsFor(f, j) => client'[f] = client[f]
      <4>1. PICK ok \in BOOLEAN : Answer(j, ok)
        BY <2>3
      <4>. QED  BY <1>0, <4>1, AnswerIs DEF Free
    <3>2. ASSUME NEW f \in File, WaitsFor(f, j)
          PROVE  Whole(f) \/ Spoilt(f)'
      <4>1. job[j].file = f
        BY <3>2 DEF Books, ClientOK
      <4>. QED  BY <2>1, <4>1 DEF Mergeable, MergeOK, Merging, Spoilt
    <3>. QED  BY <2>1, <3>1, <3>2, KeepsMergeable
  <2>. QED  BY <1>7, <2>2, <2>3 DEF UnlinkOne
<1>. QED
  BY <1>1, <1>2, <1>3, <1>4, <1>5, <1>6, <1>7, TruncateKeepsMergeable, AppendKeepsMergeable,
     MergeFailsKeepsMergeable
  DEF Next, JobStep
-----------------------------------------------------------------------------
(***************************************************************************)
(* Present: the chunks of an undisturbed upload.                           *)
(***************************************************************************)

\* A step that has nothing to do with the chunks of a file, or comes before the
\* dialogue has any.
LEMMA KeepsUndisturbed ==
  ASSUME Books, NEW f \in File, Undisturbed(f), f \notin met, ~ Lost(f),
         text' = text, client'[f] = client[f],
         Cleared(f) => \A i \in 0 .. Last : disk'[<<text[f], i>>] = disk[<<text[f], i>>],
         \A k \in Job : WaitsFor(f, k) =>
           \/ job'[k] = job[k]
           \/ job'[k].pc # "unlink" /\ job[k].pc # "unlink"
  PROVE  Undisturbed(f)'
<1>1. \A k \in Job : WaitsFor(f, k)' <=> WaitsFor(f, k)
  BY DEF WaitsFor
<1>2. ASSUME NEW k \in Job, WaitsFor(f, k)
      PROVE  IF job'[k].pc = "unlink"
             THEN \A i \in 0 .. Last : i < job'[k].at => disk'[<<text[f], i>>] = NoFile
             ELSE \A i \in 0 .. Last : i < client'[f].part => disk'[<<text[f], i>>] # NoFile
  <2>1. CASE Cleared(f)
    BY <1>2, <2>1 DEF Undisturbed
  <2>2. CASE ~ Cleared(f)
    <3>1. client[f].part = 0
      BY <1>2, <2>2 DEF Cleared, WaitsFor
    <3>2. job[k].pc # "unlink"
      BY <1>2, <3>1, Bounds DEF Books, JobOK, ClientOK, Merging
    <3>. QED  BY <1>2, <3>1, <3>2, Bounds
  <2>. QED  BY <2>1, <2>2
<1>3. ASSUME client[f].pc = "ready", NEW i \in 0 .. Last, i < client[f].part
      PROVE  disk'[<<text[f], i>>] # NoFile
  <2>1. Cleared(f)
    BY <1>3, Bounds DEF Cleared
  <2>. QED  BY <1>3, <2>1 DEF Undisturbed
<1>. QED  BY <1>1, <1>2, <1>3 DEF Undisturbed

\* The request an undisturbed upload waits for is the only one about its file.
LEMMA OneRequest ==
  ASSUME Books, NEW j \in Job, job[j].pc # "free", ~ Lost(job[j].file)
  PROVE  /\ WaitsFor(job[j].file, j)
         /\ client[job[j].file].part = job[j].part
         /\ \A k \in Job : WaitsFor(job[j].file, k) => k = j
BY BusyIsTyped DEF Books, Owned, ClientOK, WaitsFor

\* A request about another text leaves the chunks of this one alone, unless a
\* descriptor leads there.
LEMMA OtherTextStays ==
  ASSUME Books, NEW j \in Job, JobStep(j), NEW f \in File, text[f] # text[job[j].file],
         NEW i \in 0 .. Last, fd[j] # <<text[f], i>>
  PROVE  disk'[<<text[f], i>>] = disk[<<text[f], i>>]
<1>. DEFINE p == <<text[f], i>>
<1>. USE DEF At
<1>1. TypeOK /\ p \in Place /\ p # Slot
  BY PlacesDiffer, Typed DEF Books
<1>2. p # <<text[job[j].file], job[j].part>>
  OBVIOUS
<1>3. CASE Open(j)
  BY <1>1, <1>3 DEF Open, TypeOK
<1>4. CASE Fill(j)
  BY <1>1, <1>4, FillIs
<1>5. CASE Clear(j)
  BY <1>1, <1>5 DEF Clear, Unlink
<1>6. CASE Move(j)
  BY <1>1, <1>2, <1>6 DEF Move, TypeOK
<1>7. CASE StoreFails(j)
  BY <1>1, <1>2, <1>7 DEF StoreFails, TypeOK
<1>8. CASE Check(j) \/ Truncate(j) \/ Append(j)
  BY <1>8 DEF Check, Truncate, Append
<1>9. CASE UnlinkOne(j) \/ MergeFails(j)
  <2>1. p \notin Merged(j)
    BY DEF Merged
  <2>. QED  BY <1>1, <1>9, <2>1 DEF UnlinkOne, MergeFails, Unlink
<1>. QED  BY <1>3, <1>4, <1>5, <1>6, <1>7, <1>8, <1>9 DEF JobStep

\* A request about another file.
LEMMA OtherFileStays ==
  ASSUME Books, Alone, Stored, NEW j \in Job, JobStep(j), NEW f \in File,
         f # job[j].file, Undisturbed(f), f \notin met', ~ Lost(f)'
  PROVE  Undisturbed(f)'
<1>1. job[j].pc # "free" /\ job[j].file \in File /\ ~ WaitsFor(f, j) /\ TypeOK
  BY JobStepIs DEF Books, ClientOK
<1>2. f \notin met /\ ~ Lost(f)
  BY JobStepIs DEF Lost
<1>3. Cleared(f) => \A i \in 0 .. Last : disk'[<<text[f], i>>] = disk[<<text[f], i>>]
  <2>. SUFFICES ASSUME Cleared(f), NEW i \in 0 .. Last
                PROVE  disk'[<<text[f], i>>] = disk[<<text[f], i>>]
    OBVIOUS
  <2>1. text[f] # text[job[j].file]
    BY <1>1, <1>2, OnlyOwn, ClearedIsActive
  <2>2. fd[j] # <<text[f], i>>
    BY <1>2 DEF Stored, FdOK
  <2>. QED  BY <2>1, <2>2, OtherTextStays
<1>4. client'[f] = client[f] /\ text' = text /\ \A k \in Job \ {j} : job'[k] = job[k]
  BY <1>1, JobStepIs
<1>. QED  BY <1>1, <1>2, <1>3, <1>4, KeepsUndisturbed

\* A chunk of the file is stored.
LEMMA StoringIsUndisturbed ==
  ASSUME Books, Stored, NEW j \in Job,
         Open(j) \/ Fill(j) \/ Clear(j) \/ Move(j) \/ StoreFails(j),
         NEW f \in File, job[j].file = f, Undisturbed(f), f \notin met', ~ Lost(f)'
  PROVE  Undisturbed(f)'
<1>. DEFINE to == <<text[f], job[j].part>>
<1>. USE PlacesDiffer DEF At
<1>1. /\ TypeOK /\ JobOK(j) /\ job[j].pc \in Storing
      /\ job[j].part \in 0 .. Last
      /\ f \notin met /\ ~ Lost(f) /\ text[f] \in Text
  BY BusyIsTyped DEF Open, Fill, Clear, Move, StoreFails, Fails, Books, JobOK, Storing, Lost
<1>2. /\ WaitsFor(f, j) /\ client[f].part = job[j].part
      /\ \A k \in Job : WaitsFor(f, k) => k = j
  BY <1>1, OneRequest DEF Storing
<1>3. CASE Open(j) \/ Fill(j)
  <2>1. PICK pc \in {"fill", "clear", "move"} : Goto(j, pc)
    BY <1>3 DEF Open, Fill, AfterFill
  <2>2. job'[j].pc # "unlink" /\ job[j].pc # "unlink"
    BY <1>1, <2>1, GotoIs DEF Storing
  <2>3. ASSUME NEW i \in 0 .. Last PROVE disk'[<<text[f], i>>] = disk[<<text[f], i>>]
    <3>2. CASE Open(j)
      BY <1>1, <3>2 DEF Open, TypeOK
    <3>3. CASE Fill(j)
      <4>1. fd[j] = Slot
        BY <1>1, <3>3 DEF Fill, Stored, SlotOK, Users
      <4>. QED  BY <1>1, <3>3, <4>1, FillIs
    <3>. QED  BY <1>3, <3>2, <3>3
  <2>. QED  BY <1>1, <1>2, <1>3, <2>2, <2>3, KeepsUndisturbed DEF Open, Fill
<1>4. CASE Clear(j)
  <2>1. client' = client /\ text' = text /\ client[f].part = 0
    BY <1>1, <1>2, <1>4 DEF Clear, JobOK
  <2>2. job'[j].pc = "move"
    BY <1>1, <1>4, GotoIs DEF Clear, Storing
  <2>3. \A k \in Job : WaitsFor(f, k)' => k = j
    BY <1>2, <2>1 DEF WaitsFor
  <2>4. client'[f].pc = "waiting"
    BY <1>2, <2>1 DEF WaitsFor
  <2>. QED  BY <2>1, <2>2, <2>3, <2>4, Bounds DEF Undisturbed
<1>5. CASE Move(j)
  <2>1. disk[Slot] = to /\ to # NoFile /\ to \in Place
    BY <1>1, <1>5 DEF Move, Stored, SlotOK
  <2>2. /\ disk'[to] = to
        /\ \A p \in Place \ {Slot, to} : disk'[p] = disk[p]
    BY <1>1, <1>5, <2>1 DEF Move, TypeOK
  <2>3. PICK ok \in BOOLEAN : Answer(j, ok) /\ ok
    BY <1>5, <2>1 DEF Move
  <2>4. client'[f].pc = "ready" /\ client'[f].part = job[j].part + 1
    <3>1. client[f].part # Merge
      BY <1>1, <1>2, Bounds
    <3>. QED  BY <1>1, <1>2, <2>3, <3>1, AnswerIs, ZenonT(30)
  <2>5. ASSUME NEW i \in 0 .. Last, i < client'[f].part PROVE disk'[<<text[f], i>>] # NoFile
    <3>1. CASE i = job[j].part
      BY <2>1, <2>2, <3>1
    <3>2. CASE i < job[j].part
      BY <1>1, <1>2, <1>5, <2>1, <2>2, <3>2 DEF Undisturbed, Move
    <3>. QED  BY <1>1, <2>4, <2>5, <3>1, <3>2
  <2>6. text' = text
    BY <1>5 DEF Move
  <2>. QED  BY <2>4, <2>5, <2>6 DEF Undisturbed, WaitsFor
<1>6. CASE StoreFails(j)
  BY <1>6 DEF StoreFails, Fails, Lost
<1>. QED  BY <1>3, <1>4, <1>5, <1>6

\* What the loop after the merge of an undisturbed upload has removed.
LEMMA UnlinksSoFar ==
  ASSUME Books, NEW j \in Job, At(j, "unlink"), Unlink(Merged(j)),
         Undisturbed(job[j].file), job[j].file \notin met, ~ Lost(job[j].file),
         NEW i \in 0 .. Last, i <= job[j].at
  PROVE  disk'[<<text[job[j].file], i>>] = NoFile
<1>. DEFINE f == job[j].file
<1>1. /\ job[j].pc = "unlink" /\ job[j].at \in 0 .. Last /\ WaitsFor(f, j)
      /\ <<text[f], i>> \in Place
  BY BusyIsTyped, OneRequest DEF At, Books, JobOK
<1>2. disk'[<<text[f], i>>] = IF <<text[f], i>> \in Merged(j) THEN NoFile ELSE disk[<<text[f], i>>]
  BY <1>1 DEF Unlink
<1>3. CASE i = job[j].at
  BY <1>2, <1>3 DEF Merged
<1>4. CASE i < job[j].at
  BY <1>1, <1>2, <1>4 DEF Undisturbed
<1>. QED  BY <1>1, <1>3, <1>4

\* A merge of an undisturbed upload finds every chunk, and removes them all.
LEMMA MergingIsUndisturbed ==
  ASSUME Books, NEW j \in Job,
         Check(j) \/ Truncate(j) \/ Append(j) \/ UnlinkOne(j) \/ MergeFails(j),
         NEW f \in File, job[j].file = f, Undisturbed(f), f \notin met', ~ Lost(f)'
  PROVE  Undisturbed(f)'
<1>. USE PlacesDiffer DEF At
<1>1. /\ TypeOK /\ JobOK(j) /\ job[j].pc \in Merging /\ job[j].part = Merge
      /\ f \notin met /\ ~ Lost(f) /\ text' = text
  BY DEF Check, Truncate, Append, UnlinkOne, MergeFails, Fails, Books, JobOK, Merging, Lost
<1>2. /\ WaitsFor(f, j) /\ client[f].part = Merge
      /\ \A k \in Job : WaitsFor(f, k) => k = j
  BY <1>1, OneRequest DEF Merging
<1>3. job[j].pc # "unlink" => \A i \in 0 .. Last : disk[<<text[f], i>>] # NoFile
  <2>1. \A i \in 0 .. Last : i < Merge
    BY Bounds
  <2>. QED  BY <1>1, <1>2, <2>1 DEF Undisturbed
<1>4. CASE Check(j) \/ Truncate(j)
  <2>1. \A i \in 0 .. Last : disk[<<text[f], i>>] # NoFile
    BY <1>3, <1>4 DEF Check, Truncate
  <2>2. PICK pc \in {"truncate", "append"} : Goto(j, pc) /\ UNCHANGED client
    BY <1>4, <2>1 DEF Check, Truncate
  <2>3. job'[j].pc # "unlink" /\ job[j].pc # "unlink"
    BY <1>1, <1>4, <2>2, GotoIs DEF Merging, Check, Truncate
  <2>. QED  BY <1>1, <1>2, <1>4, <2>2, <2>3, KeepsUndisturbed DEF Check, Truncate
<1>5. CASE Append(j)
  <2>1. /\ job[j].pc = "append" /\ job[j].at \in 0 .. Last
        /\ disk' = disk
    BY <1>1, <1>5 DEF Append, JobOK
  <2>2. NextChunk(j)
    BY <1>3, <1>5, <2>1 DEF Append
  <2>3. client' = client
    BY <2>2 DEF NextChunk
  <2>4. CASE job[j].at # Last
    <3>1. job'[j].pc = "append"
      BY <1>1, <2>2, <2>4, Typed DEF NextChunk, Request
    <3>. QED  BY <1>1, <1>2, <2>1, <2>3, <3>1, KeepsUndisturbed
  <2>5. CASE job[j].at = Last
    <3>1. job'[j].pc = "unlink" /\ job'[j].at = 0
      BY <1>1, <2>2, <2>5, Typed DEF NextChunk, Request
    <3>2. client'[f].pc = "waiting" /\ \A k \in Job : WaitsFor(f, k)' => k = j
      BY <1>2, <2>3 DEF WaitsFor
    <3>. QED  BY <3>1, <3>2 DEF Undisturbed
  <2>. QED  BY <2>4, <2>5
<1>6. CASE UnlinkOne(j)
  <2>1. job[j].pc = "unlink" /\ job[j].at \in 0 .. Last
    BY <1>1, <1>6 DEF UnlinkOne, JobOK
  <2>2. \A i \in 0 .. Last : i <= job[j].at => disk'[<<text[f], i>>] = NoFile
    BY <1>1, <1>6, UnlinksSoFar DEF UnlinkOne
  <2>3. CASE job[j].at = Last
    <3>1. PICK ok \in BOOLEAN : Answer(j, ok) /\ ok
      BY <1>6, <2>3 DEF UnlinkOne
    <3>2. client'[f].pc = "completed"
      BY <1>1, <1>2, <3>1, AnswerIs, ZenonT(30)
    <3>. QED  BY <3>2 DEF Undisturbed, WaitsFor
  <2>4. CASE job[j].at # Last
    <3>1. job' = [job EXCEPT ![j].at = job[j].at + 1] /\ client' = client
      BY <1>6, <2>4 DEF UnlinkOne
    <3>2. job'[j].pc = "unlink" /\ job'[j].at = job[j].at + 1
      BY <1>1, <2>1, <3>1, Typed DEF Request
    <3>3. \A i \in 0 .. Last : i < job'[j].at => disk'[<<text[f], i>>] = NoFile
      BY <2>1, <2>2, <3>2
    <3>4. client'[f].pc = "waiting" /\ \A k \in Job : WaitsFor(f, k)' => k = j
      BY <1>2, <3>1 DEF WaitsFor
    <3>. QED  BY <1>1, <3>2, <3>3, <3>4 DEF Undisturbed
  <2>. QED  BY <2>3, <2>4
<1>7. CASE MergeFails(j)
  BY <1>7 DEF MergeFails, Fails, Lost
<1>. QED  BY <1>4, <1>5, <1>6, <1>7

LEMMA PresentInit == Init => Present
BY Bounds DEF Init, Present, NothingLeft, Undisturbed, WaitsFor

LEMMA UndisturbedStep ==
  ASSUME Books, Alone, Stored, Present, [Next]_vars, NEW f \in File
  PROVE  Undisturbed(f)'
<1>. SUFFICES ASSUME f \notin met', ~ Lost(f)'
              PROVE  Undisturbed(f)'
  BY DEF Undisturbed
<1>0. TypeOK /\ Undisturbed(f)
  BY DEF Books, Present
<1>1. CASE UNCHANGED vars
  BY <1>0, <1>1, KeepsUndisturbed DEF vars, Lost
<1>2. ASSUME NEW g \in File, Send(g) PROVE Undisturbed(f)'
  <2>1. UNCHANGED <<text, disk, lost>> /\ f \notin met /\ ~ Lost(f)
    BY <1>2 DEF Send, Lost
  <2>2. PICK j \in Job :
          /\ job[j].pc = "free" /\ client[g].pc \in {"ready", "error"}
          /\ client'[g] = [pc |-> "waiting", job |-> j,
                           part |-> IF client[g].pc = "error" THEN 0 ELSE client[g].part]
          /\ \A h \in File \ {g} : client'[h] = client[h]
          /\ job'[j].pc # "unlink" /\ \A k \in Job \ {j} : job'[k] = job[k]
    BY <1>0, <1>2, Typed DEF Send, At
  <2>3. CASE g = f
    <3>1. client[f].pc = "ready" /\ client'[f].part = client[f].part
      BY <1>0, <2>1, <2>2, <2>3 DEF Undisturbed
    <3>2. /\ client'[f].pc = "waiting" /\ \A k \in Job : WaitsFor(f, k)' => k = j
      BY <2>2, <2>3 DEF WaitsFor
    <3>. QED  BY <1>0, <2>1, <2>2, <3>1, <3>2 DEF Undisturbed
  <2>4. CASE g # f
    <3>1. ~ WaitsFor(f, j)
      BY <2>2, UploadAssumption DEF Books, ClientOK, JobOK
    <3>. QED  BY <1>0, <2>1, <2>2, <2>4, <3>1, KeepsUndisturbed
  <2>. QED  BY <2>3, <2>4
<1>3. ASSUME NEW g \in File, Lose(g) PROVE Undisturbed(f)'
  <2>. DEFINE j == client[g].job
  <2>1. UNCHANGED <<text, disk, met>> /\ lost \subseteq lost'
    BY <1>3 DEF Lose
  <2>2. f \notin met /\ ~ Lost(f)
    BY <2>1 DEF Lost
  <2>3. g # f
    BY <1>3 DEF Lose, Lost
  <2>4. client'[f] = client[f]
    BY <1>0, <1>3, <2>3, Typed DEF Lose
  <2>5. j \in Job /\ job[j].file = g
    BY <1>0, <1>3 DEF Lose, TypeOK
  <2>6. ~ WaitsFor(f, j)
    BY <2>3, <2>5 DEF Books, ClientOK
  <2>7. \A k \in Job \ {j} : job'[k] = job[k]
    BY <1>0, <1>3, <2>5, Typed DEF Lose
  <2>. QED  BY <1>0, <2>1, <2>2, <2>4, <2>6, <2>7, KeepsUndisturbed
<1>4. ASSUME NEW j \in Job, JobStep(j) PROVE Undisturbed(f)'
  BY <1>0, <1>4, OtherFileStays, StoringIsUndisturbed, MergingIsUndisturbed DEF JobStep
<1>. QED  BY <1>1, <1>2, <1>3, <1>4 DEF Next

\* A dialogue gets over its upload only by the last removal after its merge.
LEMMA OverByUnlinking ==
  ASSUME Books, [Next]_vars, NEW f \in File, ~ Over(f), Over(f)'
  PROVE  \E j \in Job : UnlinkOne(j) /\ job[j].file = f /\ job[j].at = Last
<1>. USE DEF At
<1>0. TypeOK
  BY DEF Books
<1>1. client'[f] # client[f]
  BY DEF Over
<1>2. ASSUME NEW g \in File, Send(g) PROVE FALSE
  <2>1. client'[g].pc = "waiting" /\ \A h \in File \ {g} : client'[h] = client[h]
    BY <1>0, <1>2, Typed DEF Send
  <2>. QED  BY <1>1, <2>1 DEF Over
<1>3. ASSUME NEW g \in File, Lose(g) PROVE FALSE
  <2>1. client'[g].pc = "error" /\ \A h \in File \ {g} : client'[h] = client[h]
    BY <1>0, <1>3, Typed DEF Lose, Dialogue
  <2>. QED  BY <1>1, <2>1 DEF Over
<1>4. PICK j \in Job : JobStep(j)
  BY <1>1, <1>2, <1>3 DEF Next, vars
<1>5. WaitsFor(f, j) /\ JobOK(j) /\ job[j].file = f /\ client[f].part = job[j].part
  BY <1>1, <1>4, JobStepIs DEF Books, ClientOK
<1>6. PICK ok \in BOOLEAN : Answer(j, ok) /\ (ok => job[j].pc \in {"move", "unlink"})
  BY <1>1, <1>4, JobStepIs
<1>7. job[j].pc = "unlink" /\ client'[f].pc # "error"
  <2>1. client'[f].pc # "error"
    BY DEF Over
  <2>2. ok
    BY <1>0, <1>5, <1>6, <2>1, AnswerIs
  <2>3. job[j].pc # "move"
    <3>. SUFFICES ASSUME job[j].pc = "move" PROVE FALSE
      OBVIOUS
    <3>1. client[f].part \in 0 .. Last /\ client[f].part # Merge
      BY <1>5, Bounds DEF JobOK, Storing
    <3>2. client'[f].pc = "ready" /\ client'[f].part = client[f].part + 1
      BY <1>0, <1>5, <1>6, <2>2, <3>1, AnswerIs, ZenonT(30)
    <3>. QED  BY <3>1, <3>2 DEF Over
  <2>. QED  BY <1>6, <2>1, <2>2, <2>3
<1>8. UnlinkOne(j) \/ MergeFails(j)
  BY <1>4, <1>7
  DEF JobStep, Open, Fill, Clear, Move, StoreFails, Check, Truncate, Append
<1>9. ~ MergeFails(j)
  <2>. SUFFICES ASSUME MergeFails(j) PROVE FALSE
    OBVIOUS
  <2>1. PICK no \in BOOLEAN : ~ no /\ Answer(j, no)
    BY DEF MergeFails
  <2>. QED  BY <1>0, <1>5, <1>7, <2>1, AnswerIs
<1>10. job[j].at = Last
  <2>. SUFFICES ASSUME job[j].at # Last PROVE FALSE
    OBVIOUS
  <2>. QED  BY <1>1, <1>8, <1>9 DEF UnlinkOne
<1>. QED  BY <1>5, <1>8, <1>9, <1>10

\* Nobody who sends this text failed, met another or is at work.
Quiet(f) == \A g \in File : text[g] = text[f] => ~ Lost(g) /\ g \notin met /\ Over(g)

\* While nobody is at work on a text, nothing brings its chunks back.
LEMMA QuietStays ==
  ASSUME Books, Stored, [Next]_vars, NEW f \in File, Quiet(f), NEW i \in 0 .. Last
  PROVE  disk'[<<text[f], i>>] = disk[<<text[f], i>>]
<1>1. CASE UNCHANGED disk
  BY <1>1
<1>2. ASSUME NEW j \in Job, JobStep(j) PROVE disk'[<<text[f], i>>] = disk[<<text[f], i>>]
  <2>1. text[job[j].file] # text[f]
    <3>1. job[j].pc # "free" /\ job[j].file \in File
      BY <1>2, JobStepIs
    <3>2. ~ Lost(job[j].file) => ~ Over(job[j].file)
      BY <3>1, OneRequest DEF WaitsFor, Over
    <3>. QED  BY <3>1, <3>2 DEF Quiet
  <2>2. fd[j] # <<text[f], i>>
    <3>1. met \subseteq File
      BY DEF Books, TypeOK
    <3>. QED  BY <3>1 DEF Stored, FdFrom, Quiet
  <2>. QED  BY <1>2, <2>1, <2>2, OtherTextStays
<1>. QED  BY <1>1, <1>2 DEF Next, vars, Send, Lose

LEMMA NothingLeftStep ==
  ASSUME Books, Stored, Present, [Next]_vars
  PROVE  NothingLeft'
<1>1. text' = text /\ met \subseteq met' /\ lost \subseteq lost'
  <2>1. ASSUME NEW j \in Job, JobStep(j) PROVE text' = text /\ met \subseteq met' /\ lost \subseteq lost'
    BY <2>1, JobStepIs
  <2>. QED  BY <2>1 DEF Next, vars, Send, Lose
<1>. SUFFICES ASSUME NEW f \in File, client'[f].pc = "completed", Quiet(f)', NEW i \in 0 .. Last
              PROVE  disk'[<<text[f], i>>] = NoFile
  BY <1>1 DEF NothingLeft, Quiet
<1>2. \A g \in File : text[g] = text[f] => ~ Lost(g) /\ g \notin met /\ Over(g)'
  BY <1>1 DEF Quiet, Lost
<1>3. CASE Quiet(f)
  <2>1. Over(f)
    BY <1>3 DEF Quiet
  <2>2. client[f].pc = "completed"
    <3>. SUFFICES ASSUME client[f].pc = "ready" PROVE FALSE
      BY <2>1 DEF Over
    <3>1. ASSUME NEW g \in File, Send(g) PROVE FALSE
      <4>1. client'[g].pc = "waiting" /\ \A h \in File \ {g} : client'[h] = client[h]
        BY <3>1, Typed DEF Send, Books
      <4>. QED  BY <4>1
    <3>2. ASSUME NEW g \in File, Lose(g) PROVE FALSE
      <4>1. client'[g].pc = "error" /\ \A h \in File \ {g} : client'[h] = client[h]
        BY <3>2, Typed DEF Lose, Dialogue, Books
      <4>. QED  BY <4>1
    <3>3. ASSUME NEW j \in Job, JobStep(j) PROVE FALSE
      BY <3>3, JobStepIs DEF WaitsFor
    <3>. QED  BY <3>1, <3>2, <3>3 DEF Next, vars
  <2>3. disk[<<text[f], i>>] = NoFile
    BY <1>3, <2>2 DEF Present, NothingLeft, Quiet
  <2>. QED  BY <1>3, <2>3, QuietStays
<1>4. CASE ~ Quiet(f)
  <2>1. PICK g \in File : text[g] = text[f] /\ ~ Over(g) /\ Over(g)' /\ ~ Lost(g) /\ g \notin met
    BY <1>2, <1>4 DEF Quiet
  <2>2. PICK j \in Job : UnlinkOne(j) /\ job[j].file = g /\ job[j].at = Last
    BY <2>1, OverByUnlinking
  <2>3. Undisturbed(g) /\ i <= Last
    BY <2>1, Bounds DEF Present
  <2>. QED  BY <2>1, <2>2, <2>3, UnlinksSoFar DEF UnlinkOne
<1>. QED  BY <1>3, <1>4

LEMMA PresentStep == Books /\ Alone /\ Stored /\ Present /\ [Next]_vars => Present'
BY UndisturbedStep, NothingLeftStep DEF Present
-----------------------------------------------------------------------------
(***************************************************************************)
(* The theorems.                                                           *)
(***************************************************************************)
LEMMA UploadInvariant == Spec => []UploadInv
<1>1. Init => UploadInv
  BY BooksInit, AloneInit, StoredInit, MergeableInit, PresentInit DEF UploadInv
<1>2. UploadInv /\ [Next]_vars => UploadInv'
  BY BooksStep, AloneStep, StoredStep, MergeableStep, PresentStep DEF UploadInv
<1>. QED  BY <1>1, <1>2, PTL DEF Spec

\* Every request is about one file, and a dialogue waits for a request of its own.
THEOREM UploadsTyped == Spec => []TypeOK
<1>1. UploadInv => TypeOK  BY DEF UploadInv, Books
<1>. QED  BY <1>1, UploadInvariant, PTL

\* A file that the dialogue calls uploaded is what the user chose, unless one of its
\* chunks met another request's in the slot, another dialogue was at work on the same
\* text, a merge of it lost its answer or a chunk of it was copied in part.
THEOREM UploadedIsWhole == Spec => []CompletedIsWhole
<1>1. UploadInv => CompletedIsWhole  BY DEF UploadInv, Mergeable
<1>. QED  BY <1>1, UploadInvariant, PTL

\* An upload fails only after a lost answer, a failing file call, a meeting in the slot
\* or another dialogue at work on the same text.
THEOREM UploadsFailForCauses == Spec => []FailuresHaveCauses
<1>1. UploadInv => FailuresHaveCauses
  BY DEF UploadInv, Present, Undisturbed, FailuresHaveCauses
<1>. QED  BY <1>1, UploadInvariant, PTL

\* Uploads that nothing disturbed leave no chunk of their text in temp/.
THEOREM UploadsCleanUp == Spec => []NothingLeft
<1>1. UploadInv => NothingLeft
  BY DEF UploadInv, Present
<1>. QED  BY <1>1, UploadInvariant, PTL
=============================================================================
