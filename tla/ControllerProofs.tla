-------------------------- MODULE ControllerProofs --------------------------
(***************************************************************************)
(* Proofs about what the controller keeps in files: its list of nodes, for *)
(* any number of nodes and requests, and the certificates by which it and its *)
(* nodes know each other, for any number of nodes, requests and keys and any *)
(* lifetime of the certificates.                                           *)
(***************************************************************************)
EXTENDS NodeList, ControllerCA, WellFoundedInduction, TLAPS

(***************************************************************************)
(* The list of nodes.  NodesInv says, while nothing has raced, what the    *)
(* requests in the middle of the list's files know of it: what a change is *)
(* about to write is made of the list as it stands (ChangeFollows), and    *)
(* whoever starts the list anew finds none to lose (StartsFromNothing).    *)
(***************************************************************************)
\* The requests under way.
Call ==
  [op : Op, pc : {"access", "read", "open", "fill", "rename"},
   why : {Nil, "create", "reset", "save"}, data : List, fd : {Nil, "file", "tmp", "gone"}]
Calls == {r \in Caller : ~On(r, "idle")}

\* What a request has at its step and what it has not.
Stepping(q) ==
  /\ q.pc \in {"access", "read"} => q.why = Nil
  /\ q.pc \in {"open", "fill"} => q.why # Nil
  /\ q.pc = "fill" => q.fd # Nil
  /\ q.pc = "rename" => q.why = "save"

\* A change q of this list, when nodes.json.tmp holds tmp.
ChangeFollows(q, tmp, list) ==
  /\ q.data = Apply(q.op, list)
  /\ q.pc = "fill" => q.fd = "tmp" /\ tmp = Unreadable
  /\ q.pc = "rename" => tmp = q.data

\* A request q that changes nothing yet, when nodes.json holds file.
StartsFromNothing(q, file, list) ==
  /\ q.data = NoNodes
  /\ q.pc = "fill" => q.fd \in {"file", "gone"}
  /\ q.why = "reset" => list = NoNodes /\ (q.pc = "fill" => q.fd = "file")
  /\ q.pc = "fill" /\ q.fd = "file" => list = NoNodes /\ file \in {Unreadable, NoNodes}

Fits(q, file, tmp, list) ==
  IF q.why = "save" THEN ChangeFollows(q, tmp, list) ELSE StartsFromNothing(q, file, list)

Stands(file) == IF Readable(file) THEN file ELSE NoNodes

Serial ==
  /\ Stands(disk["file"]) = kept
  /\ \A r, s \in Saving : r = s
  /\ \A r \in Calls : Fits(reqs[r], disk["file"], disk["tmp"], kept)

NodesInv ==
  /\ NodesTypeOK
  /\ \A r \in Calls : Stepping(reqs[r])
  /\ ~raced => Serial
-----------------------------------------------------------------------------
LEMMA Lists ==
  /\ NoNodes \in List /\ Readable(NoNodes)
  /\ ~Readable(NoFile) /\ ~Readable(Unreadable)
  /\ \A op \in Op, list \in List : Apply(op, list) \in List
BY NodesAssumption DEF List, NoNodes, Readable, Apply, Op

LEMMA CallShape ==
  ASSUME NodesTypeOK, NEW r \in Caller
  PROVE  /\ reqs[r] \in {NoCall} \cup Call
         /\ r \in Calls <=> reqs[r] \in Call
         /\ r \notin Calls <=> reqs[r] = NoCall
         /\ r \in Saving <=> r \in Calls /\ reqs[r].why = "save"
<1>1. reqs[r] \in {NoCall} \cup Call
  BY DEF NodesTypeOK, Call
<1>2. NoCall.pc = "idle"
  BY DEF NoCall
<1>3. \A q \in Call : q.pc # "idle"
  BY DEF Call
<1>. QED  BY <1>1, <1>2, <1>3 DEF Calls, Saving, On

\* A step of one request that answers nobody.
LEMMA OneMoves ==
  ASSUME NodesInv, NEW r \in Caller, NEW q \in {NoCall} \cup Call,
         Become(r, q), kept' = kept,
         disk' \in [{"file", "tmp"} -> List \cup {NoFile, Unreadable}],
         raced' \in BOOLEAN, raced => raced',
         q # NoCall => Stepping(q),
         ~raced' =>
           /\ Stands(disk'["file"]) = kept
           /\ disk'["tmp"] = disk["tmp"] \/ Saving \subseteq {r}
           /\ disk'["file"] = disk["file"] \/ disk'["file"] \in {Unreadable, NoNodes}
           /\ q # NoCall => Fits(q, disk'["file"], disk'["tmp"], kept)
           /\ q # NoCall /\ q.why = "save" => Saving \subseteq {r}
  PROVE  NodesInv'
<1>. USE DEF Become
<1>0. NodesTypeOK /\ reqs \in [Caller -> {NoCall} \cup Call] /\ kept \in List
  BY DEF NodesInv, NodesTypeOK, Call
<1>1. /\ reqs' \in [Caller -> {NoCall} \cup Call]
      /\ reqs'[r] = q /\ \A s \in Caller \ {r} : reqs'[s] = reqs[s]
  BY <1>0
<1>2. NoCall.pc = "idle" /\ \A c \in Call : c.pc # "idle"
  BY DEF NoCall, Call
<1>3. \A s \in Caller : reqs'[s].pc = "rename" => reqs'[s].why = "save"
  BY <1>0, <1>1, <1>2 DEF NodesTypeOK, Stepping
<1>4. NodesTypeOK'
  BY <1>0, <1>1, <1>3 DEF NodesTypeOK, Call
<1>5. /\ Calls' \subseteq Calls \cup {r} /\ (r \in Calls' <=> q # NoCall)
      /\ Saving' \subseteq Saving \cup {r}
      /\ r \in Saving' => q # NoCall /\ q.why = "save"
  BY <1>1, <1>2 DEF Calls, Saving, On
<1>6. \A s \in Calls' : Stepping(reqs'[s])
  BY <1>1, <1>5 DEF NodesInv, Calls
<1>7. ASSUME ~raced' PROVE Serial'
  <2>1. Serial
    BY <1>7 DEF NodesInv
  <2>2. \A s, t \in Saving' : s = t
    BY <1>5, <1>7, <2>1 DEF Serial
  <2>3. ASSUME NEW s \in Calls' PROVE Fits(reqs'[s], disk'["file"], disk'["tmp"], kept)
    <3>1. CASE s = r
      BY <1>1, <1>5, <1>7, <3>1
    <3>2. CASE s # r
      <4>1. s \in Calls /\ s \in Caller /\ reqs'[s] = reqs[s]
            /\ Fits(reqs[s], disk["file"], disk["tmp"], kept)
        BY <1>1, <1>5, <2>1, <2>3, <3>2 DEF Serial, Calls
      <4>2. reqs[s].why = "save" => disk'["tmp"] = disk["tmp"]
        BY <1>0, <1>7, <3>2, <4>1, CallShape
      <4>. QED  BY <1>7, <4>1, <4>2 DEF Fits, ChangeFollows, StartsFromNothing
    <3>. QED  BY <3>1, <3>2
  <2>. QED  BY <1>7, <2>2, <2>3 DEF Serial
<1>. QED  BY <1>4, <1>6, <1>7 DEF NodesInv

LEMMA AnswersOne ==
  ASSUME NodesInv, NEW r \in Caller, Become(r, NoCall), UNCHANGED <<disk, kept>>,
         raced' \in BOOLEAN, raced => raced'
  PROVE  NodesInv'
<1>1. disk \in [{"file", "tmp"} -> List \cup {NoFile, Unreadable}]
  BY DEF NodesInv, NodesTypeOK
<1>2. ~raced' => Stands(disk["file"]) = kept
  BY DEF NodesInv, Serial
<1>. QED  BY <1>1, <1>2, OneMoves

\* A request at a step of its own.
LEMMA AtStep ==
  ASSUME NodesInv, NEW r \in Caller, NEW pc \in {"access", "read", "open", "fill", "rename"},
         On(r, pc)
  PROVE  /\ r \in Calls /\ reqs[r] \in Call /\ Stepping(reqs[r])
         /\ ~raced => Fits(reqs[r], disk["file"], disk["tmp"], kept)
BY CallShape DEF NodesInv, Calls, On, Serial

\* What becomes of the list read, or started, by a request.
LEMMA Decides ==
  ASSUME NodesInv, NEW r \in Caller, NEW list \in List, r \in Calls, Decide(r, list), kept' = kept,
         disk' \in [{"file", "tmp"} -> List \cup {NoFile, Unreadable}],
         ~raced => /\ list = kept /\ disk'["tmp"] = disk["tmp"] /\ r \notin Saving
                   /\ Stands(disk'["file"]) = kept
                   /\ disk'["file"] = disk["file"] \/ disk'["file"] \in {Unreadable, NoNodes}
  PROVE  NodesInv'
<1>. DEFINE op == reqs[r].op
            save == At(op, "open", "save", Apply(op, list), Nil)
<1>1. reqs[r] \in Call /\ op \in Op /\ raced \in BOOLEAN
  BY CallShape DEF NodesInv, NodesTypeOK, Call
<1>2. CASE Become(r, NoCall) /\ UNCHANGED raced
  BY <1>1, <1>2, OneMoves
<1>3. CASE Become(r, save) /\ raced' = (raced \/ Saving # {})
  <2>1. save \in Call /\ save.pc = "open" /\ save.why = "save" /\ save.op = op
        /\ save.data = Apply(op, list)
    BY <1>1, Lists DEF At, Call
  <2>2. Stepping(save)
    BY <2>1 DEF Stepping, Nil
  <2>3. list = kept => Fits(save, disk'["file"], disk'["tmp"], kept)
    BY <2>1 DEF Fits, ChangeFollows
  <2>4. ~raced' => ~raced /\ Saving = {}
    BY <1>3
  <2>5. raced' \in BOOLEAN /\ (raced => raced')
    BY <1>1, <1>3
  <2>. HIDE DEF save
  <2>. QED  BY <1>3, <2>1, <2>2, <2>3, <2>4, <2>5, OneMoves
<1>. QED  BY <1>2, <1>3 DEF Decide

LEMMA AskStep ==
  ASSUME NodesInv, NEW r \in Caller, NEW op \in Op, Ask(r, op)
  PROVE  NodesInv'
<1>. DEFINE q == At(op, "access", Nil, NoNodes, Nil)
<1>1. q \in Call /\ q.pc = "access" /\ q.why = Nil /\ q.data = NoNodes
  BY Lists DEF At, Call
<1>2. Stepping(q) /\ Fits(q, disk["file"], disk["tmp"], kept)
  BY <1>1 DEF Stepping, Fits, StartsFromNothing, Nil
<1>3. /\ disk \in [{"file", "tmp"} -> List \cup {NoFile, Unreadable}] /\ raced \in BOOLEAN
      /\ ~raced => Stands(disk["file"]) = kept
  BY DEF NodesInv, NodesTypeOK, Serial
<1>4. Become(r, q) /\ UNCHANGED <<disk, kept, raced>> /\ q.why # "save"
  BY <1>1 DEF Ask, Nil
<1>. HIDE DEF q
<1>. QED  BY <1>1, <1>2, <1>3, <1>4, OneMoves

LEMMA AccessStep ==
  ASSUME NodesInv, NEW r \in Caller, Access(r)
  PROVE  NodesInv'
<1>. DEFINE op == reqs[r].op
            create == At(op, "open", "create", NoNodes, Nil)
            read == At(op, "read", Nil, NoNodes, Nil)
<1>1. op \in Op
  BY AtStep DEF Access, Call
<1>2. PICK q \in {create, read} : Become(r, q) /\ UNCHANGED <<disk, kept, raced>>
  BY DEF Access
<1>3. q \in Call /\ q.pc \in {"open", "read"} /\ q.data = NoNodes /\ q.why \in {Nil, "create"}
      /\ (q.pc = "read" <=> q.why = Nil)
  BY <1>1, Lists DEF At, Call, Nil
<1>4. Stepping(q) /\ Fits(q, disk["file"], disk["tmp"], kept) /\ q.why # "save"
  BY <1>3 DEF Stepping, Fits, StartsFromNothing, Nil
<1>5. /\ disk \in [{"file", "tmp"} -> List \cup {NoFile, Unreadable}] /\ raced \in BOOLEAN
      /\ ~raced => Stands(disk["file"]) = kept
  BY DEF NodesInv, NodesTypeOK, Serial
<1>. QED  BY <1>2, <1>3, <1>4, <1>5, OneMoves

LEMMA ReadStep ==
  ASSUME NodesInv, NEW r \in Caller, ReadStore(r)
  PROVE  NodesInv'
<1>. DEFINE op == reqs[r].op
            reset == At(op, "open", "reset", NoNodes, Nil)
<1>1. /\ disk \in [{"file", "tmp"} -> List \cup {NoFile, Unreadable}] /\ raced \in BOOLEAN
      /\ ~raced => Stands(disk["file"]) = kept
  BY DEF NodesInv, NodesTypeOK, Serial
<1>2. r \in Calls /\ reqs[r].why = Nil /\ op \in Op /\ UNCHANGED <<disk, kept>>
  BY AtStep DEF ReadStore, Stepping, On, Call
<1>3. CASE Readable(disk["file"]) /\ Decide(r, disk["file"])
  <2>1. disk["file"] \in List
    BY <1>3 DEF Readable
  <2>2. r \notin Saving
    BY <1>2 DEF Saving, Nil
  <2>. QED  BY <1>1, <1>2, <1>3, <2>1, <2>2, Decides DEF Stands
<1>4. CASE ~Readable(disk["file"]) /\ Become(r, reset) /\ UNCHANGED raced
  <2>1. reset \in Call /\ reset.pc = "open" /\ reset.data = NoNodes /\ reset.why = "reset"
    BY <1>2, Lists DEF At, Call
  <2>2. Stepping(reset) /\ (kept = NoNodes => Fits(reset, disk["file"], disk["tmp"], kept))
    BY <2>1 DEF Stepping, Fits, StartsFromNothing, Nil
  <2>3. ~raced => kept = NoNodes
    BY <1>1, <1>4 DEF Stands
  <2>. HIDE DEF reset
  <2>. QED  BY <1>1, <1>2, <1>4, <2>1, <2>2, <2>3, OneMoves
<1>. QED  BY <1>3, <1>4 DEF ReadStore

LEMMA OpenStep ==
  ASSUME NodesInv, NEW r \in Caller, Open(r)
  PROVE  NodesInv'
<1>. DEFINE f == Target(reqs[r].why)
            q == [reqs[r] EXCEPT !.pc = "fill", !.fd = f]
<1>1. /\ disk \in [{"file", "tmp"} -> List \cup {NoFile, Unreadable}] /\ raced \in BOOLEAN
      /\ ~raced => Stands(disk["file"]) = kept /\ \A s, t \in Saving : s = t
  BY DEF NodesInv, NodesTypeOK, Serial
<1>2. /\ reqs[r] \in Call /\ r \in Calls /\ reqs[r].why # Nil
      /\ ~raced => Fits(reqs[r], disk["file"], disk["tmp"], kept)
  BY AtStep DEF Open, Stepping, On
<1>3. /\ q \in Call /\ q.pc = "fill" /\ q.fd = f /\ q.why = reqs[r].why
      /\ q.op = reqs[r].op /\ q.data = reqs[r].data /\ f \in {"file", "tmp"}
      /\ (f = "tmp" <=> q.why = "save")
  BY <1>2 DEF Call, Target
<1>4. disk' = [disk EXCEPT ![f] = Unreadable] /\ Become(r, q) /\ UNCHANGED kept
      /\ raced' = (raced \/ (q.why # "save" /\ Readable(disk[f])))
  BY <1>3 DEF Open
<1>5. disk' \in [{"file", "tmp"} -> List \cup {NoFile, Unreadable}] /\ raced' \in BOOLEAN
      /\ (raced => raced')
  BY <1>1, <1>3, <1>4
<1>6. Stepping(q)
  BY <1>2, <1>3 DEF Stepping, Nil
<1>7. ASSUME ~raced'
      PROVE  /\ Stands(disk'["file"]) = kept
             /\ disk'["tmp"] = disk["tmp"] \/ Saving \subseteq {r}
             /\ disk'["file"] = disk["file"] \/ disk'["file"] \in {Unreadable, NoNodes}
             /\ Fits(q, disk'["file"], disk'["tmp"], kept)
             /\ q.why = "save" => Saving \subseteq {r}
  <2>1. ~raced /\ (q.why # "save" => ~Readable(disk["file"]))
    BY <1>3, <1>4, <1>7, <1>1
  <2>2. CASE q.why = "save"
    <3>1. disk'["file"] = disk["file"] /\ disk'["tmp"] = Unreadable /\ f = "tmp"
      BY <1>1, <1>3, <1>4, <2>2
    <3>2. r \in Saving
      BY <1>2, <1>3, <2>2 DEF Calls, Saving
    <3>. QED  BY <1>1, <1>2, <1>3, <2>1, <2>2, <3>1, <3>2 DEF Fits, ChangeFollows
  <2>3. CASE q.why # "save"
    <3>1. disk'["tmp"] = disk["tmp"] /\ disk'["file"] = Unreadable /\ f = "file" /\ kept = NoNodes
      BY <1>1, <1>3, <1>4, <2>1, <2>3 DEF Stands
    <3>. QED  BY <1>2, <1>3, <2>1, <2>3, <3>1, Lists DEF Fits, StartsFromNothing, Stands
  <2>. QED  BY <2>2, <2>3
<1>. HIDE DEF q
<1>. QED  BY <1>3, <1>4, <1>5, <1>6, <1>7, OneMoves

\* What filling a file leaves in it.
LEMMA LaidIs ==
  ASSUME NEW over, NEW data \in List
  PROVE  /\ Laid(over, data) \subseteq List \cup {NoFile, Unreadable}
         /\ over \in {Unreadable, data} => Laid(over, data) = {data}
BY Lists DEF Laid

LEMMA FillFileStep ==
  ASSUME NodesInv, NEW r \in Caller, FillFile(r)
  PROVE  NodesInv'
<1>. DEFINE q == reqs[r]
            Disks == [{"file", "tmp"} -> List \cup {NoFile, Unreadable}]
<1>1. /\ disk \in Disks /\ raced \in BOOLEAN /\ kept \in List
      /\ ~raced => Stands(disk["file"]) = kept /\ \A s, t \in Saving : s = t
  BY DEF NodesInv, NodesTypeOK, Serial
<1>2. /\ q \in Call /\ r \in Calls /\ q.pc = "fill" /\ q.why # Nil /\ q.fd # Nil
      /\ ~raced => Fits(q, disk["file"], disk["tmp"], kept)
  BY AtStep DEF FillFile, Stepping, On
<1>3. q.data \in List /\ q.op \in Op /\ q.fd \in {"file", "tmp", "gone"}
      /\ q.why \in {"create", "reset", "save"}
  BY <1>2 DEF Call
<1>4. disk' \in Disks
  BY <1>1, <1>2, <1>3, LaidIs DEF FillFile
<1>5. CASE q.why = "save"
  <2>. DEFINE next == [q EXCEPT !.pc = "rename", !.fd = Nil]
  <2>1. next \in Call /\ next.pc = "rename" /\ next.why = "save" /\ next.op = q.op
        /\ next.data = q.data
    BY <1>2, <1>5 DEF Call
  <2>2. Stepping(next) /\ Become(r, next) /\ UNCHANGED <<kept, raced>>
    BY <1>5, <2>1 DEF FillFile, Stepping
  <2>3. ASSUME ~raced
        PROVE  /\ disk'["file"] = disk["file"] /\ Saving \subseteq {r}
               /\ Fits(next, disk'["file"], disk'["tmp"], kept)
    <3>1. q.data = Apply(q.op, kept) /\ q.fd = "tmp" /\ disk["tmp"] = Unreadable
      BY <1>2, <1>5, <2>3 DEF Fits, ChangeFollows
    <3>2. Laid(disk["tmp"], q.data) = {q.data}
      BY <1>3, <3>1, LaidIs
    <3>3. disk' = [disk EXCEPT !["tmp"] = q.data]
      BY <3>1, <3>2 DEF FillFile
    <3>4. r \in Saving
      BY <1>2, <1>5 DEF Calls, Saving
    <3>. HIDE DEF next
    <3>. QED  BY <1>1, <2>1, <2>3, <3>1, <3>3, <3>4 DEF Fits, ChangeFollows
  <2>. HIDE DEF next
  <2>. QED  BY <1>1, <1>4, <2>1, <2>2, <2>3, OneMoves
<1>6. ASSUME q.why # "save", ~raced
      PROVE  /\ disk'["tmp"] = disk["tmp"] /\ r \notin Saving /\ Stands(disk'["file"]) = kept
             /\ disk'["file"] = disk["file"] \/ disk'["file"] \in {Unreadable, NoNodes}
             /\ q.why = "reset" => kept = NoNodes
  <2>1. StartsFromNothing(q, disk["file"], kept)
    BY <1>2, <1>6 DEF Fits
  <2>2. q.fd \in {"file", "gone"} /\ q.data = NoNodes /\ (q.why = "reset" => kept = NoNodes)
        /\ r \notin Saving
    BY <1>2, <1>6, <2>1 DEF StartsFromNothing, Saving
  <2>3. CASE q.fd = "gone"
    BY <1>1, <1>6, <2>2, <2>3 DEF FillFile
  <2>4. CASE q.fd = "file"
    <3>1. kept = NoNodes /\ disk["file"] \in {Unreadable, NoNodes}
      BY <1>2, <2>1, <2>4 DEF StartsFromNothing
    <3>2. Laid(disk["file"], q.data) = {NoNodes}
      BY <1>3, <2>2, <3>1, LaidIs
    <3>3. disk' = [disk EXCEPT !["file"] = NoNodes]
      BY <2>4, <3>2 DEF FillFile
    <3>4. disk'["file"] = NoNodes /\ disk'["tmp"] = disk["tmp"]
      BY <1>1, <3>3
    <3>. QED  BY <2>2, <3>1, <3>4 DEF Stands
  <2>. QED  BY <2>2, <2>3, <2>4
<1>7. CASE q.why = "create"
  <2>. DEFINE next == At(q.op, "read", Nil, NoNodes, Nil)
  <2>1. next \in Call /\ next.pc = "read" /\ next.why = Nil /\ next.data = NoNodes
    BY <1>3, Lists DEF At, Call
  <2>2. Stepping(next) /\ Become(r, next) /\ UNCHANGED <<kept, raced>>
    BY <1>7, <2>1 DEF FillFile, Stepping, Nil
  <2>3. Fits(next, disk'["file"], disk'["tmp"], kept) /\ next.why # "save"
    BY <2>1 DEF Fits, StartsFromNothing, Nil
  <2>. HIDE DEF next
  <2>. QED  BY <1>1, <1>4, <1>6, <1>7, <2>1, <2>2, <2>3, OneMoves
<1>8. CASE q.why = "reset"
  <2>1. Decide(r, NoNodes) /\ kept' = kept
    BY <1>8 DEF FillFile
  <2>. QED  BY <1>2, <1>4, <1>6, <1>8, <2>1, Lists, Decides
<1>. QED  BY <1>3, <1>5, <1>7, <1>8

LEMMA RenameStep ==
  ASSUME NodesInv, NEW r \in Caller, Rename(r)
  PROVE  NodesInv'
<1>1. /\ disk \in [{"file", "tmp"} -> List \cup {NoFile, Unreadable}] /\ raced \in BOOLEAN
         /\ kept \in List
      /\ reqs \in [Caller -> {NoCall} \cup Call] /\ NodesTypeOK
      /\ \A s \in Caller : reqs[s].pc = "rename" => reqs[s].why = "save"
  BY DEF NodesInv, NodesTypeOK, Call
<1>2. r \in Calls /\ reqs[r] \in Call /\ reqs[r].op \in Op /\ reqs[r].why = "save"
      /\ reqs[r].pc = "rename"
  BY AtStep DEF Rename, Stepping, On, Call
<1>3. /\ raced' = (raced \/ \E s \in Calls : reqs[s].why = "reset")
      /\ raced' \in BOOLEAN
  BY <1>1 DEF Rename, Calls
<1>4. CASE Become(r, NoCall) /\ UNCHANGED <<disk, kept>>
  BY <1>3, <1>4, AnswersOne
<1>5. CASE disk["tmp"] # NoFile /\ disk' = [file |-> disk["tmp"], tmp |-> NoFile]
           /\ kept' = Apply(reqs[r].op, kept)
  <2>. DEFINE moved(fd) == IF fd = "file" THEN "gone" ELSE IF fd = "tmp" THEN "file" ELSE fd
  <2>1. reqs' = [s \in Caller |->
               IF s = r \/ On(s, "idle") THEN NoCall ELSE [reqs[s] EXCEPT !.fd = moved(@)]]
    BY <1>5 DEF Rename
  <2>2. ASSUME NEW s \in Calls \ {r}
        PROVE  /\ reqs'[s] \in Call /\ reqs'[s].fd = moved(reqs[s].fd)
               /\ reqs'[s].op = reqs[s].op /\ reqs'[s].pc = reqs[s].pc
               /\ reqs'[s].why = reqs[s].why /\ reqs'[s].data = reqs[s].data
    <3>1. reqs[s] \in Call /\ reqs'[s] = [reqs[s] EXCEPT !.fd = moved(@)]
      BY <1>1, <2>1, CallShape DEF Calls
    <3>. QED  BY <3>1 DEF Call
  <2>3. \A s \in Caller : (s \in Calls /\ s # r) \/ reqs'[s] = NoCall
    BY <2>1 DEF Calls
  <2>4. NoCall.pc = "idle"
    BY DEF NoCall
  <2>5. Calls' = Calls \ {r} /\ Saving' = Saving \ {r} /\ r \in Saving
    <3>1. Calls' = Calls \ {r}
      BY <2>2, <2>3, <2>4 DEF Calls, On, Call
    <3>. QED  BY <1>2, <3>1, <2>2 DEF Calls, Saving
  <2>6. reqs' \in [Caller -> {NoCall} \cup Call]
    BY <2>1, <2>2, <2>3
  <2>7. /\ disk' \in [{"file", "tmp"} -> List \cup {NoFile, Unreadable}] /\ kept' \in List
        /\ disk'["file"] = disk["tmp"] /\ disk'["tmp"] = NoFile
    BY <1>1, <1>2, <1>5, Lists
  <2>8. \A s \in Caller : reqs'[s].pc = "rename" => reqs'[s].why = "save"
    BY <1>1, <2>2, <2>3, <2>4 DEF Calls
  <2>9. NodesTypeOK'
    BY <1>3, <2>6, <2>7, <2>8 DEF NodesTypeOK, Call
  <2>10. \A s \in Calls' : Stepping(reqs'[s])
    BY <2>2, <2>5 DEF NodesInv, Stepping, Nil
  <2>11. ASSUME ~raced' PROVE Serial'
    <3>1. ~raced /\ Serial /\ \A s \in Calls : reqs[s].why # "reset"
      BY <1>3, <2>11 DEF NodesInv
    <3>2. Saving = {r} /\ Saving' = {}
      BY <2>5, <3>1 DEF Serial
    <3>3. disk["tmp"] = Apply(reqs[r].op, kept)
      BY <1>2, <3>1 DEF Serial, Fits, ChangeFollows
    <3>4. Stands(disk'["file"]) = kept'
      BY <1>1, <1>2, <1>5, <2>7, <3>3, Lists DEF Stands, Readable
    <3>5. ASSUME NEW s \in Calls' PROVE Fits(reqs'[s], disk'["file"], disk'["tmp"], kept')
      <4>1. s \in Calls \ {r} /\ s \notin Saving
        BY <2>5, <3>2, <3>5
      <4>2. reqs[s].why # "save" /\ reqs[s].why # "reset"
            /\ StartsFromNothing(reqs[s], disk["file"], kept)
        BY <3>1, <4>1 DEF Serial, Fits, Saving, Calls
      <4>3. reqs'[s].pc = "fill" => reqs'[s].fd = "gone"
        BY <2>2, <4>1, <4>2 DEF StartsFromNothing
      <4>. QED  BY <2>2, <4>1, <4>2, <4>3 DEF Fits, StartsFromNothing
    <3>. QED  BY <3>2, <3>4, <3>5 DEF Serial
  <2>. QED  BY <2>9, <2>10, <2>11 DEF NodesInv
<1>. QED  BY <1>4, <1>5 DEF Rename

LEMMA StopStep ==
  ASSUME NodesInv, Stop
  PROVE  NodesInv'
<1>1. /\ \A r \in Caller : reqs'[r] = NoCall
      /\ reqs' \in [Caller -> {NoCall}] /\ NoCall.pc = "idle"
      /\ UNCHANGED <<disk, kept, raced>>
  BY DEF Stop, NoCall
<1>2. Calls' = {} /\ Saving' = {}
  BY <1>1 DEF Calls, Saving, On
<1>3. NodesTypeOK'
  BY <1>1 DEF NodesInv, NodesTypeOK
<1>. QED  BY <1>1, <1>2, <1>3 DEF NodesInv, Serial

LEMMA NodesInductive ==
  ASSUME NodesInv, [NodesNext]_nodesVars
  PROVE  NodesInv'
<1>1. CASE Stop
  BY <1>1, StopStep
<1>2. ASSUME NEW r \in Caller,
             \/ Access(r) \/ ReadStore(r) \/ Open(r) \/ FillFile(r) \/ Rename(r)
             \/ \E op \in Op : Ask(r, op)
      PROVE  NodesInv'
  BY <1>2, AskStep, AccessStep, ReadStep, OpenStep, FillFileStep, RenameStep
<1>3. CASE UNCHANGED nodesVars
  BY <1>3 DEF nodesVars, NodesInv, NodesTypeOK, Serial, Calls, Saving, On
<1>. QED  BY <1>1, <1>2, <1>3 DEF NodesNext

LEMMA NodesStart ==
  ASSUME NodesInit
  PROVE  NodesInv
<1>1. Calls = {} /\ Saving = {} /\ \A r \in Caller : reqs[r].pc = "idle"
  BY DEF NodesInit, NoCall, Calls, Saving, On
<1>2. NodesTypeOK
  BY <1>1, Lists DEF NodesInit, NodesTypeOK
<1>3. Stands(disk["file"]) = kept
  BY Lists DEF NodesInit, Stands
<1>. QED  BY <1>1, <1>2, <1>3 DEF NodesInv, Serial

\* What the requests know of the two files of the list holds from the first start on.
THEOREM NodesInvariant == NodesSpec => []NodesInv
BY NodesStart, NodesInductive, PTL DEF NodesSpec

\* The two files hold lists, nothing or something unreadable, and only a change renames.
THEOREM NodesTyped == NodesSpec => []NodesTypeOK
<1>1. NodesInv => NodesTypeOK
  BY DEF NodesInv
<1>. QED  BY <1>1, NodesInvariant, PTL

\* nodes.json is what the answered changes make, one after the other, for any number
\* of nodes and requests, whatever else reads and wherever the process stops, as long
\* as no two changes overlap (writeStore, api/function/node/dataTool.js).
THEOREM NodesAreSerial == NodesSpec => []ListIsSerial
<1>1. NodesInv => ListIsSerial
  BY DEF NodesInv, Serial, Stands, ListIsSerial
<1>. QED  BY <1>1, NodesInvariant, PTL

(***************************************************************************)
(* The certificates.  What the properties say of rest and of connections is *)
(* kept up by what every job knows while others work (CAInv): a writer that *)
(* nothing disturbed is alone, and the files will belong together when it has *)
(* done (Alone, Whole); what a reader that nothing disturbed has read is what *)
(* the files hold (JobReads); the nodes that know an authority know the one in *)
(* the files (NodesKnow); and the watcher leaves the client's certificate time *)
(* enough until its next pass (Lasting).                                   *)
(***************************************************************************)
\* A file that holds a key or a certificate.
Pairs == [of : 1 .. Keys, by : 1 .. Keys]
JobRecord ==
  [do : {"idle", "watch", "renew", "write", "forward", "issue"}, node : Node \cup {Nobody},
   got : [File -> Content], next : 1 .. 4, open : BOOLEAN, calm : BOOLEAN]

NodeRecord == [caKey : Content, caCert : Content, ended : BOOLEAN]

\* The files a writer has still to fill, and what all hold when it has.
Todo(q) == {Order[i] : i \in q.next .. 4}
After(q) == [f \in File |-> IF f \in Todo(q) THEN q.got[f] ELSE files[f]]

\* Two keys and their certificates, the client's signed by the authority.
Belong(four) ==
  /\ four["caKey"] = four["caCert"]
  /\ four["clientCert"] = Pem(four["clientKey"].of, four["caKey"].of)
  /\ \A f \in File : four[f] # Torn

\* No authority is being replaced.
NobodyWritesCA == \A i \in Job : ~WritesCA(i)

\* What a job has at its step; a writer has something for each file it has still to fill.
JobSteps(q, j) ==
  /\ q.do = "renew" => j = Watcher /\ q.next \in 1 .. 2 /\ (q.next = 2 => q.got["caKey"] # None)
  /\ q.do = "watch" => j = Watcher
  /\ q.do = "write" => /\ \A f \in Todo(q) : q.got[f] \in Pairs
                       /\ q.got["caKey"] = None => q.next \in {3, 4}
  /\ q.do = "forward" => q.node \in Node

\* What a job has read is what the files hold, as long as nothing disturbed it.
JobReads(q) ==
  /\ q.do = "renew" /\ q.next = 2 /\ ~broken => q.got["caKey"] = files["caKey"]
  /\ q.do = "issue" /\ q.calm =>
       NobodyWritesCA /\ q.got["caKey"] = files["caKey"]
  /\ q.do = "forward" /\ q.calm =>
       /\ Writing = {}
       /\ q.got["caCert"] = files["caCert"]
       /\ q.next = 4 => q.got["clientKey"] = files["clientKey"]

\* Nothing runs in a process that is down; before it listens, the watcher makes the
\* files that are missing.
Living ==
  /\ status = "down" => \A j \in Job : Does(j, "idle")
  /\ status = "boot" => /\ \A j \in Request : Does(j, "idle")
                        /\ WritesCA(Watcher)
                        /\ \A f \in File \ Todo(jobs[Watcher]) : files[f] # None

\* A writer that nothing disturbed is alone, and without a disturbance all are.
Alone ==
  /\ \A j \in Writing : jobs[j].calm => Changing = {j}
  /\ ~broken => \A j \in Writing : jobs[j].calm

\* At rest the files belong together, and such a writer will leave them so.
Whole ==
  /\ ~broken /\ Writing = {} => Belong(files)
  /\ \A j \in Writing : jobs[j].calm /\ (~broken \/ WritesCA(j)) => Belong(After(jobs[j]))

\* A node that knows an authority knows the one in the files.
NodesKnow ==
  \A n \in Node : nodes[n] # Nothing =>
    NobodyWritesCA /\ nodes[n].caKey = files["caKey"] /\ nodes[n].caCert = files["caCert"]

\* The certificate lasts until the watcher's next pass, and has time to spare after it.
Lasting ==
  ~broken /\ status = "up" /\ Writing = {} =>
    left >= Threshold - 1 /\ (Does(Watcher, "idle") => left >= Threshold)

CAInv ==
  /\ CATypeOK
  /\ \A j \in Job : JobSteps(jobs[j], j) /\ JobReads(jobs[j])
  /\ Living /\ Alone /\ Whole /\ NodesKnow /\ Lasting
-----------------------------------------------------------------------------
LEMMA Contents ==
  /\ Content = Pairs \cup {None, Torn} /\ None \notin Pairs /\ Torn \notin Pairs /\ None # Torn
  /\ \A k, l \in 1 .. Keys : Pem(k, l) \in Pairs
  /\ \A c \in Pairs : c.of \in 1 .. Keys /\ c.by \in 1 .. Keys
  /\ \A k, l : Pem(k, l).of = k /\ Pem(k, l).by = l
BY CAAssumption DEF Content, Pairs, None, Torn, Pem

LEMMA Files ==
  ASSUME NEW four \in [File -> Content]
  PROVE  /\ None \in Range(four) <=> \E f \in File : four[f] = None
         /\ four["caKey"] \in Content /\ four["caCert"] \in Content
         /\ four["clientKey"] \in Content /\ four["clientCert"] \in Content
         /\ four.caKey = four["caKey"] /\ four.caCert = four["caCert"]
         /\ four.clientKey = four["clientKey"] /\ four.clientCert = four["clientCert"]
BY DEF File, Range

LEMMA Orders ==
  ASSUME NEW q \in JobRecord
  PROVE  /\ Order[q.next] \in Todo(q) /\ Todo(q) \subseteq File
         /\ q.next = 1 => Todo(q) = File
         /\ q.next = 3 => Todo(q) = {"clientKey", "clientCert"}
         /\ q.next \in {3, 4} => Todo(q) \subseteq {"clientKey", "clientCert"}
         /\ q.next = 4 => Todo(q) = {"clientCert"}
         /\ \A p \in JobRecord :
              q.next < 4 /\ p.next = q.next + 1 => Todo(p) = Todo(q) \ {Order[q.next]}
<1>1. q.next \in {1, 2, 3, 4} /\ \A p \in JobRecord : p.next \in 1 .. 4
  BY DEF JobRecord
<1>2. Order[1] = "caKey" /\ Order[2] = "caCert" /\ Order[3] = "clientKey" /\ Order[4] = "clientCert"
  BY DEF Order
<1>3. ASSUME NEW p \in JobRecord
      PROVE  Todo(p) = (IF p.next = 1 THEN File
                        ELSE IF p.next = 2 THEN {"caCert", "clientKey", "clientCert"}
                        ELSE IF p.next = 3 THEN {"clientKey", "clientCert"} ELSE {"clientCert"})
  <2>1. p.next \in {1, 2, 3, 4}
    BY <1>1
  <2>2. CASE p.next = 1
    <3>1. p.next .. 4 = {1, 2, 3, 4}
      BY <2>2
    <3>. QED  BY <1>2, <2>2, <3>1 DEF Todo, File
  <2>3. CASE p.next = 2
    <3>1. p.next .. 4 = {2, 3, 4}
      BY <2>3
    <3>. QED  BY <1>2, <2>3, <3>1 DEF Todo, File
  <2>4. CASE p.next = 3
    <3>1. p.next .. 4 = {3, 4}
      BY <2>4
    <3>. QED  BY <1>2, <2>4, <3>1 DEF Todo, File
  <2>5. CASE p.next = 4
    <3>1. p.next .. 4 = {4}
      BY <2>5
    <3>. QED  BY <1>2, <2>5, <3>1 DEF Todo, File
  <2>. QED  BY <2>1, <2>2, <2>3, <2>4, <2>5
<1>. QED  BY <1>1, <1>2, <1>3 DEF File

\* A new key is one of the keys.
LEMMA NewKeyIs ==
  ASSUME CATypeOK, Fresh # {}
  PROVE  NewKey \in 1 .. Keys
<1>1. Fresh \subseteq 1 .. Keys /\ Fresh \subseteq Nat
  BY CAAssumption DEF Fresh
<1>2. PICK m \in Fresh : \A n \in Fresh : <<n, m>> \notin OpToRel(<, Nat)
  BY <1>1, NatLessThanWellFounded, WFMin
<1>3. \A n \in Fresh : ~(n < m)
  BY <1>1, <1>2 DEF OpToRel
<1>4. \A n \in Fresh : m =< n
  BY <1>1, <1>3
<1>. QED  BY <1>1, <1>4 DEF NewKey, Min

LEMMA Typed ==
  ASSUME CATypeOK
  PROVE  /\ status \in {"down", "boot", "first", "up"} /\ files \in [File -> Content]
         /\ left \in 0 .. Life /\ caLeft \in 0 .. Threshold /\ broken \in BOOLEAN
         /\ jobs \in [Job -> JobRecord]
         /\ nodes \in [Node -> NodeRecord]
         /\ Listening => \A f \in File : files[f] # None
BY Files DEF CATypeOK, JobRecord, NodeRecord

LEMMA IdleIs ==
  /\ Idle \in JobRecord /\ Idle.do = "idle"
  /\ \A j : JobSteps(Idle, j) /\ JobReads(Idle)
<1>1. /\ Idle = [do |-> "idle", node |-> Nobody, got |-> [f \in File |-> None], next |-> 1,
                 open |-> FALSE, calm |-> TRUE]
  BY DEF Idle, Doing
<1>2. [f \in File |-> None] \in [File -> Content]
  BY Contents
<1>3. Idle \in JobRecord /\ Idle.do = "idle"
  BY <1>1, <1>2 DEF JobRecord
<1>. QED  BY <1>3 DEF JobSteps, JobReads

LEMMA DoingIs ==
  ASSUME NEW what \in {"idle", "watch", "renew", "write", "forward", "issue"},
         NEW n \in Node \cup {Nobody}, NEW next \in 1 .. 4
  PROVE  LET q == Doing(what, n, next) IN
         /\ q \in JobRecord /\ q.do = what /\ q.node = n /\ q.next = next
         /\ q.got = [f \in File |-> None] /\ ~q.open /\ q.calm
<1>1. [f \in File |-> None] \in [File -> Content]
  BY Contents
<1>. QED  BY <1>1 DEF Doing, JobRecord

\* A step of one job that neither writes nor stops writing.
LEMMA JobMoves ==
  ASSUME CAInv, NEW j \in Job, NEW q \in JobRecord, jobs' = [jobs EXCEPT ![j] = q],
         UNCHANGED <<status, files, left, caLeft, broken>>, Listening,
         nodes' \in [Node -> NodeRecord], NodesKnow',
         jobs[j].do # "write", q.do # "write", q.do = "renew" => jobs[j].do = "renew",
         j = Watcher /\ q.do = "idle" => jobs[j].do = "idle",
         JobSteps(q, j), JobReads(q)
  PROVE  CAInv'
<1>1. /\ jobs \in [Job -> JobRecord] /\ jobs' \in [Job -> JobRecord]
      /\ jobs'[j] = q /\ \A i \in Job \ {j} : jobs'[i] = jobs[i]
  BY Typed DEF CAInv
<1>2. CATypeOK'
  BY <1>1 DEF CAInv, CATypeOK, JobRecord, NodeRecord, Listening
<1>3. /\ Writing' = Writing /\ Changing' \subseteq Changing
      /\ \A i \in Writing : i # j /\ jobs'[i] = jobs[i]
  BY <1>1 DEF Writing, Changing, Does
<1>4. \A i \in Job : WritesCA(i)' = WritesCA(i)
  BY <1>1 DEF WritesCA, Does
<1>5. NobodyWritesCA' = NobodyWritesCA
  BY <1>4 DEF NobodyWritesCA
<1>6. ASSUME NEW i \in Job PROVE (JobSteps(jobs[i], i) /\ JobReads(jobs[i]))'
  <2>1. CASE i = j
    BY <1>1, <1>3, <1>5, <2>1 DEF JobSteps, JobReads
  <2>2. CASE i # j
    <3>1. JobSteps(jobs[i], i) /\ JobReads(jobs[i]) /\ jobs'[i] = jobs[i]
      BY <1>1, <2>2 DEF CAInv
    <3>. QED  BY <1>3, <1>5, <3>1 DEF JobSteps, JobReads
  <2>. QED  BY <2>1, <2>2
<1>7. Living'
  BY DEF Living, Listening
<1>8. Alone'
  <2>1. \A i \in Writing : i \in Changing'
    BY <1>3 DEF Changing
  <2>. QED  BY <1>3, <2>1 DEF CAInv, Alone
<1>9. Whole'
  BY <1>3, <1>4 DEF CAInv, Whole, After, Writing
<1>10. Lasting'
  BY <1>1, <1>3 DEF CAInv, Lasting, Does, Job
<1>. QED  BY <1>2, <1>6, <1>7, <1>8, <1>9, <1>10 DEF CAInv

\* The parts of the invariant that speak of the nodes only.
LEMMA NodesStill ==
  ASSUME CAInv, NEW j \in Job, NEW q \in JobRecord, jobs' = [jobs EXCEPT ![j] = q],
         UNCHANGED <<files, nodes>>, jobs[j].do # "write", q.do # "write"
  PROVE  /\ nodes' \in [Node -> NodeRecord] /\ NodesKnow'
<1>1. /\ jobs \in [Job -> JobRecord]
      /\ jobs'[j] = q /\ \A i \in Job \ {j} : jobs'[i] = jobs[i]
  BY Typed DEF CAInv
<1>2. \A i \in Job : WritesCA(i)' = WritesCA(i)
  BY <1>1 DEF WritesCA, Does
<1>3. NobodyWritesCA' = NobodyWritesCA
  BY <1>2 DEF NobodyWritesCA
<1>. QED  BY <1>3, Typed DEF CAInv, NodesKnow

LEMMA OnlyLiving ==
  ASSUME CAInv, NEW j \in Job, ~Does(j, "idle")
  PROVE  /\ status = "boot" => j = Watcher /\ Does(j, "write")
         /\ ~Does(j, "write") => Listening
         /\ jobs[j] \in JobRecord /\ JobSteps(jobs[j], j) /\ JobReads(jobs[j])
<1>1. status = "boot" => j = Watcher /\ Does(j, "write")
  BY DEF CAInv, Living, WritesCA, Job
<1>2. status # "down"
  BY DEF CAInv, Living
<1>. QED  BY <1>1, <1>2, Typed DEF CAInv, Listening

LEMMA BeginIssueStep ==
  ASSUME CAInv, NEW j \in Request, NEW n \in Node, BeginIssue(j, n)
  PROVE  CAInv'
<1>. DEFINE q == [Doing("issue", n, 2) EXCEPT !.got.caKey = files.caKey,
                                              !.calm = ~\E i \in Job : WritesCA(i)]
<1>1. /\ q \in JobRecord /\ q.do = "issue" /\ (q.calm => NobodyWritesCA)
      /\ q.got["caKey"] = files["caKey"]
  <2>1. PICK p \in JobRecord : p = Doing("issue", n, 2) /\ p.do = "issue"
    BY DoingIs
  <2>2. /\ files["caKey"] \in Content /\ files.caKey = files["caKey"] /\ "caKey" \in File
    BY Typed, Files DEF CAInv, File
  <2>. DEFINE got == [p.got EXCEPT !["caKey"] = files["caKey"]]
  <2>3. got \in [File -> Content] /\ got["caKey"] = files["caKey"]
    <3>1. p.got \in [File -> Content]
      BY DEF JobRecord
    <3>. QED  BY <2>2, <3>1
  <2>4. PICK calm \in BOOLEAN : calm <=> ~\E i \in Job : WritesCA(i)
    BY Zenon
  <2>5. q = [p EXCEPT !.got = got, !.calm = calm]
    BY <2>1, <2>2, <2>3, <2>4
  <2>. HIDE DEF q, got
  <2>. QED  BY <2>1, <2>3, <2>4, <2>5 DEF JobRecord, NobodyWritesCA
<1>2. JobSteps(q, j) /\ JobReads(q)
  BY <1>1 DEF JobSteps, JobReads
<1>3. /\ Listening /\ jobs[j].do = "idle" /\ jobs' = [jobs EXCEPT ![j] = q] /\ j \in Job
      /\ UNCHANGED <<status, files, left, caLeft, nodes, broken>>
  BY DEF BeginIssue, Begin, Does, Job
<1>. HIDE DEF q
<1>4. NodesKnow' /\ nodes' \in [Node -> NodeRecord]
  BY <1>1, <1>3, NodesStill
<1>. QED  BY <1>1, <1>2, <1>3, <1>4, JobMoves

LEMMA BeginForwardStep ==
  ASSUME CAInv, NEW j \in Request, NEW n \in Node, BeginForward(j, n)
  PROVE  CAInv'
<1>. DEFINE q == [Doing("forward", n, 3) EXCEPT !.got.caCert = files.caCert, !.calm = Writing = {}]
<1>1. /\ q \in JobRecord /\ q.do = "forward" /\ q.next = 3 /\ q.node = n
      /\ (q.calm => Writing = {}) /\ q.got["caCert"] = files["caCert"]
  <2>1. PICK p \in JobRecord :
        p = Doing("forward", n, 3) /\ p.do = "forward" /\ p.next = 3 /\ p.node = n
    BY DoingIs
  <2>2. /\ files["caCert"] \in Content /\ files.caCert = files["caCert"] /\ "caCert" \in File
    BY Typed, Files DEF CAInv, File
  <2>. DEFINE got == [p.got EXCEPT !["caCert"] = files["caCert"]]
  <2>3. got \in [File -> Content] /\ got["caCert"] = files["caCert"]
    <3>1. p.got \in [File -> Content]
      BY DEF JobRecord
    <3>. QED  BY <2>2, <3>1
  <2>4. PICK calm \in BOOLEAN : calm <=> Writing = {}
    BY Zenon
  <2>5. q = [p EXCEPT !.got = got, !.calm = calm]
    BY <2>1, <2>2, <2>3, <2>4
  <2>. HIDE DEF q, got
  <2>. QED  BY <2>1, <2>3, <2>4, <2>5 DEF JobRecord
<1>2. JobSteps(q, j) /\ JobReads(q)
  <2>. HIDE DEF q
  <2>. QED  BY <1>1 DEF JobSteps, JobReads
<1>3. /\ Listening /\ jobs[j].do = "idle" /\ jobs' = [jobs EXCEPT ![j] = q] /\ j \in Job
      /\ UNCHANGED <<status, files, left, caLeft, nodes, broken>>
  BY DEF BeginForward, Begin, Does, Job
<1>. HIDE DEF q
<1>4. NodesKnow' /\ nodes' \in [Node -> NodeRecord]
  BY <1>1, <1>3, NodesStill
<1>. QED  BY <1>1, <1>2, <1>3, <1>4, JobMoves

\* Reading the file f.
LEMMA ReadIs ==
  ASSUME CAInv, NEW j \in Job, NEW f \in File, jobs[j].next # 4, Read(j, f)
  PROVE  \E q \in JobRecord :
         /\ jobs' = [jobs EXCEPT ![j] = q]
         /\ q.do = jobs[j].do /\ q.node = jobs[j].node /\ q.calm = jobs[j].calm
         /\ q.next = jobs[j].next + 1
         /\ q.got[f] = files[f] /\ \A g \in File \ {f} : q.got[g] = jobs[j].got[g]
<1>. DEFINE got == [jobs[j].got EXCEPT ![f] = files[f]]
            next == jobs[j].next + 1
            q == [jobs[j] EXCEPT !.got = got, !.next = next]
<1>1. jobs[j] \in JobRecord /\ files[f] \in Content /\ jobs \in [Job -> JobRecord]
  BY Typed DEF CAInv
<1>2. jobs[j].next \in 1 .. 3 /\ jobs[j].got \in [File -> Content]
  BY <1>1 DEF JobRecord
<1>3. got \in [File -> Content] /\ got[f] = files[f]
      /\ \A g \in File \ {f} : got[g] = jobs[j].got[g]
  BY <1>1, <1>2
<1>4. jobs' = [jobs EXCEPT ![j] = q]
  BY <1>1 DEF Read
<1>5. next \in 1 .. 4
  BY <1>2
<1>. HIDE DEF got, next
<1>6. /\ q \in JobRecord /\ q.do = jobs[j].do /\ q.node = jobs[j].node /\ q.calm = jobs[j].calm
      /\ q.next = next /\ q.got = got
  BY <1>1, <1>3, <1>5 DEF JobRecord
<1>. QED  BY <1>3, <1>4, <1>6 DEF next

LEMMA RenewReadsKeyStep ==
  ASSUME CAInv, RenewReadsKey
  PROVE  CAInv'
<1>. DEFINE j == Watcher
<1>1. /\ j \in Job /\ jobs[j].do = "renew" /\ ~Does(j, "idle") /\ jobs[j].next = 1
         /\ "caKey" \in File
      /\ UNCHANGED <<status, files, left, caLeft, nodes, broken>> /\ Read(j, "caKey")
  BY DEF RenewReadsKey, Does, Job, File
<1>2. PICK q \in JobRecord :
      /\ jobs' = [jobs EXCEPT ![j] = q] /\ q.do = "renew"
      /\ q.calm = jobs[j].calm /\ q.next = 2 /\ q.got["caKey"] = files["caKey"]
  BY <1>1, ReadIs
<1>3. Listening /\ JobReads(jobs[j])
  BY <1>1, OnlyLiving DEF Does
<1>4. JobSteps(q, j) /\ JobReads(q)
  BY <1>1, <1>2, <1>3, Typed DEF JobSteps, JobReads, CAInv
<1>5. NodesKnow' /\ nodes' \in [Node -> NodeRecord]
  BY <1>1, <1>2, NodesStill
<1>. QED  BY <1>1, <1>2, <1>3, <1>4, <1>5, JobMoves

LEMMA ForwardReadsStep ==
  ASSUME CAInv, NEW j \in Request, ForwardReadsKey(j)
  PROVE  CAInv'
<1>1. /\ j \in Job /\ jobs[j].do = "forward" /\ ~Does(j, "idle") /\ jobs[j].next = 3
         /\ "clientKey" \in File /\ "caCert" \in File \ {"clientKey"}
      /\ UNCHANGED <<status, files, left, caLeft, nodes, broken>> /\ Read(j, "clientKey")
  BY DEF ForwardReadsKey, Does, Job, File
<1>2. Listening /\ JobReads(jobs[j]) /\ JobSteps(jobs[j], j)
  BY <1>1, OnlyLiving DEF Does
<1>3. PICK q \in JobRecord :
      /\ jobs' = [jobs EXCEPT ![j] = q] /\ q.do = "forward" /\ q.node = jobs[j].node
      /\ q.calm = jobs[j].calm /\ q.next = 4
      /\ q.got["clientKey"] = files["clientKey"] /\ q.got["caCert"] = jobs[j].got["caCert"]
  BY <1>1, ReadIs
<1>4. JobSteps(q, j) /\ JobReads(q)
  BY <1>1, <1>2, <1>3 DEF JobSteps, JobReads
<1>5. NodesKnow' /\ nodes' \in [Node -> NodeRecord]
  BY <1>1, <1>3, NodesStill
<1>. QED  BY <1>1, <1>2, <1>3, <1>4, <1>5, JobMoves

LEMMA ConnectStep ==
  ASSUME CAInv, NEW j \in Request, Connect(j)
  PROVE  CAInv'
<1>1. /\ j \in Job /\ jobs[j].do = "forward" /\ ~Does(j, "idle") /\ j # Watcher
      /\ UNCHANGED <<status, files, left, caLeft, nodes, broken>> /\ jobs' = [jobs EXCEPT ![j] = Idle]
  BY CAAssumption DEF Connect, Does, Job, Watcher
<1>2. Listening
  BY <1>1, OnlyLiving DEF Does
<1>3. NodesKnow' /\ nodes' \in [Node -> NodeRecord]
  BY <1>1, IdleIs, NodesStill
<1>. QED  BY <1>1, <1>2, <1>3, IdleIs, JobMoves

LEMMA IssueStep ==
  ASSUME CAInv, NEW j \in Request, Issue(j)
  PROVE  CAInv'
<1>1. /\ j \in Job /\ jobs[j].do = "issue" /\ ~Does(j, "idle") /\ j # Watcher
      /\ UNCHANGED <<status, files, left, caLeft, broken>> /\ jobs' = [jobs EXCEPT ![j] = Idle]
  BY CAAssumption DEF Issue, Does, Job, Watcher
<1>2. jobs[j] \in JobRecord /\ Listening /\ JobReads(jobs[j]) /\ JobSteps(jobs[j], j)
  BY <1>1, OnlyLiving DEF Does
<1>. DEFINE n == jobs[j].node
            new == Given(jobs[j].got["caKey"], files["caCert"])
<1>3. /\ nodes \in [Node -> NodeRecord] /\ files \in [File -> Content]
      /\ jobs \in [Job -> JobRecord]
  BY Typed DEF CAInv
<1>4. jobs[j].got \in [File -> Content]
  BY <1>2 DEF JobRecord
<1>5. jobs[j].got.caKey = jobs[j].got["caKey"] /\ files.caCert = files["caCert"]
  BY <1>3, <1>4, Files
<1>6. PICK c \in {new, Nothing} : /\ nodes' = nodes \/ nodes' = [nodes EXCEPT ![n] = c]
                                  /\ c = new => jobs[j].calm \/ c = Nothing
  BY <1>5 DEF Issue
<1>7. /\ new \in NodeRecord /\ Nothing \in NodeRecord
      /\ new.caKey = jobs[j].got["caKey"] /\ new.caCert = files["caCert"]
  BY <1>3, <1>4, Contents, Files DEF Nothing, Given, NodeRecord
<1>8. nodes' \in [Node -> NodeRecord]
  BY <1>3, <1>6, <1>7
<1>9. c # Nothing => NobodyWritesCA /\ c.caKey = files["caKey"] /\ c.caCert = files["caCert"]
  BY <1>1, <1>2, <1>6, <1>7 DEF JobReads
<1>10. NobodyWritesCA' = NobodyWritesCA
  <2>1. /\ jobs'[j] = Idle /\ \A i \in Job \ {j} : jobs'[i] = jobs[i]
    BY <1>1, <1>3
  <2>2. \A i \in Job : WritesCA(i)' = WritesCA(i)
    BY <1>1, <2>1, IdleIs DEF WritesCA, Does
  <2>. QED  BY <2>2 DEF NobodyWritesCA
<1>11. \A m \in Node : nodes'[m] # Nothing =>
         NobodyWritesCA /\ nodes'[m].caKey = files["caKey"] /\ nodes'[m].caCert = files["caCert"]
  <2>. HIDE DEF new
  <2>. QED  BY <1>3, <1>6, <1>9 DEF CAInv, NodesKnow
<1>12. NodesKnow'
  BY <1>1, <1>10, <1>11 DEF NodesKnow
<1>. QED  BY <1>1, <1>2, <1>8, <1>12, IdleIs, JobMoves

LEMMA CrashStep ==
  ASSUME CAInv, Crash
  PROVE  CAInv'
<1>1. /\ \A j \in Job : jobs'[j] = Idle
      /\ jobs' \in [Job -> {Idle}] /\ status' = "down"
      /\ broken' = (broken \/ Writing # {}) /\ UNCHANGED <<files, left, caLeft, nodes>>
  BY DEF Crash
<1>2. Writing' = {} /\ NobodyWritesCA' /\ \A j \in Job : Does(j, "idle")'
  BY <1>1, IdleIs DEF Writing, NobodyWritesCA, WritesCA, Does
<1>3. CATypeOK'
  <2>1. jobs' \in [Job -> JobRecord]
    BY <1>1, IdleIs
  <2>2. ~Listening' /\ broken' \in BOOLEAN /\ status' \in {"down", "boot", "first", "up"}
    BY <1>1, Typed DEF CAInv, Listening
  <2>. QED  BY <1>1, <2>1, <2>2 DEF CAInv, CATypeOK, JobRecord, NodeRecord
<1>4. ASSUME NEW j \in Job PROVE (JobSteps(jobs[j], j) /\ JobReads(jobs[j]))'
  <2>1. jobs'[j].do = "idle"
    BY <1>1, IdleIs
  <2>. QED  BY <2>1 DEF JobSteps, JobReads
<1>5. Living' /\ Alone' /\ Lasting'
  BY <1>1, <1>2 DEF Living, Alone, Lasting
<1>6. Whole' /\ NodesKnow'
  BY <1>1, <1>2 DEF CAInv, Whole, NodesKnow, Belong
<1>. QED  BY <1>3, <1>4, <1>5, <1>6 DEF CAInv

\* The watcher's pass begins and nobody else moves.
LEMMA WatchBegins ==
  ASSUME CAInv, Does(Watcher, "idle"), Writing = {},
         \/ jobs' = jobs /\ ~Listening'
         \/ jobs' = [jobs EXCEPT ![Watcher] = Doing("watch", Nobody, 4)] /\ Listening'
              /\ \A f \in File : files[f] # None,
         UNCHANGED <<files, nodes, broken>>, left' \in 0 .. Life, caLeft' \in 0 .. Threshold,
         status' = status \/ (status = "down" /\ status' = "first"),
         Lasting'
  PROVE  CAInv'
<1>0. PICK w \in JobRecord : w = Doing("watch", Nobody, 4) /\ w.do = "watch"
  BY DoingIs
<1>1. /\ jobs \in [Job -> JobRecord] /\ jobs' \in [Job -> JobRecord] /\ Watcher \in Job
      /\ \A j \in Job : jobs'[j] = jobs[j] \/ (j = Watcher /\ jobs'[j].do = "watch")
  BY <1>0, Typed DEF CAInv, Job
<1>2. /\ jobs[Watcher].do = "idle" /\ \A j \in Job : jobs[j].do # "write"
      /\ \A j \in Job : jobs'[j].do = jobs[j].do \/ jobs'[j].do = "watch"
  BY <1>1 DEF Does, Writing
<1>3. Writing' = {} /\ NobodyWritesCA' /\ NobodyWritesCA
  BY <1>2 DEF Writing, NobodyWritesCA, WritesCA, Does
<1>4. CATypeOK'
  <2>1. Listening' => None \notin Range(files)
    BY Typed, Files DEF CAInv, Listening
  <2>2. status' \in {"down", "boot", "first", "up"}
    BY Typed DEF CAInv
  <2>. QED  BY <1>1, <2>1, <2>2 DEF CAInv, CATypeOK, JobRecord, NodeRecord
<1>5. ASSUME NEW j \in Job PROVE (JobSteps(jobs[j], j) /\ JobReads(jobs[j]))'
  <2>1. CASE jobs'[j] = jobs[j]
    <3>1. JobSteps(jobs[j], j) /\ JobReads(jobs[j])
      BY DEF CAInv
    <3>. QED  BY <1>3, <2>1, <3>1 DEF JobSteps, JobReads
  <2>2. CASE j = Watcher /\ jobs'[j].do = "watch"
    BY <2>2 DEF JobSteps, JobReads
  <2>. QED  BY <1>1, <2>1, <2>2
<1>6. Living'
  <2>1. status # "boot" /\ status' # "boot"
    BY <1>2 DEF CAInv, Living, WritesCA, Does, Job
  <2>2. status' = "down" => status = "down" /\ \A j \in Job : jobs'[j] = jobs[j]
    BY DEF Listening
  <2>. QED  BY <2>1, <2>2 DEF CAInv, Living, Does
<1>7. Alone'
  BY <1>3 DEF Alone
<1>8. Whole' /\ NodesKnow'
  BY <1>3 DEF CAInv, Whole, NodesKnow, Belong
<1>. QED  BY <1>4, <1>5, <1>6, <1>7, <1>8 DEF CAInv

LEMMA HourStep ==
  ASSUME CAInv, Hour
  PROVE  CAInv'
<1>1. /\ left \in Nat /\ left \in 0 .. Life /\ Threshold \in Nat /\ Threshold >= 2
      /\ caLeft \in 0 .. Threshold /\ jobs \in [Job -> JobRecord] /\ Watcher \in Job
      /\ Listening => \A f \in File : files[f] # None
  BY CAAssumption, Typed DEF CAInv, Job
<1>2. /\ Does(Watcher, "idle") /\ Writing = {}
      /\ left' = IF left > 0 THEN left - 1 ELSE 0
      /\ caLeft' = (IF caLeft > 0 THEN caLeft - 1 ELSE 0) \/ caLeft' = caLeft
      /\ jobs' = IF Listening THEN [jobs EXCEPT ![Watcher] = Doing("watch", Nobody, 4)] ELSE jobs
      /\ UNCHANGED <<status, files, nodes, broken>>
  BY DEF Hour, OneLess
<1>3. left' \in 0 .. Life /\ left' >= left - 1 /\ left' \in Nat /\ caLeft' \in 0 .. Threshold
  BY <1>1, <1>2, CAAssumption
<1>4. Listening' = Listening
  BY <1>2 DEF Listening
<1>5. Lasting'
  <2>1. status = "up" => Listening /\ jobs'[Watcher].do = "watch"
    BY <1>1, <1>2, DoingIs DEF Listening
  <2>2. ~broken /\ status = "up" => left >= Threshold
    BY <1>1, <1>2 DEF CAInv, Lasting
  <2>3. ~broken /\ status = "up" => left' >= Threshold - 1
    BY <1>1, <1>3, <2>2
  <2>. QED  BY <1>2, <2>1, <2>3 DEF Lasting, Does
<1>6. CASE Listening
  BY <1>1, <1>2, <1>3, <1>4, <1>5, <1>6, WatchBegins
<1>7. CASE ~Listening
  BY <1>1, <1>2, <1>3, <1>4, <1>5, <1>7, WatchBegins
<1>. QED  BY <1>6, <1>7

LEMMA NodeCertEndsStep ==
  ASSUME CAInv, NEW n \in Node, NodeCertEnds(n)
  PROVE  CAInv'
<1>. DEFINE c == [nodes[n] EXCEPT !.ended = TRUE]
<1>1. /\ nodes \in [Node -> NodeRecord] /\ nodes[n] # Nothing
      /\ nodes' = [nodes EXCEPT ![n].ended = TRUE]
      /\ UNCHANGED <<status, files, left, caLeft, jobs, broken>>
  BY Typed DEF CAInv, NodeCertEnds
<1>2. c \in NodeRecord /\ c.caKey = nodes[n].caKey /\ c.caCert = nodes[n].caCert
  BY <1>1 DEF NodeRecord
<1>3. nodes' = [nodes EXCEPT ![n] = c]
  BY <1>1
<1>. HIDE DEF c
<1>4. nodes' \in [Node -> NodeRecord] /\ NodesKnow'
  BY <1>1, <1>2, <1>3 DEF CAInv, NodesKnow, NobodyWritesCA, WritesCA, Does
<1>. QED
  BY <1>1, <1>4 DEF CAInv, CATypeOK, NodeRecord, JobSteps, JobReads, Living, Alone, Whole, Lasting,
       Writing, Changing, NobodyWritesCA, WritesCA, Does, After, Listening, Belong

LEMMA PassStep ==
  ASSUME CAInv, Pass
  PROVE  CAInv'
<1>. DEFINE renew == files.clientCert # Torn /\ ShouldRenew
            dimmed(i) == [jobs[i] EXCEPT !.calm = @ /\ ~(renew /\ Does(i, "write"))]
<1>1. /\ jobs[Watcher].do = "watch" /\ UNCHANGED <<files, left, caLeft, nodes>>
      /\ jobs' = [j \in Job |-> IF j = Watcher THEN IF renew THEN Doing("renew", Nobody, 1) ELSE Idle
                                ELSE dimmed(j)]
      /\ broken' = (broken \/ (renew /\ Changing # {}))
      /\ status' = IF renew THEN status ELSE "up"
  BY DEF Pass, Does
<1>2. PICK w \in JobRecord :
        /\ w.do = IF renew THEN "renew" ELSE "idle"
        /\ w.next = 1
        /\ w = IF renew THEN Doing("renew", Nobody, 1) ELSE Idle
  BY DoingIs DEF Idle
<1>3. /\ jobs \in [Job -> JobRecord] /\ Watcher \in Job /\ broken \in BOOLEAN /\ left \in Nat
      /\ Threshold \in Nat /\ files \in [File -> Content]
      /\ status \in {"down", "boot", "first", "up"}
  BY CAAssumption, Typed DEF CAInv, Job
<1>4. Listening /\ \A f \in File : files[f] # None
  BY <1>1, <1>3, OnlyLiving, Typed DEF CAInv, Does
<1>5. renew \in BOOLEAN
  BY DEF ShouldRenew
<1>6. ASSUME NEW i \in Job, i # Watcher
      PROVE  /\ jobs'[i] \in JobRecord /\ jobs'[i].do = jobs[i].do
             /\ jobs'[i].got = jobs[i].got /\ jobs'[i].next = jobs[i].next
             /\ jobs'[i].node = jobs[i].node
             /\ jobs'[i].calm => jobs[i].calm /\ ~(renew /\ jobs[i].do = "write")
  <2>1. jobs'[i] = dimmed(i)
    BY <1>1, <1>6
  <2>2. jobs[i] \in JobRecord
    BY <1>3
  <2>. HIDE DEF renew
  <2>. QED  BY <2>1, <2>2 DEF JobRecord, Does
<1>7. jobs'[Watcher] = w /\ jobs' \in [Job -> JobRecord]
  BY <1>1, <1>2, <1>3, <1>6
<1>. HIDE DEF renew
<1>8. /\ Writing' = Writing /\ Watcher \notin Writing /\ Watcher \notin Changing
      /\ Changing' = IF renew THEN Changing \cup {Watcher} ELSE Changing
  BY <1>1, <1>2, <1>3, <1>6, <1>7 DEF Writing, Changing, Does
<1>9. \A i \in Job : WritesCA(i)' = WritesCA(i)
  BY <1>1, <1>2, <1>6, <1>7 DEF WritesCA, Does
<1>10. NobodyWritesCA' = NobodyWritesCA
  BY <1>9 DEF NobodyWritesCA
<1>11. /\ status' \in {"first", "up"} /\ broken' \in BOOLEAN /\ (broken => broken')
       /\ Writing \subseteq Changing /\ (renew /\ ~broken' => Changing = {})
  BY <1>1, <1>3, <1>4 DEF Listening, Writing, Changing
<1>12. CATypeOK'
  <2>1. None \notin Range(files)
    BY <1>3, <1>4, Files
  <2>. QED  BY <1>1, <1>7, <1>11, <2>1 DEF CAInv, CATypeOK, JobRecord, NodeRecord
<1>13. ASSUME NEW i \in Job PROVE (JobSteps(jobs[i], i) /\ JobReads(jobs[i]))'
  <2>1. CASE i = Watcher
    BY <1>2, <1>7, <2>1 DEF JobSteps, JobReads
  <2>2. CASE i # Watcher
    <3>1. JobSteps(jobs[i], i) /\ JobReads(jobs[i])
      BY DEF CAInv
    <3>2. Todo(jobs'[i]) = Todo(jobs[i])
      BY <1>6, <2>2 DEF Todo
    <3>. QED  BY <1>1, <1>6, <1>8, <1>10, <1>11, <2>2, <3>1, <3>2 DEF JobSteps, JobReads
  <2>. QED  BY <2>1, <2>2
<1>14. Living'
  BY <1>11 DEF Living
<1>15. Alone'
  <2>1. ASSUME NEW i \in Writing', jobs'[i].calm PROVE Changing' = {i}
    <3>1. i \in Writing /\ i # Watcher /\ i \in Job /\ jobs[i].do = "write"
      BY <1>8, <2>1 DEF Writing, Does
    <3>. QED  BY <1>6, <1>8, <2>1, <3>1 DEF CAInv, Alone
  <2>2. ASSUME ~broken', NEW i \in Writing' PROVE jobs'[i].calm
    <3>1. ~broken /\ i \in Writing /\ i # Watcher /\ i \in Job /\ ~renew
      BY <1>8, <1>11, <2>2 DEF Writing
    <3>2. jobs[i].calm /\ jobs[i] \in JobRecord /\ jobs'[i] = dimmed(i)
      BY <1>1, <1>3, <3>1 DEF CAInv, Alone
    <3>. QED  BY <3>1, <3>2 DEF JobRecord
  <2>. QED  BY <2>1, <2>2 DEF Alone
<1>16. Whole'
  <2>1. ~broken' /\ Writing' = {} => Belong(files')
    BY <1>1, <1>8, <1>11 DEF CAInv, Whole
  <2>2. ASSUME NEW i \in Writing', jobs'[i].calm, ~broken' \/ WritesCA(i)' PROVE Belong(After(jobs[i]))'
    <3>1. i \in Writing /\ i # Watcher /\ i \in Job /\ (~broken \/ WritesCA(i))
      BY <1>8, <1>9, <1>11, <2>2 DEF Writing
    <3>2. Belong(After(jobs[i]))
      BY <1>6, <2>2, <3>1 DEF CAInv, Whole
    <3>3. After(jobs[i])' = After(jobs[i])
      BY <1>1, <1>6, <3>1 DEF After, Todo
    <3>. QED  BY <3>2, <3>3 DEF Belong
  <2>. QED  BY <2>1, <2>2 DEF Whole, Belong
<1>17. NodesKnow'
  BY <1>1, <1>10 DEF CAInv, NodesKnow
<1>18. Lasting'
  <2>1. CASE renew
    BY <1>1, <1>2, <1>7, <1>8, <1>11, <2>1 DEF CAInv, Lasting, Does
  <2>2. ASSUME ~renew, ~broken', Writing' = {} PROVE left >= Threshold
    <3>1. files["clientCert"] # Torn
      BY <1>8, <1>11, <2>2 DEF CAInv, Whole, Belong, File
    <3>2. files.clientCert # Torn
      BY <1>3, <3>1, Files
    <3>. QED  BY <1>3, <2>2, <3>2 DEF ShouldRenew, renew
  <2>. QED  BY <1>1, <1>3, <2>1, <2>2 DEF Lasting
<1>. QED  BY <1>12, <1>13, <1>14, <1>15, <1>16, <1>17, <1>18 DEF CAInv

\* Four files.
LEMMA FourFiles ==
  ASSUME NEW a \in Content, NEW b \in Content, NEW c \in Content, NEW d \in Content, NEW four,
         four = [caKey |-> a, caCert |-> b, clientKey |-> c, clientCert |-> d]
  PROVE  /\ four \in [File -> Content]
         /\ four["caKey"] = a /\ four["caCert"] = b /\ four["clientKey"] = c
            /\ four["clientCert"] = d
<1>1. four \in [File -> Content]
  BY SMT DEF File
<1>2. four["caKey"] = a /\ four["caCert"] = b /\ four["clientKey"] = c /\ four["clientCert"] = d
  BY SMT
<1>. QED  BY <1>1, <1>2

\* What is made of an authority and a key, and written: all, or the client's files.
Written(ca, k, all) ==
  [Made(ca, k) EXCEPT !.caKey = IF all THEN @ ELSE None, !.caCert = IF all THEN @ ELSE None]

LEMMA WrittenIs ==
  ASSUME NEW ca \in Pairs, NEW k \in 1 .. Keys, NEW all \in BOOLEAN
  PROVE  \E new \in [File -> Content] :
         /\ new = Written(ca, k, all)
         /\ new["clientKey"] = Pem(k, k) /\ new["clientCert"] = Pem(k, ca.of)
         /\ IF all THEN new["caKey"] = ca /\ new["caCert"] = ca ELSE new["caKey"] = None
         /\ Pem(k, k) \in Pairs /\ Pem(k, ca.of) \in Pairs /\ Pem(k, k).of = k
<1>. DEFINE a == IF all THEN ca ELSE None
            c == Pem(k, k)
            d == Pem(k, ca.of)
            new == [caKey |-> a, caCert |-> a, clientKey |-> c, clientCert |-> d]
<1>1. /\ a \in Content /\ c \in Content /\ d \in Content /\ c \in Pairs /\ d \in Pairs /\ c.of = k
  BY Contents
<1>2. Made(ca, k) = [caKey |-> ca, caCert |-> ca, clientKey |-> c, clientCert |-> d]
  BY DEF Made
<1>3. /\ new \in [File -> Content] /\ new["caKey"] = a /\ new["caCert"] = a
      /\ new["clientKey"] = c /\ new["clientCert"] = d
  <2>. HIDE DEF a, c, d
  <2>. QED  BY <1>1, FourFiles
<1>4. Made(ca, k).caKey = ca /\ Made(ca, k).caCert = ca
  BY <1>2
<1>5. [Made(ca, k) EXCEPT !.caKey = a, !.caCert = a] = new
  <2>. HIDE DEF a, c, d
  <2>1. [Made(ca, k) EXCEPT !.caKey = a]
          = [caKey |-> a, caCert |-> ca, clientKey |-> c, clientCert |-> d]
    BY <1>2
  <2>2. [[caKey |-> a, caCert |-> ca, clientKey |-> c, clientCert |-> d] EXCEPT !.caCert = a] = new
    BY DEF new
  <2>. QED  BY <2>1, <2>2
<1>. QED  BY <1>1, <1>3, <1>4, <1>5 DEF Written

\* A writer begins: in peace with all who change the files, or all of them know.
LEMMA StartsWriting ==
  ASSUME CAInv, NEW j \in Job, NEW ca \in Pairs, NEW k \in 1 .. Keys, NEW all \in BOOLEAN,
         StartWriting(j, ca, k, all), UNCHANGED <<files, left, caLeft>>,
         jobs[j].do # "write",
         \/ Listening /\ status' = status
         \/ status = "down" /\ status' = "boot" /\ j = Watcher /\ all,
         ~all /\ ~broken => ca = files["caKey"]
  PROVE  CAInv'
<1>. DEFINE others == Changing \ {j}
            disturbed == {i \in Job \ {j} :
              IF all THEN ~Does(i, "idle") ELSE Does(i, "forward") \/ i \in others}
            next == IF all THEN 1 ELSE 3
            w == [Doing("write", Nobody, next) EXCEPT !.got = Written(ca, k, all), !.calm = others = {}]
<1>1. /\ jobs' = [i \in Job |-> IF i = j THEN w ELSE [jobs[i] EXCEPT !.calm = @
         /\ i \notin disturbed]]
      /\ broken' = (broken \/ others # {})
      /\ nodes' = IF all THEN [n \in Node |-> Nothing] ELSE nodes
  BY DEF StartWriting, Written
<1>2. PICK made \in [File -> Content] :
      /\ made = Written(ca, k, all)
      /\ made["clientKey"] = Pem(k, k) /\ made["clientCert"] = Pem(k, ca.of)
      /\ IF all THEN made["caKey"] = ca /\ made["caCert"] = ca ELSE made["caKey"] = None
      /\ Pem(k, k) \in Pairs /\ Pem(k, ca.of) \in Pairs /\ Pem(k, k).of = k
  BY WrittenIs
<1>3. next \in {1, 3} /\ next = IF all THEN 1 ELSE 3
  OBVIOUS
<1>4. /\ w \in JobRecord /\ w.do = "write" /\ w.next = next /\ w.got = made
      /\ w.calm <=> others = {}
  <2>1. PICK calm \in BOOLEAN : calm <=> others = {}
    BY Zenon
  <2>2. PICK q \in JobRecord : q = Doing("write", Nobody, next) /\ q.do = "write" /\ q.next = next
    BY <1>3, DoingIs
  <2>3. w = [q EXCEPT !.got = made, !.calm = calm]
    BY <1>2, <2>1, <2>2
  <2>. HIDE DEF w, others, next
  <2>. QED  BY <1>2, <2>1, <2>2, <2>3 DEF JobRecord
<1>5. /\ jobs \in [Job -> JobRecord] /\ files \in [File -> Content] /\ broken \in BOOLEAN
      /\ nodes \in [Node -> NodeRecord]
      /\ status \in {"down", "boot", "first", "up"}
      /\ Listening => None \notin Range(files)
  BY Typed DEF CAInv, CATypeOK
<1>. HIDE DEF w, next
<1>6. ASSUME NEW i \in Job, i # j
      PROVE  /\ jobs'[i] \in JobRecord /\ jobs'[i].do = jobs[i].do
             /\ jobs'[i].got = jobs[i].got /\ jobs'[i].next = jobs[i].next
             /\ jobs'[i].node = jobs[i].node
             /\ jobs'[i].calm => jobs[i].calm /\ i \notin disturbed
  <2>1. jobs'[i] = [jobs[i] EXCEPT !.calm = @ /\ i \notin disturbed] /\ jobs[i] \in JobRecord
    BY <1>1, <1>5, <1>6
  <2>. HIDE DEF disturbed
  <2>. QED  BY <2>1 DEF JobRecord
<1>7. jobs'[j] = w /\ jobs' \in [Job -> JobRecord]
  BY <1>1, <1>4, <1>6
<1>8. /\ Writing' = Writing \cup {j} /\ j \notin Writing /\ Writing \subseteq others
      /\ Changing' = Changing \cup {j} /\ broken' \in BOOLEAN
      /\ ~broken' => ~broken /\ others = {}
  <2>1. /\ Writing' = Writing \cup {j} /\ j \notin Writing
    BY <1>4, <1>6, <1>7 DEF Writing, Does
  <2>2. Changing' = Changing \cup {j} /\ Writing \subseteq Changing
    BY <1>4, <1>6, <1>7, <2>1 DEF Writing, Changing, Does
  <2>. QED  BY <1>1, <1>5, <2>1, <2>2
<1>9. /\ \A i \in Job \ {j} : WritesCA(i)' = WritesCA(i)
      /\ WritesCA(j)' = all
  <2>1. \A i \in Job \ {j} : WritesCA(i)' = WritesCA(i)
    BY <1>6 DEF WritesCA, Does
  <2>2. ca # None
    BY Contents
  <2>3. jobs'[j].got.caKey = made["caKey"]
    BY <1>2, <1>4, <1>7, Files
  <2>. QED  BY <1>2, <1>4, <1>7, <2>1, <2>2, <2>3 DEF WritesCA, Does
<1>10. ~all => NobodyWritesCA' = NobodyWritesCA
  <2>1. ~WritesCA(j)
    BY DEF WritesCA, Does
  <2>. QED  BY <1>9, <2>1 DEF NobodyWritesCA
<1>11. CATypeOK'
  <2>1. Nothing \in NodeRecord
    BY Contents DEF Nothing, Given, NodeRecord
  <2>2. nodes' \in [Node -> NodeRecord]
    BY <1>1, <1>5, <2>1
  <2>3. status' \in {"down", "boot", "first", "up"} /\ (Listening' => Listening)
    BY <1>5 DEF Listening
  <2>. QED  BY <1>5, <1>7, <1>8, <2>2, <2>3 DEF CAInv, CATypeOK, JobRecord, NodeRecord
<1>12. Todo(w) = (IF all THEN File ELSE {"clientKey", "clientCert"})
       /\ "caKey" \notin {"clientKey", "clientCert"}
  BY <1>3, <1>4, Orders
<1>13. \A f \in Todo(w) : made[f] \in Pairs
  BY <1>2, <1>12 DEF File
<1>14. ASSUME NEW i \in Job PROVE JobSteps(jobs'[i], i)
  <2>1. CASE i = j
    BY <1>2, <1>3, <1>4, <1>7, <1>13, <2>1, Contents DEF JobSteps
  <2>2. CASE i # j
    <3>1. JobSteps(jobs[i], i)
      BY DEF CAInv
    <3>2. Todo(jobs'[i]) = Todo(jobs[i])
      BY <1>6, <2>2 DEF Todo
    <3>. QED  BY <1>6, <2>2, <3>1, <3>2 DEF JobSteps
  <2>. QED  BY <2>1, <2>2
<1>15. ASSUME NEW i \in Job PROVE JobReads(jobs[i])'
  <2>1. CASE i = j
    BY <1>4, <1>7, <2>1 DEF JobReads
  <2>2. CASE i # j
    <3>1. JobReads(jobs[i])
      BY DEF CAInv
    <3>2. jobs[i].do = "renew" => others # {}
      BY <2>2 DEF Changing, Does
    <3>3. jobs[i].do = "issue" /\ jobs'[i].calm => ~all
      BY <1>6, <2>2 DEF Does
    <3>4. jobs[i].do = "forward" => ~jobs'[i].calm
      BY <1>6, <2>2 DEF Does
    <3>. QED  BY <1>6, <1>8, <1>10, <2>2, <3>1, <3>2, <3>3, <3>4 DEF JobReads
  <2>. QED  BY <2>1, <2>2
<1>16. Living'
  <2>1. CASE Listening /\ status' = status
    BY <2>1 DEF Living, Listening
  <2>2. CASE status = "down" /\ status' = "boot" /\ j = Watcher /\ all
    <3>1. ASSUME NEW i \in Request PROVE Does(i, "idle")'
      <4>1. i \in Job /\ i # j /\ jobs[i].do = "idle"
        BY <2>2, CAAssumption DEF Job, Watcher, CAInv, Living, Does
      <4>. QED  BY <1>6, <4>1 DEF Does
    <3>2. Todo(jobs'[Watcher]) = File
      BY <1>7, <1>12, <2>2
    <3>. QED  BY <1>9, <2>2, <3>1, <3>2 DEF Living
  <2>. QED  BY <2>1, <2>2
<1>17. ASSUME NEW i \in Writing', jobs'[i].calm
       PROVE  i = j /\ others = {}
  <2>1. i # j => i \in others /\ i \in Job /\ ~Does(i, "idle")
    BY <1>8, <1>17 DEF Changing, Writing, Does
  <2>2. i # j => i \in disturbed
    BY <2>1
  <2>. QED  BY <1>4, <1>6, <1>7, <1>17, <2>1, <2>2
<1>18. Alone'
  <2>1. ASSUME NEW i \in Writing', jobs'[i].calm PROVE Changing' = {i}
    BY <1>8, <1>17, <2>1
  <2>2. ASSUME ~broken', NEW i \in Writing' PROVE jobs'[i].calm
    BY <1>4, <1>7, <1>8, <2>2
  <2>. QED  BY <2>1, <2>2 DEF Alone
<1>19. Whole'
  <2>. DEFINE four == [f \in File |-> IF f \in Todo(w) THEN made[f] ELSE files[f]]
  <2>1. ASSUME others = {}, ~broken \/ all PROVE Belong(four)
    <3>1. CASE all
      <4>1. four = made
        BY <1>2, <1>12, <3>1
      <4>2. \A f \in File : made[f] # Torn
        BY <1>12, <1>13, <3>1, Contents
      <4>. HIDE DEF four
      <4>. QED  BY <1>2, <3>1, <4>1, <4>2 DEF Belong
    <3>2. CASE ~all
      <4>1. Belong(files) /\ ca = files["caKey"]
        BY <1>8, <2>1, <3>2 DEF CAInv, Whole
      <4>2. /\ four["caKey"] = files["caKey"] /\ four["caCert"] = files["caCert"]
            /\ four["clientKey"] = made["clientKey"] /\ four["clientCert"] = made["clientCert"]
        BY <1>12, <3>2 DEF File
      <4>3. \A f \in File : four[f] # Torn
        BY <1>12, <1>13, <4>1, Contents DEF Belong
      <4>. HIDE DEF four
      <4>. QED  BY <1>2, <4>1, <4>2, <4>3 DEF Belong
    <3>. QED  BY <3>1, <3>2
  <2>2. After(jobs[j])' = four
    BY <1>4, <1>7 DEF After
  <2>3. ASSUME NEW i \in Writing', jobs'[i].calm, ~broken' \/ WritesCA(i)' PROVE Belong(After(jobs[i]))'
    <3>1. i = j /\ others = {} /\ (~broken \/ all)
      BY <1>8, <1>9, <1>17, <2>3
    <3>. QED  BY <2>1, <2>2, <3>1 DEF Belong
  <2>. QED  BY <1>8, <2>3 DEF Whole
<1>20. NodesKnow'
  <2>1. CASE all
    BY <1>1, <2>1 DEF NodesKnow
  <2>2. CASE ~all
    BY <1>1, <1>10, <2>2 DEF CAInv, NodesKnow
  <2>. QED  BY <2>1, <2>2
<1>21. Lasting'
  BY <1>8 DEF Lasting
<1>. QED  BY <1>11, <1>14, <1>15, <1>16, <1>18, <1>19, <1>20, <1>21 DEF CAInv

LEMMA FreshPair ==
  ASSUME CATypeOK, Fresh # {}
  PROVE  NewKey \in 1 .. Keys /\ Pem(NewKey, NewKey) \in Pairs
BY NewKeyIs, Contents

LEMMA RegenerateStep ==
  ASSUME CAInv, NEW j \in Request, RegenerateCA(j)
  PROVE  CAInv'
<1>1. /\ Listening /\ jobs[j].do = "idle" /\ Fresh # {} /\ j \in Job
      /\ StartWriting(j, Pem(NewKey, NewKey), NewKey, TRUE)
      /\ UNCHANGED <<status, files, left, caLeft>>
  BY DEF RegenerateCA, Regenerate, Does, Job
<1>2. NewKey \in 1 .. Keys /\ Pem(NewKey, NewKey) \in Pairs
  BY <1>1, FreshPair DEF CAInv
<1>. QED  BY <1>1, <1>2, StartsWriting

LEMMA StartStep ==
  ASSUME CAInv, Start
  PROVE  CAInv'
<1>1. /\ status = "down" /\ Watcher \in Job /\ \A j \in Job : Does(j, "idle")
      /\ UNCHANGED <<files, left, caLeft>>
  BY DEF Start, CAInv, Living, Job
<1>5. Writing = {} /\ Does(Watcher, "idle")
  BY <1>1 DEF Writing, Does
<1>2. /\ files \in [File -> Content] /\ left \in 0 .. Life /\ caLeft \in 0 .. Threshold
  BY Typed DEF CAInv
<1>3. CASE status' = "boot" /\ Regenerate(Watcher)
  <2>1. Fresh # {} /\ StartWriting(Watcher, Pem(NewKey, NewKey), NewKey, TRUE)
    BY <1>3 DEF Regenerate
  <2>2. NewKey \in 1 .. Keys /\ Pem(NewKey, NewKey) \in Pairs
    BY <2>1, FreshPair DEF CAInv
  <2>3. jobs[Watcher].do # "write"
    BY <1>1 DEF Does
  <2>. QED  BY <1>1, <1>3, <2>1, <2>2, <2>3, StartsWriting
<1>4. CASE None \notin Range(files) /\ status' = "first" /\ UNCHANGED <<nodes, broken>>
           /\ jobs' = [jobs EXCEPT ![Watcher] = Doing("watch", Nobody, 4)]
  <2>1. \A f \in File : files[f] # None
    BY <1>2, <1>4, Files
  <2>2. Listening' /\ Lasting'
    BY <1>4 DEF Listening, Lasting
  <2>. QED  BY <1>1, <1>2, <1>4, <1>5, <2>1, <2>2, WatchBegins
<1>. QED  BY <1>3, <1>4 DEF Start

LEMMA RenewReadsCertStep ==
  ASSUME CAInv, RenewReadsCert
  PROVE  CAInv'
<1>. DEFINE caKey == jobs[Watcher].got["caKey"]
            aged == caLeft < Threshold
<1>1. /\ jobs \in [Job -> JobRecord] /\ files \in [File -> Content] /\ caLeft \in 0 .. Threshold
      /\ Watcher \in Job /\ status \in {"down", "boot", "first", "up"}
  BY Typed DEF CAInv, Job
<1>2. jobs[Watcher].got.caKey = caKey /\ files.caCert = files["caCert"]
  BY <1>1, Files DEF JobRecord
<1>3. /\ jobs[Watcher].do = "renew" /\ jobs[Watcher].next = 2 /\ ~Does(Watcher, "idle")
      /\ UNCHANGED <<files, left, caLeft>>
  BY DEF RenewReadsCert, Does
<1>4. /\ Listening /\ caKey # None /\ caKey \in Content
      /\ ~broken => caKey = files["caKey"]
  BY <1>1, <1>3, OnlyLiving, Files DEF JobSteps, JobReads, Does, JobRecord
<1>5. Watcher \in Changing /\ Watcher \notin Writing
  BY <1>1, <1>3 DEF Changing, Writing, Does
<1>6. ~broken => Writing = {}
  BY <1>5 DEF CAInv, Alone, Writing
<1>7. CASE /\ files["caCert"] = Torn \/ (~aged /\ caKey = Torn)
           /\ jobs' = [jobs EXCEPT ![Watcher] = Idle] /\ status' = "up"
           /\ UNCHANGED <<nodes, broken>>
  <2>1. broken
    BY <1>4, <1>6, <1>7 DEF CAInv, Whole, Belong, File
  <2>2. /\ jobs' \in [Job -> JobRecord]
        /\ jobs'[Watcher] = Idle /\ \A i \in Job \ {Watcher} : jobs'[i] = jobs[i]
    BY <1>1, <1>7, IdleIs
  <2>3. /\ Writing' = Writing /\ Changing' = Changing \ {Watcher} /\ Watcher \notin Writing
    BY <1>5, <2>2, IdleIs DEF Writing, Changing, Does
  <2>4. \A i \in Job : WritesCA(i)' = WritesCA(i)
    BY <1>3, <2>2, IdleIs DEF WritesCA, Does
  <2>5. NobodyWritesCA' = NobodyWritesCA
    BY <2>4 DEF NobodyWritesCA
  <2>6. CATypeOK'
    <3>1. Listening' => None \notin Range(files)
      BY <1>4 DEF CAInv, CATypeOK
    <3>. QED  BY <1>3, <1>7, <2>2, <3>1 DEF CAInv, CATypeOK, JobRecord, NodeRecord
  <2>7. ASSUME NEW i \in Job PROVE (JobSteps(jobs[i], i) /\ JobReads(jobs[i]))'
    <3>1. CASE i = Watcher
      BY <2>2, <3>1, IdleIs DEF JobSteps, JobReads
    <3>2. CASE i # Watcher
      <4>1. JobSteps(jobs[i], i) /\ JobReads(jobs[i]) /\ jobs'[i] = jobs[i]
        BY <2>2, <3>2 DEF CAInv
      <4>. QED  BY <1>3, <1>7, <2>3, <2>5, <4>1 DEF JobSteps, JobReads
    <3>. QED  BY <3>1, <3>2
  <2>8. Living' /\ Lasting'
    BY <1>7, <2>1 DEF Living, Lasting
  <2>9. Alone'
    <3>1. \A i \in Writing : i \in Changing' /\ jobs'[i] = jobs[i]
      BY <2>2, <2>3 DEF Writing, Changing
    <3>. QED  BY <1>7, <2>1, <2>3, <3>1 DEF CAInv, Alone
  <2>10. Whole'
    <3>1. ASSUME NEW i \in Writing', jobs'[i].calm, WritesCA(i)' PROVE Belong(After(jobs[i]))'
      <4>1. i \in Writing /\ i \in Job /\ jobs'[i] = jobs[i] /\ WritesCA(i)
        BY <2>2, <2>3, <2>4, <3>1 DEF Writing
      <4>2. Belong(After(jobs[i])) /\ After(jobs[i])' = After(jobs[i])
        BY <1>3, <3>1, <4>1 DEF CAInv, Whole, After
      <4>. QED  BY <4>2 DEF Belong
    <3>. QED  BY <1>7, <2>1, <3>1 DEF Whole
  <2>11. NodesKnow'
    BY <1>3, <1>7, <2>5 DEF CAInv, NodesKnow
  <2>. QED  BY <2>6, <2>7, <2>8, <2>9, <2>10, <2>11 DEF CAInv
<1>8. CASE aged /\ Regenerate(Watcher) /\ UNCHANGED status
  <2>1. Fresh # {} /\ StartWriting(Watcher, Pem(NewKey, NewKey), NewKey, TRUE)
    BY <1>8 DEF Regenerate
  <2>2. NewKey \in 1 .. Keys /\ Pem(NewKey, NewKey) \in Pairs
    BY <2>1, FreshPair DEF CAInv
  <2>. QED  BY <1>1, <1>3, <1>4, <1>8, <2>1, <2>2, StartsWriting
<1>9. CASE /\ ~(files["caCert"] = Torn \/ (~aged /\ caKey = Torn)) /\ ~aged /\ UNCHANGED status
           /\ Fresh # {} /\ StartWriting(Watcher, caKey, NewKey, FALSE)
  <2>1. caKey \in Pairs
    BY <1>4, <1>9, Contents
  <2>2. NewKey \in 1 .. Keys
    BY <1>9, FreshPair DEF CAInv
  <2>. HIDE DEF caKey
  <2>. QED  BY <1>1, <1>3, <1>4, <1>9, <2>1, <2>2, StartsWriting
<1>. QED  BY <1>2, <1>7, <1>8, <1>9 DEF RenewReadsCert

\* What the others know of a writer.
LEMMA WriterIs ==
  ASSUME CAInv, NEW j \in Writing
  PROVE  /\ j \in Job /\ jobs[j] \in JobRecord /\ jobs[j].do = "write" /\ status # "down"
         /\ status = "boot" => j = Watcher
         /\ Order[jobs[j].next] \in Todo(jobs[j]) /\ Todo(jobs[j]) \subseteq File
         /\ \A f \in Todo(jobs[j]) : jobs[j].got[f] \in Pairs
         /\ ~WritesCA(j) => Todo(jobs[j]) \subseteq {"clientKey", "clientCert"}
         /\ \A i \in Job : jobs[i].do = "forward" => ~jobs[i].calm
         /\ \A i \in Job : jobs[i].do = "issue" /\ jobs[i].calm => NobodyWritesCA
         /\ jobs[j].calm => \A i \in Job \ {j} : jobs[i].do # "renew" /\ jobs[i].do # "write"
         /\ ~broken => jobs[j].calm
<1>1. j \in Job /\ jobs[j] \in JobRecord /\ jobs[j].do = "write" /\ ~Does(j, "idle")
  BY Typed DEF CAInv, Writing, Does
<1>2. JobSteps(jobs[j], j) /\ (status = "boot" => j = Watcher) /\ status # "down"
  BY <1>1, OnlyLiving DEF CAInv, Living
<1>3. /\ Order[jobs[j].next] \in Todo(jobs[j]) /\ Todo(jobs[j]) \subseteq File
      /\ jobs[j].next \in {3, 4} => Todo(jobs[j]) \subseteq {"clientKey", "clientCert"}
  BY <1>1, Orders
<1>4. ~WritesCA(j) => jobs[j].next \in {3, 4}
  <2>1. jobs[j].got.caKey = jobs[j].got["caKey"]
    BY <1>1, Files DEF JobRecord
  <2>. QED  BY <1>1, <1>2, <2>1 DEF WritesCA, Does, JobSteps
<1>5. \A i \in Job : JobReads(jobs[i])
  BY DEF CAInv
<1>6. jobs[j].calm => \A i \in Job \ {j} : jobs[i].do # "renew" /\ jobs[i].do # "write"
  BY DEF CAInv, Alone, Changing, Writing, Does
<1>7. ~broken => jobs[j].calm
  BY DEF CAInv, Alone
<1>. QED  BY <1>1, <1>2, <1>3, <1>4, <1>5, <1>6, <1>7 DEF JobSteps, JobReads

\* A writer fills or empties its file and has not done.
LEMMA WriterMoves ==
  ASSUME CAInv, NEW j \in Writing, NEW q \in JobRecord, NEW c \in Content, c # None,
         jobs' = [jobs EXCEPT ![j] = q], files' = [files EXCEPT ![Order[jobs[j].next]] = c],
         UNCHANGED <<status, nodes, broken>>, left' \in 0 .. Life, caLeft' \in 0 .. Threshold,
         q.do = "write", q.got = jobs[j].got, q.calm = jobs[j].calm,
         \/ q.next = jobs[j].next
         \/ /\ jobs[j].next < 4 /\ q.next = jobs[j].next + 1
            /\ c = jobs[j].got[Order[jobs[j].next]]
  PROVE  CAInv'
<1>. DEFINE f == Order[jobs[j].next]
<1>1. /\ j \in Job /\ jobs[j] \in JobRecord /\ jobs[j].do = "write" /\ status # "down"
      /\ status = "boot" => j = Watcher
      /\ f \in Todo(jobs[j]) /\ Todo(jobs[j]) \subseteq File
      /\ \A g \in Todo(jobs[j]) : jobs[j].got[g] \in Pairs
      /\ ~WritesCA(j) => Todo(jobs[j]) \subseteq {"clientKey", "clientCert"}
      /\ \A i \in Job : jobs[i].do = "forward" => ~jobs[i].calm
      /\ \A i \in Job : jobs[i].do = "issue" /\ jobs[i].calm => NobodyWritesCA
      /\ jobs[j].calm => \A i \in Job \ {j} : jobs[i].do # "renew" /\ jobs[i].do # "write"
      /\ ~broken => jobs[j].calm
  BY WriterIs
<1>2. /\ jobs \in [Job -> JobRecord] /\ files \in [File -> Content]
      /\ status \in {"down", "boot", "first", "up"}
      /\ Listening => \A g \in File : files[g] # None
  BY Typed DEF CAInv
<1>3. /\ jobs' \in [Job -> JobRecord] /\ jobs'[j] = q /\ \A i \in Job \ {j} : jobs'[i] = jobs[i]
  BY <1>1, <1>2
<1>4. \/ Todo(q) = Todo(jobs[j])
      \/ Todo(q) = Todo(jobs[j]) \ {f} /\ c = jobs[j].got[f]
  <2>1. CASE q.next = jobs[j].next
    BY <2>1 DEF Todo
  <2>2. CASE jobs[j].next < 4 /\ q.next = jobs[j].next + 1 /\ c = jobs[j].got[f]
    BY <1>1, <2>2, Orders
  <2>. QED  BY <2>1, <2>2
<1>5. UNCHANGED <<status, nodes, broken>> /\ files' = [files EXCEPT ![f] = c]
  OBVIOUS
<1>. HIDE DEF f
<1>6. /\ files' \in [File -> Content] /\ files'[f] = c
      /\ \A g \in File \ {f} : files'[g] = files[g]
  <2>1. f \in File
    BY <1>1
  <2>. QED  BY <1>2, <1>5, <2>1
<1>7. Writing' = Writing /\ Changing' = Changing
  BY <1>1, <1>3 DEF Writing, Changing, Does
<1>8. \A i \in Job : WritesCA(i)' = WritesCA(i)
  BY <1>1, <1>3 DEF WritesCA, Does
<1>9. NobodyWritesCA' = NobodyWritesCA
  BY <1>8 DEF NobodyWritesCA
<1>10. NobodyWritesCA => files'["caKey"] = files["caKey"] /\ files'["caCert"] = files["caCert"]
  BY <1>1, <1>6 DEF NobodyWritesCA, File
<1>11. CATypeOK'
  <2>1. Listening' => \A g \in File : files'[g] # None
    BY <1>2, <1>5, <1>6 DEF Listening
  <2>2. Listening' => None \notin Range(files')
    BY <1>6, <2>1, Files
  <2>. QED  BY <1>2, <1>3, <1>5, <1>6, <2>2, Typed DEF CAInv, CATypeOK, JobRecord, NodeRecord
<1>12. ASSUME NEW i \in Job PROVE (JobSteps(jobs[i], i) /\ JobReads(jobs[i]))'
  <2>1. JobSteps(jobs[i], i) /\ JobReads(jobs[i])
    BY DEF CAInv
  <2>2. CASE i = j
    <3>1. q.got["caKey"] = None => q.next \in {3, 4}
      <4>1. jobs[j].got["caKey"] = None => jobs[j].next \in {3, 4}
        BY <1>1, <2>1, <2>2 DEF JobSteps
      <4>. QED  BY <4>1
    <3>. QED  BY <1>1, <1>3, <1>4, <2>2, <3>1 DEF JobSteps, JobReads
  <2>3. CASE i # j
    <3>1. jobs[i].do = "renew" => broken
      BY <1>1, <2>3
    <3>. QED  BY <1>1, <1>3, <1>5, <1>9, <1>10, <2>1, <2>3, <3>1 DEF JobSteps, JobReads
  <2>. QED  BY <2>2, <2>3
<1>13. Living'
  <2>1. ASSUME status = "boot" PROVE \A i \in Request : Does(i, "idle")'
    <3>1. j \notin Request /\ \A i \in Request : Does(i, "idle") /\ i \in Job
      BY <1>1, <2>1, CAAssumption DEF CAInv, Living, Watcher, Job
    <3>. QED  BY <1>3, <3>1 DEF Does
  <2>2. ASSUME status = "boot", NEW g \in File \ Todo(q) PROVE files'[g] # None
    <3>1. j = Watcher /\ (g \in File \ Todo(jobs[j]) \/ g = f)
      BY <1>1, <1>4, <2>2
    <3>. QED  BY <1>5, <1>6, <2>2, <3>1 DEF CAInv, Living
  <2>3. status = "boot" => jobs'[Watcher] = q /\ WritesCA(Watcher)'
    BY <1>1, <1>3, <1>8 DEF CAInv, Living
  <2>. QED  BY <1>1, <1>5, <2>1, <2>2, <2>3 DEF Living
<1>14. \A i \in Writing : jobs'[i].calm = jobs[i].calm
  BY <1>3 DEF Writing
<1>15. Alone'
  BY <1>5, <1>7, <1>14 DEF CAInv, Alone
<1>16. Whole'
  <2>1. ASSUME NEW i \in Writing', jobs'[i].calm, ~broken' \/ WritesCA(i)' PROVE Belong(After(jobs[i]))'
    <3>1. i = j
      BY <1>1, <1>7, <1>14, <2>1 DEF CAInv, Alone, Changing, Writing, Does
    <3>2. Belong(After(jobs[j]))
      BY <1>1, <1>5, <1>7, <1>8, <1>14, <2>1, <3>1 DEF CAInv, Whole
    <3>3. After(jobs[j])' = After(jobs[j])
      <4>1. \A g \in File : (IF g \in Todo(q) THEN q.got[g] ELSE files'[g])
                             = (IF g \in Todo(jobs[j]) THEN jobs[j].got[g] ELSE files[g])
        BY <1>1, <1>4, <1>6
      <4>. QED  BY <1>3, <4>1 DEF After
    <3>. QED  BY <3>1, <3>2, <3>3 DEF Belong
  <2>. QED  BY <1>7, <2>1 DEF Whole
<1>17. NodesKnow'
  BY <1>5, <1>9, <1>10 DEF CAInv, NodesKnow
<1>18. Lasting'
  BY <1>7 DEF Lasting
<1>. QED  BY <1>11, <1>12, <1>13, <1>15, <1>16, <1>17, <1>18 DEF CAInv

LEMMA EmptyStep ==
  ASSUME CAInv, NEW j \in Job, Empty(j)
  PROVE  CAInv'
<1>1. /\ j \in Writing /\ jobs' = [jobs EXCEPT ![j].open = TRUE]
      /\ files' = [files EXCEPT ![Order[jobs[j].next]] = Torn]
      /\ UNCHANGED <<status, left, caLeft, nodes, broken>>
  BY DEF Empty, Writing
<1>2. /\ jobs \in [Job -> JobRecord] /\ jobs[j] \in JobRecord /\ jobs[j].do = "write"
      /\ left \in 0 .. Life /\ caLeft \in 0 .. Threshold
  BY <1>1, WriterIs, Typed DEF CAInv
<1>. DEFINE q == [jobs[j] EXCEPT !.open = TRUE]
<1>3. /\ q \in JobRecord /\ q.do = "write" /\ q.got = jobs[j].got /\ q.calm = jobs[j].calm
      /\ q.next = jobs[j].next
  BY <1>2 DEF JobRecord
<1>4. jobs' = [jobs EXCEPT ![j] = q]
  BY <1>1, <1>2
<1>. HIDE DEF q
<1>. QED  BY <1>1, <1>2, <1>3, <1>4, Contents, WriterMoves

\* A writer has filled its last file, the client's certificate.
LEMMA WriterEnds ==
  ASSUME CAInv, NEW j \in Writing, NEW q \in JobRecord, jobs[j].next = 4,
         jobs' = [jobs EXCEPT ![j] = q],
         files' = [files EXCEPT !["clientCert"] = jobs[j].got["clientCert"]],
         q.do = "idle" \/ (q.do = "watch" /\ j = Watcher),
         left' = Life, caLeft' \in 0 .. Threshold, UNCHANGED nodes,
         status' \in {"first", "up"}, status = "boot" \/ Listening,
         broken' = (broken /\ ~(WritesCA(j) /\ jobs[j].calm))
  PROVE  CAInv'
<1>1. /\ j \in Job /\ jobs[j] \in JobRecord /\ jobs[j].do = "write"
      /\ status = "boot" => j = Watcher
      /\ \A g \in Todo(jobs[j]) : jobs[j].got[g] \in Pairs
      /\ \A i \in Job : jobs[i].do = "forward" => ~jobs[i].calm
      /\ \A i \in Job : jobs[i].do = "issue" /\ jobs[i].calm => NobodyWritesCA
      /\ jobs[j].calm => \A i \in Job \ {j} : jobs[i].do # "renew" /\ jobs[i].do # "write"
      /\ ~broken => jobs[j].calm
  BY WriterIs
<1>2. /\ jobs \in [Job -> JobRecord] /\ files \in [File -> Content] /\ broken \in BOOLEAN
      /\ Listening => \A g \in File : files[g] # None
  BY Typed DEF CAInv
<1>3. /\ jobs' \in [Job -> JobRecord] /\ jobs'[j] = q /\ \A i \in Job \ {j} : jobs'[i] = jobs[i]
  BY <1>1, <1>2
<1>4. Todo(jobs[j]) = {"clientCert"}
  BY <1>1, Orders
<1>5. jobs[j].got["clientCert"] \in Content /\ jobs[j].got["clientCert"] # None
  BY <1>1, <1>4, Contents
<1>6. /\ files' \in [File -> Content] /\ files'["clientCert"] = jobs[j].got["clientCert"]
      /\ \A g \in File \ {"clientCert"} : files'[g] = files[g]
  <2>1. "clientCert" \in File
    BY DEF File
  <2>. QED  BY <1>2, <1>5, <2>1
<1>7. files'["caKey"] = files["caKey"] /\ files'["caCert"] = files["caCert"]
  BY <1>6 DEF File
<1>8. Writing' = Writing \ {j} /\ Changing' \subseteq Changing \ {j} /\ j \in Changing
  BY <1>1, <1>3 DEF Writing, Changing, Does
<1>9. /\ \A i \in Job \ {j} : WritesCA(i)' = WritesCA(i)
      /\ ~WritesCA(j)'
  BY <1>3 DEF WritesCA, Does
<1>10. NobodyWritesCA => NobodyWritesCA'
  BY <1>9 DEF NobodyWritesCA
<1>11. ~broken' => jobs[j].calm
  BY <1>1, <1>2
<1>12. ~broken' => Writing' = {}
  BY <1>1, <1>8, <1>11 DEF Writing, Does
<1>13. CATypeOK'
  <2>1. \A g \in File : files'[g] # None
    <3>1. status = "boot" => \A g \in File \ {"clientCert"} : files[g] # None
      BY <1>1, <1>4 DEF CAInv, Living
    <3>. QED  BY <1>2, <1>5, <1>6, <3>1
  <2>2. None \notin Range(files')
    BY <1>6, <2>1, Files
  <2>3. left' \in 0 .. Life /\ broken' \in BOOLEAN
    BY CAAssumption
  <2>. QED  BY <1>3, <1>6, <2>2, <2>3 DEF CAInv, CATypeOK, JobRecord, NodeRecord
<1>14. ASSUME NEW i \in Job PROVE (JobSteps(jobs[i], i) /\ JobReads(jobs[i]))'
  <2>1. CASE i = j
    BY <1>3, <2>1 DEF JobSteps, JobReads
  <2>2. CASE i # j
    <3>1. JobSteps(jobs[i], i) /\ JobReads(jobs[i])
      BY DEF CAInv
    <3>2. jobs[i].do = "renew" => broken'
      BY <1>1, <1>11, <2>2
    <3>. QED  BY <1>1, <1>3, <1>7, <1>10, <2>2, <3>1, <3>2 DEF JobSteps, JobReads
  <2>. QED  BY <2>1, <2>2
<1>15. Living'
  BY DEF Living
<1>16. ASSUME NEW i \in Writing', jobs'[i].calm PROVE FALSE
  <2>1. i \in Writing /\ i # j /\ jobs[i].calm
    BY <1>3, <1>8, <1>16 DEF Writing
  <2>. QED  BY <1>8, <2>1 DEF CAInv, Alone
<1>17. Alone'
  BY <1>12, <1>16 DEF Alone
<1>18. Whole'
  <2>1. ASSUME ~broken' PROVE Belong(files)'
    <3>1. Belong(After(jobs[j]))
      BY <1>2, <1>11, <2>1 DEF CAInv, Whole
    <3>2. After(jobs[j]) = files'
      <4>1. \A g \in File : (IF g \in Todo(jobs[j]) THEN jobs[j].got[g] ELSE files[g]) = files'[g]
        BY <1>4, <1>6
      <4>. QED  BY <1>6, <4>1 DEF After
    <3>. QED  BY <3>1, <3>2 DEF Belong
  <2>. QED  BY <1>16, <2>1 DEF Whole
<1>19. NodesKnow'
  BY <1>7, <1>10 DEF CAInv, NodesKnow
<1>20. Lasting'
  <2>1. left' >= Threshold /\ left' >= Threshold - 1
    BY CAAssumption
  <2>. QED  BY <2>1 DEF Lasting
<1>. QED  BY <1>13, <1>14, <1>15, <1>17, <1>18, <1>19, <1>20 DEF CAInv

LEMMA FillStep ==
  ASSUME CAInv, NEW j \in Job, Fill(j)
  PROVE  CAInv'
<1>. DEFINE f == Order[jobs[j].next]
<1>1. j \in Writing
  BY DEF Fill, Writing
<1>2. /\ jobs[j] \in JobRecord /\ jobs[j].do = "write" /\ status # "down"
      /\ status = "boot" => j = Watcher
      /\ f \in Todo(jobs[j]) /\ Todo(jobs[j]) \subseteq File
      /\ \A g \in Todo(jobs[j]) : jobs[j].got[g] \in Pairs
  BY <1>1, WriterIs
<1>3. /\ jobs \in [Job -> JobRecord] /\ left \in 0 .. Life /\ caLeft \in 0 .. Threshold
      /\ status \in {"down", "boot", "first", "up"} /\ Life \in 0 .. Life
      /\ Threshold \in 0 .. Threshold
  BY CAAssumption, Typed DEF CAInv
<1>4. jobs[j].got[f] \in Content /\ jobs[j].got[f] # None /\ jobs[j].next \in 1 .. 4
  BY <1>2, Contents DEF JobRecord
<1>5. /\ files' = [files EXCEPT ![f] = jobs[j].got[f]] /\ UNCHANGED nodes
      /\ left' = IF f = "clientCert" THEN Life ELSE left
      /\ caLeft' = IF f = "caCert" THEN Threshold ELSE caLeft
  BY DEF Fill
<1>6. left' \in 0 .. Life /\ caLeft' \in 0 .. Threshold
  BY <1>3, <1>5
<1>7. CASE jobs[j].next # 4
  <2>. DEFINE next == jobs[j].next + 1
              q == [jobs[j] EXCEPT !.next = next, !.open = FALSE]
  <2>1. jobs' = [jobs EXCEPT ![j] = q] /\ UNCHANGED <<status, broken>>
    BY <1>3, <1>7, Typed DEF Fill, CAInv
  <2>2. next \in 1 .. 4 /\ jobs[j].next < 4
    BY <1>4, <1>7
  <2>. HIDE DEF next
  <2>3. /\ q \in JobRecord /\ q.do = "write" /\ q.got = jobs[j].got /\ q.calm = jobs[j].calm
        /\ q.next = next
    BY <1>2, <2>2 DEF JobRecord
  <2>. HIDE DEF q
  <2>4. q.next = jobs[j].next + 1
    BY <2>3 DEF next
  <2>. QED  BY <1>1, <1>4, <1>5, <1>6, <2>1, <2>2, <2>3, <2>4, WriterMoves
<1>8. CASE jobs[j].next = 4
  <2>. DEFINE q == IF status = "boot" THEN Doing("watch", Nobody, 4) ELSE Idle
  <2>1. jobs' = [jobs EXCEPT ![j] = q]
    BY <1>8 DEF Fill
  <2>2. f = "clientCert"
    BY <1>8 DEF Order
  <2>3. broken' = (broken /\ ~(WritesCA(j) /\ jobs[j].calm))
    BY <1>8 DEF Fill
  <2>4. status' = IF j = Watcher THEN IF status = "boot" THEN "first" ELSE "up" ELSE status
    BY <1>8 DEF Fill
  <2>5. status' \in {"first", "up"} /\ (status = "boot" \/ Listening)
    BY <1>2, <1>3, <2>4 DEF Listening
  <2>6. q \in JobRecord /\ (q.do = "idle" \/ (q.do = "watch" /\ j = Watcher))
    BY <1>2, DoingIs, IdleIs
  <2>7. left' = Life /\ files' = [files EXCEPT !["clientCert"] = jobs[j].got["clientCert"]]
    BY <1>5, <2>2
  <2>. HIDE DEF q
  <2>. QED  BY <1>1, <1>5, <1>6, <1>8, <2>1, <2>3, <2>5, <2>6, <2>7, WriterEnds
<1>. QED  BY <1>7, <1>8

LEMMA CAStart ==
  ASSUME Init
  PROVE  CAInv
<1>1. /\ files = [f \in File |-> None] /\ files \in [File -> Content] /\ status = "down"
      /\ jobs \in [Job -> JobRecord] /\ \A j \in Job : jobs[j] = Idle /\ jobs[j].do = "idle"
  BY IdleIs, Contents DEF Init, Idle, Doing
<1>2. Writing = {} /\ ~Listening /\ \A j \in Job : Does(j, "idle")
  BY <1>1 DEF Writing, Does, Listening
<1>3. CATypeOK
  <2>1. Nothing \in NodeRecord
    BY Contents DEF Nothing, Given, NodeRecord
  <2>2. nodes \in [Node -> NodeRecord]
    BY <2>1 DEF Init
  <2>3. left \in 0 .. Life /\ caLeft \in 0 .. Threshold
    BY CAAssumption DEF Init
  <2>. QED  BY <1>1, <1>2, <2>2, <2>3 DEF Init, CATypeOK, JobRecord, NodeRecord
<1>4. Belong(files)
  <2>1. None = Pem(None.of, None.of) /\ None # Torn
    BY Contents DEF None, Pem
  <2>2. \A f \in File : files[f] = None
    BY <1>1
  <2>. QED  BY <2>1, <2>2 DEF Belong, File
<1>5. \A j \in Job : JobSteps(jobs[j], j) /\ JobReads(jobs[j])
  BY <1>1 DEF JobSteps, JobReads
<1>6. NodesKnow
  BY DEF Init, NodesKnow
<1>. QED  BY <1>1, <1>2, <1>3, <1>4, <1>5, <1>6 DEF CAInv, Living, Alone, Whole, Lasting

LEMMA CAInductive ==
  ASSUME CAInv, [Next]_vars
  PROVE  CAInv'
<1>1. CASE Start \/ Crash \/ \E n \in Node : NodeCertEnds(n)
  BY <1>1, StartStep, CrashStep, NodeCertEndsStep
<1>2. ASSUME NEW j \in Job, Empty(j) \/ Fill(j) PROVE CAInv'
  BY <1>2, EmptyStep, FillStep
<1>7. CASE Watch
  <2>1. Watcher \in Job
    BY DEF Job
  <2>. QED
    BY <1>2, <1>7, <2>1, HourStep, PassStep, RenewReadsKeyStep, RenewReadsCertStep DEF Watch
<1>6. Request \subseteq Job
  BY DEF Job
<1>3. ASSUME NEW j \in Request,
             \/ RegenerateCA(j) \/ Issue(j) \/ ForwardReadsKey(j) \/ Connect(j)
             \/ \E n \in Node : BeginIssue(j, n) \/ BeginForward(j, n)
      PROVE  CAInv'
  BY <1>3, RegenerateStep, IssueStep, ForwardReadsStep, ConnectStep,
     BeginIssueStep, BeginForwardStep
<1>4. CASE UNCHANGED vars
  BY <1>4 DEF vars, CAInv, CATypeOK, JobSteps, JobReads, Living, Alone, Whole, NodesKnow, Lasting,
       Writing, Changing, NobodyWritesCA, WritesCA, Does, After, Listening, Belong
<1>. QED  BY <1>1, <1>2, <1>3, <1>4, <1>6, <1>7 DEF Next

\* What every job of the controller knows of the four files holds from the first start on.
THEOREM CAInvariant == Spec => []CAInv
BY CAStart, CAInductive, PTL DEF Spec

\* The files, the jobs and the nodes keep their form, and the server never listens while
\* one of the files is missing (ensureCA before listen, api/server.js).
THEOREM CATyped == Spec => []CATypeOK
<1>1. CAInv => CATypeOK
  BY DEF CAInv
<1>. QED  BY <1>1, CAInvariant, PTL

\* Between the jobs the four files belong together, whatever regenerations, renewals and
\* restarts came before, unless writers overlapped or were cut short since the last
\* regeneration (regenerateCA, renewClientCert, api/function/node/node-ca.js).
THEOREM CAFilesBelong == Spec => []FilesBelongTogether
<1>1. ASSUME CAInv PROVE FilesBelongTogether
  <2>1. SUFFICES ASSUME Listening, Changing = {}, ~broken
                 PROVE  /\ files.caKey = files.caCert
                        /\ files.clientCert = Pem(files.clientKey.of, files.caKey.of)
    BY DEF FilesBelongTogether
  <2>2. Writing = {}
    BY <2>1 DEF Changing
  <2>3. Belong(files) /\ files \in [File -> Content]
    BY <1>1, <2>1, <2>2, Typed DEF CAInv, Whole
  <2>. QED  BY <2>3, Files DEF Belong
<1>. QED  BY <1>1, CAInvariant, PTL

\* Without a cause to fail a connection holds.
LEMMA ConnectionHolds ==
  ASSUME CAInv, NEW j \in Request, Connect(j),
         jobs[j].calm, nodes[jobs[j].node] # Nothing, ~broken, ~nodes[jobs[j].node].ended,
         caLeft # 0, ~(left = 0 /\ status = "first")
  PROVE  LET g == jobs[j].got IN Connects(jobs[j].node, g.caCert, g.clientKey, files.clientCert)
<1>. DEFINE g == jobs[j].got
            n == jobs[j].node
<1>1. j \in Job /\ jobs[j].do = "forward" /\ jobs[j].next = 4 /\ ~Does(j, "idle")
      /\ ~Does(j, "write")
  BY DEF Connect, Does, Job
<1>2. jobs[j] \in JobRecord /\ Listening /\ JobReads(jobs[j]) /\ files \in [File -> Content]
  BY <1>1, OnlyLiving, Typed DEF CAInv
<1>3. g \in [File -> Content] /\ n \in Node
  BY <1>1, <1>2 DEF JobRecord, JobSteps, CAInv
<1>4. Writing = {} /\ g["caCert"] = files["caCert"] /\ g["clientKey"] = files["clientKey"]
  BY <1>1, <1>2 DEF JobReads
<1>5. /\ g.caCert = files["caCert"] /\ g.clientKey = files["clientKey"]
      /\ files.clientCert = files["clientCert"]
  BY <1>2, <1>3, <1>4, Files
<1>6. Belong(files)
  BY <1>4 DEF CAInv, Whole
<1>7. nodes[n].caKey = files["caKey"] /\ nodes[n].caCert = files["caCert"]
  BY <1>3 DEF CAInv, NodesKnow
<1>8. Torn \notin {files["caCert"], files["clientKey"], files["clientCert"]}
  BY <1>6 DEF Belong, File
<1>9. left > 0 /\ caLeft > 0
  <2>1. left \in Nat /\ Threshold \in Nat /\ Threshold >= 2
    BY CAAssumption, Typed DEF CAInv
  <2>2. status = "up" => left >= Threshold - 1
    BY <1>4 DEF CAInv, Lasting
  <2>3. caLeft > 0
    BY CAAssumption, Typed DEF CAInv
  <2>. QED  BY <1>2, <2>1, <2>2, <2>3 DEF Listening
<1>10. /\ files["clientCert"].of = files["clientKey"].of
       /\ files["clientCert"].by = nodes[n].caCert.of /\ nodes[n].caKey.of = files["caCert"].of
  BY <1>6, <1>7, Contents DEF Belong
<1>. QED  BY <1>5, <1>8, <1>9, <1>10 DEF Connects

\* A forwarded request finds a node that knows the controller, and the controller the node,
\* with certificates that have not run out, unless a writer was at work while the files
\* were read, the authority has been replaced, writers overlapped, the node's certificate
\* or the authority has come to its end, or the client's ran out while the controller was
\* down (getClientCert, checkAndRenewClientCert).
THEOREM CAFailuresHaveCauses == Spec => FailuresHaveCauses
<1>. DEFINE Caused == \A j \in Request : Connect(j) =>
              LET g == jobs[j].got
                  n == jobs[j].node
              IN \/ Connects(n, g.caCert, g.clientKey, files.clientCert)
                 \/ ~jobs[j].calm \/ nodes[n] = Nothing \/ broken
                 \/ nodes[n].ended \/ caLeft = 0
                 \/ left = 0 /\ status = "first"
<1>1. CAInv => [Caused]_vars
  BY ConnectionHolds
<1>. HIDE DEF Caused
<1>2. Spec => [][Caused]_vars
  BY <1>1, CAInvariant, PTL
<1>. QED  BY <1>2 DEF FailuresHaveCauses, Caused
=============================================================================
