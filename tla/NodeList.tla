------------------------------- MODULE NodeList -------------------------------
(***************************************************************************)
(* The controller's list of nodes (api/function/node/dataTool.js), a JSON  *)
(* file which every forwarded request reads and which is changed by        *)
(* reading it, writing nodes.json.tmp and renaming that.  Requests         *)
(* interleave at every await; an action is one call of the file system.    *)
(* A descriptor stays with its file when the file is renamed.              *)
(***************************************************************************)
EXTENDS Integers, FiniteSets

CONSTANTS Id, Address,   \* bound: what requests name
          Caller        \* bound: requests at a time

VARIABLES
  disk,    \* what "file" (nodes.json) and "tmp" hold
  reqs,    \* the requests and how far they are
  kept,    \* history: the list as the answered changes made it, one after the other
  raced    \* history: a change began during a change, or a request started the list
           \* when there was one

nodesVars == <<disk, reqs, kept, raced>>

Nil == "none"
NoFile == <<"no file">>
Unreadable == <<"unreadable">>
List == [Id -> Address \cup {Nil}]
NoNodes == [i \in Id |-> Nil]
Op == [what : {"add", "update"}, id : Id, address : Address]
  \cup [what : {"delete", "get"}, id : Id, address : {Nil}]
NoCall == [pc |-> "idle"]

\* A file that is missing or cannot be parsed is no list.
ASSUME NodesAssumption == {NoFile, Unreadable} \cap List = {}

\* A request: its step, what it writes for ("create", "reset" or "save"), the list it
\* writes, and the file its descriptor leads to.
At(op, pc, why, data, fd) == [op |-> op, pc |-> pc, why |-> why, data |-> data, fd |-> fd]

NodesTypeOK ==
  /\ disk \in [{"file", "tmp"} -> List \cup {NoFile, Unreadable}]
  /\ reqs \in [Caller -> {NoCall} \cup
       [op : Op, pc : {"access", "read", "open", "fill", "rename"},
        why : {Nil, "create", "reset", "save"}, data : List, fd : {Nil, "file", "tmp", "gone"}]]
  /\ kept \in List /\ raced \in BOOLEAN
  /\ \A r \in Caller : reqs[r].pc = "rename" => reqs[r].why = "save"

NodesInit ==
  /\ disk = [f \in {"file", "tmp"} |-> NoFile]
  /\ reqs = [r \in Caller |-> NoCall]
  /\ kept = NoNodes /\ raced = FALSE

Become(r, req) == reqs' = [reqs EXCEPT ![r] = req]
On(r, pc) == reqs[r].pc = pc
Readable(content) == content \in List
Saving == {r \in Caller : ~On(r, "idle") /\ reqs[r].why = "save"}

(***************************************************************************)
(* What a request makes of the list it read: an answer or a new list.      *)
(***************************************************************************)
Apply(op, list) == [list EXCEPT ![op.id] = op.address]
Refused(op, list) == op.what = "get" \/ (op.what = "add" <=> list[op.id] # Nil)

Decide(r, list) ==
  LET op == reqs[r].op IN
  IF Refused(op, list) THEN Become(r, NoCall) /\ UNCHANGED raced
  ELSE /\ Become(r, At(op, "open", "save", Apply(op, list), Nil))
       /\ raced' = (raced \/ Saving # {})

Ask(r, op) ==
  /\ On(r, "idle")
  /\ Become(r, At(op, "access", Nil, NoNodes, Nil))
  /\ UNCHANGED <<disk, kept, raced>>

\* ensureStore.
Access(r) ==
  /\ On(r, "access")
  /\ Become(r, IF disk["file"] = NoFile THEN At(reqs[r].op, "open", "create", NoNodes, Nil)
               ELSE At(reqs[r].op, "read", Nil, NoNodes, Nil))
  /\ UNCHANGED <<disk, kept, raced>>

\* readStore: a list that cannot be parsed is replaced by an empty one.
ReadStore(r) ==
  /\ On(r, "read")
  /\ IF Readable(disk["file"]) THEN Decide(r, disk["file"])
     ELSE Become(r, At(reqs[r].op, "open", "reset", NoNodes, Nil)) /\ UNCHANGED raced
  /\ UNCHANGED <<disk, kept>>

(***************************************************************************)
(* fs.writeFile and fs.rename.                                             *)
(***************************************************************************)
\* Mutant: the list is written in place.
TargetInPlace(why) == "file"

Target(why) == IF why = "save" THEN "tmp" ELSE "file"

\* Opening empties the file.
Open(r) ==
  LET q == reqs[r]
      f == Target(q.why)
  IN /\ On(r, "open")
     /\ disk' = [disk EXCEPT ![f] = Unreadable]
     /\ Become(r, [q EXCEPT !.pc = "fill", !.fd = f])
     /\ raced' = (raced \/ (q.why # "save" /\ Readable(disk[f])))
     /\ UNCHANGED kept

Size(list) == Cardinality({i \in Id : list[i] # Nil})
\* A longer list written before through another descriptor sticks out at the end.
Laid(over, data) ==
  IF ~Readable(over) \/ over = data THEN {data}
  ELSE (IF Size(over) <= Size(data) THEN {data} ELSE {})
       \cup (IF Size(over) >= Size(data) THEN {Unreadable} ELSE {})

\* Mutant: whatever was written is renamed.
FillThenRename(r) ==
  LET q == reqs[r] IN
  /\ On(r, "fill")
  /\ disk' = [disk EXCEPT ![q.fd] = q.data]
  /\ Become(r, [q EXCEPT !.pc = "rename", !.fd = Nil])
  /\ UNCHANGED <<kept, raced>>

FillFile(r) ==
  LET q == reqs[r] IN
  /\ On(r, "fill")
  /\ IF q.fd = "gone" THEN UNCHANGED disk
     ELSE \E content \in Laid(disk[q.fd], q.data) : disk' = [disk EXCEPT ![q.fd] = content]
  /\ CASE q.why = "save" -> Become(r, [q EXCEPT !.pc = "rename", !.fd = Nil]) /\ UNCHANGED raced
       [] q.why = "create" -> Become(r, At(q.op, "read", Nil, NoNodes, Nil)) /\ UNCHANGED raced
       [] q.why = "reset" -> Decide(r, NoNodes)
  /\ UNCHANGED kept

\* The answer follows; without a file to rename it is an error.
Rename(r) ==
  LET moved(fd) == IF fd = "file" THEN "gone" ELSE IF fd = "tmp" THEN "file" ELSE fd IN
  /\ On(r, "rename")
  /\ IF disk["tmp"] = NoFile
     THEN Become(r, NoCall) /\ UNCHANGED <<disk, kept>>
     ELSE /\ disk' = [file |-> disk["tmp"], tmp |-> NoFile]
          /\ reqs' = [s \in Caller |->
               IF s = r \/ On(s, "idle") THEN NoCall ELSE [reqs[s] EXCEPT !.fd = moved(@)]]
          /\ kept' = Apply(reqs[r].op, kept)
  /\ raced' = (raced \/ \E s \in Caller : ~On(s, "idle") /\ reqs[s].why = "reset")

\* The process ends and starts again; the files stay.
Stop ==
  /\ reqs' = [r \in Caller |-> NoCall]
  /\ UNCHANGED <<disk, kept, raced>>

NodesNext ==
  \/ Stop
  \/ \E r \in Caller : \/ Access(r) \/ ReadStore(r) \/ Open(r) \/ FillFile(r) \/ Rename(r)
                        \/ \E op \in Op : Ask(r, op)

NodesSpec == NodesInit /\ [][NodesNext]_nodesVars

(***************************************************************************)
(* Property.                                                               *)
(***************************************************************************)
\* The file holds what the answered additions, updates and deletions leave when done one
\* after the other, whatever reads meanwhile and wherever the process is stopped, as
\* long as no change began during another and, at the first use, none ended while another
\* request was still starting the list.
ListIsSerial == ~raced => (IF Readable(disk["file"]) THEN disk["file"] ELSE NoNodes) = kept
=============================================================================
