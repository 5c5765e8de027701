------------------------------ MODULE DiskCache ------------------------------
(***************************************************************************)
(* The disk cache of xcc-lite (proxy/cache.go, proxy/proxy.go) for the     *)
(* GET requests of one key, with a Range header or without.  An entry is a *)
(* file named by the second it expires, written while the origin's answer  *)
(* passes by, and a file beside it with the header and the length.         *)
(* Looking up, storing, cleaning up and clearing a domain share no lock:   *)
(* an action is one call of the file system.                               *)
(***************************************************************************)
EXTENDS Integers, FiniteSetsExt, SequencesExt

CONSTANTS Client,    \* bound: requests at a time
          Version,   \* the answers of the origin
          Part,      \* those that are a part of the whole (206), to a Range header
          Length,    \* the length of an answer, in pieces; the origin declares it
          MaxLength, \* maxCacheSize: Store keeps no longer answer
          Ttl,       \* CacheTTL
          MaxNow     \* bound of the clock

ASSUME CacheAssumption ==
  /\ Part \subseteq Version
  /\ MaxLength \in Nat /\ Length \in [Version -> 1 .. MaxLength]
  /\ Ttl \in Nat \ {0} /\ MaxNow \in Nat
  /\ {"none", "broken", "hole"} \cap Version = {}

VARIABLES
  now,      \* seconds
  body,     \* the pieces in the file of an expiry; None without a file
  meta,     \* the length in the file beside it; 0 without a file
  reqs,     \* the requests and how far they are
  ranged,   \* the clients whose request under way has a Range header
  clearing, \* the files a clean-up or a clearing is going to remove
  seen,     \* history: when an answer last passed by
  asked,    \* history: when a lookup began
  got,      \* history: what the client made of a hit, from files of one store
  stores,   \* history: how many stores opened the file of an expiry; 2 is many
  torn      \* history: files that a store left early or that were removed

files == <<body, meta>>
history == <<seen, asked, got, stores, torn>>
vars == <<now, files, reqs, ranged, clearing, history>>

None == <<"none">>
Broken == <<"broken">>   \* the transfer ended before the declared length
Hole == "hole"           \* what a write beyond the end leaves before it
Never == -1
Expiry == 1 .. MaxNow + Ttl
Pieces == UNION {[1 .. n -> Version \cup {Hole}] : n \in 0 .. MaxLength}
Idle == [pc |-> "idle"]
Fetching == [pc |-> "fetch"]
MetaReq == [pc : {"meta"}, exp : Expiry]
CopyReq == [pc : {"copy"}, exp : Expiry, length : 1 .. MaxLength]
StoreReq == [pc : {"put", "tee"}, exp : Expiry, v : Version, off : 0 .. MaxLength,
             linked : BOOLEAN]

CacheTypeOK ==
  /\ now \in 0 .. MaxNow
  /\ body \in [Expiry -> Pieces \cup {None}]
  /\ meta \in [Expiry -> 0 .. MaxLength]
  /\ reqs \in [Client -> {Idle, Fetching} \cup MetaReq \cup CopyReq \cup StoreReq]
  /\ ranged \subseteq Client
  /\ clearing \in SUBSET (Expiry \X {"body", "meta"})
  /\ seen \in [Version -> Never .. MaxNow] /\ asked \in [Client -> Never .. MaxNow]
  /\ got \in [Client -> Pieces \cup {Broken}]
  /\ stores \in [Expiry -> 0 .. 2] /\ torn \in SUBSET Expiry

Init ==
  /\ now = 0
  /\ body = [e \in Expiry |-> None] /\ meta = [e \in Expiry |-> 0]
  /\ reqs = [c \in Client |-> Idle] /\ ranged = {} /\ clearing = {}
  /\ seen = [v \in Version |-> Never] /\ asked = [c \in Client |-> Never]
  /\ got = [c \in Client |-> <<>>]
  /\ stores = [e \in Expiry |-> 0] /\ torn = {}

At(c, pc) == reqs[c].pc = pc
Become(c, req) == reqs' = [reqs EXCEPT ![c] = req]
End(c) == Become(c, Idle) /\ ranged' = ranged \ {c}

(***************************************************************************)
(* Lookup.                                                                 *)
(***************************************************************************)
\* findCache: the file of the latest expiry; when that is only the second file, the
\* name found leads to no metadata.
Found == {e \in Expiry : body[e] # None \/ meta[e] # 0}

\* Mutant: the expiry is not compared with the clock.
HitExpired == Found # {} /\ body[Max(Found)] # None

Hit == Found # {} /\ Max(Found) > now /\ body[Max(Found)] # None

Find(c) ==
  /\ At(c, "idle")
  /\ Become(c, IF Hit THEN [pc |-> "meta", exp |-> Max(Found)] ELSE Fetching)
  /\ ranged' \in {ranged \cup {c}, ranged \ {c}}
  /\ asked' = [asked EXCEPT ![c] = now]
  /\ got' = [got EXCEPT ![c] = <<>>]
  /\ UNCHANGED <<now, files, clearing, seen, stores, torn>>

ReadMeta(c) ==
  /\ At(c, "meta")
  /\ LET e == reqs[c].exp IN
       Become(c, IF meta[e] = 0 THEN Fetching
                 ELSE [pc |-> "copy", exp |-> e, length |-> meta[e]])
  /\ UNCHANGED <<now, files, ranged, clearing, history>>

\* Mutant: the answer does not declare its length.
ReceivedUndeclared(e, length) == IF body[e] = None THEN <<>> ELSE body[e]

\* The header with the length is sent; the body may be short of it, or gone.
Received(e, length) ==
  IF body[e] = None \/ Len(body[e]) < length THEN Broken ELSE SubSeq(body[e], 1, length)

Copy(c) ==
  /\ At(c, "copy")
  /\ LET e == reqs[c].exp IN
       got' = [got EXCEPT ![c] = IF stores[e] > 1 THEN <<>> ELSE Received(e, reqs[c].length)]
  /\ End(c)
  /\ UNCHANGED <<now, files, clearing, seen, asked, stores, torn>>

(***************************************************************************)
(* Store: the file is created or truncated, its metadata written, and the  *)
(* answer copied into it on its way to the client.  Any answer of 200 to   *)
(* 299 is kept, the part of the whole that a Range header asked for too,   *)
(* in a file whose name tells nothing of the range.                        *)
(***************************************************************************)
Put(c, v) ==
  LET e == now + Ttl IN
  /\ At(c, "fetch") /\ (v \in Part => c \in ranged)
  /\ body' = [body EXCEPT ![e] = <<>>]
  /\ Become(c, [pc |-> "put", exp |-> e, v |-> v, off |-> 0, linked |-> TRUE])
  /\ seen' = [seen EXCEPT ![v] = now]
  /\ stores' = [stores EXCEPT ![e] = Min({@ + 1, 2})]
  /\ UNCHANGED <<now, meta, ranged, clearing, asked, got, torn>>

\* No answer of the origin, one that is not to be kept, or a file that cannot be created.
NotStored(c) ==
  /\ At(c, "fetch") /\ End(c)
  /\ UNCHANGED <<now, files, clearing, history>>

\* Mutant: the limit for entries is written in place of the length.
WriteMetaLimit(c) ==
  /\ At(c, "put")
  /\ meta' = [meta EXCEPT ![reqs[c].exp] = MaxLength]
  /\ Become(c, [reqs[c] EXCEPT !.pc = "tee"])
  /\ UNCHANGED <<now, body, ranged, clearing, history>>

\* Without the directory, which a clearing removes last, nothing is written.
WriteMeta(c) ==
  /\ At(c, "put")
  /\ \/ meta' = [meta EXCEPT ![reqs[c].exp] = Length[reqs[c].v]]
     \/ ~reqs[c].linked /\ UNCHANGED meta
  /\ Become(c, [reqs[c] EXCEPT !.pc = "tee"])
  /\ UNCHANGED <<now, body, ranged, clearing, history>>

\* A file after v has been written at an offset.
WriteAt(file, off, v) ==
  [i \in 1 .. Max({off + 1, Len(file)}) |->
     IF i = off + 1 THEN v ELSE IF i <= Len(file) THEN file[i] ELSE Hole]

\* Mutant: the answer is copied past its declared end.
TeeOn(c) ==
  LET q == reqs[c] IN
  /\ At(c, "tee") /\ q.off <= Length[q.v]
  /\ body' = IF q.linked THEN [body EXCEPT ![q.exp] = WriteAt(@, q.off, q.v)] ELSE body
  /\ Become(c, [q EXCEPT !.off = q.off + 1])
  /\ UNCHANGED <<now, meta, ranged, clearing, history>>

Tee(c) ==
  LET q == reqs[c] IN
  /\ At(c, "tee") /\ q.off < Length[q.v]
  /\ body' = IF q.linked THEN [body EXCEPT ![q.exp] = WriteAt(@, q.off, q.v)] ELSE body
  /\ Become(c, [q EXCEPT !.off = q.off + 1])
  /\ UNCHANGED <<now, meta, ranged, clearing, history>>

\* The tee is closed at the end of the answer, or when one of the two sides has gone.
Close(c) ==
  LET q == reqs[c] IN
  /\ At(c, "tee")
  /\ End(c)
  /\ torn' = IF q.off < Length[q.v] THEN torn \cup {q.exp} ELSE torn
  /\ UNCHANGED <<now, files, clearing, seen, asked, got, stores>>

(***************************************************************************)
(* Clean-up of what has expired, and clearing of a domain or, on a full    *)
(* disk, of everything.                                                    *)
(***************************************************************************)
Expired == {e \in Expiry : body[e] # None /\ e <= now}

Cleanup ==
  /\ clearing = {} /\ Expired # {}
  /\ clearing' = Expired \X {"body", "meta"}
  /\ UNCHANGED <<now, files, reqs, ranged, history>>

ClearDomain ==
  /\ clearing = {}
  /\ clearing' = ({e \in Expiry : body[e] # None} \X {"body"})
                 \cup ({e \in Expiry : meta[e] # 0} \X {"meta"})
  /\ UNCHANGED <<now, files, reqs, ranged, history>>

\* A store goes on writing into a file that has no name any more.
RemoveBody(e) ==
  /\ <<e, "body">> \in clearing
  /\ body' = [body EXCEPT ![e] = None]
  /\ reqs' = [c \in Client |-> IF reqs[c].pc \in {"put", "tee"} /\ reqs[c].exp = e
                               THEN [reqs[c] EXCEPT !.linked = FALSE] ELSE reqs[c]]
  /\ torn' = torn \cup {e}
  /\ clearing' = clearing \ {<<e, "body">>}
  /\ UNCHANGED <<now, meta, ranged, seen, asked, got, stores>>

\* The clean-up removes the body first; a clearing follows the directory.
RemoveMeta(e) ==
  /\ <<e, "meta">> \in clearing
  /\ e <= now => <<e, "body">> \notin clearing
  /\ meta' = [meta EXCEPT ![e] = 0]
  /\ clearing' = clearing \ {<<e, "meta">>}
  /\ UNCHANGED <<now, body, reqs, ranged, history>>

Pass ==
  /\ now < MaxNow /\ now' = now + 1
  /\ UNCHANGED <<files, reqs, ranged, clearing, history>>

RequestStep(c) ==
  \/ Find(c) \/ ReadMeta(c) \/ Copy(c)
  \/ (\E v \in Version : Put(c, v)) \/ NotStored(c)
  \/ WriteMeta(c) \/ Tee(c) \/ Close(c)

Next ==
  \/ \E c \in Client : RequestStep(c)
  \/ Cleanup \/ ClearDomain \/ (\E e \in Expiry : RemoveBody(e) \/ RemoveMeta(e))
  \/ Pass

Spec == Init /\ [][Next]_vars

(***************************************************************************)
(* Properties.                                                             *)
(***************************************************************************)
Complete(v) == [i \in 1 .. Length[v] |-> v]

\* A client that accepts a hit has one answer of the origin's from its first piece to
\* its last, also when the store of the file was cut short, went on during the hit, or
\* the file was removed: the declared length gives a short body away.  Files that two
\* stores of one second have opened are outside of the claim.
AnswersAreComplete ==
  \A c \in Client : got[c] \in {<<>>, Broken} \cup {Complete(v) : v \in Version}

\* Violated, and in no run: a client that asked for the whole does not accept a part.
\* The code keeps the answer to a Range header under the key of the whole.
PartsAreAskedFor ==
  [][\A c \in Client : got'[c] # got[c] /\ c \notin ranged =>
       got'[c] \notin {Complete(v) : v \in Part}]_vars

Storing(e) == \E c \in Client : reqs[c].pc \in {"put", "tee"} /\ reqs[c].exp = e

\* A hit breaks off only while its file is being stored, or when a store left it early
\* or it was removed meanwhile; a finished entry serves whole answers.
BreaksHaveCauses ==
  [][\A c \in Client : got[c] # Broken /\ got'[c] = Broken =>
       Storing(reqs[c].exp) \/ reqs[c].exp \in torn]_vars

\* What a client accepted was sent by the origin less than Ttl before the lookup.
Promise == INSTANCE FreshCache
  WITH got <- [c \in Client |-> ToSet(got[c]) \cap Version]

HitsAreFresh == Promise!Spec
=============================================================================
