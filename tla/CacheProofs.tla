---------------------------- MODULE CacheProofs ----------------------------
(***************************************************************************)
(* Proofs about DiskCache, for any number of requests, answers of any      *)
(* lengths, any of them parts, and any lifetime: the cache keeps the       *)
(* promise of FreshCache, and what a client accepts is one answer of the   *)
(* origin's, from its first piece to its last.                             *)
(*                                                                         *)
(* Neither is inductive.  What a hit delivers depends on the one store     *)
(* that filled the file, so Stored says of every file that one store has   *)
(* opened which answer it carries and how the file, its metadata, the     *)
(* store and the hits that are under way belong together.                  *)
(***************************************************************************)
EXTENDS DiskCache, NaturalsInduction, WellFoundedInduction, TLAPS

\* The first k pieces of v.
Prefix(v, k) == [i \in 1 .. k |-> v]

Stores(c, e) == reqs[c].pc \in {"put", "tee"} /\ reqs[c].exp = e
Copies(c, e) == reqs[c].pc = "copy" /\ reqs[c].exp = e

\* What c contributes to a file that one store, of answer v, has opened.
StoredBy(c, e, v) ==
  /\ Copies(c, e) => reqs[c].length = Length[v]
  /\ Stores(c, e) =>
       /\ reqs[c].v = v /\ reqs[c].off \in 0 .. Length[v]
       /\ reqs[c].linked => body[e] = Prefix(v, reqs[c].off)
       /\ e \notin torn => reqs[c].linked

Stored(e, v) ==
  /\ seen[v] # Never /\ e <= seen[v] + Ttl
  /\ body[e] = None \/ \E k \in 0 .. Length[v] : body[e] = Prefix(v, k)
  /\ meta[e] \in {0, Length[v]}
  /\ \A c \in Client : StoredBy(c, e, v)
  /\ \A c, d \in Client : Stores(c, e) /\ Stores(d, e) => c = d
  /\ e \notin torn /\ ~ Storing(e) => body[e] = Complete(v)

Untouched(e) ==
  /\ body[e] = None /\ meta[e] = 0
  /\ \A c \in Client : ~ Copies(c, e) /\ ~ Stores(c, e)

FileOK(e) ==
  /\ stores[e] = 0 => Untouched(e)
  /\ stores[e] = 1 => \E v \in Version : Stored(e, v)

FilesOK == \A e \in Expiry : FileOK(e)

\* A store writes into a file that has a name, or knows that it has none.
LinksOK ==
  \A c \in Client :
    reqs[c].pc \in {"put", "tee"} /\ reqs[c].linked => body[reqs[c].exp] # None

\* A lookup that has found a file asked before that file's expiry.
LookupsOK ==
  \A c \in Client : reqs[c].pc \in {"meta", "copy"} => got[c] = <<>> /\ asked[c] < reqs[c].exp

SeenOK == \A v \in Version : seen[v] <= now

CacheInv ==
  CacheTypeOK /\ SeenOK /\ FilesOK /\ LinksOK /\ LookupsOK /\ AnswersAreComplete
-----------------------------------------------------------------------------
(***************************************************************************)
(* The numbers and sequences the model is built from.                      *)
(***************************************************************************)
\* A bounded set of naturals has its maximum.
LEMMA MaxOfBounded ==
  ASSUME NEW n \in Nat, NEW S \in SUBSET (0 .. n), S # {}
  PROVE  Max(S) \in S /\ \A y \in S : Max(S) >= y
<1> DEFINE T == {n - x : x \in S}
<1>1. T \subseteq Nat /\ T # {}
  <2>1. \A x \in S : n - x \in Nat
    OBVIOUS
  <2>2. PICK x \in S : TRUE
    OBVIOUS
  <2>3. n - x \in T
    BY <2>2
  <2> QED BY <2>1, <2>3
<1>2. PICK t \in T : \A u \in T : ~ (<<u, t>> \in OpToRel(<, Nat))
  BY <1>1, NatLessThanWellFounded, WFMin
<1>3. \A u \in T : ~ (u < t)
  BY <1>1, <1>2 DEF OpToRel
<1>4. PICK x \in S : t = n - x
  OBVIOUS
<1>5. \A y \in S : x >= y
  BY <1>3, <1>4
<1> QED BY <1>4, <1>5 DEF Max

LEMMA MaxOfTwo ==
  ASSUME NEW m \in Nat, NEW n \in Nat
  PROVE  Max({m, n}) = IF m >= n THEN m ELSE n
<1>1. CASE m >= n
  BY <1>1 DEF Max
<1>2. CASE ~ (m >= n)
  BY <1>2 DEF Max
<1> QED BY <1>1, <1>2

LEMMA FoundHasMax ==
  ASSUME Found # {}
  PROVE  Max(Found) \in Found /\ Max(Found) \in Expiry
<1>1. Found \in SUBSET (0 .. MaxNow + Ttl) /\ MaxNow + Ttl \in Nat
  BY CacheAssumption DEF CacheAssumption, Found, Expiry
<1> QED BY <1>1, MaxOfBounded DEF Found

LEMMA PrefixIsPiece ==
  ASSUME NEW v \in Version, NEW k \in 0 .. MaxLength
  PROVE  /\ Prefix(v, k) \in Pieces /\ Len(Prefix(v, k)) = k
         /\ Prefix(v, k) # None /\ Prefix(v, k) # Broken
<1>1. MaxLength \in Nat
  BY CacheAssumption DEF CacheAssumption
<1>2. Prefix(v, k) \in [1 .. k -> Version \cup {Hole}]
  BY DEF Prefix
<1>3. Len(Prefix(v, k)) = k
  BY <1>1 DEF Prefix
<1>4. ASSUME NEW x \in {"none", "broken"}, Prefix(v, k) = <<x>>
      PROVE  FALSE
  <2>1. k = 1
    BY <1>1, <1>3, <1>4
  <2>2. Prefix(v, k)[1] = v
    BY <2>1 DEF Prefix
  <2> QED BY <1>4, <2>2, CacheAssumption DEF CacheAssumption
<1> QED BY <1>2, <1>3, <1>4 DEF Pieces, None, Broken

LEMMA PiecesApart ==
  /\ None \notin Pieces /\ Broken \notin Pieces /\ None # Broken
  /\ <<>> \in Pieces /\ <<>> # None /\ <<>> # Broken
<1>1. MaxLength \in Nat
  BY CacheAssumption DEF CacheAssumption
<1>2. ASSUME NEW x \in {"none", "broken"}, NEW n \in 0 .. MaxLength,
             <<x>> \in [1 .. n -> Version \cup {Hole}]
      PROVE  FALSE
  <2>1. n = 1
    BY <1>1, <1>2
  <2>2. <<x>>[1] \in Version \cup {Hole}
    BY <1>2, <2>1
  <2> QED BY <1>2, <2>2, CacheAssumption DEF CacheAssumption, Hole
<1>3. <<>> \in [1 .. 0 -> Version \cup {Hole}]
  OBVIOUS
<1> QED BY <1>1, <1>2, <1>3 DEF Pieces, None, Broken

\* What is written at an offset within the limit.
LEMMA WriteAtIsPiece ==
  ASSUME NEW file \in Pieces, NEW off \in 0 .. MaxLength - 1, NEW v \in Version
  PROVE  WriteAt(file, off, v) \in Pieces
<1>1. MaxLength \in Nat
  BY CacheAssumption DEF CacheAssumption
<1>2. PICK n \in 0 .. MaxLength : file \in [1 .. n -> Version \cup {Hole}]
  BY DEF Pieces
<1>3. Len(file) = n
  BY <1>1, <1>2
<1>4. Max({off + 1, Len(file)}) \in 0 .. MaxLength
  BY <1>1, <1>3, MaxOfTwo
<1>5. WriteAt(file, off, v) \in [1 .. Max({off + 1, Len(file)}) -> Version \cup {Hole}]
  BY <1>1, <1>2, <1>3, <1>4 DEF WriteAt
<1> QED BY <1>4, <1>5 DEF Pieces

\* A store that goes on where it was makes the next prefix.
LEMMA WriteAtExtends ==
  ASSUME NEW v \in Version, NEW k \in 0 .. MaxLength - 1
  PROVE  WriteAt(Prefix(v, k), k, v) = Prefix(v, k + 1)
<1>1. MaxLength \in Nat
  BY CacheAssumption DEF CacheAssumption
<1>2. Len(Prefix(v, k)) = k
  BY <1>1, PrefixIsPiece
<1>3. Max({k + 1, k}) = k + 1
  BY <1>1, MaxOfTwo
<1> QED BY <1>1, <1>2, <1>3 DEF WriteAt, Prefix

LEMMA NothingIsPrefix ==
  ASSUME NEW v \in Version
  PROVE  Prefix(v, 0) = <<>>
BY DEF Prefix

\* A hit copies what the file has of its declared length.
LEMMA PrefixReceived ==
  ASSUME NEW v \in Version, NEW k \in 0 .. Length[v], NEW e, body[e] = Prefix(v, k)
  PROVE  Received(e, Length[v]) = IF k = Length[v] THEN Complete(v) ELSE Broken
<1>1. MaxLength \in Nat /\ Length[v] \in 1 .. MaxLength
  BY CacheAssumption DEF CacheAssumption
<1>2. Len(body[e]) = k /\ body[e] # None
  BY <1>1, PrefixIsPiece
<1>3. CASE k < Length[v]
  BY <1>1, <1>2, <1>3 DEF Received
<1>4. CASE k = Length[v]
  <2>1. SubSeq(Prefix(v, k), 1, k) = Prefix(v, k)
    BY <1>1, <1>4 DEF Prefix
  <2> QED BY <1>1, <1>2, <1>4, <2>1 DEF Received, Complete, Prefix
<1> QED BY <1>1, <1>3, <1>4
-----------------------------------------------------------------------------
(***************************************************************************)
(* What a step leaves alone.                                               *)
(***************************************************************************)
Req == {Idle, Fetching} \cup MetaReq \cup CopyReq \cup StoreReq

LEMMA ReqTypes ==
  ASSUME CacheTypeOK, NEW c \in Client
  PROVE  /\ reqs[c] \in Req
         /\ reqs[c].pc = "meta" => reqs[c] \in MetaReq
         /\ reqs[c].pc = "copy" => reqs[c] \in CopyReq
         /\ reqs[c].pc \in {"put", "tee"} => reqs[c] \in StoreReq
BY DEF CacheTypeOK, Req, Idle, Fetching, MetaReq, CopyReq, StoreReq

LEMMA BecomeTyped ==
  ASSUME CacheTypeOK, NEW c \in Client, NEW q \in Req, Become(c, q)
  PROVE  /\ reqs' \in [Client -> Req] /\ reqs'[c] = q
         /\ \A d \in Client : d # c => reqs'[d] = reqs[d]
BY DEF CacheTypeOK, Become, Req

LEMMA ExpiryTypes ==
  /\ Ttl \in Nat /\ Ttl >= 1 /\ MaxNow \in Nat /\ MaxLength \in Nat
  /\ \A v \in Version : Length[v] \in 1 .. MaxLength
  /\ \A e \in Expiry : e \in Nat
BY CacheAssumption DEF CacheAssumption, Expiry

\* A file stays as it was when nobody touches it and no store of it ends or begins.
LEMMA FileStays ==
  ASSUME CacheTypeOK, CacheTypeOK', NEW e \in Expiry, FileOK(e),
         stores'[e] = stores[e], body'[e] = body[e], meta'[e] = meta[e],
         \A v \in Version : seen[v] <= seen'[v],
         e \in torn => e \in torn',
         \A c \in Client : Stores(c, e) \/ Stores(c, e)' => reqs'[c] = reqs[c],
         \A c \in Client : Copies(c, e)' => reqs'[c] = reqs[c]
  PROVE  FileOK(e)'
<1>1. \A c \in Client : (Stores(c, e)' <=> Stores(c, e)) /\ (Copies(c, e)' => Copies(c, e))
  BY DEF Stores, Copies
<1>2. CASE stores[e] = 0
  BY <1>1, <1>2 DEF FileOK, Untouched
<1>3. CASE stores[e] = 1
  <2>1. PICK v \in Version : Stored(e, v)
    BY <1>3 DEF FileOK
  <2>2. seen'[v] # Never /\ e <= seen'[v] + Ttl
    BY <2>1, ExpiryTypes DEF Stored, CacheTypeOK, Never
  <2>3. \A c \in Client : StoredBy(c, e, v)'
    BY <1>1, <2>1 DEF Stored, StoredBy, Stores, Copies
  <2>4. Storing(e) => Storing(e)'
    BY <1>1 DEF Storing, Stores
  <2>5. Stored(e, v)'
    BY <1>1, <2>1, <2>2, <2>3, <2>4 DEF Stored, Stores
  <2> QED BY <1>3, <2>5 DEF FileOK
<1> QED BY <1>2, <1>3 DEF FileOK, CacheTypeOK

\* A step that changes neither the files nor who stores leaves all of them as they were.
LEMMA FilesStay ==
  ASSUME CacheInv, CacheTypeOK', UNCHANGED <<files, stores, torn>>,
         \A v \in Version : seen[v] <= seen'[v],
         \A c \in Client : \A e \in Expiry :
           /\ Stores(c, e) \/ Stores(c, e)' => reqs'[c] = reqs[c]
           /\ Copies(c, e)' => reqs'[c] = reqs[c]
  PROVE  FilesOK' /\ LinksOK'
<1>1. FilesOK'
  BY FileStays DEF CacheInv, FilesOK, files
<1>2. ASSUME NEW c \in Client, reqs'[c].pc \in {"put", "tee"}, reqs'[c].linked
      PROVE  body'[reqs'[c].exp] # None
  <2>1. reqs'[c].exp \in Expiry
    BY <1>2 DEF CacheTypeOK, Idle, Fetching, MetaReq, CopyReq, StoreReq
  <2> QED BY <1>2, <2>1 DEF CacheInv, LinksOK, Stores, files
<1> QED BY <1>1, <1>2 DEF LinksOK
-----------------------------------------------------------------------------
(***************************************************************************)
(* The steps of a lookup.                                                  *)
(***************************************************************************)
LEMMA StartSafe == Init => CacheInv
<1> SUFFICES ASSUME Init PROVE CacheInv
  OBVIOUS
<1>1. CacheTypeOK
  BY ExpiryTypes, PiecesApart DEF Init, CacheTypeOK, Idle, Never
<1>2. SeenOK /\ FilesOK /\ LinksOK
  BY ExpiryTypes
  DEF Init, SeenOK, FilesOK, LinksOK, FileOK, Untouched, Stores, Copies, Idle, Never
<1>3. LookupsOK /\ AnswersAreComplete
  BY DEF Init, LookupsOK, AnswersAreComplete, Idle
<1> QED BY <1>1, <1>2, <1>3 DEF CacheInv

LEMMA FindSafe ==
  ASSUME CacheInv, NEW c \in Client, Find(c)
  PROVE  CacheInv'
<1> DEFINE q == IF Hit THEN [pc |-> "meta", exp |-> Max(Found)] ELSE Fetching
<1>1. /\ reqs[c].pc = "idle" /\ Become(c, q) /\ (ranged' \subseteq ranged \cup {c})
      /\ asked' = [asked EXCEPT ![c] = now] /\ got' = [got EXCEPT ![c] = <<>>]
      /\ UNCHANGED <<now, files, clearing, seen, stores, torn>>
  BY DEF Find, At
<1>2. q \in Req /\ (q.pc = "meta" => q.exp > now) /\ q.pc \in {"meta", "fetch"}
  BY FoundHasMax DEF Hit, Req, MetaReq, Fetching
<1>3. /\ reqs' \in [Client -> Req] /\ reqs'[c] = q
      /\ \A d \in Client : d # c => reqs'[d] = reqs[d]
  <2> HIDE DEF q
  <2> QED BY <1>1, <1>2, BecomeTyped DEF CacheInv
<1> HIDE DEF q
<1>4. CacheTypeOK'
  <2>1. asked' \in [Client -> Never .. MaxNow]
    BY <1>1, ExpiryTypes DEF CacheInv, CacheTypeOK, Never
  <2>2. got' \in [Client -> Pieces \cup {Broken}]
    BY <1>1, PiecesApart DEF CacheInv, CacheTypeOK
  <2> QED BY <1>1, <1>3, <2>1, <2>2 DEF CacheInv, CacheTypeOK, Req, files
<1>5. FilesOK' /\ LinksOK'
  BY <1>1, <1>2, <1>3, <1>4, FilesStay DEF CacheInv, CacheTypeOK, Stores, Copies, Never
<1>6. SeenOK' /\ AnswersAreComplete'
  BY <1>1 DEF CacheInv, CacheTypeOK, SeenOK, AnswersAreComplete, Complete
<1>7. LookupsOK'
  BY <1>1, <1>2, <1>3 DEF CacheInv, CacheTypeOK, LookupsOK
<1> QED BY <1>4, <1>5, <1>6, <1>7 DEF CacheInv

LEMMA ReadMetaSafe ==
  ASSUME CacheInv, NEW c \in Client, ReadMeta(c)
  PROVE  CacheInv'
<1>1. PICK e \in Expiry : e = reqs[c].exp
  BY ReqTypes DEF CacheInv, MetaReq, ReadMeta, At
<1> DEFINE q == IF meta[e] = 0 THEN Fetching
                ELSE [pc |-> "copy", exp |-> e, length |-> meta[e]]
<1>2. reqs[c].pc = "meta" /\ Become(c, q) /\ UNCHANGED <<now, files, ranged, clearing, history>>
  BY <1>1 DEF ReadMeta, At
<1>3. q \in Req /\ (q.pc = "copy" => meta[e] # 0 /\ q.exp = e /\ q.length = meta[e])
      /\ q.pc \in {"fetch", "copy"}
  BY ExpiryTypes DEF CacheInv, CacheTypeOK, Req, CopyReq, Fetching
<1> HIDE DEF q
<1>4. /\ reqs' \in [Client -> Req] /\ reqs'[c] = q
      /\ \A d \in Client : d # c => reqs'[d] = reqs[d]
  BY <1>2, <1>3, BecomeTyped DEF CacheInv
<1>5. CacheTypeOK'
  BY <1>2, <1>4 DEF CacheInv, CacheTypeOK, Req, files, history
<1>6. ASSUME NEW f \in Expiry PROVE FileOK(f)'
  <2>1. \A d \in Client : Stores(d, f) \/ Stores(d, f)' => reqs'[d] = reqs[d]
    BY <1>2, <1>3, <1>4 DEF Stores
  <2>2. \A v \in Version : seen[v] <= seen'[v]
    BY <1>2, <1>5 DEF CacheTypeOK, history, Never
  <2>3. CASE f # e \/ meta[e] = 0
    <3>1. \A d \in Client : Copies(d, f)' => reqs'[d] = reqs[d]
      BY <1>3, <1>4, <2>3 DEF Copies
    <3> QED BY <1>2, <1>5, <2>1, <2>2, <3>1, FileStays
            DEF CacheInv, FilesOK, files, history
  <2>4. CASE f = e /\ meta[e] # 0
    <3>1. stores[e] # 0
      BY <2>4 DEF CacheInv, FilesOK, FileOK, Untouched
    <3>2. CASE stores[e] = 1
      <4>1. PICK v \in Version : Stored(e, v)
        BY <3>2 DEF CacheInv, FilesOK, FileOK
      <4>2. \A d \in Client : Stores(d, e)' <=> Stores(d, e)
        BY <2>1, <2>4 DEF Stores
      <4>3. \A d \in Client : StoredBy(d, e, v)'
        BY <1>2, <1>3, <1>4, <2>4, <4>1 DEF Stored, StoredBy, Stores, Copies, files, history
      <4>4. Storing(e)' <=> Storing(e)
        BY <4>2 DEF Storing, Stores
      <4>5. Stored(e, v)'
        BY <1>2, <4>1, <4>2, <4>3, <4>4 DEF Stored, files, history
      <4> QED BY <1>2, <2>4, <3>2, <4>5 DEF FileOK, history
    <3> QED BY <1>2, <2>4, <3>1, <3>2 DEF FileOK, history
  <2> QED BY <2>3, <2>4
<1>7. LinksOK'
  BY <1>2, <1>3, <1>4 DEF CacheInv, LinksOK, files
<1>8. SeenOK' /\ AnswersAreComplete'
  BY <1>2 DEF CacheInv, SeenOK, AnswersAreComplete, Complete, history
<1>9. LookupsOK'
  BY <1>1, <1>2, <1>3, <1>4 DEF CacheInv, LookupsOK, history
<1> QED BY <1>5, <1>6, <1>7, <1>8, <1>9 DEF CacheInv, FilesOK

\* What a hit delivers, and why it may break off.
LEMMA CopyDelivers ==
  ASSUME CacheInv, NEW c \in Client, Copy(c)
  PROVE  \/ got'[c] = <<>>
         \/ got'[c] = Broken /\ (Storing(reqs[c].exp) \/ reqs[c].exp \in torn)
         \/ \E v \in Version : /\ got'[c] = Complete(v) /\ seen[v] # Never
                               /\ reqs[c].exp <= seen[v] + Ttl
<1> DEFINE e == reqs[c].exp
<1>1. reqs[c].pc = "copy" /\ e \in Expiry
  BY ReqTypes DEF CacheInv, Copy, At, CopyReq
<1>2. got'[c] = IF stores[e] > 1 THEN <<>> ELSE Received(e, reqs[c].length)
  BY DEF Copy, CacheInv, CacheTypeOK
<1>3. Copies(c, e) /\ stores[e] # 0
  BY <1>1 DEF Copies, CacheInv, FilesOK, FileOK, Untouched
<1>4. CASE stores[e] = 1
  <2>1. PICK v \in Version : Stored(e, v)
    BY <1>1, <1>4 DEF CacheInv, FilesOK, FileOK
  <2>2. reqs[c].length = Length[v] /\ got'[c] = Received(e, Length[v])
    BY <1>2, <1>3, <1>4, <2>1 DEF Stored, StoredBy
  <2>3. Length[v] \in Nat
    BY ExpiryTypes
  <2>4. CASE body[e] = None
    <3>1. got'[c] = Broken
      BY <2>2, <2>4 DEF Received
    <3>2. None # Complete(v)
      BY <2>3, PrefixIsPiece, ExpiryTypes DEF Prefix, Complete
    <3> QED BY <2>1, <2>4, <3>1, <3>2 DEF Stored
  <2>5. CASE body[e] # None
    <3>1. PICK k \in 0 .. Length[v] : body[e] = Prefix(v, k)
      BY <2>1, <2>5 DEF Stored
    <3>2. got'[c] = IF k = Length[v] THEN Complete(v) ELSE Broken
      BY <2>2, <3>1, PrefixReceived
    <3>3. CASE k = Length[v]
      BY <2>1, <3>2, <3>3 DEF Stored
    <3>4. CASE k # Length[v]
      <4>1. Complete(v) = Prefix(v, Length[v]) /\ Len(Prefix(v, k)) = k
            /\ Len(Prefix(v, Length[v])) = Length[v]
        BY <2>3, ExpiryTypes, PrefixIsPiece DEF Complete, Prefix
      <4>2. body[e] # Complete(v)
        BY <3>1, <3>4, <4>1
      <4> QED BY <2>1, <3>2, <3>4, <4>2 DEF Stored
    <3> QED BY <3>3, <3>4
  <2> QED BY <2>4, <2>5
<1> QED BY <1>1, <1>2, <1>3, <1>4 DEF CacheInv, CacheTypeOK

LEMMA CopySafe ==
  ASSUME CacheInv, NEW c \in Client, Copy(c)
  PROVE  CacheInv'
<1>1. /\ reqs[c].pc = "copy" /\ Become(c, Idle) /\ ranged' = ranged \ {c}
      /\ got' = [got EXCEPT ![c] = got'[c]]
      /\ UNCHANGED <<now, files, clearing, seen, asked, stores, torn>>
  BY DEF Copy, End, At, CacheInv, CacheTypeOK
<1>2. /\ reqs' \in [Client -> Req] /\ reqs'[c] = Idle
      /\ \A d \in Client : d # c => reqs'[d] = reqs[d]
  BY <1>1, BecomeTyped DEF CacheInv, Req
<1>3. got'[c] \in {<<>>, Broken} \cup {Complete(v) : v \in Version}
  BY CopyDelivers
<1>4. \A v \in Version : Complete(v) \in Pieces
  BY PrefixIsPiece, ExpiryTypes DEF Complete, Prefix
<1>5. CacheTypeOK'
  <2>1. got' \in [Client -> Pieces \cup {Broken}]
    <3>1. got'[c] \in Pieces \cup {Broken} /\ got \in [Client -> Pieces \cup {Broken}]
      BY <1>3, <1>4, PiecesApart DEF CacheInv, CacheTypeOK
    <3> QED BY <1>1, <3>1
  <2>2. ranged' \subseteq Client
    BY <1>1 DEF CacheInv, CacheTypeOK
  <2> QED BY <1>1, <1>2, <2>1, <2>2 DEF CacheInv, CacheTypeOK, Req, files
<1>6. FilesOK' /\ LinksOK'
  BY <1>1, <1>2, <1>5, FilesStay DEF CacheTypeOK, Stores, Copies, Idle, Never
<1>7. SeenOK' /\ AnswersAreComplete'
  BY <1>1, <1>3 DEF CacheInv, CacheTypeOK, SeenOK, AnswersAreComplete, Complete
<1>8. LookupsOK'
  <2>1. \A d \in Client : d # c => got'[d] = got[d]
    BY <1>1 DEF CacheInv, CacheTypeOK
  <2>2. reqs'[c].pc = "idle"
    BY <1>2 DEF Idle
  <2> QED BY <1>1, <1>2, <2>1, <2>2 DEF CacheInv, LookupsOK
<1> QED BY <1>5, <1>6, <1>7, <1>8 DEF CacheInv

LEMMA NotStoredSafe ==
  ASSUME CacheInv, NEW c \in Client, NotStored(c)
  PROVE  CacheInv'
<1>1. /\ reqs[c].pc = "fetch" /\ Become(c, Idle) /\ ranged' = ranged \ {c}
      /\ UNCHANGED <<now, files, clearing, history>>
  BY DEF NotStored, End, At
<1>2. /\ reqs' \in [Client -> Req] /\ reqs'[c] = Idle
      /\ \A d \in Client : d # c => reqs'[d] = reqs[d]
  BY <1>1, BecomeTyped DEF CacheInv, Req
<1>3. CacheTypeOK'
  BY <1>1, <1>2 DEF CacheInv, CacheTypeOK, Req, files, history
<1>4. FilesOK' /\ LinksOK'
  BY <1>1, <1>2, <1>3, FilesStay DEF CacheTypeOK, Stores, Copies, Idle, Never, history
<1> QED BY <1>1, <1>2, <1>3, <1>4
        DEF CacheInv, SeenOK, LookupsOK, AnswersAreComplete, Complete, Idle, history
-----------------------------------------------------------------------------
(***************************************************************************)
(* The steps of a store.                                                   *)
(***************************************************************************)
LEMMA PutSafe ==
  ASSUME CacheInv, NEW c \in Client, NEW v \in Version, Put(c, v)
  PROVE  CacheInv'
<1>1. PICK e \in Expiry : e = now + Ttl
  BY ExpiryTypes DEF CacheInv, CacheTypeOK, Expiry
<1> DEFINE q == [pc |-> "put", exp |-> e, v |-> v, off |-> 0, linked |-> TRUE]
<1>2. /\ reqs[c].pc = "fetch" /\ Become(c, q)
      /\ body' = [body EXCEPT ![e] = <<>>] /\ seen' = [seen EXCEPT ![v] = now]
      /\ stores' = [stores EXCEPT ![e] = Min({@ + 1, 2})]
      /\ UNCHANGED <<now, meta, ranged, clearing, asked, got, torn>>
  BY <1>1 DEF Put, At
<1>3. q \in Req /\ q.pc = "put" /\ q.exp = e /\ q.v = v /\ q.off = 0 /\ q.linked
  BY ExpiryTypes DEF Req, StoreReq
<1> HIDE DEF q
<1>4. /\ reqs' \in [Client -> Req] /\ reqs'[c] = q
      /\ \A d \in Client : d # c => reqs'[d] = reqs[d]
  BY <1>2, <1>3, BecomeTyped DEF CacheInv
<1>5. stores'[e] = IF stores[e] = 0 THEN 1 ELSE 2
  <2>1. stores[e] \in 0 .. 2
    BY DEF CacheInv, CacheTypeOK
  <2>2. \A n \in 0 .. 2 : Min({n + 1, 2}) = IF n = 0 THEN 1 ELSE 2
    BY DEF Min
  <2> QED BY <1>2, <2>1, <2>2 DEF CacheInv, CacheTypeOK
<1>6. CacheTypeOK'
  <2>1. stores' \in [Expiry -> 0 .. 2]
    BY <1>2, <1>5 DEF CacheInv, CacheTypeOK
  <2>2. seen' \in [Version -> Never .. MaxNow]
    BY <1>2, ExpiryTypes DEF CacheInv, CacheTypeOK, Never
  <2>3. body' \in [Expiry -> Pieces \cup {None}]
    BY <1>2, PiecesApart DEF CacheInv, CacheTypeOK
  <2> QED BY <1>2, <1>4, <2>1, <2>2, <2>3 DEF CacheInv, CacheTypeOK, Req
<1>7. \A w \in Version : seen[w] <= seen'[w] /\ seen'[w] <= now
  BY <1>2, ExpiryTypes DEF CacheInv, CacheTypeOK, SeenOK, Never
<1>8. ASSUME NEW f \in Expiry PROVE FileOK(f)'
  <2>1. CASE f # e
    <3>1. stores'[f] = stores[f] /\ body'[f] = body[f] /\ meta'[f] = meta[f]
      BY <1>2, <2>1 DEF CacheInv, CacheTypeOK
    <3>2. \A d \in Client : /\ Stores(d, f) \/ Stores(d, f)' => reqs'[d] = reqs[d]
                            /\ Copies(d, f)' => reqs'[d] = reqs[d]
      BY <1>2, <1>3, <1>4, <2>1 DEF Stores, Copies
    <3> QED BY <1>2, <1>6, <1>7, <3>1, <3>2, FileStays DEF CacheInv, FilesOK
  <2>2. CASE f = e /\ stores[e] = 0
    <3>1. Untouched(e)
      BY <2>2 DEF CacheInv, FilesOK, FileOK
    <3>2. body'[e] = Prefix(v, 0) /\ meta'[e] = 0
      BY <1>2, <3>1, NothingIsPrefix DEF CacheInv, CacheTypeOK, Untouched
    <3>3. \A d \in Client : ~ Copies(d, e)' /\ (Stores(d, e)' => d = c)
      BY <1>3, <1>4, <3>1 DEF Untouched, Copies, Stores
    <3>4. \A d \in Client : StoredBy(d, e, v)'
      BY <1>3, <1>4, <3>2, <3>3, ExpiryTypes DEF StoredBy
    <3>5. seen'[v] # Never /\ e <= seen'[v] + Ttl
      BY <1>1, <1>2, ExpiryTypes DEF CacheInv, CacheTypeOK, Never
    <3>6. Storing(e)'
      BY <1>3, <1>4 DEF Storing
    <3>7. Stored(e, v)'
      BY <3>2, <3>3, <3>4, <3>5, <3>6, ExpiryTypes DEF Stored
    <3> QED BY <1>5, <2>2, <3>7 DEF FileOK
  <2>3. CASE f = e /\ stores[e] # 0
    BY <1>5, <2>3 DEF FileOK
  <2> QED BY <2>1, <2>2, <2>3
<1>9. LinksOK'
  <2> SUFFICES ASSUME NEW d \in Client, reqs'[d].pc \in {"put", "tee"}, reqs'[d].linked
               PROVE  body'[reqs'[d].exp] # None
    BY DEF LinksOK
  <2>1. reqs'[d].exp \in Expiry
    BY <1>6 DEF CacheTypeOK, Idle, Fetching, MetaReq, CopyReq, StoreReq
  <2> QED BY <1>2, <1>3, <1>4, <2>1, PiecesApart DEF CacheInv, CacheTypeOK, LinksOK
<1>10. SeenOK' /\ LookupsOK' /\ AnswersAreComplete'
  BY <1>2, <1>3, <1>4, <1>7 DEF CacheInv, SeenOK, LookupsOK, AnswersAreComplete, Complete
<1> QED BY <1>6, <1>8, <1>9, <1>10 DEF CacheInv, FilesOK

\* A store that writes into a file which one store has opened is that store.
LEMMA OnlyStore ==
  ASSUME CacheInv, NEW c \in Client, NEW e \in Expiry, Stores(c, e), stores[e] # 2
  PROVE  /\ stores[e] = 1
         /\ \E v \in Version : Stored(e, v) /\ reqs[c].v = v
         /\ \A d \in Client : Stores(d, e) => d = c
<1>1. stores[e] = 1
  BY DEF CacheInv, CacheTypeOK, FilesOK, FileOK, Untouched
<1>2. PICK v \in Version : Stored(e, v)
  BY <1>1 DEF CacheInv, FilesOK, FileOK
<1>3. reqs[c].v = v /\ \A d \in Client : Stores(d, e) => d = c
  BY <1>2 DEF Stored, StoredBy
<1> QED BY <1>1, <1>2, <1>3

LEMMA WriteMetaSafe ==
  ASSUME CacheInv, NEW c \in Client, WriteMeta(c)
  PROVE  CacheInv'
<1>1. reqs[c] \in StoreReq /\ reqs[c].pc = "put"
  BY ReqTypes DEF CacheInv, WriteMeta, At
<1>2. PICK e \in Expiry : e = reqs[c].exp
  BY <1>1 DEF StoreReq
<1> DEFINE q == [reqs[c] EXCEPT !.pc = "tee"]
<1>3. /\ Become(c, q) /\ UNCHANGED <<now, body, ranged, clearing, history>>
      /\ meta' = [meta EXCEPT ![e] = Length[reqs[c].v]] \/ UNCHANGED meta
  BY <1>2 DEF WriteMeta
<1>4. /\ q \in Req /\ q.pc = "tee" /\ q.exp = e /\ q.v = reqs[c].v
      /\ q.off = reqs[c].off /\ q.linked = reqs[c].linked
  BY <1>1, <1>2 DEF Req, StoreReq
<1> HIDE DEF q
<1>5. /\ reqs' \in [Client -> Req] /\ reqs'[c] = q
      /\ \A d \in Client : d # c => reqs'[d] = reqs[d]
  BY <1>3, <1>4, BecomeTyped DEF CacheInv
<1>6. CacheTypeOK'
  <2>1. Length[reqs[c].v] \in 0 .. MaxLength
    BY <1>1, ExpiryTypes DEF StoreReq
  <2>2. meta' \in [Expiry -> 0 .. MaxLength]
    BY <1>3, <2>1 DEF CacheInv, CacheTypeOK
  <2> QED BY <1>3, <1>5, <2>2 DEF CacheInv, CacheTypeOK, Req, history
<1>7. \A v \in Version : seen[v] <= seen'[v]
  BY <1>3, <1>6 DEF CacheTypeOK, history, Never
<1>8. ASSUME NEW f \in Expiry PROVE FileOK(f)'
  <2>1. CASE f # e
    <3>1. meta'[f] = meta[f]
      BY <1>3, <2>1 DEF CacheInv, CacheTypeOK
    <3>2. \A d \in Client : /\ Stores(d, f) \/ Stores(d, f)' => reqs'[d] = reqs[d]
                            /\ Copies(d, f)' => reqs'[d] = reqs[d]
      BY <1>2, <1>4, <1>5, <2>1 DEF Stores, Copies
    <3> QED BY <1>3, <1>6, <1>7, <3>1, <3>2, FileStays DEF CacheInv, FilesOK, history
  <2>2. CASE f = e /\ stores[e] # 2
    <3>1. Stores(c, e)
      BY <1>1, <1>2 DEF Stores
    <3>2. stores[e] = 1 /\ \A d \in Client : Stores(d, e) => d = c
      BY <2>2, <3>1, OnlyStore
    <3>3. PICK v \in Version : Stored(e, v) /\ reqs[c].v = v
      BY <2>2, <3>1, OnlyStore
    <3>4. \A d \in Client : /\ Stores(d, e)' <=> Stores(d, e)
                            /\ Copies(d, e)' => reqs'[d] = reqs[d]
      BY <1>2, <1>4, <1>5, <3>1 DEF Stores, Copies
    <3>5. ASSUME NEW d \in Client PROVE StoredBy(d, e, v)'
      <4>1. StoredBy(d, e, v)
        BY <3>3 DEF Stored
      <4> QED BY <1>3, <1>4, <1>5, <3>1, <3>4, <4>1
              DEF StoredBy, Copies, history
    <3>6. meta'[e] \in {0, Length[v]}
      BY <1>3, <3>3 DEF Stored, CacheInv, CacheTypeOK
    <3>7. Storing(e)'
      BY <1>4, <1>5 DEF Storing
    <3>8. Stored(e, v)'
      BY <1>3, <3>2, <3>3, <3>4, <3>5, <3>6, <3>7 DEF Stored, history
    <3> QED BY <1>3, <2>2, <3>2, <3>8 DEF FileOK, history
  <2>3. CASE f = e /\ stores[e] = 2
    BY <1>3, <2>3 DEF FileOK, history
  <2> QED BY <2>1, <2>2, <2>3
<1>9. LinksOK'
  BY <1>1, <1>2, <1>3, <1>4, <1>5 DEF CacheInv, LinksOK
<1>10. SeenOK' /\ LookupsOK' /\ AnswersAreComplete'
  BY <1>3, <1>4, <1>5 DEF CacheInv, SeenOK, LookupsOK, AnswersAreComplete, Complete, history
<1> QED BY <1>6, <1>8, <1>9, <1>10 DEF CacheInv, FilesOK

LEMMA TeeSafe ==
  ASSUME CacheInv, NEW c \in Client, Tee(c)
  PROVE  CacheInv'
<1>1. reqs[c] \in StoreReq /\ reqs[c].pc = "tee"
  BY ReqTypes DEF CacheInv, Tee, At
<1>2. PICK e \in Expiry, off \in 0 .. MaxLength - 1, v \in Version :
        e = reqs[c].exp /\ off = reqs[c].off /\ v = reqs[c].v /\ off < Length[v]
  BY <1>1, ExpiryTypes DEF StoreReq, Tee
<1> DEFINE q == [reqs[c] EXCEPT !.off = off + 1]
<1>3. /\ Become(c, q) /\ UNCHANGED <<now, meta, ranged, clearing, history>>
      /\ body' = IF reqs[c].linked THEN [body EXCEPT ![e] = WriteAt(@, off, v)] ELSE body
  BY <1>2 DEF Tee
<1>4. /\ q \in Req /\ q.pc = "tee" /\ q.exp = e /\ q.v = v
      /\ q.off = off + 1 /\ q.linked = reqs[c].linked
  BY <1>1, <1>2, ExpiryTypes DEF Req, StoreReq
<1> HIDE DEF q
<1>5. /\ reqs' \in [Client -> Req] /\ reqs'[c] = q
      /\ \A d \in Client : d # c => reqs'[d] = reqs[d]
  BY <1>3, <1>4, BecomeTyped DEF CacheInv
<1>6. /\ body' \in [Expiry -> Pieces \cup {None}]
      /\ \A f \in Expiry : body[f] # None => body'[f] # None
      /\ \A f \in Expiry : f # e => body'[f] = body[f]
  <2>1. CASE reqs[c].linked
    <3>1. body[e] \in Pieces
      BY <1>1, <1>2, <2>1 DEF CacheInv, CacheTypeOK, LinksOK
    <3>2. WriteAt(body[e], off, v) \in Pieces
      BY <3>1, WriteAtIsPiece
    <3> QED BY <1>3, <2>1, <3>2, PiecesApart DEF CacheInv, CacheTypeOK
  <2>2. CASE ~ reqs[c].linked
    BY <1>3, <2>2 DEF CacheInv, CacheTypeOK
  <2> QED BY <2>1, <2>2
<1>7. CacheTypeOK'
  BY <1>3, <1>5, <1>6 DEF CacheInv, CacheTypeOK, Req, history
<1>8. \A w \in Version : seen[w] <= seen'[w]
  BY <1>3, <1>7 DEF CacheTypeOK, history, Never
<1>9. ASSUME NEW f \in Expiry PROVE FileOK(f)'
  <2>1. CASE f # e
    <3>1. \A d \in Client : /\ Stores(d, f) \/ Stores(d, f)' => reqs'[d] = reqs[d]
                            /\ Copies(d, f)' => reqs'[d] = reqs[d]
      BY <1>2, <1>4, <1>5, <2>1 DEF Stores, Copies
    <3> QED BY <1>3, <1>6, <1>7, <1>8, <2>1, <3>1, FileStays
            DEF CacheInv, FilesOK, history
  <2>2. CASE f = e /\ stores[e] # 2
    <3>1. Stores(c, e)
      BY <1>1, <1>2 DEF Stores
    <3>2. stores[e] = 1 /\ \A d \in Client : Stores(d, e) => d = c
      BY <2>2, <3>1, OnlyStore
    <3>3. Stored(e, v)
      BY <1>2, <2>2, <3>1, OnlyStore
    <3>4. \A d \in Client : /\ Stores(d, e)' <=> Stores(d, e)
                            /\ Copies(d, e)' => reqs'[d] = reqs[d] /\ Copies(d, e)
      BY <1>2, <1>4, <1>5, <3>1 DEF Stores, Copies
    <3>5. /\ body'[e] = None \/ \E k \in 0 .. Length[v] : body'[e] = Prefix(v, k)
          /\ reqs[c].linked => body'[e] = Prefix(v, off + 1)
      <4>1. CASE reqs[c].linked
        <5>1. body[e] = Prefix(v, off)
          BY <1>2, <3>1, <3>3, <4>1 DEF Stored, StoredBy
        <5>2. body'[e] = Prefix(v, off + 1)
          BY <1>3, <4>1, <5>1, WriteAtExtends DEF CacheInv, CacheTypeOK
        <5>3. off + 1 \in 0 .. Length[v]
          BY <1>2, ExpiryTypes
        <5> QED BY <5>2, <5>3
      <4>2. CASE ~ reqs[c].linked
        BY <1>3, <3>3, <4>2 DEF Stored
      <4> QED BY <4>1, <4>2
    <3>6. ASSUME NEW d \in Client PROVE StoredBy(d, e, v)'
      <4>1. StoredBy(d, e, v) /\ StoredBy(c, e, v)
        BY <3>3 DEF Stored
      <4>2. CASE d = c
        <5>1. off + 1 \in 0 .. Length[v]
          BY <1>2, ExpiryTypes
        <5>2. e \notin torn' => reqs[c].linked
          BY <1>3, <3>1, <4>1 DEF StoredBy, history
        <5>3. ~ Copies(c, e)'
          BY <1>4, <1>5 DEF Copies
        <5> QED BY <1>4, <1>5, <3>5, <4>2, <5>1, <5>2, <5>3 DEF StoredBy
      <4>3. CASE d # c
        <5>1. ~ Stores(d, e)'
          BY <3>2, <3>4, <4>3
        <5> QED BY <3>4, <4>1, <5>1 DEF StoredBy
      <4> QED BY <4>2, <4>3
    <3>7. Storing(e)'
      BY <1>4, <1>5 DEF Storing
    <3>8. Stored(e, v)'
      BY <1>3, <3>2, <3>3, <3>4, <3>5, <3>6, <3>7 DEF Stored, history
    <3> QED BY <1>3, <2>2, <3>2, <3>8 DEF FileOK, history
  <2>3. CASE f = e /\ stores[e] = 2
    BY <1>3, <2>3 DEF FileOK, history
  <2> QED BY <2>1, <2>2, <2>3
<1>10. LinksOK'
  <2> SUFFICES ASSUME NEW d \in Client, reqs'[d].pc \in {"put", "tee"}, reqs'[d].linked
               PROVE  body'[reqs'[d].exp] # None
    BY DEF LinksOK
  <2>1. reqs'[d].exp \in Expiry
    BY <1>7 DEF CacheTypeOK, Idle, Fetching, MetaReq, CopyReq, StoreReq
  <2> QED BY <1>1, <1>2, <1>4, <1>5, <1>6, <2>1 DEF CacheInv, LinksOK
<1>11. SeenOK' /\ LookupsOK' /\ AnswersAreComplete'
  BY <1>3, <1>4, <1>5 DEF CacheInv, SeenOK, LookupsOK, AnswersAreComplete, Complete, history
<1> QED BY <1>7, <1>9, <1>10, <1>11 DEF CacheInv, FilesOK

LEMMA CloseSafe ==
  ASSUME CacheInv, NEW c \in Client, Close(c)
  PROVE  CacheInv'
<1>1. reqs[c] \in StoreReq /\ reqs[c].pc = "tee"
  BY ReqTypes DEF CacheInv, Close, At
<1>2. PICK e \in Expiry : e = reqs[c].exp
  BY <1>1 DEF StoreReq
<1>3. /\ Become(c, Idle) /\ ranged' = ranged \ {c}
      /\ UNCHANGED <<now, files, clearing, seen, asked, got, stores>>
      /\ torn' = IF reqs[c].off < Length[reqs[c].v] THEN torn \cup {e} ELSE torn
  BY <1>2 DEF Close, End
<1>4. /\ reqs' \in [Client -> Req] /\ reqs'[c] = Idle /\ Idle.pc = "idle"
      /\ \A d \in Client : d # c => reqs'[d] = reqs[d]
  BY <1>3, BecomeTyped DEF CacheInv, Req, Idle
<1>5. CacheTypeOK'
  BY <1>3, <1>4 DEF CacheInv, CacheTypeOK, Req, files
<1>6. \A w \in Version : seen[w] <= seen'[w]
  BY <1>3, <1>5 DEF CacheTypeOK, Never
<1>7. ASSUME NEW f \in Expiry PROVE FileOK(f)'
  <2>1. CASE f # e
    <3>1. \A d \in Client : /\ Stores(d, f) \/ Stores(d, f)' => reqs'[d] = reqs[d]
                            /\ Copies(d, f)' => reqs'[d] = reqs[d]
      BY <1>2, <1>4, <2>1 DEF Stores, Copies
    <3> QED BY <1>3, <1>5, <1>6, <2>1, <3>1, FileStays
            DEF CacheInv, FilesOK, files
  <2>2. CASE f = e /\ stores[e] # 2
    <3>1. Stores(c, e)
      BY <1>1, <1>2 DEF Stores
    <3>2. stores[e] = 1 /\ \A d \in Client : Stores(d, e) => d = c
      BY <2>2, <3>1, OnlyStore
    <3>3. PICK v \in Version : Stored(e, v) /\ reqs[c].v = v
      BY <2>2, <3>1, OnlyStore
    <3>4. \A d \in Client : /\ ~ Stores(d, e)'
                            /\ Copies(d, e)' => reqs'[d] = reqs[d] /\ Copies(d, e)
      BY <1>4, <3>2 DEF Stores, Copies
    <3>5. \A d \in Client : StoredBy(d, e, v)'
      BY <3>3, <3>4 DEF Stored, StoredBy
    <3>6. e \notin torn' => body'[e] = Complete(v)
      <4>1. CASE reqs[c].off < Length[v]
        BY <1>3, <3>3, <4>1
      <4>2. CASE ~ (reqs[c].off < Length[v])
        <5>1. reqs[c].off = Length[v]
          BY <3>1, <3>3, <4>2, ExpiryTypes DEF Stored, StoredBy
        <5> QED BY <1>3, <3>1, <3>3, <4>2, <5>1
                DEF Stored, StoredBy, Prefix, Complete, files
      <4> QED BY <4>1, <4>2
    <3>7. Stored(e, v)'
      BY <1>3, <3>3, <3>4, <3>5, <3>6 DEF Stored, files
    <3> QED BY <1>3, <2>2, <3>2, <3>7 DEF FileOK
  <2>3. CASE f = e /\ stores[e] = 2
    BY <1>3, <2>3 DEF FileOK
  <2> QED BY <2>1, <2>2, <2>3
<1>8. LinksOK' /\ SeenOK' /\ LookupsOK' /\ AnswersAreComplete'
  BY <1>3, <1>4 DEF CacheInv, LinksOK, SeenOK, LookupsOK, AnswersAreComplete, Complete, files
<1> QED BY <1>5, <1>7, <1>8 DEF CacheInv, FilesOK
-----------------------------------------------------------------------------
(***************************************************************************)
(* Clean-up, clearing and the clock.                                       *)
(***************************************************************************)
LEMMA ClearingSafe ==
  ASSUME CacheInv, Cleanup \/ ClearDomain
  PROVE  CacheInv'
<1>1. /\ clearing' \in SUBSET (Expiry \X {"body", "meta"})
      /\ UNCHANGED <<now, files, reqs, ranged, history>>
  BY DEF Cleanup, ClearDomain, Expired
<1>2. CacheTypeOK'
  BY <1>1 DEF CacheInv, CacheTypeOK, files, history
<1>3. FilesOK' /\ LinksOK'
  BY <1>1, <1>2, FilesStay DEF CacheTypeOK, Never, history
<1> QED BY <1>1, <1>2, <1>3
        DEF CacheInv, SeenOK, LookupsOK, AnswersAreComplete, Complete, history

LEMMA RemoveMetaSafe ==
  ASSUME CacheInv, NEW e \in Expiry, RemoveMeta(e)
  PROVE  CacheInv'
<1>1. /\ meta' = [meta EXCEPT ![e] = 0] /\ clearing' = clearing \ {<<e, "meta">>}
      /\ UNCHANGED <<now, body, reqs, ranged, history>>
  BY DEF RemoveMeta
<1>2. CacheTypeOK'
  BY <1>1, ExpiryTypes DEF CacheInv, CacheTypeOK, history
<1>3. \A v \in Version : seen[v] <= seen'[v]
  BY <1>1, <1>2 DEF CacheTypeOK, Never, history
<1>4. ASSUME NEW f \in Expiry PROVE FileOK(f)'
  <2>1. FileOK(f)
    BY DEF CacheInv, FilesOK
  <2>2. CASE f # e
    <3>1. meta'[f] = meta[f]
      BY <1>1, <2>2 DEF CacheInv, CacheTypeOK
    <3> QED BY <1>1, <1>2, <1>3, <2>1, <3>1, FileStays DEF CacheInv, history
  <2>3. CASE f = e
    <3>1. meta'[e] = 0
      BY <1>1 DEF CacheInv, CacheTypeOK
    <3> QED BY <1>1, <2>1, <2>3, <3>1
            DEF FileOK, Untouched, Stored, StoredBy, Stores, Copies, Storing, history
  <2> QED BY <2>2, <2>3
<1> QED BY <1>1, <1>2, <1>4
        DEF CacheInv, FilesOK, LinksOK, SeenOK, LookupsOK, AnswersAreComplete, Complete, history

LEMMA RemoveBodySafe ==
  ASSUME CacheInv, NEW e \in Expiry, RemoveBody(e)
  PROVE  CacheInv'
<1>1. /\ body' = [body EXCEPT ![e] = None] /\ torn' = torn \cup {e}
      /\ clearing' = clearing \ {<<e, "body">>}
      /\ UNCHANGED <<now, meta, ranged, seen, asked, got, stores>>
  BY DEF RemoveBody
<1>2. ASSUME NEW c \in Client
      PROVE  /\ reqs'[c] \in Req
             /\ Stores(c, e) => reqs'[c] = [reqs[c] EXCEPT !.linked = FALSE]
             /\ ~ Stores(c, e) => reqs'[c] = reqs[c]
             /\ reqs'[c].pc = reqs[c].pc
             /\ Stores(c, e) => /\ reqs'[c].exp = e /\ reqs'[c].v = reqs[c].v
                                /\ reqs'[c].off = reqs[c].off /\ reqs'[c].linked = FALSE
  <2>1. reqs'[c] = IF Stores(c, e) THEN [reqs[c] EXCEPT !.linked = FALSE] ELSE reqs[c]
    BY DEF RemoveBody, Stores
  <2>2. CASE Stores(c, e)
    <3>1. reqs[c] \in StoreReq /\ reqs[c].exp = e
      BY <2>2, ReqTypes DEF CacheInv, Stores
    <3>2. [reqs[c] EXCEPT !.linked = FALSE] \in StoreReq
      BY <3>1 DEF StoreReq
    <3> QED BY <2>1, <2>2, <3>1, <3>2 DEF StoreReq, Req
  <2>3. CASE ~ Stores(c, e)
    BY <2>1, <2>3, ReqTypes DEF CacheInv
  <2> QED BY <2>2, <2>3
<1>3. CacheTypeOK'
  <2>1. reqs' \in [Client -> Req]
    BY <1>2 DEF RemoveBody
  <2>2. body' \in [Expiry -> Pieces \cup {None}]
    BY <1>1 DEF CacheInv, CacheTypeOK
  <2> QED BY <1>1, <2>1, <2>2 DEF CacheInv, CacheTypeOK, Req
<1>4. \A v \in Version : seen[v] <= seen'[v]
  BY <1>1, <1>3 DEF CacheTypeOK, Never
<1>5. ASSUME NEW f \in Expiry PROVE FileOK(f)'
  <2>1. FileOK(f)
    BY DEF CacheInv, FilesOK
  <2>2. CASE f # e
    <3>1. body'[f] = body[f]
      BY <1>1, <2>2 DEF CacheInv, CacheTypeOK
    <3>2. \A c \in Client : /\ Stores(c, f) \/ Stores(c, f)' => reqs'[c] = reqs[c]
                            /\ Copies(c, f)' => reqs'[c] = reqs[c]
      BY <1>2, <2>2 DEF Stores, Copies
    <3> QED BY <1>1, <1>3, <1>4, <2>1, <3>1, <3>2, FileStays DEF CacheInv
  <2>3. CASE f = e
    <3>1. body'[e] = None /\ e \in torn'
      BY <1>1 DEF CacheInv, CacheTypeOK
    <3>2. \A c \in Client : /\ Stores(c, e)' <=> Stores(c, e)
                            /\ Copies(c, e)' <=> Copies(c, e)
      BY <1>2 DEF Stores, Copies
    <3>3. CASE stores[e] = 0
      BY <1>1, <2>1, <2>3, <3>1, <3>2, <3>3 DEF FileOK, Untouched
    <3>4. CASE stores[e] = 1
      <4>1. PICK v \in Version : Stored(e, v)
        BY <2>1, <2>3, <3>4 DEF FileOK
      <4>2. ASSUME NEW c \in Client PROVE StoredBy(c, e, v)'
        <5>1. StoredBy(c, e, v)
          BY <4>1 DEF Stored
        <5>2. Copies(c, e)' => reqs'[c].length = Length[v]
          BY <1>2, <3>2, <5>1 DEF StoredBy, Stores, Copies
        <5> QED BY <1>2, <3>1, <3>2, <5>1, <5>2 DEF StoredBy
      <4>3. Stored(e, v)'
        BY <1>1, <3>1, <3>2, <4>1, <4>2 DEF Stored
      <4> QED BY <1>1, <2>3, <3>4, <4>3 DEF FileOK
    <3> QED BY <1>1, <2>3, <3>3, <3>4 DEF FileOK
  <2> QED BY <2>2, <2>3
<1>6. LinksOK'
  <2> SUFFICES ASSUME NEW c \in Client, reqs'[c].pc \in {"put", "tee"}, reqs'[c].linked
               PROVE  body'[reqs'[c].exp] # None
    BY DEF LinksOK
  <2>1. reqs'[c] = reqs[c] /\ ~ Stores(c, e)
    BY <1>2
  <2>2. reqs[c].exp \in Expiry \ {e}
    BY <2>1, ReqTypes DEF CacheInv, StoreReq, Stores
  <2> QED BY <1>1, <2>1, <2>2 DEF CacheInv, CacheTypeOK, LinksOK
<1>7. LookupsOK'
  <2> SUFFICES ASSUME NEW c \in Client, reqs'[c].pc \in {"meta", "copy"}
               PROVE  got'[c] = <<>> /\ asked'[c] < reqs'[c].exp
    BY DEF LookupsOK
  <2>1. reqs'[c] = reqs[c]
    BY <1>2 DEF Stores
  <2> QED BY <1>1, <2>1 DEF CacheInv, LookupsOK
<1>8. SeenOK' /\ AnswersAreComplete'
  BY <1>1 DEF CacheInv, SeenOK, AnswersAreComplete, Complete
<1> QED BY <1>3, <1>5, <1>6, <1>7, <1>8 DEF CacheInv, FilesOK

LEMMA PassSafe ==
  ASSUME CacheInv, Pass
  PROVE  CacheInv'
<1>1. now' = now + 1 /\ now < MaxNow /\ UNCHANGED <<files, reqs, ranged, clearing, history>>
  BY DEF Pass
<1>2. CacheTypeOK'
  BY <1>1, ExpiryTypes DEF CacheInv, CacheTypeOK, files, history
<1>3. FilesOK' /\ LinksOK'
  BY <1>1, <1>2, FilesStay DEF CacheTypeOK, Never, history
<1>4. SeenOK'
  BY <1>1, ExpiryTypes DEF CacheInv, CacheTypeOK, SeenOK, history, Never
<1> QED BY <1>1, <1>2, <1>3, <1>4
        DEF CacheInv, LookupsOK, AnswersAreComplete, Complete, history
-----------------------------------------------------------------------------
\* What the steps of a request do to the clock, what came by and what clients got.
LEMMA LookupChanges ==
  ASSUME NEW c \in Client, RequestStep(c)
  PROVE  \/ Copy(c)
         \/ Find(c) /\ got' = [got EXCEPT ![c] = <<>>]
         \/ \E v \in Version : Put(c, v) /\ UNCHANGED got
         \/ UNCHANGED <<now, seen, asked, got>>
<1>1. Find(c) => got' = [got EXCEPT ![c] = <<>>]
  BY DEF Find
<1>2. \A v \in Version : Put(c, v) => UNCHANGED got
  BY DEF Put
<1>3. ReadMeta(c) \/ NotStored(c) \/ WriteMeta(c) \/ Tee(c) => UNCHANGED <<now, history>>
  BY DEF ReadMeta, NotStored, WriteMeta, Tee
<1>4. Close(c) => UNCHANGED <<now, seen, asked, got>>
  BY DEF Close
<1> QED BY <1>1, <1>2, <1>3, <1>4 DEF RequestStep, history

LEMMA StepSafe == CacheInv /\ [Next]_vars => CacheInv'
<1> SUFFICES ASSUME CacheInv, [Next]_vars PROVE CacheInv'
  OBVIOUS
<1>1. ASSUME NEW c \in Client, RequestStep(c) PROVE CacheInv'
  BY <1>1, FindSafe, ReadMetaSafe, CopySafe, PutSafe, NotStoredSafe, WriteMetaSafe,
     TeeSafe, CloseSafe DEF RequestStep
<1>2. CASE Cleanup \/ ClearDomain \/ (\E e \in Expiry : RemoveBody(e) \/ RemoveMeta(e)) \/ Pass
  BY <1>2, ClearingSafe, RemoveBodySafe, RemoveMetaSafe, PassSafe
<1>3. CASE UNCHANGED vars
  <2>1. CacheTypeOK'
    BY <1>3 DEF CacheInv, CacheTypeOK, vars, files, history
  <2>2. FilesOK' /\ LinksOK'
    BY <1>3, <2>1, FilesStay DEF CacheTypeOK, Never, vars, history
  <2> QED BY <1>3, <2>1, <2>2
          DEF CacheInv, SeenOK, LookupsOK, AnswersAreComplete, Complete, vars, history
<1> QED BY <1>1, <1>2, <1>3 DEF Next

LEMMA CacheIsSafe == Spec => []CacheInv
BY StartSafe, StepSafe, PTL DEF Spec

\* Every request, every file beside it and every history has the form the model says,
\* whatever the number of requests and the lengths (findCache, Store, Cleanup).
THEOREM CacheTyped == Spec => []CacheTypeOK
<1>1. CacheInv => CacheTypeOK
  BY DEF CacheInv
<1> QED BY <1>1, CacheIsSafe, PTL

\* A client that accepts a hit has one answer of the origin's as it came by, to its
\* end, however stores, hits, clean-ups and clearings interleave (Store's tee, Lookup's
\* Content-Length).  The answer may be one to another client's Range header.
THEOREM HitsAreComplete == Spec => []AnswersAreComplete
<1>1. CacheInv => AnswersAreComplete
  BY DEF CacheInv
<1> QED BY <1>1, CacheIsSafe, PTL

\* A hit breaks off only while its file is being stored, or when a store left it early
\* or somebody removed it.
THEOREM BreaksAreExplained == Spec => BreaksHaveCauses
<1>1. ASSUME CacheInv, [Next]_vars
      PROVE  [\A c \in Client : got[c] # Broken /\ got'[c] = Broken =>
                Storing(reqs[c].exp) \/ reqs[c].exp \in torn]_vars
  <2> SUFFICES ASSUME Next, NEW c \in Client, got[c] # Broken, got'[c] = Broken
               PROVE  Storing(reqs[c].exp) \/ reqs[c].exp \in torn
    BY <1>1
  <2>1. ASSUME NEW d \in Client, RequestStep(d) PROVE Copy(d) \/ got'[c] \in {got[c], <<>>}
    <3>1. DOMAIN got = Client
      BY <1>1 DEF CacheInv, CacheTypeOK
    <3>2. Copy(d) \/ got' = [got EXCEPT ![d] = <<>>] \/ UNCHANGED got
      BY <2>1, LookupChanges
    <3> QED BY <3>1, <3>2
  <2>2. \/ \E d \in Client : RequestStep(d)
        \/ got'[c] = got[c]
    BY DEF Next, Cleanup, ClearDomain, RemoveBody, RemoveMeta, Pass, history
  <2>3. PICK d \in Client : Copy(d)
    BY <2>1, <2>2, PiecesApart
  <2>4. d = c
    BY <2>3 DEF Copy, CacheInv, CacheTypeOK
  <2>5. \A v \in Version : Complete(v) # Broken
    BY PrefixIsPiece, ExpiryTypes DEF Complete, Prefix
  <2> QED BY <1>1, <2>3, <2>4, <2>5, CopyDelivers, PiecesApart
<1> QED BY <1>1, CacheIsSafe, PTL DEF Spec, BreaksHaveCauses
-----------------------------------------------------------------------------
(***************************************************************************)
(* The cache implements FreshCache.                                        *)
(***************************************************************************)
\* What an answer is made of, as HitsAreFresh maps them.
Taken == [c \in Client |-> ToSet(got[c]) \cap Version]

LEMMA TakenOf ==
  /\ ToSet(<<>>) \cap Version = {} /\ ToSet(Broken) \cap Version = {}
  /\ \A v \in Version : ToSet(Complete(v)) \cap Version = {v}
<1>1. ToSet(<<>>) = {} /\ ToSet(Broken) = {"broken"}
  BY DEF ToSet, Broken
<1>2. ASSUME NEW v \in Version PROVE ToSet(Complete(v)) \cap Version = {v}
  <2>1. 1 \in 1 .. Length[v]
    BY ExpiryTypes
  <2> QED BY <2>1 DEF ToSet, Complete
<1> QED BY <1>1, <1>2, CacheAssumption DEF CacheAssumption

LEMMA FindAsks ==
  ASSUME CacheInv, NEW c \in Client, Find(c)
  PROVE  Promise!Ask(c)
<1>1. got' = [got EXCEPT ![c] = <<>>] /\ got \in [Client -> Pieces \cup {Broken}]
  BY DEF CacheInv, CacheTypeOK, Find
<1>2. Taken' = [Taken EXCEPT ![c] = {}]
  BY <1>1, TakenOf DEF Taken
<1> QED BY <1>2 DEF Find, Promise!Ask, Taken

LEMMA CopyAnswers ==
  ASSUME CacheInv, NEW c \in Client, Copy(c)
  PROVE  Promise!Answer(c) \/ UNCHANGED <<now, seen, asked, Taken>>
<1>1. /\ \A d \in Client : d # c => got'[d] = got[d]
      /\ UNCHANGED <<now, seen, asked>> /\ c \in DOMAIN got
  BY DEF Copy, CacheInv, CacheTypeOK
<1>2. got[c] = <<>> /\ asked[c] < reqs[c].exp /\ reqs[c].exp \in Nat /\ asked[c] \in Int
  <2>1. reqs[c].exp \in Nat
    BY ReqTypes, ExpiryTypes DEF CacheInv, Copy, At, CopyReq
  <2> QED BY <2>1 DEF Copy, At, CacheInv, LookupsOK, CacheTypeOK, Never
<1>3. Taken[c] = {} /\ \A d \in Client : d # c => Taken'[d] = Taken[d]
  BY <1>1, <1>2, TakenOf DEF Taken
<1>4. CASE got'[c] = <<>> \/ got'[c] = Broken
  <2>1. Taken'[c] = {}
    BY <1>4, TakenOf DEF Taken
  <2>2. Taken' = Taken
    BY <1>3, <2>1 DEF Taken
  <2> QED BY <1>1, <2>2
<1>5. ASSUME NEW v \in Version, got'[c] = Complete(v), seen[v] # Never,
             reqs[c].exp <= seen[v] + Ttl
      PROVE  Promise!Answer(c)
  <2>1. Taken'[c] = {v}
    BY <1>5, TakenOf DEF Taken
  <2>2. Taken' = [Taken EXCEPT ![c] = Taken'[c]] /\ Taken' \in [Client -> SUBSET Version]
    BY <1>3, <2>1 DEF Taken
  <2>3. v \in Promise!Fresh(c)
    <3>1. seen[v] \in Int
      BY ExpiryTypes DEF CacheInv, CacheTypeOK, Never
    <3> QED BY <1>2, <1>5, <3>1, ExpiryTypes DEF Promise!Fresh, Promise!Never, Never
  <2> QED BY <1>1, <2>1, <2>2, <2>3 DEF Promise!Answer, Taken
<1> QED BY <1>4, <1>5, CopyDelivers

LEMMA StepKeepsPromise ==
  ASSUME CacheInv, [Next]_vars
  PROVE  [Promise!Next]_<<now, seen, asked, Taken>>
<1>1. UNCHANGED got => UNCHANGED Taken
  BY DEF Taken
<1>2. ASSUME NEW c \in Client, RequestStep(c)
      PROVE  Promise!Next \/ UNCHANGED <<now, seen, asked, Taken>>
  <2>1. CASE Copy(c)
    BY <2>1, CopyAnswers DEF Promise!Next
  <2>2. CASE Find(c)
    BY <2>2, FindAsks DEF Promise!Next
  <2>3. ASSUME NEW v \in Version, Put(c, v), UNCHANGED got PROVE Promise!Arrive(v)
    BY <1>1, <2>3 DEF Put, Promise!Arrive, Taken
  <2> QED BY <1>1, <1>2, <2>1, <2>2, <2>3, LookupChanges DEF Promise!Next
<1>3. CASE Pass
  BY <1>1, <1>3 DEF Pass, Promise!Next, Promise!Pass, history, Taken
<1>4. CASE Cleanup \/ ClearDomain \/ \E e \in Expiry : RemoveBody(e) \/ RemoveMeta(e)
  BY <1>1, <1>4 DEF Cleanup, ClearDomain, RemoveBody, RemoveMeta, history
<1>5. CASE UNCHANGED vars
  BY <1>1, <1>5 DEF vars, history
<1> QED BY <1>2, <1>3, <1>4, <1>5 DEF Next

\* What a client accepted was sent by the origin less than Ttl before the lookup: the
\* cache with its unlocked files implements FreshCache.
THEOREM CacheIsFresh == Spec => HitsAreFresh
<1>1. Init => Promise!Init
  <2> SUFFICES ASSUME Init PROVE Promise!Init
    OBVIOUS
  <2>1. Taken = [c \in Client |-> {}]
    BY TakenOf DEF Init, Taken
  <2> QED BY <2>1 DEF Init, Promise!Init, Taken, Never, Promise!Never
<1>2. CacheInv /\ [Next]_vars => [Promise!Next]_<<now, seen, asked, Taken>>
  BY StepKeepsPromise
<1> QED BY <1>1, <1>2, CacheIsSafe, PTL DEF Spec, HitsAreFresh, Promise!Spec, Taken
=============================================================================
