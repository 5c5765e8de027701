----------------------------- MODULE ControllerCA -----------------------------
(***************************************************************************)
(* The certificates by which the controller and its nodes know each other  *)
(* (api/function/node/node-ca.js): four files, the key and the certificate *)
(* of the authority and of the client, read for every forwarded request,   *)
(* written by the first start, by "regenerate CA" and by the hourly        *)
(* renewal, and no lock.  fs.writeFile empties a file before it fills it:  *)
(* an action is one read, one emptying or one filling of a file.           *)
(***************************************************************************)
EXTENDS Integers, FiniteSetsExt, Functions

CONSTANTS Node,       \* bound: nodes that hold certificates
          Request,    \* bound: requests at a time
          Keys,       \* bound: keys that exist at a time
          Life,       \* CLIENT_CERT_HOURS
          Threshold   \* CLIENT_CERT_RENEW_THRESHOLD_HOURS

ASSUME CAAssumption ==
  /\ Keys \in Nat \ {0}
  /\ Life \in Nat /\ Threshold \in 2 .. Life
  /\ "watcher" \notin Request

VARIABLES
  status,   \* of the controller: "down", "boot" (before it listens), "first" (until the
            \* watcher's first pass ends), "up"
  files,    \* what the four files hold
  left,     \* the hours left of the certificate in client.crt
  caLeft,   \* those of the authority in ca.crt; Threshold stands for more too
  jobs,     \* the requests and the watcher, and how far they are
  nodes,    \* the authority's files from which a node was given its own, as long as
            \* nothing voids them, and whether its five years have ended; None without
  broken    \* history: writers overlapped or were cut short, and no regeneration since

vars == <<status, files, left, caLeft, jobs, nodes, broken>>

Watcher == "watcher"
Job == Request \cup {Watcher}
File == {"caKey", "caCert", "clientKey", "clientCert"}
Order == <<"caKey", "caCert", "clientKey", "clientCert">>

\* A certificate of the key "of", signed with the key "by"; a key is its own.
Pem(of, by) == [of |-> of, by |-> by]
None == Pem(-1, -1)    \* no file
Torn == Pem(0, 0)      \* emptied, not yet filled
Content == [of : 1 .. Keys, by : 1 .. Keys] \cup {None, Torn}

\* A job: what it does, for which node, the files it has read or is to write, the
\* number of the next one, whether that is emptied, and whether nothing disturbed it.
Doing(what, node, next) ==
  [do |-> what, node |-> node, got |-> [f \in File |-> None], next |-> next,
   open |-> FALSE, calm |-> TRUE]
Nobody == "nobody"
Idle == Doing("idle", Nobody, 1)
Given(caKey, caCert) == [caKey |-> caKey, caCert |-> caCert, ended |-> FALSE]
Nothing == Given(None, None)

Listening == status \in {"first", "up"}

CATypeOK ==
  /\ status \in {"down", "boot", "first", "up"}
  /\ files \in [File -> Content]
  /\ left \in 0 .. Life /\ caLeft \in 0 .. Threshold /\ broken \in BOOLEAN
  /\ jobs \in [Job -> [do : {"idle", "watch", "renew", "write", "forward", "issue"},
                       node : Node \cup {Nobody}, got : [File -> Content], next : 1 .. 4,
                       open : BOOLEAN, calm : BOOLEAN]]
  /\ nodes \in [Node -> [caKey : Content, caCert : Content, ended : BOOLEAN]]
  /\ Listening => None \notin Range(files)

Init ==
  /\ status = "down" /\ files = Idle.got
  /\ left = 0 /\ caLeft = Threshold /\ broken = FALSE
  /\ jobs = [j \in Job |-> Idle]
  /\ nodes = [n \in Node |-> Nothing]

Does(j, what) == jobs[j].do = what
Writing == {j \in Job : Does(j, "write")}
\* A renewal counts from its first look at the authority on.
Changing == Writing \cup {j \in Job : Does(j, "renew")}
WritesCA(j) == Does(j, "write") /\ jobs[j].got.caKey # None

(***************************************************************************)
(* Making keys and writing them.                                           *)
(***************************************************************************)
\* A new key is none of those there are; an authority's and a client's never meet, so
\* those made together share a number.
Used == UNION {{c.of, c.by} : c \in UNION ({Range(files)}
               \cup {Range(jobs[j].got) : j \in Job} \cup {{nodes[n].caKey, nodes[n].caCert} : n \in Node})}
Fresh == (1 .. Keys) \ Used
NewKey == Min(Fresh)

\* Mutant: the new certificate is written, the key it belongs to is not.
MadeKeepingKey(ca, k) ==
  [caKey |-> ca, caCert |-> ca, clientKey |-> files.clientKey, clientCert |-> Pem(k, ca.of)]

Made(ca, k) == [caKey |-> ca, caCert |-> ca, clientKey |-> Pem(k, k), clientCert |-> Pem(k, ca.of)]

\* j begins to write what it has made: "all" with a new authority, which voids the
\* certificates of the nodes.
StartWriting(j, ca, k, all) ==
  LET others == Changing \ {j}
      new == [Made(ca, k) EXCEPT !.caKey = IF all THEN @ ELSE None, !.caCert = IF all THEN @ ELSE None]
      disturbed == {i \in Job \ {j} : IF all THEN ~Does(i, "idle") ELSE Does(i, "forward") \/ i \in others}
  IN /\ jobs' = [i \in Job |->
          IF i = j THEN [Doing("write", Nobody, IF all THEN 1 ELSE 3) EXCEPT !.got = new, !.calm = others = {}]
          ELSE [jobs[i] EXCEPT !.calm = @ /\ i \notin disturbed]]
     /\ broken' = (broken \/ others # {})
     /\ nodes' = IF all THEN [n \in Node |-> Nothing] ELSE nodes

Regenerate(j) ==
  /\ Fresh # {}
  /\ StartWriting(j, Pem(NewKey, NewKey), NewKey, TRUE)

\* writeFile opens the file, which empties it, and then writes.
Empty(j) ==
  /\ Does(j, "write") /\ ~jobs[j].open
  /\ files' = [files EXCEPT ![Order[jobs[j].next]] = Torn]
  /\ jobs' = [jobs EXCEPT ![j].open = TRUE]
  /\ UNCHANGED <<status, left, caLeft, nodes, broken>>

Fill(j) ==
  LET w == jobs[j]
      f == Order[w.next]
      last == w.next = 4
  IN /\ Does(j, "write") /\ w.open
     /\ files' = [files EXCEPT ![f] = w.got[f]]
     /\ left' = IF f = "clientCert" THEN Life ELSE left
     /\ caLeft' = IF f = "caCert" THEN Threshold ELSE caLeft
     /\ jobs' = [jobs EXCEPT ![j] =
          IF ~last THEN [w EXCEPT !.next = @ + 1, !.open = FALSE]
          ELSE IF status = "boot" THEN Doing("watch", Nobody, 4) ELSE Idle]
     /\ status' = IF last /\ j = Watcher THEN IF status = "boot" THEN "first" ELSE "up" ELSE status
     /\ broken' = (broken /\ ~(last /\ WritesCA(j) /\ w.calm))
     /\ UNCHANGED nodes

(***************************************************************************)
(* The process: ensureCA before it listens, then the watcher.              *)
(***************************************************************************)
\* Mutant: the server listens while the first certificates are still being written.
StartAtOnce ==
  /\ status = "down"
  /\ status' = "first"
  /\ IF None \in Range(files) THEN Regenerate(Watcher)
     ELSE jobs' = [jobs EXCEPT ![Watcher] = Doing("watch", Nobody, 4)] /\ UNCHANGED <<nodes, broken>>
  /\ UNCHANGED <<files, left, caLeft>>

Start ==
  /\ status = "down"
  /\ IF None \in Range(files)
     THEN status' = "boot" /\ Regenerate(Watcher) /\ UNCHANGED <<files, left, caLeft>>
     ELSE /\ status' = "first"
          /\ jobs' = [jobs EXCEPT ![Watcher] = Doing("watch", Nobody, 4)]
          /\ UNCHANGED <<files, left, caLeft, nodes, broken>>

Crash ==
  /\ status # "down"
  /\ status' = "down"
  /\ jobs' = [j \in Job |-> Idle]
  /\ broken' = (broken \/ Writing # {})
  /\ UNCHANGED <<files, left, caLeft, nodes>>

OneLess(hours) == IF hours > 0 THEN hours - 1 ELSE 0

\* The next hour, and the pass the interval begins.  Bound: what the watcher does and
\* what is being written ends within its hour.
Hour ==
  /\ Does(Watcher, "idle") /\ Writing = {}
  /\ left' = OneLess(left)
  /\ caLeft' \in {OneLess(caLeft)} \cup ({caLeft} \cap {Threshold})
  /\ jobs' = IF Listening THEN [jobs EXCEPT ![Watcher] = Doing("watch", Nobody, 4)] ELSE jobs
  /\ UNCHANGED <<status, files, nodes, broken>>

\* The five years of a node's certificate end; nothing gives it another but an issue.
NodeCertEnds(n) ==
  /\ nodes[n] # Nothing /\ ~nodes[n].ended
  /\ nodes' = [nodes EXCEPT ![n].ended = TRUE]
  /\ UNCHANGED <<status, files, left, caLeft, jobs, broken>>

(***************************************************************************)
(* The hourly pass and the renewal.                                        *)
(***************************************************************************)
\* Mutant: the pass waits until the certificate has expired.
ShouldRenewLate == left = 0

\* Mutant: the comparison is the wrong way round.
ShouldRenewSwapped == left > Threshold

ShouldRenew == left < Threshold

\* checkAndRenewClientCert: an unreadable certificate is an exception, logged.
Pass ==
  LET renew == files.clientCert # Torn /\ ShouldRenew IN
  /\ Does(Watcher, "watch")
  /\ jobs' = [j \in Job |->
       IF j = Watcher THEN IF renew THEN Doing("renew", Nobody, 1) ELSE Idle
       ELSE [jobs[j] EXCEPT !.calm = @ /\ ~(renew /\ Does(j, "write"))]]
  /\ broken' = (broken \/ (renew /\ Changing # {}))
  /\ status' = IF renew THEN status ELSE "up"
  /\ UNCHANGED <<files, left, caLeft, nodes>>

Read(j, f) == jobs' = [jobs EXCEPT ![j].got[f] = files[f], ![j].next = @ + 1]

RenewReadsKey ==
  /\ Does(Watcher, "renew") /\ jobs[Watcher].next = 1
  /\ Read(Watcher, "caKey")
  /\ UNCHANGED <<status, files, left, caLeft, nodes, broken>>

\* The certificate read, the rest follows at once; an authority that has ended or has
\* less than Threshold hours left is replaced.  One with little more signs a
\* certificate that outlives it.
RenewReadsCert ==
  LET caKey == jobs[Watcher].got.caKey
      aged == caLeft < Threshold
  IN
  /\ Does(Watcher, "renew") /\ jobs[Watcher].next = 2
  /\ IF files.caCert = Torn \/ (~aged /\ caKey = Torn)
     THEN /\ jobs' = [jobs EXCEPT ![Watcher] = Idle] /\ status' = "up"
          /\ UNCHANGED <<nodes, broken>>
     ELSE /\ IF aged THEN Regenerate(Watcher)
             ELSE Fresh # {} /\ StartWriting(Watcher, caKey, NewKey, FALSE)
          /\ UNCHANGED status
  /\ UNCHANGED <<files, left, caLeft>>

(***************************************************************************)
(* The requests.                                                           *)
(***************************************************************************)
Begin(j, job) ==
  /\ Listening /\ Does(j, "idle")
  /\ jobs' = [jobs EXCEPT ![j] = job]
  /\ UNCHANGED <<status, files, left, caLeft, nodes, broken>>

\* POST /api/certs/regenerate, /api/set/regenca.
RegenerateCA(j) ==
  /\ Listening /\ Does(j, "idle") /\ Regenerate(j)
  /\ UNCHANGED <<status, files, left, caLeft>>

\* getNodeCert: ca.key is read, then ca.crt, and what they sign goes to the node.
BeginIssue(j, n) ==
  Begin(j, [Doing("issue", n, 2) EXCEPT !.got.caKey = files.caKey,
                                        !.calm = ~\E i \in Job : WritesCA(i)])

Issue(j) ==
  LET caKey == jobs[j].got.caKey
      n == jobs[j].node
  IN /\ Does(j, "issue")
     /\ jobs' = [jobs EXCEPT ![j] = Idle]
     /\ nodes' = IF Torn \in {caKey, files.caCert} THEN nodes
                 ELSE [nodes EXCEPT ![n] = IF jobs[j].calm /\ ~broken
                         THEN Given(caKey, files.caCert) ELSE Nothing]
     /\ UNCHANGED <<status, files, left, caLeft, broken>>

\* forward: ca.crt is read, then client.key, then client.crt for the connection.
BeginForward(j, n) ==
  /\ nodes[n] # Nothing
  /\ Begin(j, [Doing("forward", n, 3) EXCEPT !.got.caCert = files.caCert, !.calm = Writing = {}])

ForwardReadsKey(j) ==
  /\ Does(j, "forward") /\ jobs[j].next = 3
  /\ Read(j, "clientKey")
  /\ UNCHANGED <<status, files, left, caLeft, nodes, broken>>

Connect(j) ==
  /\ Does(j, "forward") /\ jobs[j].next = 4
  /\ jobs' = [jobs EXCEPT ![j] = Idle]
  /\ UNCHANGED <<status, files, left, caLeft, nodes, broken>>

\* What the clock and the watcher do, one after the other.
Watch ==
  Hour \/ Pass \/ RenewReadsKey \/ RenewReadsCert \/ Empty(Watcher) \/ Fill(Watcher)

Next ==
  \/ Start \/ Crash \/ Watch \/ \E n \in Node : NodeCertEnds(n)
  \/ \E j \in Request :
       \/ RegenerateCA(j) \/ Empty(j) \/ Fill(j)
       \/ Issue(j) \/ ForwardReadsKey(j) \/ Connect(j)
       \/ \E n \in Node : BeginIssue(j, n) \/ BeginForward(j, n)

Spec == Init /\ [][Next]_vars
\* Hours pass, and the watcher goes on with what it has begun, whatever is asked of the
\* server and however slowly that is answered.
FairSpec == Spec /\ WF_vars(Watch)

(***************************************************************************)
(* Properties.                                                             *)
(***************************************************************************)
Connects(n, ca, key, cert) ==
  /\ Torn \notin {ca, key, cert}
  /\ cert.of = key.of /\ cert.by = nodes[n].caCert.of   \* the node knows the controller
  /\ nodes[n].caKey.of = ca.of                          \* the controller knows the node
  /\ left > 0 /\ caLeft > 0 /\ ~nodes[n].ended

\* A connection to a node fails for a cause: a writer was at work while the files were
\* read, the authority has been regenerated since the node was given its certificate,
\* writers overlapped or were cut short, the node's certificate or the authority has
\* come to its end, or the client's ran out while the controller was down.  Renewals
\* alone, and restarts between them, never part a controller from its nodes, and its
\* own certificate does not run out.
FailuresHaveCauses ==
  [][\A j \in Request : Connect(j) =>
       LET g == jobs[j].got
           n == jobs[j].node
       IN \/ Connects(n, g.caCert, g.clientKey, files.clientCert)
          \/ ~jobs[j].calm \/ nodes[n] = Nothing \/ broken
          \/ nodes[n].ended \/ caLeft = 0
          \/ left = 0 /\ status = "first"]_vars

\* Between the jobs the four files belong together, unless writers overlapped or were cut
\* short since the last regeneration.
FilesBelongTogether ==
  (Listening /\ Changing = {} /\ ~broken) =>
     /\ files.caKey = files.caCert
     /\ files.clientCert = Pem(files.clientKey.of, files.caKey.of)

\* A renewal that signed with an authority which a regeneration was replacing is made
\* good: once the authority is whole and stays so, and the client's certificate can be
\* read, the client's files come to belong to it.
RenewalHeals ==
  LET settled == /\ Listening /\ files.caKey = files.caCert /\ files.caKey # Torn
                 /\ files.clientCert = Torn => Writing # {}
  IN <>[]settled => <>[](Writing = {} => files.clientCert = Pem(files.clientKey.of, files.caKey.of))
=============================================================================
