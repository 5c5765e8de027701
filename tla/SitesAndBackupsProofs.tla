------------------------ MODULE SitesAndBackupsProofs ------------------------
(***************************************************************************)
(* Proofs about an agent's sites and about the retention of backups, for any *)
(* sites, configurations and requests, and for any number of blocks, copies, *)
(* backups by hand and failing deletions.                                  *)
(***************************************************************************)
EXTENDS Sites, BackupRetention, FiniteSetTheorems, WellFoundedInduction, TLAPS

(***************************************************************************)
(* Proofs about Sites, for any sites, configurations and requests.         *)
(*                                                                         *)
(* The two promises speak of quiet moments only, so they say nothing about *)
(* the state in which a request starts.  SitesInv does: of a site that     *)
(* nobody raced for, every request under way holds the current record      *)
(* (ListsAgree), the configuration follows the record unless a deletion    *)
(* has removed it and is about to write the list (ConfsFollow), and        *)
(* OpenResty serves it unless a reload is still to come (LoadedFollows).   *)
(***************************************************************************)
HoldingPC == {"mkdir", "unlink", "write"}
HoldingRequest ==
  [pc : HoldingPC, site : Site, want : Record, list : [Site -> Record]]

Removing(r) == reqs[r].pc \in {"unlink", "write"} => reqs[r].want = "none"

ListsAgree ==
  \A r \in Holding, d \in Site \ raced : reqs[r].list[d] = rec[d]

DeletedHalf(d) == \E r \in Request : Awaits(r, "write") /\ reqs[r].site = d

ConfsFollow ==
  \A d \in Site \ raced : conf[d] = IF DeletedHalf(d) THEN "none" ELSE ConfOf(rec[d])

ReloadDue(d) == DeletedHalf(d) \/ \E r \in Request : Awaits(r, "reload")

LoadedFollows ==
  synced => \A d \in Site \ raced : loaded[d] = conf[d] \/ ReloadDue(d)

SitesInv ==
  /\ SitesTypeOK
  /\ \A r \in Request : Removing(r)
  /\ ListsAgree /\ ConfsFollow /\ LoadedFollows
-----------------------------------------------------------------------------
LEMMA Shapes ==
  ASSUME SitesTypeOK
  PROVE  /\ rec \in [Site -> Record] /\ conf \in [Site -> Conf] /\ loaded \in [Site -> Conf]
         /\ raced \in SUBSET Site /\ synced \in BOOLEAN
         /\ DOMAIN reqs = Request /\ reqs = [r \in Request |-> reqs[r]]
         /\ \A r \in Request : reqs[r] \in {Idle, Reloading} \cup HoldingRequest
BY DEF SitesTypeOK, HoldingRequest, HoldingPC

\* What a request at an await looks like.
LEMMA RequestShape ==
  ASSUME SitesTypeOK, NEW r \in Request
  PROVE  /\ reqs[r].pc \in HoldingPC <=> r \in Holding
         /\ r \in Holding => reqs[r] \in HoldingRequest
         /\ Awaits(r, "idle") => reqs[r] = Idle
         /\ Awaits(r, "reload") => reqs[r] = Reloading
<1>1. reqs[r] \in {Idle, Reloading} \cup HoldingRequest
  BY Shapes
<1>2. Idle.pc = "idle" /\ Reloading.pc = "reload"
  BY DEF Idle, Reloading
<1>3. reqs[r] \in HoldingRequest => reqs[r].pc \in HoldingPC
  BY DEF HoldingRequest
<1>. QED  BY <1>1, <1>2, <1>3 DEF Holding, Awaits, HoldingPC

LEMMA ConfOfShape ==
  /\ \A x \in Record : ConfOf(x) \in Conf
  /\ \A x \in Conf : ConfOf(x) = x /\ x \in Record
  /\ ConfOf("none") = "none" /\ "none" \in Record /\ "none" \in Conf
BY SitesAssumption DEF SitesAssumption, ConfOf, Record, Conf

LEMMA BecomeStep ==
  ASSUME SitesTypeOK, NEW r \in Request, NEW q, Become(r, q)
  PROVE  /\ reqs'[r] = q
         /\ \A s \in Request \ {r} : reqs'[s] = reqs[s]
         /\ q \in {Idle, Reloading} \cup HoldingRequest =>
              reqs' \in [Request -> {Idle, Reloading} \cup HoldingRequest]
<1>1. reqs \in [Request -> {Idle, Reloading} \cup HoldingRequest]
  BY Shapes
<1>. QED  BY <1>1 DEF Become

\* createSite and deleteSite up to their first await: the list read is the current one.
LEMMA ReadStep ==
  ASSUME SitesInv, NEW r \in Request, NEW d \in Site, NEW want \in Record,
         NEW pc \in {"mkdir", "unlink"}, Awaits(r, "idle"), Read(r, d, want, pc),
         pc = "unlink" => want = "none",
         UNCHANGED <<rec, conf, loaded, synced, raced>>
  PROVE  SitesInv'
<1>. DEFINE q == [pc |-> pc, site |-> d, want |-> want, list |-> rec]
<1>1. SitesTypeOK /\ Become(r, q)
  BY DEF SitesInv, Read
<1>2. q \in HoldingRequest /\ q.pc = pc /\ q.want = want /\ q.list = rec
  BY <1>1, Shapes DEF HoldingRequest, HoldingPC
<1>. HIDE DEF q
<1>3. /\ reqs'[r] = q /\ \A s \in Request \ {r} : reqs'[s] = reqs[s]
      /\ reqs' \in [Request -> {Idle, Reloading} \cup HoldingRequest]
  BY <1>1, <1>2, BecomeStep
<1>4. SitesTypeOK'
  BY <1>1, <1>3 DEF SitesTypeOK, HoldingRequest, HoldingPC
<1>5. (\A s \in Request : Removing(s))'
  BY <1>2, <1>3 DEF SitesInv, Removing
<1>6. ListsAgree'
  BY <1>2, <1>3 DEF SitesInv, ListsAgree, Holding
<1>7. \A e \in Site : (DeletedHalf(e) <=> DeletedHalf(e)') /\ (ReloadDue(e) => ReloadDue(e)')
  <2>1. ~ Awaits(r, "write") /\ ~ Awaits(r, "reload") /\ q.pc # "write"
    BY <1>2 DEF Awaits
  <2>. QED  BY <1>3, <2>1 DEF DeletedHalf, ReloadDue, Awaits
<1>8. ConfsFollow' /\ LoadedFollows'
  BY <1>7 DEF SitesInv, ConfsFollow, LoadedFollows
<1>. QED  BY <1>4, <1>5, <1>6, <1>8 DEF SitesInv

\* The record and the configuration of one site change together, on top of the
\* list that request r, if it held one, read before.
LEMMA ChangeStep ==
  ASSUME SitesInv, NEW r \in Request, NEW d \in Site, NEW want \in Record,
         NEW list, list \in [Site -> Record],
         \A e \in Site \ raced : list[e] = rec[e],
         WriteStore(r, [list EXCEPT ![d] = want], {d}), Become(r, Reloading),
         conf' \in [Site -> Conf], d \notin raced => conf'[d] = ConfOf(want),
         \A e \in Site \ {d} : conf'[e] = conf[e],
         Awaits(r, "write") => reqs[r].site = d,
         UNCHANGED <<loaded, synced>>
  PROVE  SitesInv'
<1>0. SitesTypeOK
  BY DEF SitesInv
<1>1. /\ reqs'[r] = Reloading /\ \A s \in Request \ {r} : reqs'[s] = reqs[s]
      /\ reqs' \in [Request -> {Idle, Reloading} \cup HoldingRequest]
  BY <1>0, BecomeStep
<1>2. Reloading.pc = "reload"
  BY DEF Reloading
<1>3. rec' \in [Site -> Record] /\ rec'[d] = want
      /\ \A e \in Site \ {d} : rec'[e] = list[e]
  BY DEF WriteStore
<1>5. raced' \in SUBSET Site /\ raced \subseteq raced'
      /\ (~ (Holding \subseteq {r}) => d \in raced')
  BY <1>0, Shapes DEF WriteStore
<1>6. SitesTypeOK'
  BY <1>0, <1>1, <1>3, <1>5 DEF SitesTypeOK, HoldingRequest, HoldingPC
<1>7. (\A s \in Request : Removing(s))'
  BY <1>1, <1>2 DEF SitesInv, Removing
<1>8. ListsAgree'
  <2>. SUFFICES ASSUME NEW s \in Request, s \in Holding', NEW e \in Site \ raced'
                PROVE  reqs'[s].list[e] = rec'[e]
    BY DEF ListsAgree, Holding
  <2>1. s # r /\ s \in Holding
    BY <1>1, <1>2 DEF Holding
  <2>2. e # d /\ e \notin raced
    BY <1>5, <2>1
  <2>. QED  BY <1>1, <1>3, <2>1, <2>2 DEF SitesInv, ListsAgree
<1>9. /\ \A e \in Site \ {d} : DeletedHalf(e) <=> DeletedHalf(e)'
      /\ d \notin raced' => ~ DeletedHalf(d)'
  <2>1. \A s \in Request \ {r} : Awaits(s, "write") => s \in Holding
    BY DEF Awaits, Holding
  <2>. QED  BY <1>1, <1>2, <1>5, <2>1 DEF DeletedHalf, Awaits
<1>10. ConfsFollow'
  BY <1>3, <1>5, <1>9 DEF SitesInv, ConfsFollow
<1>11. \A e \in Site : ReloadDue(e)'
  BY <1>1, <1>2 DEF ReloadDue, Awaits
<1>12. LoadedFollows'
  BY <1>11 DEF LoadedFollows
<1>. QED  BY <1>6, <1>7, <1>8, <1>10, <1>12 DEF SitesInv

\* What request r holds at its await.
LEMMA HeldList ==
  ASSUME SitesInv, NEW r \in Request, reqs[r].pc \in HoldingPC
  PROVE  /\ r \in Holding /\ reqs[r] \in HoldingRequest
         /\ reqs[r].site \in Site /\ reqs[r].want \in Record
         /\ reqs[r].list \in [Site -> Record]
         /\ \A e \in Site \ raced : reqs[r].list[e] = rec[e]
<1>1. r \in Holding /\ reqs[r] \in HoldingRequest
  BY RequestShape DEF SitesInv
<1>2. \A e \in Site \ raced : reqs[r].list[e] = rec[e]
  BY <1>1 DEF SitesInv, ListsAgree
<1>. QED  BY <1>1, <1>2 DEF HoldingRequest

LEMMA CreateStep ==
  ASSUME SitesInv, NEW r \in Request, Create(r)
  PROVE  SitesInv'
<1>1. reqs[r].pc = "mkdir" /\ reqs[r].pc \in HoldingPC
  BY DEF Create, Awaits, HoldingPC
<1>2. ~ Awaits(r, "write")
  BY <1>1 DEF Awaits
<1>3. conf \in [Site -> Conf]
  BY Shapes DEF SitesInv
<1>. QED  BY <1>1, <1>2, <1>3, HeldList, ConfOfShape, ChangeStep DEF Create, NewList

LEMMA UpdateSiteStep ==
  ASSUME SitesInv, NEW r \in Request, NEW d \in Site, NEW want \in Record, UpdateSite(r, d, want)
  PROVE  SitesInv'
<1>1. rec \in [Site -> Record] /\ conf \in [Site -> Conf]
  BY Shapes DEF SitesInv
<1>2. ~ Awaits(r, "write")
  BY DEF UpdateSite, Awaits
<1>. QED  BY <1>1, <1>2, ConfOfShape, ChangeStep DEF UpdateSite

\* The end of a deletion writes the list: the record follows the files.
LEMMA DeleteStep ==
  ASSUME SitesInv, NEW r \in Request, Delete(r)
  PROVE  SitesInv'
<1>1. reqs[r].pc = "write" /\ reqs[r].pc \in HoldingPC /\ Awaits(r, "write")
  BY DEF Delete, Awaits, HoldingPC
<1>2. PICK d \in Site : d = reqs[r].site
  BY <1>1, HeldList
<1>3. reqs[r].want = "none"
  BY <1>1 DEF SitesInv, Removing
<1>4. d \notin raced => conf[d] = ConfOf("none")
  BY <1>1, <1>2, ConfOfShape DEF SitesInv, ConfsFollow, DeletedHalf
<1>5. conf \in [Site -> Conf]
  BY Shapes DEF SitesInv
<1>. QED  BY <1>1, <1>2, <1>3, <1>4, <1>5, HeldList, ConfOfShape, ChangeStep DEF Delete, NewList

\* The files of a site are gone, its record is not yet.
LEMMA DeleteSiteFilesStep ==
  ASSUME SitesInv, NEW r \in Request, DeleteSiteFiles(r)
  PROVE  SitesInv'
<1>0. PICK d : d = reqs[r].site
  OBVIOUS
<1>1. SitesTypeOK /\ reqs[r].pc = "unlink"
  BY DEF SitesInv, DeleteSiteFiles, Awaits
<1>2. /\ r \in Holding /\ reqs[r] \in HoldingRequest /\ d \in Site
      /\ reqs[r].list \in [Site -> Record]
      /\ \A e \in Site \ raced : reqs[r].list[e] = rec[e]
      /\ reqs[r].want = "none"
  BY <1>0, <1>1, HeldList DEF HoldingPC, SitesInv, Removing
<1>. DEFINE after == [reqs[r] EXCEPT !.pc = "write"]
            new == IF reqs[r].list[d] = "none" THEN Idle ELSE after
<1>3. /\ after \in HoldingRequest /\ after.pc = "write" /\ after.site = d
      /\ after.want = "none" /\ after.list = reqs[r].list
  BY <1>0, <1>2 DEF HoldingRequest, HoldingPC
<1>4. /\ Become(r, new) /\ conf' = [conf EXCEPT ![d] = "none"]
      /\ UNCHANGED <<rec, loaded, synced, raced>>
  BY <1>0 DEF DeleteSiteFiles
<1>. HIDE DEF after
<1>5. /\ reqs'[r] = new /\ \A s \in Request \ {r} : reqs'[s] = reqs[s]
      /\ reqs' \in [Request -> {Idle, Reloading} \cup HoldingRequest]
  BY <1>1, <1>3, <1>4, BecomeStep
<1>6. conf' \in [Site -> Conf] /\ conf'[d] = "none" /\ \A e \in Site \ {d} : conf'[e] = conf[e]
  BY <1>1, <1>2, <1>4, Shapes, ConfOfShape
<1>7. SitesTypeOK'
  BY <1>1, <1>4, <1>5, <1>6 DEF SitesTypeOK, HoldingRequest, HoldingPC
<1>8. Idle.pc = "idle"
  BY DEF Idle
<1>9. (\A s \in Request : Removing(s))'
  BY <1>3, <1>5, <1>8 DEF SitesInv, Removing
<1>10. ListsAgree'
  BY <1>2, <1>3, <1>4, <1>5, <1>8 DEF SitesInv, ListsAgree, Holding
<1>11. /\ \A e \in Site \ {d} : DeletedHalf(e) <=> DeletedHalf(e)'
       /\ \A e \in Site : ReloadDue(e) => ReloadDue(e)'
  <2>1. ~ Awaits(r, "write") /\ ~ Awaits(r, "reload") /\ (new.pc = "write" => new.site = d)
    BY <1>1, <1>3, <1>8 DEF Awaits
  <2>. QED  BY <1>5, <2>1 DEF DeletedHalf, ReloadDue, Awaits
<1>12. d \notin raced => rec[d] = "none" \/ DeletedHalf(d)'
  BY <1>2, <1>3, <1>5 DEF DeletedHalf, Awaits
<1>13. ConfsFollow'
  BY <1>2, <1>4, <1>6, <1>11, <1>12, ConfOfShape DEF SitesInv, ConfsFollow
<1>14. LoadedFollows'
  <2>. SUFFICES ASSUME synced, NEW e \in Site \ raced
                PROVE  loaded[e] = conf'[e] \/ ReloadDue(e)'
    BY <1>4 DEF LoadedFollows
  <2>1. loaded[e] = conf[e] \/ ReloadDue(e)
    BY DEF SitesInv, LoadedFollows
  <2>2. CASE e # d
    BY <1>6, <1>11, <2>1, <2>2
  <2>3. CASE e = d
    <3>1. rec[d] = "none" \/ ReloadDue(d)'
      BY <1>12, <2>3 DEF ReloadDue
    <3>2. rec[d] = "none" => conf[d] = "none"
      BY <1>2, <2>3, ConfOfShape DEF SitesInv, ConfsFollow
    <3>. QED  BY <1>6, <1>11, <2>1, <2>3, <3>1, <3>2
  <2>. QED  BY <2>2, <2>3
<1>. QED  BY <1>7, <1>9, <1>10, <1>13, <1>14 DEF SitesInv

\* The list is made anew from the configurations.
LEMMA RefreshStep ==
  ASSUME SitesInv, RefreshFromConfigs
  PROVE  SitesInv'
<1>1. /\ SitesTypeOK /\ UNCHANGED <<conf, loaded, reqs, synced>>
      /\ rec' = [d \in Site |-> IF "none" \in {conf[d], rec[d]} THEN conf[d] ELSE rec[d]]
      /\ raced' = IF Holding = {} THEN raced ELSE Site
  BY DEF SitesInv, RefreshFromConfigs
<1>2. /\ conf \in [Site -> Conf] /\ rec \in [Site -> Record] /\ raced \in SUBSET Site
      /\ \A d \in Site : conf[d] \in Record
  BY <1>1, Shapes, ConfOfShape
<1>3. SitesTypeOK'
  <2>1. rec' \in [Site -> Record]
    BY <1>1, <1>2
  <2>2. raced' \in SUBSET Site
    BY <1>1, <1>2
  <2>. QED  BY <1>1, <2>1, <2>2 DEF SitesTypeOK
<1>4. (\A s \in Request : Removing(s))'
  BY <1>1 DEF SitesInv, Removing
<1>5. CASE Holding # {}
  BY <1>1, <1>3, <1>4, <1>5 DEF SitesInv, ListsAgree, ConfsFollow, LoadedFollows
<1>6. CASE Holding = {}
  <2>1. \A d : ~ DeletedHalf(d) /\ ~ DeletedHalf(d)' /\ (ReloadDue(d) <=> ReloadDue(d)')
    BY <1>1, <1>6 DEF Holding, DeletedHalf, ReloadDue, Awaits
  <2>2. ListsAgree'
    BY <1>1, <1>6 DEF ListsAgree, Holding
  <2>3. ConfsFollow'
    <3>1. \A d \in Site \ raced : conf[d] = ConfOf(rec[d])
      BY <2>1 DEF SitesInv, ConfsFollow
    <3>2. \A d \in Site \ raced : conf[d] = ConfOf(rec'[d])
      BY <1>1, <1>2, <3>1, ConfOfShape
    <3>. QED  BY <1>1, <1>6, <2>1, <3>2 DEF ConfsFollow
  <2>4. LoadedFollows'
    BY <1>1, <1>6, <2>1 DEF SitesInv, LoadedFollows
  <2>. QED  BY <1>3, <1>4, <2>2, <2>3, <2>4 DEF SitesInv
<1>. QED  BY <1>5, <1>6

LEMMA ReloadStep ==
  ASSUME SitesInv, NEW r \in Request, ReloadOpenresty(r)
  PROVE  SitesInv'
<1>1. /\ SitesTypeOK /\ reqs[r].pc = "reload" /\ Become(r, Idle)
      /\ UNCHANGED <<rec, conf, raced>>
      /\ \/ loaded' = conf /\ synced' = TRUE
         \/ loaded' = loaded /\ synced' = FALSE
  BY DEF SitesInv, ReloadOpenresty, Awaits
<1>2. /\ reqs'[r] = Idle /\ \A s \in Request \ {r} : reqs'[s] = reqs[s]
      /\ reqs' \in [Request -> {Idle, Reloading} \cup HoldingRequest]
  BY <1>1, BecomeStep
<1>3. Idle.pc = "idle"
  BY DEF Idle
<1>4. SitesTypeOK'
  BY <1>1, <1>2 DEF SitesTypeOK, HoldingRequest, HoldingPC
<1>5. (\A s \in Request : Removing(s))' /\ ListsAgree'
  BY <1>1, <1>2, <1>3 DEF SitesInv, Removing, ListsAgree, Holding
<1>6. \A d : DeletedHalf(d) <=> DeletedHalf(d)'
  BY <1>1, <1>2, <1>3 DEF DeletedHalf, Awaits
<1>7. ConfsFollow'
  BY <1>1, <1>6 DEF SitesInv, ConfsFollow
<1>8. LoadedFollows'
  BY <1>1 DEF LoadedFollows
<1>. QED  BY <1>4, <1>5, <1>7, <1>8 DEF SitesInv

\* The agent ends: the changes it cut in two are among the raced.
LEMMA RestartStep ==
  ASSUME SitesInv, Restart
  PROVE  SitesInv'
<1>1. /\ SitesTypeOK /\ reqs' = [r \in Request |-> Idle] /\ ~ synced' /\ synced' \in BOOLEAN
      /\ UNCHANGED <<rec, loaded>>
  BY DEF SitesInv, Restart
<1>2. Idle.pc = "idle"
  BY DEF Idle
<1>3. \A d : ~ DeletedHalf(d)'
  BY <1>1, <1>2 DEF DeletedHalf, Awaits
<1>4. ListsAgree' /\ LoadedFollows' /\ (\A r \in Request : Removing(r))'
  BY <1>1, <1>2 DEF ListsAgree, LoadedFollows, Holding, Removing
<1>. DEFINE half == {reqs[r].site : r \in {q \in Request : Awaits(q, "write")}}
<1>5. half \subseteq Site /\ \A d \in Site \ half : ~ DeletedHalf(d)
  BY HeldList DEF Awaits, HoldingPC, DeletedHalf
<1>6. /\ raced' \in SUBSET Site /\ conf' \in [Site -> Conf] /\ raced \subseteq raced'
      /\ \A d \in Site \ raced' : conf'[d] = conf[d] /\ ~ DeletedHalf(d)
  <2>. HIDE DEF half
  <2>1. CASE raced' = raced \cup half /\ UNCHANGED conf
    BY <1>1, <1>5, <2>1, Shapes
  <2>2. ASSUME NEW d \in Site, NEW want \in Record, conf' = [conf EXCEPT ![d] = ConfOf(want)],
               raced' = raced \cup half \cup {d}
        PROVE  /\ raced' \in SUBSET Site /\ conf' \in [Site -> Conf] /\ raced \subseteq raced'
               /\ \A e \in Site \ raced' : conf'[e] = conf[e] /\ ~ DeletedHalf(e)
    <3>1. conf' \in [Site -> Conf]
      BY <1>1, <2>2, Shapes, ConfOfShape
    <3>2. raced' \in SUBSET Site /\ raced \subseteq raced'
      BY <1>1, <1>5, <2>2, Shapes
    <3>3. \A e \in Site \ raced' : conf'[e] = conf[e] /\ ~ DeletedHalf(e)
      BY <1>1, <1>5, <2>2, Shapes
    <3>. QED  BY <3>1, <3>2, <3>3
  <2>. QED  BY <2>1, <2>2 DEF Restart, half
<1>7. ConfsFollow'
  BY <1>1, <1>3, <1>6 DEF SitesInv, ConfsFollow
<1>8. SitesTypeOK'
  BY <1>1, <1>6 DEF SitesTypeOK
<1>. QED  BY <1>4, <1>7, <1>8 DEF SitesInv
-----------------------------------------------------------------------------
LEMMA SitesInvInit == SitesInit => SitesInv
<1>. SUFFICES ASSUME SitesInit PROVE SitesInv
  OBVIOUS
<1>1. \A r \in Request : reqs[r].pc = "idle"
  BY DEF SitesInit, Idle
<1>2. SitesTypeOK
  BY ConfOfShape DEF SitesInit, SitesTypeOK, Nothing
<1>3. (\A r \in Request : Removing(r)) /\ ListsAgree
  BY <1>1 DEF Removing, ListsAgree, Holding
<1>4. ConfsFollow /\ LoadedFollows
  BY <1>1, ConfOfShape DEF SitesInit, ConfsFollow, LoadedFollows, DeletedHalf, Awaits, Nothing
<1>. QED  BY <1>2, <1>3, <1>4 DEF SitesInv

LEMMA SitesInvStep == SitesInv /\ [SitesNext]_sitesVars => SitesInv'
<1>. SUFFICES ASSUME SitesInv, [SitesNext]_sitesVars PROVE SitesInv'
  OBVIOUS
<1>1. CASE UNCHANGED sitesVars
  BY <1>1 DEF sitesVars, SitesInv, SitesTypeOK, Removing, ListsAgree, Holding, ConfsFollow,
              LoadedFollows, DeletedHalf, ReloadDue, Awaits
<1>2. ASSUME NEW r \in Request, NEW d \in Site, DeleteSite(r, d) PROVE SitesInv'
  BY <1>2, ReadStep, ConfOfShape DEF DeleteSite
<1>3. ASSUME NEW r \in Request, NEW d \in Site, NEW want \in Record,
             CreateSite(r, d, want) \/ UpdateSite(r, d, want)
      PROVE  SitesInv'
  BY <1>3, ReadStep, UpdateSiteStep DEF CreateSite
<1>4. ASSUME NEW r \in Request, Create(r) \/ DeleteSiteFiles(r) \/ Delete(r) \/ ReloadOpenresty(r)
      PROVE  SitesInv'
  BY <1>4, CreateStep, DeleteSiteFilesStep, DeleteStep, ReloadStep
<1>. QED
  BY <1>1, <1>2, <1>3, <1>4, RefreshStep, RestartStep DEF SitesNext, RequestStep

LEMMA SitesInvHolds == SitesSpec => []SitesInv
BY SitesInvInit, SitesInvStep, PTL DEF SitesSpec

\* Whatever requests read and write in between, the state keeps its shape.
THEOREM SitesTyped == SitesSpec => []SitesTypeOK
<1>1. SitesInv => SitesTypeOK
  BY DEF SitesInv
<1>. QED  BY <1>1, SitesInvHolds, PTL

\* At rest, a site nobody raced for is configured as its record says: the list a
\* request read before an await is still right about every such site when it is
\* written back, for any number of sites and of requests under way.
THEOREM RecordsAndConfsAgree == SitesSpec => []RecordsMatchConfs
<1>1. SitesInv => RecordsMatchConfs
  BY DEF SitesInv, ConfsFollow, RecordsMatchConfs, Quiet, DeletedHalf, Awaits
<1>. QED  BY <1>1, SitesInvHolds, PTL

\* At rest and after a successful reload, OpenResty serves those configurations:
\* no change of one, not even half a deletion, goes without a reload.
THEOREM ServedIsConfigured == SitesSpec => []LoadedIsCurrent
<1>1. SitesInv => LoadedIsCurrent
  BY DEF SitesInv, LoadedFollows, LoadedIsCurrent, Quiet, DeletedHalf, ReloadDue, Awaits
<1>. QED  BY <1>1, SitesInvHolds, PTL

(***************************************************************************)
(* The two retentions for any number of blocks, copies, backups by hand    *)
(* and failing deletions: what they never delete, and how much they leave. *)
(*                                                                         *)
(* Some of it needs a kind of target, and the code is the reason: the      *)
(* names of a container's backups sort by the block's id first, those of a *)
(* database are not recognised, and only a site's objects carry a time     *)
(* that is read back.                                                      *)
(***************************************************************************)
\* The names of backups carry different seconds, the past ones, no two were
\* written last in one second, and the backup of the block at work is its own;
\* while it is pruned it was the last of the plan's to be written.
Ordered ==
  /\ now \in Nat
  /\ IsFiniteSet(local)
  /\ \A c \in local :
       /\ c.stamp \in Nat /\ c.stamp <= now /\ c.by \in Blocks \cup {Manual}
       /\ c.end \in Nat /\ c.end <= now
       /\ c.name \in Nat /\ (c.by # Manual => c.name = c.by)
  /\ \A c, d \in local : c.stamp = d.stamp \/ c.end = d.end => c = d
  /\ job \in [step : {"idle", "archive", "prune", "upload", "trim"},
              by : AllBlocks \cup {Manual}, stamp : Nat]
  /\ job.step \in {"archive", "prune"} => job.by \in Blocks
  /\ job.step # "idle" => /\ job.by \in AllBlocks /\ job.stamp <= now
                          /\ \A c \in Mine : c.by = job.by
  /\ \A d \in made : d.stamp <= now /\ d.stamp \in Nat
-----------------------------------------------------------------------------
LEMMA LeastOf ==
  ASSUME NEW N \in SUBSET Nat, N # {}
  PROVE  \E m \in N : \A n \in N : m <= n
<1>1. \E m \in N : \A n \in N : <<n, m>> \notin OpToRel(<, Nat)
  BY NatLessThanWellFounded, WFMin
<1>2. PICK m \in N : \A n \in N : <<n, m>> \notin OpToRel(<, Nat)
  BY <1>1
<1>3. \A n \in N : ~ (n < m)
  BY <1>2 DEF OpToRel
<1> QED BY <1>3

LEMMA OrderedStarts == Init => Ordered
BY FS_EmptySet DEF Init, Ordered, NoJob

\* What a step leaves of the invariant when it makes no backup.
LEMMA FewerBackups ==
  ASSUME Ordered, local' \subseteq local, now' \in {now, now + 1},
         made' = made,
         \/ job' = NoJob
         \/ job' = job
         \/ job.step # "idle" /\ \E step \in {"upload", "trim"} : job' = [job EXCEPT !.step = step]
  PROVE  Ordered'
<1>1. IsFiniteSet(local')
  BY FS_Subset DEF Ordered
<1> QED BY <1>1 DEF Ordered, NoJob, Mine

LEMMA OrderedSteps ==
  ASSUME Ordered, [Next]_vars
  PROVE  Ordered'
<1>1. ASSUME NEW b \in Blocks, Begin(b) PROVE Ordered'
  <2>1. b # Manual /\ b \in Nat /\ b \in AllBlocks
    BY RetentionAssumption DEF AllBlocks
  <2> DEFINE c == New(b, b, "none")
  <2>2. /\ now' = now + 1 /\ local' = local \cup {c} /\ made' = made
        /\ job' = [step |-> "archive", by |-> b, stamp |-> now + 1]
    BY <1>1 DEF Begin
  <2>3. c.stamp = now + 1 /\ c.end = now + 1 /\ c.by = b /\ c.name = b
    BY DEF New
  <2>4. IsFiniteSet(local')
    BY <2>2, FS_AddElement DEF Ordered
  <2> HIDE DEF c
  <2> QED BY <2>1, <2>2, <2>3, <2>4 DEF Ordered, Mine
<1>2. ASSUME NEW b \in Others, BeginElsewhere(b) PROVE Ordered'
  <2>1. b # Manual /\ b \in AllBlocks
    BY RetentionAssumption DEF AllBlocks
  <2>2. /\ now' = now + 1 /\ UNCHANGED <<local, made>>
        /\ job' = [step |-> "upload", by |-> b, stamp |-> now + 1]
    BY <1>2 DEF BeginElsewhere
  <2> QED BY <2>1, <2>2 DEF Ordered, Mine
<1>3. CASE ArchiveEnds
  <2>1. now' = now + 1 /\ job.step = "archive"
    BY <1>3 DEF ArchiveEnds, At
  <2>2. ASSUME NEW c, c.by = job.by, c.name = job.by, c.stamp = job.stamp, c.end = now + 1,
               local' = (local \ Mine) \cup {c}, made' = made \cup {c},
               job' = [job EXCEPT !.step = "prune"]
        PROVE  Ordered'
    <3>1. /\ job.by \in Blocks /\ job.by \in AllBlocks /\ job.by \in Nat
          /\ job.stamp \in Nat /\ job.stamp <= now
          /\ \A d \in local \ Mine : d.stamp # job.stamp
      BY <2>1, RetentionAssumption DEF Ordered, Mine, AllBlocks
    <3>2. IsFiniteSet(local \ Mine)
      BY FS_Difference DEF Ordered
    <3>3. IsFiniteSet(local')
      BY <2>2, <3>2, FS_AddElement
    <3>4. \A d \in local' : d = c \/ (d \in local /\ d.stamp # job.stamp)
      BY <2>2, <3>1
    <3>5. job'.step = "prune" /\ job'.by = job.by /\ job'.stamp = job.stamp
      BY <2>2 DEF Ordered
    <3>6. \A d \in Mine' : d.by = job'.by
      BY <2>2, <3>4, <3>5 DEF Mine
    <3>7. job' \in [step : {"idle", "archive", "prune", "upload", "trim"},
                    by : AllBlocks \cup {Manual}, stamp : Nat]
      BY <2>2 DEF Ordered
    <3>8. \A d \in local' :
            /\ d.stamp \in Nat /\ d.stamp <= now' /\ d.by \in Blocks \cup {Manual}
            /\ d.end \in Nat /\ d.end <= now'
            /\ d.name \in Nat /\ (d.by # Manual => d.name = d.by)
      BY <2>1, <2>2, <3>1, <3>4 DEF Ordered
    <3>9. \A d, e \in local' : d.stamp = e.stamp \/ d.end = e.end => d = e
      <4>1. \A d \in local : d.end # now + 1
        BY DEF Ordered
      <4> QED BY <2>2, <3>4, <4>1 DEF Ordered
    <3>10. \A d \in made' : d.stamp <= now' /\ d.stamp \in Nat
      BY <2>1, <2>2, <3>1 DEF Ordered
    <3> QED BY <2>1, <3>1, <3>3, <3>5, <3>6, <3>7, <3>8, <3>9, <3>10 DEF Ordered
  <2>3. CASE job' = NoJob /\ local' \subseteq local /\ made' = made
    BY <2>1, <2>3, FewerBackups
  <2>4. \/ job' = NoJob /\ local' \subseteq local /\ made' = made
        \/ \E c : /\ c.by = job.by /\ c.name = job.by
                  /\ c.stamp = job.stamp /\ c.end = now + 1
                  /\ local' = (local \ Mine) \cup {c} /\ made' = made \cup {c}
                  /\ job' = [job EXCEPT !.step = "prune"]
    BY <1>3 DEF ArchiveEnds, Goto
  <2> QED BY <2>2, <2>3, <2>4
<1>4. CASE Prune
  <2>1. local' \subseteq local /\ job.step = "prune" /\ now' = now /\ made' = made
    BY <1>4 DEF Prune, At
  <2>2. job' = NoJob \/ job' = [job EXCEPT !.step = "upload"]
    BY <1>4 DEF Prune, Goto
  <2> QED BY <2>1, <2>2, FewerBackups
<1>5. CASE Upload \/ Trim
  <2>1. UNCHANGED <<local, now, made>>
    BY <1>5 DEF Upload, Trim
  <2>2. job' = NoJob \/ (job' = [job EXCEPT !.step = "trim"] /\ job.step = "upload")
    BY <1>5 DEF Upload, Trim, Goto, At
  <2> QED BY <2>1, <2>2, FewerBackups
<1>6. ASSUME NEW name \in Typed, ManualBackup(name) PROVE Ordered'
  <2>1. job' = job /\ now' = now + 1 /\ name \in Nat
    BY <1>6, RetentionAssumption DEF ManualBackup
  <2>2. PICK c : /\ c.by = Manual /\ c.name = name /\ c.stamp = now + 1 /\ c.end = now + 1
                 /\ local' = local \cup {c} /\ made' = made \cup {c}
    BY <1>6 DEF ManualBackup, New
  <2>3. IsFiniteSet(local')
    BY <2>2, FS_AddElement DEF Ordered
  <2>4. job.step # "idle" => Mine' = Mine
    BY <2>1, <2>2 DEF Ordered, Mine
  <2> QED BY <2>1, <2>2, <2>3, <2>4 DEF Ordered
<1>7. ASSUME NEW c \in local, ManualDelete(c) PROVE Ordered'
  BY <1>7, FewerBackups DEF ManualDelete
<1>8. CASE UNCHANGED vars
  BY <1>8, FewerBackups DEF vars
<1> QED BY <1>1, <1>2, <1>3, <1>4, <1>5, <1>6, <1>7, <1>8 DEF Next

LEMMA OrderHolds == Spec => []Ordered
BY OrderedStarts, OrderedSteps, PTL DEF Spec
-----------------------------------------------------------------------------
(***************************************************************************)
(* The newest backup of a site or a database.                              *)
(***************************************************************************)

\* While a block prunes, its own backup was made after every other one of the
\* plan's, and what the user wrote since was made too.
NewestInv ==
  /\ NewestLocalKept
  /\ \A c \in local : c.by = Manual => c \in made
  /\ job.step \in {"archive", "prune"} =>
       \A c \in local : c.by # Manual => c.stamp <= job.stamp
  /\ job.step = "prune" =>
       \E d \in made : /\ d.stamp = job.stamp /\ d.name = job.by /\ d.end \in Nat
                       /\ \A c \in local : c.by # Manual => c = d \/ c.end < d.end

\* Of two scheduled backups of which one is surplus, there is a newer one.
LEMMA SurplusIsOlder ==
  ASSUME Ordered, NewestInv, Kind # "container", job.step = "prune",
         NEW c \in Surplus(LocalCopies[job.by])
  PROVE  \E d \in made : d.name # Plain /\ d.end > c.end
<1> DEFINE list == {d \in local : Scheduled(d)}
<1> DEFINE newer == {d \in list : Before(d, c)}
<1>1. c \in list /\ Cardinality(newer) >= LocalCopies[job.by]
  BY DEF Surplus
<1>2. LocalCopies[job.by] \in Nat \ {0}
  BY RetentionAssumption DEF Ordered
<1>3. newer # {}
  <2>1. ASSUME newer = {} PROVE FALSE
    <3>1. Cardinality(newer) = 0
      BY <2>1, FS_EmptySet
    <3> HIDE DEF newer
    <3> QED BY <1>1, <1>2, <3>1
  <2> QED BY <2>1
<1>4. PICK d \in local : Scheduled(d) /\ d.end > c.end
  BY <1>3 DEF Before
<1>5. CASE d.by = Manual
  BY <1>4, <1>5 DEF NewestInv, Scheduled
<1>6. CASE d.by # Manual
  <2>1. PICK e \in made : /\ e.name = job.by /\ e.end \in Nat
                          /\ \A f \in local : f.by # Manual => f = e \/ f.end < e.end
    BY DEF NewestInv
  <2>2. e.name # Plain
    BY <2>1, RetentionAssumption DEF Ordered, Plain, Manual, AllBlocks
  <2>3. e.end > c.end
    BY <1>1, <1>4, <1>6, <2>1 DEF Ordered
  <2> QED BY <2>2, <2>3
<1> QED BY <1>5, <1>6

LEMMA NewestSteps ==
  ASSUME Ordered, NewestInv, Kind # "container", [Next]_vars
  PROVE  NewestInv'
<1>1. CASE ArchiveEnds
  <2>1. pruned' = pruned /\ made \subseteq made' /\ job.step = "archive" /\ job.by \in Blocks
    BY <1>1 DEF ArchiveEnds, At, Ordered
  <2>2. job.by # Manual /\ Blocks \subseteq Nat
    BY <2>1, RetentionAssumption DEF AllBlocks
  <2>3. ASSUME job' = NoJob, local' \subseteq local PROVE NewestInv'
    BY <2>1, <2>3 DEF NewestInv, NewestLocalKept, NoJob
  <2>4. ASSUME NEW c, c.by = job.by, c.name = job.by, c.stamp = job.stamp, c.end = now + 1,
               local' = (local \ Mine) \cup {c}, made' = made \cup {c},
               job' = [job EXCEPT !.step = "prune"]
        PROVE  NewestInv'
    <3>1. job'.step = "prune" /\ job'.by = job.by /\ job'.stamp = job.stamp
      BY <2>4 DEF Ordered
    <3>2. \A d \in local' : d.by # Manual => d = c \/ d.end < c.end
      BY <2>4 DEF Ordered
    <3>3. \A d \in local' : d.by # Manual => d.stamp <= job.stamp
      BY <2>1, <2>4 DEF NewestInv, Ordered
    <3>4. c \in made' /\ c.end \in Nat
      BY <2>4 DEF Ordered
    <3>5. \A d \in local' : d.by = Manual => d \in made'
      BY <2>1, <2>2, <2>4 DEF NewestInv
    <3> QED BY <2>1, <2>4, <3>1, <3>2, <3>3, <3>4, <3>5 DEF NewestInv, NewestLocalKept
  <2>5. \/ job' = NoJob /\ local' \subseteq local
        \/ \E c : /\ c.by = job.by /\ c.name = job.by
                  /\ c.stamp = job.stamp /\ c.end = now + 1
                  /\ local' = (local \ Mine) \cup {c} /\ made' = made \cup {c}
                  /\ job' = [job EXCEPT !.step = "prune"]
    BY <1>1 DEF ArchiveEnds, Goto
  <2> QED BY <2>3, <2>4, <2>5
<1>2. CASE Prune
  <2>1. PICK gone \in SUBSET Surplus(LocalCopies[job.by]) :
          pruned' = pruned \cup gone /\ local' = local \ gone
    BY <1>2 DEF Prune
  <2>2. job.step = "prune" /\ made' = made
    BY <1>2 DEF Prune, At
  <2>3. \A c \in gone : \E d \in made : d.name # Plain /\ d.end > c.end
    BY <2>2, SurplusIsOlder
  <2>4. NewestLocalKept'
    BY <2>1, <2>2, <2>3 DEF NewestInv, NewestLocalKept
  <2>5. job'.step \notin {"archive", "prune"}
    BY <1>2 DEF Prune, Goto, NoJob, Ordered
  <2> QED BY <2>1, <2>2, <2>4, <2>5 DEF NewestInv
<1>3. ASSUME NEW b \in Blocks, Begin(b) PROVE NewestInv'
  <2>1. b # Manual
    BY RetentionAssumption DEF AllBlocks
  <2>2. PICK c : /\ c.by = b /\ c.stamp = now + 1 /\ local' = local \cup {c}
                 /\ UNCHANGED <<made, pruned>>
                 /\ job' = [step |-> "archive", by |-> b, stamp |-> now + 1]
    BY <1>3 DEF Begin, New
  <2>3. \A d \in local' : d.stamp <= now + 1
    BY <2>2 DEF Ordered
  <2>4. \A d \in local' : d.by = Manual => d \in made'
    BY <2>1, <2>2 DEF NewestInv
  <2>5. job'.stamp = now + 1 /\ job'.step = "archive"
    BY <2>2
  <2> QED BY <2>2, <2>3, <2>4, <2>5 DEF NewestInv, NewestLocalKept
<1>4. ASSUME NEW name \in Typed, ManualBackup(name) PROVE NewestInv'
  <2>1. PICK c : /\ c.by = Manual /\ local' = local \cup {c} /\ made' = made \cup {c}
                 /\ UNCHANGED <<job, pruned>>
    BY <1>4 DEF ManualBackup, New
  <2> QED BY <2>1 DEF NewestInv, NewestLocalKept
<1>5. ASSUME NEW c \in local, ManualDelete(c) PROVE NewestInv'
  BY <1>5 DEF ManualDelete, NewestInv, NewestLocalKept
<1>6. CASE Upload \/ Trim \/ \E b \in Others : BeginElsewhere(b)
  <2>1. UNCHANGED <<local, made, pruned>>
    BY <1>6 DEF Upload, Trim, BeginElsewhere
  <2>2. job'.step \notin {"archive", "prune"}
    BY <1>6 DEF Upload, Trim, BeginElsewhere, Goto, NoJob, Ordered
  <2> QED BY <2>1, <2>2 DEF NewestInv, NewestLocalKept
<1>7. CASE UNCHANGED vars
  BY <1>7 DEF vars, NewestInv, NewestLocalKept
<1> QED BY <1>1, <1>2, <1>3, <1>4, <1>5, <1>6, <1>7 DEF Next

\* A retention run on a site makes room for a newer backup, of the plan's or of
\* the user's under a "sched-" name, and never deletes the newest one; that of a
\* database finds none of the names and deletes nothing.
THEOREM RetentionKeepsNewest ==
  ASSUME Kind # "container"
  PROVE  Spec => []NewestLocalKept
<1>1. Init => NewestInv
  BY DEF Init, NewestInv, NewestLocalKept, NoJob
<1>2. Ordered /\ NewestInv /\ [Next]_vars => NewestInv'
  BY NewestSteps
<1>3. NewestInv => NewestLocalKept
  BY DEF NewestInv
<1> QED BY <1>1, <1>2, <1>3, OrderHolds, PTL DEF Spec
-----------------------------------------------------------------------------
(***************************************************************************)
(* How many scheduled backups of a site or a container are left on disk.   *)
(***************************************************************************)

\* Before orders backups in a line: some of them have a last one.
LEMMA SomeAreLast ==
  ASSUME Ordered, NEW T \in SUBSET local, T # {}
  PROVE  \E c \in T : \A d \in T : d = c \/ Before(d, c)
<1>1. \A c \in T : c.stamp \in Nat /\ c.name \in Nat /\ c.end \in Nat
  BY DEF Ordered
<1>a. ASSUME Kind # "container"
      PROVE  \E c \in T : \A d \in T : d = c \/ d.end > c.end
  <2> DEFINE N == {c.end : c \in T}
  <2>0. N \in SUBSET Nat /\ N # {}
    BY <1>1
  <2> HIDE DEF N
  <2>a. PICK m \in N : \A n \in N : m <= n
    BY <2>0, LeastOf
  <2>1. \E c \in T : m = c.end
    BY <2>a DEF N
  <2>2. PICK c \in T : \A d \in T : c.end <= d.end
    BY <2>a, <2>1 DEF N
  <2> QED BY <1>1, <2>2 DEF Ordered
<1>2. ASSUME NEW U \in SUBSET T, U # {}
      PROVE  \E c \in U : \A d \in U : d = c \/ d.stamp > c.stamp
  <2> DEFINE N == {c.stamp : c \in U}
  <2>0. N \in SUBSET Nat /\ N # {}
    BY <1>1, <1>2
  <2> HIDE DEF N
  <2>a. PICK m \in N : \A n \in N : m <= n
    BY <2>0, LeastOf
  <2>1. \E c \in U : m = c.stamp
    BY <2>a DEF N
  <2>2. PICK c \in U : \A d \in U : c.stamp <= d.stamp
    BY <2>a, <2>1 DEF N
  <2> QED BY <1>1, <2>2 DEF Ordered
<1>3. CASE Kind # "container"
  BY <1>a, <1>3 DEF Before
<1>4. CASE Kind = "container"
  <2> DEFINE N == {c.name : c \in T}
  <2>0. N \in SUBSET Nat /\ N # {}
    BY <1>1
  <2> HIDE DEF N
  <2>a. PICK m \in N : \A n \in N : m <= n
    BY <2>0, LeastOf
  <2>1. \E c \in T : m = c.name
    BY <2>a DEF N
  <2>2. PICK b \in T : \A d \in T : b.name <= d.name
    BY <2>a, <2>1 DEF N
  <2>3. PICK c \in {d \in T : d.name = b.name} :
          \A d \in {e \in T : e.name = b.name} : d = c \/ d.stamp > c.stamp
    BY <1>2
  <2>4. \A d \in T : d = c \/ d.name > c.name \/ (d.name = c.name /\ d.stamp > c.stamp)
    BY <1>1, <2>2, <2>3
  <2> QED BY <1>4, <2>3, <2>4 DEF Before
<1> QED BY <1>3, <1>4

\* What is not surplus fits.
LEMMA KeptAreFew ==
  ASSUME Ordered, NEW k \in Nat \ {0}
  PROVE  Cardinality({c \in local : Scheduled(c)} \ Surplus(k)) <= k
<1> DEFINE list == {c \in local : Scheduled(c)}
<1> DEFINE kept == list \ Surplus(k)
<1>1. IsFiniteSet(list)
  BY FS_Subset DEF Ordered
<1>2. IsFiniteSet(kept)
  BY <1>1, FS_Difference
<1>3. CASE kept = {}
  <2>1. Cardinality(kept) = 0
    BY <1>3, FS_EmptySet
  <2> QED BY <2>1
<1>4. CASE kept # {}
  <2>1. PICK last \in kept : \A d \in kept : d = last \/ Before(d, last)
    BY <1>4, SomeAreLast
  <2> DEFINE newer == {d \in list : Before(d, last)}
  <2>2. IsFiniteSet(newer) /\ Cardinality(newer) \in Nat
    BY <1>1, FS_Subset, FS_CardinalityType
  <2>3. ~ (Cardinality(newer) >= k)
    BY <2>1 DEF Surplus
  <2>4. kept \ {last} \in SUBSET newer
    BY <2>1
  <2>5. Cardinality(kept \ {last}) <= Cardinality(newer)
    BY <2>2, <2>4, FS_Subset
  <2>6. Cardinality(kept \ {last}) = Cardinality(kept) - 1
    BY <1>2, FS_RemoveElement
  <2>7. Cardinality(kept) \in Nat
    BY <1>2, FS_CardinalityType
  <2> HIDE DEF kept, newer
  <2>8. Cardinality(kept) <= k
    BY <2>2, <2>3, <2>5, <2>6, <2>7
  <2> QED BY <2>8 DEF kept
<1> QED BY <1>3, <1>4

LEMMA BoundKept ==
  ASSUME Ordered, LocalBounded, Kind # "database", ~ UnlinkMayFail, [Next]_vars
  PROVE  LocalBounded'
<1> DEFINE planned == {c \in local : c.by # Manual}
<1>1. CASE Prune
  <2>1. LocalCopies[job.by] \in Nat \ {0} /\ job.by \in Blocks
    BY <1>1, RetentionAssumption DEF Prune, At, Ordered
  <2>2. local' = local \ Surplus(LocalCopies[job.by])
    BY <1>1 DEF Prune
  <2> DEFINE kept == {c \in local : Scheduled(c)} \ Surplus(LocalCopies[job.by])
  <2>a. \A c \in local : c.by # Manual => c.name # Plain
    BY RetentionAssumption DEF Ordered, Manual, Plain
  <2>3. planned' \subseteq kept
    BY <2>2, <2>a DEF Scheduled
  <2>b. IsFiniteSet(kept)
    BY FS_Subset DEF Ordered
  <2>c. /\ Cardinality(planned') <= Cardinality(kept)
        /\ Cardinality(planned') \in Nat /\ Cardinality(kept) \in Nat
    BY <2>3, <2>b, FS_Subset, FS_CardinalityType
  <2>d. Cardinality(kept) <= LocalCopies[job.by]
    BY <2>1, KeptAreFew
  <2>4. job'.step = "upload" => job'.by = job.by
    BY <1>1 DEF Prune, Goto, NoJob, Ordered
  <2> HIDE DEF planned, kept
  <2>5. Cardinality(planned') <= LocalCopies[job.by]
    BY <2>1, <2>c, <2>d
  <2> QED BY <2>4, <2>5 DEF LocalBounded, Count, At, planned
<1>2. ASSUME NEW name \in Typed, ManualBackup(name) PROVE LocalBounded'
  <2>1. UNCHANGED job /\ \E c : c.by = Manual /\ local' = local \cup {c}
    BY <1>2 DEF ManualBackup, New
  <2>2. planned' = planned
    BY <2>1
  <2> QED BY <2>1, <2>2 DEF LocalBounded, Count, At
<1>3. ASSUME NEW c \in local, ManualDelete(c) PROVE LocalBounded'
  <2>1. UNCHANGED job /\ local' \subseteq local
    BY <1>3 DEF ManualDelete
  <2>2. IsFiniteSet(planned) /\ planned' \in SUBSET planned
    BY <2>1, FS_Subset DEF Ordered
  <2>3. Cardinality(planned') <= Cardinality(planned)
    BY <2>2, FS_Subset
  <2>4. Cardinality(planned) \in Nat /\ Cardinality(planned') \in Nat
    BY <2>2, FS_Subset, FS_CardinalityType
  <2>5. job.by \in Blocks => LocalCopies[job.by] \in Nat
    BY RetentionAssumption
  <2> HIDE DEF planned
  <2>6. At("upload") /\ job.by \in Blocks => Cardinality(planned) <= LocalCopies[job.by]
    BY DEF LocalBounded, Count, planned
  <2>7. At("upload") /\ job.by \in Blocks => Cardinality(planned') <= LocalCopies[job.by]
    BY <2>3, <2>4, <2>5, <2>6
  <2> QED BY <2>1, <2>7 DEF LocalBounded, Count, At, planned
<1>4. CASE ArchiveEnds \/ Upload \/ Trim \/ \E b \in Blocks : Begin(b)
  <2>1. job'.step # "upload"
    BY <1>4 DEF ArchiveEnds, Upload, Trim, Begin, Goto, NoJob, Ordered
  <2> QED BY <2>1 DEF LocalBounded, At
<1>5. ASSUME NEW b \in Others, BeginElsewhere(b) PROVE LocalBounded'
  <2>1. job'.by \notin Blocks
    BY <1>5, RetentionAssumption DEF BeginElsewhere
  <2> QED BY <2>1 DEF LocalBounded
<1>6. CASE UNCHANGED vars
  BY <1>6 DEF vars, LocalBounded, Count, At
<1> QED BY <1>1, <1>2, <1>3, <1>4, <1>5, <1>6 DEF Next

\* A block of a site or a container leaves no more scheduled backups than it
\* says, if the file system lets it delete them.
THEOREM LocalCopiesAreFew ==
  ASSUME Kind # "database", ~ UnlinkMayFail
  PROVE  Spec => []LocalBounded
<1>1. Init => LocalBounded
  BY DEF Init, LocalBounded, At, NoJob
<1>2. Ordered /\ LocalBounded /\ [Next]_vars => LocalBounded'
  BY BoundKept
<1> QED BY <1>1, <1>2, OrderHolds, PTL DEF Spec
-----------------------------------------------------------------------------
(***************************************************************************)
(* The objects in the folders of a site's blocks.                          *)
(***************************************************************************)

\* An object is found under its second, and is an upload to its folder.
RemoteInv ==
  /\ IsFiniteSet(sent) /\ \A d \in sent : d.by \in AllBlocks
  /\ DOMAIN remote = Folders
  /\ \A f \in Folders : \A o \in remote[f] :
       /\ o.stamp \in Nat /\ o = [key |-> o.stamp, stamp |-> o.stamp]
       /\ \E d \in sent : Folder[d.by] = f /\ d.stamp = o.stamp

\* There are no more newer objects than newer uploads.
LEMMA ObjectsAreUploads ==
  ASSUME RemoteInv, NEW f \in Folders, NEW s
  PROVE  /\ Cardinality({q \in remote[f] : q.stamp > s}) \in Nat
         /\ Cardinality({q \in remote[f] : q.stamp > s})
              <= Cardinality({d \in sent : Folder[d.by] = f /\ d.stamp > s})
<1> DEFINE Q == {q \in remote[f] : q.stamp > s}
<1> DEFINE D == {d \in sent : Folder[d.by] = f /\ d.stamp > s}
<1> DEFINE g == [q \in Q |-> CHOOSE d \in D : d.stamp = q.stamp]
<1>1. \A q \in Q : \E d \in D : d.stamp = q.stamp
  BY DEF RemoteInv
<1>2. \A q \in Q : g[q] \in D /\ g[q].stamp = q.stamp
  BY <1>1
<1>3. \A p, q \in Q : p.stamp = q.stamp => p = q
  BY DEF RemoteInv
<1>4. IsFiniteSet(D)
  BY FS_Subset DEF RemoteInv
<1>5. g \in [Q -> D]
  BY <1>2
<1> HIDE DEF Q, D, g
<1>6. \A p, q \in Q : g[p] = g[q] => p = q
  <2>1. SUFFICES ASSUME NEW p \in Q, NEW q \in Q, g[p] = g[q] PROVE p.stamp = q.stamp
    BY <1>3
  <2>2. g[p].stamp = p.stamp /\ g[q].stamp = q.stamp
    BY <1>2
  <2> QED BY <2>1, <2>2
<1>7. g \in Injection(Q, D)
  BY <1>5, <1>6 DEF Injection, IsInjective
<1>8. Cardinality(Q) \in Nat /\ Cardinality(Q) <= Cardinality(D)
  BY <1>4, <1>7, FS_Injection, FS_CardinalityType
<1> QED BY <1>8 DEF Q, D

\* The uploads to a folder that are newer than s.
Later(f, s, S) == {d \in S : Folder[d.by] = f /\ d.stamp > s}

\* What every block that trims the folder wants to keep.
Wanted(f, s, S) ==
  \A b \in AllBlocks : Folder[b] = f /\ RemoteCopies[b] > 0 =>
    Cardinality(Later(f, s, S)) < RemoteCopies[b]

LEMMA HistoryOfWanted ==
  FolderHistoryKept <=>
    \A c \in sent : Wanted(Folder[c.by], c.stamp, sent)
                      => \E o \in remote[Folder[c.by]] : o.stamp = c.stamp
BY DEF FolderHistoryKept, Wanted, Later, Count

\* More uploads leave no more wanted ones.
LEMMA WantedBefore ==
  ASSUME NEW S, NEW T, S \subseteq T, IsFiniteSet(T), NEW f, NEW s, Wanted(f, s, T)
  PROVE  Wanted(f, s, S)
<1>1. IsFiniteSet(Later(f, s, T)) /\ Later(f, s, S) \in SUBSET Later(f, s, T)
  BY FS_Subset DEF Later
<1>2. /\ Cardinality(Later(f, s, S)) <= Cardinality(Later(f, s, T))
      /\ Cardinality(Later(f, s, S)) \in Nat /\ Cardinality(Later(f, s, T)) \in Nat
  BY <1>1, FS_Subset, FS_CardinalityType
<1>3. \A b \in AllBlocks : RemoteCopies[b] \in Nat
  BY RetentionAssumption
<1> QED BY <1>2, <1>3 DEF Wanted

\* What is at work uploads and trims in its folder, for a number of copies.
UploadsTo == job.step \in {"upload", "trim"} => RemoteCopies[job.by] > 0

LEMMA UploadsToStep ==
  ASSUME Ordered, UploadsTo, [Next]_vars
  PROVE  UploadsTo'
<1>1. CASE Prune
  BY <1>1 DEF UploadsTo, Prune, Goto, NoJob, Ordered
<1>2. CASE Upload
  BY <1>2 DEF UploadsTo, Upload, At, Goto, NoJob, Ordered
<1>3. CASE ArchiveEnds \/ Trim
  BY <1>3 DEF UploadsTo, ArchiveEnds, Trim, Goto, NoJob, Ordered
<1>4. ASSUME NEW b \in Blocks, Begin(b) PROVE UploadsTo'
  BY <1>4 DEF UploadsTo, Begin
<1>5. ASSUME NEW b \in Others, BeginElsewhere(b) PROVE UploadsTo'
  BY <1>5 DEF UploadsTo, BeginElsewhere
<1>6. CASE UNCHANGED job
  BY <1>6 DEF UploadsTo
<1> QED BY <1>1, <1>2, <1>3, <1>4, <1>5, <1>6 DEF Next, ManualBackup, ManualDelete, vars

LEMMA RemoteSteps ==
  ASSUME Ordered, UploadsTo, RemoteInv, FolderHistoryKept, Kind = "website", [Next]_vars
  PROVE  RemoteInv' /\ FolderHistoryKept'
<1> DEFINE here == Folder[job.by]
<1>1. CASE UNCHANGED <<remote, sent>>
  BY <1>1 DEF RemoteInv, FolderHistoryKept, Count
<1>2. ASSUME Upload, NEW c \in ToUpload, sent' = sent \cup {c},
             remote' = [remote EXCEPT ![here] = {o \in @ : o.key # ObjectKey(c.stamp)}
                          \cup {[key |-> ObjectKey(c.stamp), stamp |-> c.stamp]}]
      PROVE  RemoteInv' /\ FolderHistoryKept'
  <2>a. job.by \in AllBlocks /\ here \in Folders /\ job.stamp \in Nat
    BY <1>2, RetentionAssumption DEF Upload, At, Ordered
  <2>b. c.by = job.by /\ c.stamp = job.stamp
    <3>1. CASE job.by \in Blocks
      BY <1>2, <3>1 DEF Upload, At, Ordered, Mine, ToUpload
    <3>2. CASE job.by \notin Blocks
      BY <1>2, <3>2 DEF ToUpload
    <3> QED BY <3>1, <3>2
  <2>1. c.by = job.by /\ job.by \in AllBlocks /\ c.stamp \in Nat /\ here \in Folders
    BY <2>a, <2>b
  <2> DEFINE obj == [key |-> c.stamp, stamp |-> c.stamp]
  <2>2. /\ DOMAIN remote' = Folders
        /\ remote'[here] = {o \in remote[here] : o.key # c.stamp} \cup {obj}
        /\ \A f \in Folders \ {here} : remote'[f] = remote[f]
    BY <1>2, <2>1 DEF ObjectKey, RemoteInv
  <2>3. obj.key = c.stamp /\ obj.stamp = c.stamp
    OBVIOUS
  <2>4. IsFiniteSet(sent')
    BY <1>2, FS_AddElement DEF RemoteInv
  <2>5. RemoteInv'
    <3>1. ASSUME NEW f \in Folders, NEW o \in remote'[f]
          PROVE  /\ o.stamp \in Nat /\ o = [key |-> o.stamp, stamp |-> o.stamp]
                 /\ \E d \in sent' : Folder[d.by] = f /\ d.stamp = o.stamp
      <4>1. CASE o \in remote[f]
        BY <1>2, <4>1 DEF RemoteInv
      <4>2. CASE f = here /\ o = obj
        BY <1>2, <2>1, <2>3, <4>2
      <4> QED BY <2>2, <3>1, <4>1, <4>2
    <3> QED BY <1>2, <2>1, <2>2, <2>4, <3>1 DEF RemoteInv
  <2>6. ASSUME NEW d \in sent', Wanted(Folder[d.by], d.stamp, sent')
        PROVE  \E o \in remote'[Folder[d.by]] : o.stamp = d.stamp
    <3>1. CASE Folder[d.by] = here /\ d.stamp = c.stamp
      BY <2>2, <2>3, <3>1
    <3>2. CASE d \in sent /\ ~ (Folder[d.by] = here /\ d.stamp = c.stamp)
      <4>1. Wanted(Folder[d.by], d.stamp, sent)
        BY <1>2, <2>4, <2>6, WantedBefore
      <4>2. PICK o \in remote[Folder[d.by]] : o.stamp = d.stamp
        BY <3>2, <4>1, HistoryOfWanted
      <4>3. Folder[d.by] \in Folders
        BY <3>2, RetentionAssumption DEF RemoteInv
      <4>4. o.key = o.stamp
        BY <4>2, <4>3 DEF RemoteInv
      <4>5. o \in remote'[Folder[d.by]]
        BY <2>2, <3>2, <4>2, <4>3, <4>4
      <4> QED BY <4>2, <4>5
    <3> QED BY <1>2, <2>1, <3>1, <3>2
  <2>7. FolderHistoryKept'
    BY <2>6 DEF FolderHistoryKept, Wanted, Later, Count
  <2> QED BY <2>5, <2>7
<1>3. ASSUME Trim, remote' = [remote EXCEPT ![here] = @ \ Excess(@, RemoteCopies[job.by])]
      PROVE  RemoteInv' /\ FolderHistoryKept'
  <2>1. sent' = sent /\ job.by \in AllBlocks /\ here \in Folders
    BY <1>3, RetentionAssumption DEF Trim, At, Ordered
  <2>2. /\ DOMAIN remote' = Folders
        /\ remote'[here] = remote[here] \ Excess(remote[here], RemoteCopies[job.by])
        /\ \A f \in Folders \ {here} : remote'[f] = remote[f]
    BY <1>3, <2>1 DEF RemoteInv
  <2>3. \A f \in Folders : remote'[f] \subseteq remote[f]
    BY <2>2
  <2>4. RemoteInv'
    BY <2>1, <2>2, <2>3 DEF RemoteInv
  <2>5. ASSUME NEW d \in sent, Wanted(Folder[d.by], d.stamp, sent)
        PROVE  \E o \in remote'[Folder[d.by]] : o.stamp = d.stamp
    <3>0. Folder[d.by] \in Folders
      BY RetentionAssumption DEF RemoteInv
    <3>1. PICK o \in remote[Folder[d.by]] : o.stamp = d.stamp
      BY <2>5, HistoryOfWanted
    <3>2. CASE Folder[d.by] # here
      BY <2>2, <3>0, <3>1, <3>2
    <3>3. CASE Folder[d.by] = here
      <4> DEFINE Q == {q \in remote[here] : q.stamp > o.stamp}
      <4> DEFINE D == {e \in sent : Folder[e.by] = here /\ e.stamp > o.stamp}
      <4>1. Cardinality(Q) \in Nat /\ Cardinality(Q) <= Cardinality(D)
        BY <2>1, ObjectsAreUploads
      <4>2. Cardinality(D) < RemoteCopies[job.by]
        <5>1. RemoteCopies[job.by] > 0
          BY <1>3 DEF Trim, At, UploadsTo
        <5> QED BY <2>1, <2>5, <3>1, <3>3, <5>1 DEF Wanted, Later
      <4>3. {q \in remote[here] : EarlierInList(q, o)} = Q
        <5>1. \A q \in remote[here] \cup {o} : q.key = q.stamp /\ q.stamp \in Nat
          BY <2>1, <3>1, <3>3 DEF RemoteInv
        <5> QED BY <5>1 DEF EarlierInList, TimeOf
      <4>4. IsFiniteSet(D)
        BY FS_Subset DEF RemoteInv
      <4>5. Cardinality(D) \in Nat
        BY <4>4, FS_CardinalityType
      <4>6. RemoteCopies[job.by] \in Nat
        BY <2>1, RetentionAssumption
      <4> HIDE DEF Q, D
      <4>7. ~ (Cardinality(Q) >= RemoteCopies[job.by])
        BY <4>1, <4>2, <4>5, <4>6
      <4>8. o \notin Excess(remote[here], RemoteCopies[job.by])
        BY <4>3, <4>7 DEF Excess
      <4> QED BY <2>2, <3>1, <3>3, <4>8
    <3> QED BY <3>2, <3>3
  <2>6. FolderHistoryKept'
    BY <2>1, <2>5 DEF FolderHistoryKept, Wanted, Later, Count
  <2> QED BY <2>4, <2>6
<1>4. \/ UNCHANGED <<remote, sent>>
      \/ Upload /\ \E c \in ToUpload :
           /\ sent' = sent \cup {c}
           /\ remote' = [remote EXCEPT ![here] = {o \in @ : o.key # ObjectKey(c.stamp)}
                          \cup {[key |-> ObjectKey(c.stamp), stamp |-> c.stamp]}]
      \/ Trim /\ remote' = [remote EXCEPT ![here] = @ \ Excess(@, RemoteCopies[job.by])]
  BY DEF Next, Begin, BeginElsewhere, ArchiveEnds, ManualBackup, ManualDelete, Prune,
         Upload, Trim, vars
<1> QED BY <1>1, <1>2, <1>3, <1>4

\* The newest uploads to a folder stay in the object store, as many as every
\* site's block that shares the folder wants to keep: no upload, no retention run
\* and no failed deletion of any of the blocks takes one of them.
THEOREM NewestUploadsStay ==
  ASSUME Kind = "website"
  PROVE  Spec => []FolderHistoryKept
<1>1. Init => RemoteInv /\ FolderHistoryKept /\ UploadsTo
  BY FS_EmptySet DEF Init, RemoteInv, FolderHistoryKept, UploadsTo, NoJob
<1>2. Ordered /\ UploadsTo /\ RemoteInv /\ FolderHistoryKept /\ [Next]_vars
        => RemoteInv' /\ FolderHistoryKept' /\ UploadsTo'
  BY RemoteSteps, UploadsToStep
<1> QED BY <1>1, <1>2, OrderHolds, PTL DEF Spec
=============================================================================
