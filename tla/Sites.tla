-------------------------------- MODULE Sites --------------------------------
(***************************************************************************)
(* The sites of an agent (node/function/website): every site has a record  *)
(* in sites.json and, unless it is disabled, a configuration file;         *)
(* OpenResty serves the configurations of its last successful reload.      *)
(*                                                                         *)
(* A request reads the whole list, awaits the file system and writes the   *)
(* list it read back; what happens between two awaits is one action.       *)
(* Errors of the file system are left out.                                 *)
(***************************************************************************)
CONSTANTS Site,
          Config,   \* what a configuration file can say
          Request   \* bound: requests the agent works on at a time

ASSUME SitesAssumption == {"off", "none"} \cap Config = {}

VARIABLES
  rec,     \* sites.json: how every site is to be served
  conf,    \* conf/<domain>.conf
  loaded,  \* the configurations OpenResty serves
  reqs,    \* the requests: the await they are at and the list they read
  synced,  \* history: the last reload succeeded
  raced    \* history: sites changed while another request held an older list,
           \* and sites whose change the end of the agent cut in two

sitesVars == <<rec, conf, loaded, reqs, synced, raced>>

Record == Config \cup {"off", "none"}
Conf == Config \cup {"none"}
Nothing == [d \in Site |-> "none"]
Idle == [pc |-> "idle"]
Reloading == [pc |-> "reload"]

SitesTypeOK ==
  /\ rec \in [Site -> Record]
  /\ conf \in [Site -> Conf] /\ loaded \in [Site -> Conf]
  /\ raced \in SUBSET Site /\ synced \in BOOLEAN
  /\ reqs \in [Request -> {Idle, Reloading}
       \cup [pc : {"mkdir", "unlink", "write"}, site : Site, want : Record,
             list : [Site -> Record]]]

SitesInit ==
  /\ rec = Nothing /\ conf = Nothing /\ loaded = Nothing
  /\ reqs = [r \in Request |-> Idle]
  /\ synced = TRUE /\ raced = {}

\* Mutant: what the record says is written as it is, also for a disabled site.
ConfOfAny(record) == record

\* applySiteConfigFromJson: the file is written, or removed when the site is disabled.
ConfOf(record) == IF record \in Config THEN record ELSE "none"

Awaits(r, pc) == reqs[r].pc = pc
Become(r, req) == reqs' = [reqs EXCEPT ![r] = req]
Read(r, d, want, pc) == Become(r, [pc |-> pc, site |-> d, want |-> want, list |-> rec])

\* The requests between reading the list and writing it.
Holding == {r \in Request : reqs[r].pc \in {"mkdir", "unlink", "write"}}

WriteStore(r, list, changed) ==
  /\ rec' = list
  /\ raced' = IF Holding \subseteq {r} THEN raced ELSE raced \cup changed

\* createSite up to its await; the domain must be new.
CreateSite(r, d, want) ==
  /\ Awaits(r, "idle") /\ rec[d] = "none" /\ want # "none"
  /\ Read(r, d, want, "mkdir")
  /\ UNCHANGED <<rec, conf, loaded, synced, raced>>

\* The request's site in the list it read.
NewList(r) == [reqs[r].list EXCEPT ![reqs[r].site] = reqs[r].want]

\* After createSiteFiles the configuration and the list are written in one go.
Create(r) ==
  /\ Awaits(r, "mkdir")
  /\ conf' = [conf EXCEPT ![reqs[r].site] = ConfOf(reqs[r].want)]
  /\ WriteStore(r, NewList(r), {reqs[r].site})
  /\ Become(r, Reloading)
  /\ UNCHANGED <<loaded, synced>>

\* deleteSite up to its first await; a domain without a record is cleared as well.
DeleteSite(r, d) ==
  /\ Awaits(r, "idle")
  /\ Read(r, d, "none", "unlink")
  /\ UNCHANGED <<rec, conf, loaded, synced, raced>>

\* Mutant: the configuration file is not among the files removed.
DeleteSiteFilesButConf(r) ==
  /\ Awaits(r, "unlink")
  /\ Become(r, IF reqs[r].list[reqs[r].site] = "none" THEN Idle
               ELSE [reqs[r] EXCEPT !.pc = "write"])
  /\ UNCHANGED <<rec, conf, loaded, synced, raced>>

\* deleteSiteFiles; without a record the request ends here, without a reload.
DeleteSiteFiles(r) ==
  /\ Awaits(r, "unlink")
  /\ conf' = [conf EXCEPT ![reqs[r].site] = "none"]
  /\ Become(r, IF reqs[r].list[reqs[r].site] = "none" THEN Idle
               ELSE [reqs[r] EXCEPT !.pc = "write"])
  /\ UNCHANGED <<rec, loaded, synced, raced>>

Delete(r) ==
  /\ Awaits(r, "write")
  /\ WriteStore(r, NewList(r), {reqs[r].site})
  /\ Become(r, Reloading)
  /\ UNCHANGED <<conf, loaded, synced>>

\* Mutant: the route does not reload after an update.
UpdateSiteOnly(r, d, want) ==
  /\ Awaits(r, "idle") /\ rec[d] # "none" /\ want # "none"
  /\ conf' = [conf EXCEPT ![d] = ConfOf(want)]
  /\ WriteStore(r, [rec EXCEPT ![d] = want], {d})
  /\ UNCHANGED <<loaded, reqs, synced>>

\* updateSite awaits nothing.
UpdateSite(r, d, want) ==
  /\ Awaits(r, "idle") /\ rec[d] # "none" /\ want # "none"
  /\ conf' = [conf EXCEPT ![d] = ConfOf(want)]
  /\ WriteStore(r, [rec EXCEPT ![d] = want], {d})
  /\ Become(r, Reloading)
  /\ UNCHANGED <<loaded, synced>>

\* The list is made anew of the sites that have a configuration, a disabled one is
\* forgotten; a site that had a record keeps what it said.
RefreshFromConfigs ==
  /\ rec' = [d \in Site |-> IF "none" \in {conf[d], rec[d]} THEN conf[d] ELSE rec[d]]
  /\ raced' = IF Holding = {} THEN raced ELSE Site
  /\ UNCHANGED <<conf, loaded, reqs, synced>>

\* openresty -s reload: the container may be missing, or refuse what it reads.
ReloadOpenresty(r) ==
  /\ Awaits(r, "reload")
  /\ \/ loaded' = conf /\ synced' = TRUE
     \/ UNCHANGED loaded /\ synced' = FALSE
  /\ Become(r, Idle)
  /\ UNCHANGED <<rec, conf, raced>>

\* The agent ends and starts again, perhaps between the two writes of createSite or of
\* updateSite: the configuration is written, the list is not.
Restart ==
  LET half == {reqs[r].site : r \in {q \in Request : Awaits(q, "write")}} IN
  /\ reqs' = [r \in Request |-> Idle]
  /\ \/ raced' = raced \cup half /\ UNCHANGED conf
     \/ \E r \in Request, d \in Site, want \in Record \ {"none"} :
          /\ \/ Awaits(r, "mkdir") /\ reqs[r].site = d /\ reqs[r].want = want
             \/ Awaits(r, "idle") /\ rec[d] # "none"
          /\ conf' = [conf EXCEPT ![d] = ConfOf(want)]
          /\ raced' = raced \cup half \cup {d}
  /\ synced' = FALSE
  /\ UNCHANGED <<rec, loaded>>

RequestStep(r) ==
  \/ \E d \in Site : DeleteSite(r, d)
  \/ \E d \in Site, want \in Record : CreateSite(r, d, want) \/ UpdateSite(r, d, want)
  \/ Create(r) \/ DeleteSiteFiles(r) \/ Delete(r) \/ ReloadOpenresty(r)

SitesNext == (\E r \in Request : RequestStep(r)) \/ RefreshFromConfigs \/ Restart

SitesSpec == SitesInit /\ [][SitesNext]_sitesVars

Quiet == \A r \in Request : Awaits(r, "idle")

\* When no request is under way, every site is configured as its record says, unless
\* this very site was changed while another request held an older list or the agent
\* ended in between: a request never undoes a change that did not overlap it, nor
\* one of a third site.
RecordsMatchConfs ==
  Quiet => \A d \in Site \ raced : conf[d] = ConfOf(rec[d])

\* When no request is under way and the last reload succeeded, OpenResty serves what
\* the configurations of these sites say: every change of one is followed by a reload.
LoadedIsCurrent ==
  Quiet /\ synced => \A d \in Site \ raced : loaded[d] = conf[d]
=============================================================================
