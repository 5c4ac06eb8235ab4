--------------------------- MODULE FilteringSystem ---------------------------
(***************************************************************************)
(* lists-updater and doh-server together: they share the lists directory,  *)
(* and the updater's POST makes the server reread it.  Ads lists are put   *)
(* into the directory by the operator, the updater does not write any.     *)
(***************************************************************************)
EXTENDS Filtering

CONSTANTS Updater, Nobody, Feed, Keep

VARIABLES newFile, lockfile, upd, made, source,
    told   \* history: the largest number of each list when the server last accepted a POST

U == INSTANCE ListsUpdater

updaterVars == <<newFile, lockfile, upd, made, source>>

sysVars == <<vars, updaterVars, told>>

Newest(k) == maxNumberForRE(files[k])

SystemInit ==
    /\ Init
    /\ U!Init
    /\ told = NoVersions

(* A step of the updater that the server does not see. *)
UpdaterStep ==
    /\ \E u \in Updater : U!Launch(u) \/ U!process(u) \/ U!Wake(u) \/ U!Die(u)
    /\ ever' = [k \in Kind |-> ever[k] \cup Range(files'[k])]
    /\ UNCHANGED <<serverVars, told>>

(* The POST reaches a server whose update endpoint listens. *)
NotifyServer(u, g) ==
    /\ U!Notify(u)
    /\ Post(g)
    /\ told' = [k \in Kind |-> Newest(k)]

(* It does not: the server is down, or still in Start. *)
NotifyFails(u) ==
    /\ U!Notify(u)
    /\ status # "serving"
    /\ UNCHANGED <<serverVars, ever, told>>

(* A step of the server; handlers, which only read the lists, are left out.  What the server *)
(* was told is forgotten with the process.                                                   *)
ServerStep ==
    /\ \/ Start
       \/ \E g \in Thread : readLists(g)
       \/ Kill
    /\ told' = IF status' = "down" THEN NoVersions ELSE told
    /\ UNCHANGED updaterVars

(* The operator puts an ads list into the directory. *)
NewAdsList ==
    /\ \E text \in Content["adslist"] : NewFile("adslist", text)
    /\ UNCHANGED <<updaterVars, told>>

SystemNext ==
    \/ UpdaterStep
    \/ \E u \in Updater : NotifyFails(u) \/ \E g \in Reloader : NotifyServer(u, g)
    \/ ServerStep
    \/ NewAdsList

(* The goroutines of a running server make progress; nothing is asked of the updater. *)
SystemSpec ==
    /\ SystemInit /\ [][SystemNext]_sysVars
    /\ \A g \in Thread : WF_sysVars(readLists(g) /\ ServerStep)

-------------------------------------------------------------------------------
(***************************************************************************)
(* A reread that finds the file it chose removed is at least Keep versions *)
(* behind: removeOld and getMaxNumberFilenameForRE race, but fewer than    *)
(* Keep updates during a reread never make it fail.                        *)
(***************************************************************************)
RemovedOnlyWhenFarBehind ==
    \A g \in Thread :
        reload[g].pc = "open" /\ reload[g].n \notin DOMAIN files[kind(g)] =>
            Newest(kind(g)) >= reload[g].n + Keep

(***************************************************************************)
(* A POST that the server accepted is not without effect: the lists it was *)
(* about, or later ones, come into use after the reread it started, unless *)
(* the process ends or the directory gets Keep versions ahead of the       *)
(* reread.  A reread that overlaps it may put older ones back later.       *)
(***************************************************************************)
AcceptedUpdateIsUsed ==
    \A k \in U!Written : \A n \in 0..MaxNumber[k] :
        told[k] = n /\ (\E g \in Reloader : reload[g].pc = "list" /\ reload[g].i = 1)
            ~> \/ ver[k] >= n
               \/ status = "down"
               \/ \E j \in U!Written : Newest(j) >= told[j] + Keep

(***************************************************************************)
(* Readme: "When several whitelists or black lists are present the files   *)
(* with largest numbers will be used": once the server has been told of    *)
(* the newest files and no reread is running, they are the ones in use.    *)
(***************************************************************************)
LargestNumberIsUsed ==
    \A k \in U!Written :
        /\ status = "serving"
        /\ \A g \in Thread : reload[g].pc = "idle"
        /\ told[k] = Newest(k)
        => ver[k] = Newest(k)
===============================================================================
