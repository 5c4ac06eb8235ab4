------------------------------ MODULE Filtering ------------------------------
(***************************************************************************)
(* The filter lists of doh-server (doh-server/filtering.go): how they are  *)
(* read at start-up, reread by one goroutine per POST to the update        *)
(* endpoint, and consulted record by record while answers are filtered,    *)
(* all of it concurrently and while the directory changes.                 *)
(***************************************************************************)
EXTENDS ListFormat, ListDirectory

CONSTANTS
    Main,        \* the goroutine that runs Server.Start
    Reloader,    \* goroutines spawned by the update endpoint: slots, reused
    Handler,     \* goroutines that filter an upstream answer
    Content,     \* Content[k]: texts a list file of kind k may have
    Answers,     \* owner names of the records of an upstream answer, in order
    MaxNumber,   \* bound: MaxNumber[k] is the largest file number of kind k
    DiskFails    \* whether reading the directory or a file may fail

Thread == Reloader \cup {Main}

ASSUME FilteringAssumption ==
    /\ Main \notin Reloader
    /\ \A k \in Kind : Content[k] \subseteq Seq(Cell)
    /\ Answers \subseteq Seq(Domain)
    /\ MaxNumber \in [Kind -> Nat]
    /\ DiskFails \in BOOLEAN

VARIABLES
    status,   \* of the server process: "down", "starting" or "serving"
    lists,    \* s.whitelist, s.blacklist, s.adsList: the maps in memory
    reload,   \* per thread: where it is in readLists, what it holds and, as history,
              \* the versions in use when it entered (since)
    filter,   \* per handler: where it is in postLookup and isRestricted
    ver,      \* history: number of the file each map in memory was read from
    ever      \* history: every text the directory ever had, per kind

vars == <<files, status, lists, reload, filter, ver, ever>>

serverVars == <<status, lists, reload, filter, ver>>

ReadOrder == <<"whitelist", "blacklist", "adslist">>

NoVersions == [k \in Kind |-> -1]

Idle == [pc |-> "idle", i |-> 1, n |-> -1, data |-> {}, since |-> NoVersions]

NoFilter == [pc |-> "idle", rrs |-> <<>>, ads |-> FALSE, kept |-> {}, dropped |-> {}]

(* A fresh Server: empty maps, no goroutine but the one in Start. *)
Init ==
    /\ DirInit
    /\ status = "down"
    /\ lists = [k \in Kind |-> {}]
    /\ reload = [g \in Thread |-> Idle]
    /\ filter = [h \in Handler |-> NoFilter]
    /\ ver = NoVersions
    /\ ever = [k \in Kind |-> {}]

(* The process ends, and what it had in memory with it. *)
Exit ==
    /\ status' = "down"
    /\ lists' = [k \in Kind |-> {}]
    /\ reload' = [g \in Thread |-> Idle]
    /\ filter' = [h \in Handler |-> NoFilter]
    /\ ver' = NoVersions

-------------------------------------------------------------------------------
(* s.listsMu, a sync.RWMutex.  A writer that waits in Lock keeps new readers out. *)

(* Mutant: postLookup holds RLock for the whole answer, isRestricted takes it again. *)
ReadersAllAnswer == {h \in Handler : filter[h].pc # "idle"}

Readers == {h \in Handler : filter[h].pc \in {"ads", "white", "black"}}

WriterWaits == \E g \in Thread : reload[g].pc = "wait"

-------------------------------------------------------------------------------
(* readLists: three times list the directory, read a file, replace a map. *)

kind(g) == ReadOrder[reload[g].i]

(* The goroutine enters readLists. *)
Enter(g) ==
    reload' = [reload EXCEPT ![g] = [Idle EXCEPT !.pc = "list", !.since = ver]]

(* main runs Server.Start: the lists are read before anything listens. *)
Start ==
    /\ status = "down"
    /\ status' = "starting"
    /\ Enter(Main)
    /\ UNCHANGED <<files, lists, filter, ver, ever>>

(* POST on the update endpoint: answered at once, the lists are reread by a new goroutine. *)
Post(g) ==
    /\ status = "serving"
    /\ reload[g].pc = "idle"
    /\ Enter(g)
    /\ UNCHANGED <<files, status, lists, filter, ver, ever>>

(* Mutant: the file listed last is chosen, whatever its number. *)
LastListedFilename(g) ==
    /\ reload[g].pc = "list"
    /\ \E n \in DOMAIN files[kind(g)] :
          reload' = [reload EXCEPT ![g].pc = "open", ![g].n = n]
    /\ UNCHANGED <<files, status, lists, filter, ver, ever>>

getMaxNumberFilenameForRE(g) ==
    /\ reload[g].pc = "list"
    /\ DOMAIN files[kind(g)] # {}
    /\ reload' = [reload EXCEPT ![g].pc = "open", ![g].n = maxNumberForRE(files[kind(g)])]
    /\ UNCHANGED <<files, status, lists, filter, ver, ever>>

(* os.Open and the read loop: files are immutable and an open one survives its removal. *)
ReadFile(g) ==
    /\ reload[g].pc = "open"
    /\ reload[g].n \in DOMAIN files[kind(g)]
    /\ reload' = [reload EXCEPT ![g].pc = "lock",
                                ![g].data = parseList(files[kind(g)][reload[g].n])]
    /\ UNCHANGED <<files, status, lists, filter, ver, ever>>

(* Mutant: the map is replaced before the error is looked at. *)
ReadFailsAndClears(g) ==
    /\ reload[g].pc \in {"list", "open"}
    /\ lists' = [lists EXCEPT ![kind(g)] = {}]
    /\ reload' = [reload EXCEPT ![g] = Idle]
    /\ UNCHANGED <<files, status, filter, ver, ever>>

(* No file, a file removed since the directory was listed, or an I/O error: what was *)
(* installed stays.  At start-up Start returns the error and the process ends.       *)
ReadFails(g) ==
    /\ \/ reload[g].pc = "list" /\ (DOMAIN files[kind(g)] = {} \/ DiskFails)
       \/ reload[g].pc = "open" /\ (reload[g].n \notin DOMAIN files[kind(g)] \/ DiskFails)
    /\ IF g = Main
         THEN Exit
         ELSE /\ reload' = [reload EXCEPT ![g] = Idle]
              /\ UNCHANGED <<status, lists, filter, ver>>
    /\ UNCHANGED <<files, ever>>

Lock(g) ==
    /\ reload[g].pc = "lock"
    /\ ~WriterWaits
    /\ reload' = [reload EXCEPT ![g].pc = "wait"]
    /\ UNCHANGED <<files, status, lists, filter, ver, ever>>

(* Mutant: a map is replaced without listsMu. *)
InstallUnlocked(g) ==
    /\ reload[g].pc = "wait"
    /\ lists' = [lists EXCEPT ![kind(g)] = reload[g].data]
    /\ ver' = [ver EXCEPT ![kind(g)] = reload[g].n]
    /\ reload' = [reload EXCEPT ![g].pc = IF reload[g].i < Len(ReadOrder) THEN "list" ELSE "log",
                                ![g].i = IF @ < Len(ReadOrder) THEN @ + 1 ELSE @]
    /\ UNCHANGED <<files, status, filter, ever>>

(* Mutant: one list more than there are. *)
InstallOneMore(g) ==
    /\ reload[g].pc = "wait"
    /\ Readers = {}
    /\ lists' = [lists EXCEPT ![kind(g)] = reload[g].data]
    /\ ver' = [ver EXCEPT ![kind(g)] = reload[g].n]
    /\ reload' = [reload EXCEPT ![g].pc = "list", ![g].i = @ + 1]
    /\ UNCHANGED <<files, status, filter, ever>>

(* Lock is granted once the readers are gone; the map is replaced; Unlock. *)
Install(g) ==
    /\ reload[g].pc = "wait"
    /\ Readers = {}
    /\ lists' = [lists EXCEPT ![kind(g)] = reload[g].data]
    /\ ver' = [ver EXCEPT ![kind(g)] = reload[g].n]
    /\ reload' = [reload EXCEPT ![g] =
          IF @.i < Len(ReadOrder)
            THEN [pc |-> "list", i |-> @.i + 1, n |-> -1, data |-> {}, since |-> @.since]
            ELSE [pc |-> "log", i |-> @.i, n |-> -1, data |-> {}, since |-> @.since]]
    /\ UNCHANGED <<files, status, filter, ever>>

(* The sizes are logged under RLock, which waits behind a writer; readLists returns. *)
LogSizes(g) ==
    /\ reload[g].pc = "log"
    /\ ~WriterWaits
    /\ reload' = [reload EXCEPT ![g] = Idle]
    /\ status' = IF g = Main THEN "serving" ELSE status
    /\ UNCHANGED <<files, lists, filter, ver, ever>>

readLists(g) ==
    \/ getMaxNumberFilenameForRE(g)
    \/ ReadFile(g)
    \/ ReadFails(g)
    \/ Lock(g)
    \/ Install(g)
    \/ LogSizes(g)

(* The process is killed (the NetworkManager hooks restart it on every up and down). *)
Kill ==
    /\ status # "down"
    /\ Exit
    /\ UNCHANGED <<files, ever>>

-------------------------------------------------------------------------------
(* postLookup: isRestricted for every record of the answer and additional sections. *)

owner(h) == Head(filter[h].rrs)

Listed(d, k) == NameOf(d) \in lists[k]

postLookup(h) ==
    /\ status = "serving"
    /\ filter[h].pc = "idle"
    /\ \E rrs \in Answers, ads \in BOOLEAN :
          filter' = [filter EXCEPT ![h] =
              [pc |-> "next", rrs |-> rrs, ads |-> ads, kept |-> {}, dropped |-> {}]]
    /\ UNCHANGED <<files, status, lists, reload, ver, ever>>

(* Mutant: a reader passes a writer that waits. *)
RLockPastWriter(h) ==
    /\ filter[h].pc = "next"
    /\ filter[h].rrs # <<>>
    /\ filter' = [filter EXCEPT ![h].pc = "ads"]
    /\ UNCHANGED <<files, status, lists, reload, ver, ever>>

RLock(h) ==
    /\ filter[h].pc = "next"
    /\ filter[h].rrs # <<>>
    /\ ~WriterWaits
    /\ filter' = [filter EXCEPT ![h].pc = "ads"]
    /\ UNCHANGED <<files, status, lists, reload, ver, ever>>

(* isRestricted returns: RUnlock, and the record is dropped or kept. *)
Verdict(h, restricted) ==
    filter' = [filter EXCEPT ![h] =
        [pc |-> "next", rrs |-> Tail(@.rrs), ads |-> @.ads,
         kept |-> IF restricted THEN @.kept ELSE @.kept \cup {owner(h)},
         dropped |-> IF restricted THEN @.dropped \cup {owner(h)} ELSE @.dropped]]

(* Mutant: the ads list is used for every request. *)
CheckAdsAlways(h) ==
    /\ filter[h].pc = "ads"
    /\ IF Listed(owner(h), "adslist")
         THEN Verdict(h, TRUE)
         ELSE filter' = [filter EXCEPT ![h].pc = "white"]
    /\ UNCHANGED <<files, status, lists, reload, ver, ever>>

CheckAds(h) ==
    /\ filter[h].pc = "ads"
    /\ IF filter[h].ads /\ Listed(owner(h), "adslist")
         THEN Verdict(h, TRUE)
         ELSE filter' = [filter EXCEPT ![h].pc = "white"]
    /\ UNCHANGED <<files, status, lists, reload, ver, ever>>

CheckWhitelist(h) ==
    /\ filter[h].pc = "white"
    /\ IF Listed(owner(h), "whitelist")
         THEN Verdict(h, FALSE)
         ELSE filter' = [filter EXCEPT ![h].pc = "black"]
    /\ UNCHANGED <<files, status, lists, reload, ver, ever>>

CheckBlacklist(h) ==
    /\ filter[h].pc = "black"
    /\ Verdict(h, Listed(owner(h), "blacklist"))
    /\ UNCHANGED <<files, status, lists, reload, ver, ever>>

(* The filtered answer is sent; the goroutine is done. *)
Respond(h) ==
    /\ filter[h].pc = "next"
    /\ filter[h].rrs = <<>>
    /\ filter' = [filter EXCEPT ![h] = NoFilter]
    /\ UNCHANGED <<files, status, lists, reload, ver, ever>>

isRestricted(h) == RLock(h) \/ CheckAds(h) \/ CheckWhitelist(h) \/ CheckBlacklist(h)

-------------------------------------------------------------------------------
(* The directory, as its writers change it. *)

NewFile(k, text) ==
    /\ maxNumberForRE(files[k]) < MaxNumber[k]
    /\ PublishFile(k, text)
    /\ ever' = [ever EXCEPT ![k] = @ \cup {text}]
    /\ UNCHANGED serverVars

OldFile(k, n) ==
    /\ RemoveFile(k, n)
    /\ UNCHANGED serverVars
    /\ UNCHANGED ever

ServerNext ==
    \/ Start \/ Kill
    \/ \E g \in Reloader : Post(g)
    \/ \E g \in Thread : readLists(g)
    \/ \E h \in Handler : postLookup(h) \/ isRestricted(h) \/ Respond(h)

DirectoryNext ==
    \E k \in Kind : \/ \E text \in Content[k] : NewFile(k, text)
                    \/ \E n \in DOMAIN files[k] : OldFile(k, n)

Next == ServerNext \/ DirectoryNext

(***************************************************************************)
(* The Go scheduler runs every runnable goroutine.  RWMutex lets a blocked *)
(* writer in once the readers it found are gone, and lets the readers that *)
(* a writer blocked in before the next writer: strong fairness of the     *)
(* lock operations.                                                        *)
(***************************************************************************)
Fairness ==
    /\ \A g \in Thread : WF_vars(readLists(g)) /\ SF_vars(Lock(g) \/ LogSizes(g))
    /\ \A h \in Handler : WF_vars(isRestricted(h) \/ Respond(h)) /\ SF_vars(RLock(h))

Spec == Init /\ [][Next]_vars

FairSpec == Spec /\ Fairness
-------------------------------------------------------------------------------
ReloadState ==
    [pc : {"idle", "list", "open", "lock", "wait", "log"}, i : 1..Len(ReadOrder),
     n : Nat \cup {-1}, data : SUBSET Name, since : [Kind -> Nat \cup {-1}]]

FilterState ==
    [pc : {"idle", "next", "ads", "white", "black"}, rrs : Seq(Domain), ads : BOOLEAN,
     kept : SUBSET Domain, dropped : SUBSET Domain]

TypeOK ==
    /\ status \in {"down", "starting", "serving"}
    /\ DOMAIN files = Kind
    /\ \A k \in Kind : DOMAIN files[k] \subseteq Nat
    /\ ever \in [Kind -> SUBSET Seq(Cell)]
    /\ lists \in [Kind -> SUBSET Name]
    /\ ver \in [Kind -> Nat \cup {-1}]
    /\ reload \in [Thread -> ReloadState]
    /\ filter \in [Handler -> FilterState]

(***************************************************************************)
(* The checks isRestricted has passed still hold when it makes the next    *)
(* one: no reload replaces a map between two lookups of one call, because  *)
(* readLists replaces maps under listsMu.Lock and isRestricted holds       *)
(* listsMu.RLock from its first to its last lookup.                        *)
(***************************************************************************)
LookupIsAtomic ==
    \A h \in Handler :
        /\ filter[h].pc \in {"white", "black"} =>
              ~(filter[h].ads /\ Listed(owner(h), "adslist"))
        /\ filter[h].pc = "black" => ~Listed(owner(h), "whitelist")

(***************************************************************************)
(* Readme, "Blacklist" and "AdsList": a name that is in every blacklist    *)
(* there ever was and in no whitelist is denied, and so is one in every    *)
(* ads list when the request asks for ads filtering: no answer that is     *)
(* being built keeps it, whatever reloads, failures and restarts run       *)
(* meanwhile.  (With no list ever published nothing may be kept: no answer *)
(* is filtered before Start has read all three lists.)                     *)
(***************************************************************************)
AlwaysListed(d, k) == \A text \in ever[k] : NameOf(d) \in parseList(text)

NeverListed(d, k) == \A text \in ever[k] : NameOf(d) \notin parseList(text)

DeniedStaysDenied ==
    \A h \in Handler : \A d \in filter[h].kept :
        /\ ~(AlwaysListed(d, "blacklist") /\ NeverListed(d, "whitelist"))
        /\ ~(filter[h].ads /\ AlwaysListed(d, "adslist"))

(***************************************************************************)
(* Readme, "Whitelist": a name in every whitelist there ever was is always *)
(* resolved, unless ads filtering was asked for and some ads list has it;  *)
(* and a name no blacklist ever had is dropped only by an ads list.        *)
(***************************************************************************)
WhitelistedStaysResolved ==
    \A h \in Handler : \A d \in filter[h].dropped :
        /\ AlwaysListed(d, "whitelist") => filter[h].ads /\ ~NeverListed(d, "adslist")
        /\ NeverListed(d, "blacklist") => filter[h].ads /\ ~NeverListed(d, "adslist")

(***************************************************************************)
(* A call of readLists never goes back behind the lists that were in use   *)
(* when it started: the file it is about to install is at least as new.    *)
(* (It may go back behind a list that an overlapping call installed.)      *)
(***************************************************************************)
NoOlderThanAtStart ==
    \A g \in Thread :
        reload[g].pc \in {"open", "lock", "wait"} => reload[g].n >= reload[g].since[kind(g)]

(***************************************************************************)
(* The filter keeps its promise: goroutines, locks, failing rereads and    *)
(* kills included, what handlers do to their answers is what AnswerFilter  *)
(* does, one atomic verdict per record against the lists of that instant.  *)
(* The verdict takes effect in the step that decides it.                   *)
(***************************************************************************)
AbstractLists == [k \in Kind |-> {d \in Domain : Listed(d, k)}]

AbstractAnswer ==
    [h \in Handler |->
        [busy |-> filter[h].pc # "idle", rrs |-> filter[h].rrs, ads |-> filter[h].ads,
         kept |-> filter[h].kept, dropped |-> filter[h].dropped]]

Abstract == INSTANCE AnswerFilter WITH
    up <- status = "serving", lists <- AbstractLists, answer <- AbstractAnswer

ImplementsAnswerFilter == Abstract!Spec

(***************************************************************************)
(* Every reread ends and every answer is sent, or the process is killed:   *)
(* rereads and lookups that contend for listsMu starve neither side.       *)
(***************************************************************************)
RereadEnds == \A g \in Thread : reload[g].pc # "idle" ~> reload[g].pc = "idle"

AnswerEnds == \A h \in Handler : filter[h].pc # "idle" ~> filter[h].pc = "idle"
===============================================================================
