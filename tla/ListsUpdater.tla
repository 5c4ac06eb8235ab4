----------------------------- MODULE ListsUpdater -----------------------------
(***************************************************************************)
(* lists-updater (lists-updater/main.go): every hour fetch the whitelist   *)
(* and the blacklist, write each to a ".new.txt" file, rename it to the    *)
(* next number, remove old numbers and tell doh-server.  Every step may    *)
(* fail and the process may be killed and launched again at any point;     *)
(* several processes may be launched in one working directory.             *)
(***************************************************************************)
EXTENDS ListFormat, ListDirectory

CONSTANTS
    Updater,     \* the lists-updater processes
    Nobody,      \* the holder of a free lock
    Feed,        \* Feed[s]: what fetching source s may return, sequences of domains
    Keep,        \* -keep: how many versions removeOld leaves
    MaxNumber    \* bound: MaxNumber[k] is the largest file number of kind k

Source == {"majestic", "phishTank", "openPhish"}

(* -keep 0 would remove the file just published, a negative value panics. *)
ASSUME UpdaterAssumption ==
    /\ Nobody \notin Updater
    /\ \A s \in Source : Feed[s] \subseteq Seq(Domain)
    /\ Keep \in Nat \ {0}
    /\ MaxNumber \in [Kind -> Nat]

VARIABLES
    newFile,   \* text of whitelist.new.txt and blacklist.new.txt, <<>> if there is none
    lockfile,  \* the process that holds the lock file, or Nobody
    upd,       \* per process: where it is in process() and its local variables
    made,      \* history: the domains the last complete write of a .new.txt wrote
    source     \* history: made of the numbered files when they were published

vars == <<files, newFile, lockfile, upd, made, source>>

Written == {"whitelist", "blacklist"}

Down == [pc |-> "down", k |-> "whitelist", n |-> 0, old |-> {}]

Init ==
    /\ DirInit
    /\ newFile = [k \in Written |-> <<>>]
    /\ lockfile = Nobody
    /\ upd = [u \in Updater |-> Down]
    /\ made = [k \in Written |-> <<>>]
    /\ source = [k \in Written |-> NoFiles]

(* The whitelist, then the blacklist: go on with step pc of the blacklist, or to step done. *)
Goto(u, pc, done) ==
    upd' = [upd EXCEPT ![u] =
        IF @.k = "whitelist" THEN [Down EXCEPT !.pc = pc, !.k = "blacklist"]
                             ELSE [Down EXCEPT !.pc = done]]

-------------------------------------------------------------------------------
(* Mutant: the result of TryLock is not looked at. *)
LaunchUnlocked(u) ==
    /\ upd[u].pc = "down"
    /\ upd' = [upd EXCEPT ![u] = [Down EXCEPT !.pc = "write"]]
    /\ UNCHANGED <<files, newFile, lockfile, made, source>>

(* A process that does not get the lock exits at once. *)
Launch(u) ==
    /\ upd[u].pc = "down"
    /\ lockfile = Nobody
    /\ lockfile' = u
    /\ upd' = [upd EXCEPT ![u] = [Down EXCEPT !.pc = "write"]]
    /\ UNCHANGED <<files, newFile, made, source>>

(* The domains of a list in the order they are written: the whitelist as Majestic has it, *)
(* the blacklist without repetitions; an error of OpenPhish is not looked at.             *)
NoRepeats(ds) ==
    LET seen[i \in 0..Len(ds)] ==
            CASE i = 0 -> <<>>
              [] i > 0 /\ Contains(seen[i - 1], ds[i]) -> seen[i - 1]
              [] OTHER -> Append(seen[i - 1], ds[i])
    IN  seen[Len(ds)]

Fetched(k) ==
    IF k = "whitelist"
      THEN Feed["majestic"]
      ELSE {NoRepeats(first \o second) : first \in Feed["phishTank"],
                                         second \in Feed["openPhish"] \cup {<<>>}}

(* Mutant: write errors are not looked at. *)
WriteListUnchecked(u) ==
    /\ upd[u].pc = "write"
    /\ LET k == upd[u].k
       IN  \E ds \in Fetched(k) : \E n \in 0..Len(Text(ds)) :
              /\ newFile' = [newFile EXCEPT ![k] = Overwrite(@, SubSeq(Text(ds), 1, n))]
              /\ made' = [made EXCEPT ![k] = ds]
    /\ Goto(u, "write", "number")
    /\ UNCHANGED <<files, lockfile, source>>

(* writeWhitelist and writeBlacklist: all the bytes, or only the first n before an error. *)
WriteList(u) ==
    /\ upd[u].pc = "write"
    /\ LET k == upd[u].k
       IN  \E ds \in Fetched(k) : \E n \in 0..Len(Text(ds)) :
              /\ newFile' = [newFile EXCEPT ![k] = Overwrite(@, SubSeq(Text(ds), 1, n))]
              /\ IF n = Len(Text(ds))
                   THEN /\ made' = [made EXCEPT ![k] = ds]
                        /\ Goto(u, "write", "number")
                   ELSE /\ upd' = [upd EXCEPT ![u] = [Down EXCEPT !.pc = "sleep"]]
                        /\ UNCHANGED made
    /\ UNCHANGED <<files, lockfile, source>>

(* Mutant: the largest number, not the one after it. *)
SameNumber(u) ==
    /\ upd[u].pc = "number"
    /\ upd' = [upd EXCEPT ![u].pc = "rename", ![u].n = maxNumberForRE(files[upd[u].k])]
    /\ UNCHANGED <<files, newFile, lockfile, made, source>>

NextNumber(u) ==
    /\ upd[u].pc = "number"
    /\ maxNumberForRE(files[upd[u].k]) < MaxNumber[upd[u].k]
    /\ upd' = [upd EXCEPT ![u].pc = "rename", ![u].n = NumberAfter(files[upd[u].k])]
    /\ UNCHANGED <<files, newFile, lockfile, made, source>>

Rename(u) ==
    /\ upd[u].pc = "rename"
    /\ LET k == upd[u].k
       IN  /\ files' = [files EXCEPT ![k] = AddFile(@, upd[u].n, newFile[k])]
           /\ source' = [source EXCEPT ![k] = AddFile(@, upd[u].n, made[k])]
           /\ newFile' = [newFile EXCEPT ![k] = <<>>]
    /\ Goto(u, "number", "list")
    /\ UNCHANGED <<lockfile, made>>

(* A fetch, a directory listing or a rename fails: process() returns the error. *)
StepFails(u) ==
    /\ upd[u].pc \in {"write", "number", "rename"}
    /\ upd' = [upd EXCEPT ![u] = [Down EXCEPT !.pc = "sleep"]]
    /\ UNCHANGED <<files, newFile, lockfile, made, source>>

(* Mutant: the loop runs to len(numbers)-keep inclusive. *)
OneOldNumberMore(numbers) ==
    {n \in numbers : Cardinality({m \in numbers : m > n}) >= Keep - 1}

(* removeOld sorts the numbers it found and removes all but the last keep, lowest first. *)
OldNumbers(numbers) ==
    {n \in numbers : Cardinality({m \in numbers : m > n}) >= Keep}

(* The listing; an error in it is only logged, and the names found before it are used. *)
ListOld(u) ==
    /\ upd[u].pc = "list"
    /\ \E numbers \in SUBSET DOMAIN files[upd[u].k] :
          upd' = [upd EXCEPT ![u].pc = "remove", ![u].old = OldNumbers(numbers)]
    /\ UNCHANGED <<files, newFile, lockfile, made, source>>

(* One turn of the loop: the file is removed, or stays after a warning. *)
removeOld(u) ==
    /\ upd[u].pc = "remove"
    /\ IF upd[u].old = {}
         THEN /\ Goto(u, "list", "notify")
              /\ UNCHANGED <<files, source>>
         ELSE LET k == upd[u].k
                  n == Min(upd[u].old)
              IN  /\ upd' = [upd EXCEPT ![u].old = @ \ {n}]
                  /\ \/ /\ files' = [files EXCEPT ![k] = DropFile(@, n)]
                        /\ source' = [source EXCEPT ![k] = DropFile(@, n)]
                     \/ UNCHANGED <<files, source>>
    /\ UNCHANGED <<newFile, lockfile, made>>

(* The POST to doh-server; whatever comes of it, the round is over. *)
Notify(u) ==
    /\ upd[u].pc = "notify"
    /\ upd' = [upd EXCEPT ![u] = [Down EXCEPT !.pc = "sleep"]]
    /\ UNCHANGED <<files, newFile, lockfile, made, source>>

Wake(u) ==
    /\ upd[u].pc = "sleep"
    /\ upd' = [upd EXCEPT ![u] = [Down EXCEPT !.pc = "write"]]
    /\ UNCHANGED <<files, newFile, lockfile, made, source>>

(* The process dies; the system releases its lock. *)
Die(u) ==
    /\ upd[u].pc # "down"
    /\ upd' = [upd EXCEPT ![u] = Down]
    /\ lockfile' = IF lockfile = u THEN Nobody ELSE lockfile
    /\ UNCHANGED <<files, newFile, made, source>>

process(u) ==
    WriteList(u) \/ NextNumber(u) \/ Rename(u) \/ StepFails(u) \/ ListOld(u) \/ removeOld(u)

Next == \E u \in Updater : Launch(u) \/ process(u) \/ Notify(u) \/ Wake(u) \/ Die(u)

Spec == Init /\ [][Next]_vars

-------------------------------------------------------------------------------
TypeOK ==
    /\ \A k \in Kind : DOMAIN files[k] \subseteq Nat
    /\ newFile \in [Written -> Seq(Cell)]
    /\ lockfile \in Updater \cup {Nobody}
    /\ upd \in [Updater -> [pc : {"down", "write", "number", "rename", "list", "remove",
                                  "notify", "sleep"},
                            k : Written, n : Nat, old : SUBSET Nat]]
    /\ made \in [Written -> Seq(Domain)]
    /\ \A k \in Written : DOMAIN source[k] = DOMAIN files[k]

(***************************************************************************)
(* The updater keeps the promise of ListDirectory: a published file never  *)
(* changes, numbers only grow, the newest file of a list is never removed. *)
(* The lock file makes the largest number process() found still the        *)
(* largest one when it renames.                                            *)
(***************************************************************************)
ImplementsDirectory == DirSpec

(***************************************************************************)
(* A published list has every domain of the fetch it was published from:   *)
(* a round whose fetch or write failed publishes nothing, and no leftover  *)
(* of an earlier round replaces a line of this one.                        *)
(***************************************************************************)
PublishedListIsComplete ==
    \A k \in Written : \A n \in DOMAIN files[k] :
        \A d \in ToSet(source[k][n]) : NameOf(d) \in parseList(files[k][n])

(***************************************************************************)
(* removeOld never removes one of the newest Keep files, so a reader that  *)
(* has just listed the directory has time for Keep - 1 more updates before *)
(* the file it chose can disappear.                                        *)
(***************************************************************************)
NewestAreKept ==
    [][\A k \in Kind : \A n \in DOMAIN files[k] \ DOMAIN files'[k] :
          Cardinality({m \in DOMAIN files'[k] : m > n}) >= Keep]_vars

(***************************************************************************)
(* Readme, "Files format: one domain per line": what the server reads from *)
(* a published list are domains, none has bytes of a longer file that was  *)
(* there before.                                                           *)
(***************************************************************************)
OneDomainPerLine ==
    \A k \in Written : \A n \in DOMAIN files[k] :
        parseList(files[k][n]) \subseteq {NameOf(d) : d \in Domain}
===============================================================================
