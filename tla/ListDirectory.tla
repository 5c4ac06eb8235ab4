---------------------------- MODULE ListDirectory ----------------------------
(***************************************************************************)
(* What the lists directory promises to doh-server, which only reads it:   *)
(* per kind of list a set of numbered files that never change; a new file  *)
(* gets the number after the largest one; the newest file is never         *)
(* removed.  lists-updater implements this (see ListsUpdater).             *)
(***************************************************************************)
EXTENDS Integers, FiniteSetsExt

VARIABLE files   \* files[k]: the numbered files of kind k, number |-> text

Kind == {"whitelist", "blacklist", "adslist"}

NoFiles == [n \in {} |-> <<>>]

AddFile(f, n, text) == [m \in DOMAIN f \cup {n} |-> IF m = n THEN text ELSE f[m]]

DropFile(f, n) == [m \in DOMAIN f \ {n} |-> f[m]]

(* The largest number among a directory's files of one kind, -1 if there is none. *)
maxNumberForRE(f) == IF DOMAIN f = {} THEN -1 ELSE Max(DOMAIN f)

NumberAfter(f) == maxNumberForRE(f) + 1

PublishFile(k, text) ==
    files' = [files EXCEPT ![k] = AddFile(@, NumberAfter(@), text)]

RemoveFile(k, n) ==
    /\ n \in DOMAIN files[k]
    /\ n # maxNumberForRE(files[k])
    /\ files' = [files EXCEPT ![k] = DropFile(@, n)]

(* A file appears, whatever its text. *)
SomePublish(k) ==
    LET n == NumberAfter(files[k])
    IN  /\ n \in DOMAIN files'[k]
        /\ PublishFile(k, files'[k][n])

DirInit == files = [k \in Kind |-> NoFiles]

DirNext == \E k \in Kind : SomePublish(k) \/ \E n \in DOMAIN files[k] : RemoveFile(k, n)

DirSpec == DirInit /\ [][DirNext]_files
===============================================================================
