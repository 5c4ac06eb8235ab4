-------------------------- MODULE Filtering_proofs --------------------------
(***************************************************************************)
(* Proofs about Filtering, for every set of goroutines, names and texts.   *)
(***************************************************************************)
EXTENDS Filtering, TLAPS

(* What parseList returns for any file are names. *)
LEMMA ParsedNames ==
    ASSUME NEW text \in Seq(Cell)
    PROVE  parseList(text) \in SUBSET Name
  <1>1. ASSUME NEW line \in Seq(Cell)
        PROVE  LastChunk(line) \in Seq(Cell)
    <2> DEFINE n == Len(line)
               r == n % BufSize
    <2>1. n \in Nat /\ r \in Nat /\ r <= n
      BY FormatAssumption
    <2> HIDE DEF r
    <2>2. n - r + 1 \in 1..n + 1
      BY <2>1
    <2>. QED BY <1>1, <2>1, <2>2 DEF LastChunk, r
  <1>2. ASSUME NEW p \in TextLine(text)
        PROVE  SubSeq(text, p[1], p[2]) \in Seq(Cell)
    BY <1>2 DEF TextLine
  <1>. QED BY <1>1, <1>2 DEF parseList, Name

(* The order of readLists names each kind once. *)
LEMMA ReadOrderFacts ==
    /\ Len(ReadOrder) = 3
    /\ \A i \in 1..3 : ReadOrder[i] \in Kind
    /\ Kind = {ReadOrder[1], ReadOrder[2], ReadOrder[3]}
  BY DEF ReadOrder, Kind

(* The list that a goroutine in readLists is at is one of the three. *)
LEMMA KindType ==
    ASSUME TypeOK, NEW g \in Thread
    PROVE  kind(g) \in Kind
  <1>1. reload[g].i \in 1..3
    BY ReadOrderFacts DEF TypeOK, ReloadState
  <1>. QED BY <1>1, ReadOrderFacts DEF kind

-------------------------------------------------------------------------------
(* The directory always has a newest file of each kind that has files, and every file's *)
(* text is on record.                                                                   *)
HasNewest(f) ==
    DOMAIN f # {} => \E m \in DOMAIN f : \A n \in DOMAIN f : n <= m

DirInv ==
    \A k \in Kind : /\ HasNewest(files[k])
                    /\ \A n \in DOMAIN files[k] : files[k][n] \in ever[k]

(* What maxNumberForRE returns. *)
LEMMA MaxNumberFacts ==
    ASSUME NEW f, DOMAIN f \subseteq Nat, HasNewest(f)
    PROVE  /\ maxNumberForRE(f) \in Nat \cup {-1}
           /\ \A n \in DOMAIN f : n <= maxNumberForRE(f)
           /\ DOMAIN f # {} => maxNumberForRE(f) \in DOMAIN f
  <1>1. CASE DOMAIN f = {}
    BY <1>1 DEF maxNumberForRE
  <1>2. CASE DOMAIN f # {}
    <2>1. PICK m \in DOMAIN f : \A n \in DOMAIN f : m >= n
      BY <1>2 DEF HasNewest
    <2>2. /\ Max(DOMAIN f) \in DOMAIN f
          /\ \A n \in DOMAIN f : Max(DOMAIN f) >= n
      BY <2>1 DEF Max
    <2>. QED BY <1>2, <2>2 DEF maxNumberForRE
  <1>. QED BY <1>1, <1>2

(* Publishing and removing keep a newest file and never lower the largest number. *)
LEMMA AddFileFacts ==
    ASSUME NEW f, DOMAIN f \subseteq Nat, HasNewest(f), NEW text,
           NEW n, n = NumberAfter(f),
           NEW F, F = AddFile(f, n, text)
    PROVE  /\ DOMAIN F = DOMAIN f \cup {n}
           /\ n \in Nat
           /\ HasNewest(F)
           /\ maxNumberForRE(f) <= maxNumberForRE(F)
           /\ \A m \in DOMAIN f : F[m] = f[m]
           /\ F[n] = text
  <1>1. /\ maxNumberForRE(f) \in Nat \cup {-1}
        /\ \A m \in DOMAIN f : m <= maxNumberForRE(f)
    BY MaxNumberFacts
  <1>2. DOMAIN F = DOMAIN f \cup {n} /\ n \in Nat
    BY <1>1 DEF AddFile, NumberAfter
  <1>3. \A m \in DOMAIN F : m <= n
    BY <1>1, <1>2 DEF NumberAfter
  <1>4. HasNewest(F)
    BY <1>2, <1>3 DEF HasNewest
  <1>5. n <= maxNumberForRE(F)
    BY <1>2, <1>4, MaxNumberFacts
  <1>6. \A m \in DOMAIN f : F[m] = f[m]
    BY <1>1 DEF AddFile, NumberAfter
  <1>7. F[n] = text
    BY DEF AddFile
  <1>8. maxNumberForRE(f) <= maxNumberForRE(F)
    <2>1. maxNumberForRE(F) \in Nat \cup {-1}
      BY <1>2, <1>4, MaxNumberFacts
    <2>. QED BY <1>1, <1>5, <2>1 DEF NumberAfter
  <1>. QED BY <1>2, <1>4, <1>6, <1>7, <1>8

(* Removing a file that is not the newest leaves the newest where it is. *)
LEMMA DropFileFacts ==
    ASSUME NEW f, DOMAIN f \subseteq Nat, HasNewest(f),
           NEW n \in DOMAIN f, n # maxNumberForRE(f),
           NEW F, F = DropFile(f, n)
    PROVE  /\ DOMAIN F = DOMAIN f \ {n}
           /\ HasNewest(F)
           /\ maxNumberForRE(F) = maxNumberForRE(f)
           /\ \A m \in DOMAIN F : F[m] = f[m]
  <1> DEFINE top == maxNumberForRE(f)
  <1>1. /\ top \in DOMAIN f
        /\ \A m \in DOMAIN f : m <= top
    BY MaxNumberFacts
  <1>2. DOMAIN F = DOMAIN f \ {n} /\ \A m \in DOMAIN F : F[m] = f[m]
    BY DEF DropFile
  <1>3. top \in DOMAIN F /\ \A m \in DOMAIN F : m <= top
    BY <1>1, <1>2
  <1>4. HasNewest(F)
    BY <1>3 DEF HasNewest
  <1>5. /\ maxNumberForRE(F) \in DOMAIN F
        /\ \A m \in DOMAIN F : m <= maxNumberForRE(F)
    BY <1>2, <1>3, <1>4, MaxNumberFacts
  <1>6. maxNumberForRE(F) = top
    BY <1>2, <1>3, <1>5
  <1>. QED BY <1>2, <1>4, <1>6

-------------------------------------------------------------------------------
(* What the writers of the directory do to it. *)
LEMMA DirectoryStep ==
    ASSUME TypeOK, DirInv, DirectoryNext
    PROVE  /\ UNCHANGED serverVars
           /\ DOMAIN files' = Kind
           /\ ever' \in [Kind -> SUBSET Seq(Cell)]
           /\ \A k \in Kind : /\ DOMAIN files'[k] \subseteq Nat
                              /\ maxNumberForRE(files[k]) <= maxNumberForRE(files'[k])
                              /\ ever[k] \subseteq ever'[k]
           /\ DirInv'
  <1>0. ASSUME NEW k \in Kind
        PROVE  /\ DOMAIN files[k] \subseteq Nat
               /\ HasNewest(files[k])
               /\ maxNumberForRE(files[k]) \in Int
    <2>1. DOMAIN files[k] \subseteq Nat /\ HasNewest(files[k])
      BY DEF TypeOK, DirInv
    <2>. QED BY <2>1, MaxNumberFacts
  <1>1. ASSUME NEW k \in Kind, NEW text \in Content[k], NewFile(k, text)
        PROVE  /\ DOMAIN files' = Kind
               /\ ever' \in [Kind -> SUBSET Seq(Cell)]
               /\ \A j \in Kind : /\ DOMAIN files'[j] \subseteq Nat
                                  /\ maxNumberForRE(files[j]) <= maxNumberForRE(files'[j])
                                  /\ ever[j] \subseteq ever'[j]
               /\ DirInv'
    <2>1. PICK n : n = NumberAfter(files[k])
      OBVIOUS
    <2>2. PICK F : F = AddFile(files[k], n, text)
      OBVIOUS
    <2>3. files' = [files EXCEPT ![k] = F] /\ ever' = [ever EXCEPT ![k] = ever[k] \cup {text}]
      BY <1>1, <2>1, <2>2 DEF NewFile, PublishFile
    <2>4. /\ DOMAIN F = DOMAIN files[k] \cup {n}
          /\ n \in Nat
          /\ HasNewest(F)
          /\ maxNumberForRE(files[k]) <= maxNumberForRE(F)
          /\ \A m \in DOMAIN files[k] : F[m] = files[k][m]
          /\ F[n] = text
      <3>1. DOMAIN files[k] \subseteq Nat /\ HasNewest(files[k])
        BY <1>0
      <3>. QED BY <2>1, <2>2, <3>1, AddFileFacts
    <2>5. DOMAIN files' = Kind /\ files'[k] = F /\ \A j \in Kind \ {k} : files'[j] = files[j]
      BY <2>3 DEF TypeOK
    <2>6. /\ ever' \in [Kind -> SUBSET Seq(Cell)]
          /\ ever'[k] = ever[k] \cup {text}
          /\ \A j \in Kind \ {k} : ever'[j] = ever[j]
      BY <2>3, FilteringAssumption DEF TypeOK
    <2>7. ASSUME NEW j \in Kind
          PROVE  /\ DOMAIN files'[j] \subseteq Nat
                 /\ maxNumberForRE(files[j]) <= maxNumberForRE(files'[j])
                 /\ ever[j] \subseteq ever'[j]
                 /\ HasNewest(files'[j])
                 /\ \A m \in DOMAIN files'[j] : files'[j][m] \in ever'[j]
      <3>1. CASE j = k
        BY <1>0, <2>4, <2>5, <2>6, <3>1 DEF DirInv
      <3>2. CASE j # k
        BY <1>0, <2>5, <2>6, <3>2 DEF DirInv
      <3>. QED BY <3>1, <3>2
    <2>. QED BY <2>5, <2>6, <2>7 DEF DirInv
  <1>2. ASSUME NEW k \in Kind, NEW n \in DOMAIN files[k], OldFile(k, n)
        PROVE  /\ DOMAIN files' = Kind
               /\ ever' = ever
               /\ \A j \in Kind : /\ DOMAIN files'[j] \subseteq Nat
                                  /\ maxNumberForRE(files[j]) <= maxNumberForRE(files'[j])
               /\ DirInv'
    <2>1. PICK F : F = DropFile(files[k], n)
      OBVIOUS
    <2>2. /\ n # maxNumberForRE(files[k])
          /\ files' = [files EXCEPT ![k] = F]
          /\ ever' = ever
      BY <1>2, <2>1 DEF OldFile, RemoveFile
    <2>3. /\ DOMAIN F = DOMAIN files[k] \ {n}
          /\ HasNewest(F)
          /\ maxNumberForRE(F) = maxNumberForRE(files[k])
          /\ \A m \in DOMAIN F : F[m] = files[k][m]
      <3>1. DOMAIN files[k] \subseteq Nat /\ HasNewest(files[k])
        BY <1>0
      <3>. QED BY <2>1, <2>2, <3>1, DropFileFacts
    <2>4. DOMAIN files' = Kind /\ files'[k] = F /\ \A j \in Kind \ {k} : files'[j] = files[j]
      BY <2>2 DEF TypeOK
    <2>5. ASSUME NEW j \in Kind
          PROVE  /\ DOMAIN files'[j] \subseteq Nat
                 /\ maxNumberForRE(files[j]) <= maxNumberForRE(files'[j])
                 /\ HasNewest(files'[j])
                 /\ \A m \in DOMAIN files'[j] : files'[j][m] \in ever'[j]
      <3>1. CASE j = k
        BY <1>0, <2>2, <2>3, <2>4, <3>1 DEF DirInv
      <3>2. CASE j # k
        BY <1>0, <2>2, <2>4, <3>2 DEF DirInv
      <3>. QED BY <3>1, <3>2
    <2>. QED BY <2>2, <2>4, <2>5 DEF DirInv
  <1>3. UNCHANGED serverVars
    BY DEF DirectoryNext, NewFile, OldFile
  <1>. QED BY <1>1, <1>2, <1>3 DEF DirectoryNext, TypeOK

(* A goroutine before and after its work is in a state of its type. *)
LEMMA IdleType == Idle \in ReloadState /\ NoFilter \in FilterState
  BY ReadOrderFacts DEF Idle, NoVersions, ReloadState, NoFilter, FilterState

(* After the end of the process the variables of the server have their types. *)
LEMMA ExitType ==
    ASSUME TypeOK, Exit, UNCHANGED <<files, ever>>
    PROVE  TypeOK'
  BY IdleType DEF TypeOK, Exit, NoVersions

(* What the steps of readLists do to a goroutine's state keeps it in its type. *)
LEMMA ReloadUpdates ==
    ASSUME NEW r \in ReloadState
    PROVE  /\ \A n \in Nat \cup {-1} : [r EXCEPT !.pc = "open", !.n = n] \in ReloadState
           /\ \A data \in SUBSET Name : [r EXCEPT !.pc = "lock", !.data = data] \in ReloadState
           /\ [r EXCEPT !.pc = "wait"] \in ReloadState
  <1>1. ASSUME NEW n \in Nat \cup {-1}
        PROVE  [r EXCEPT !.pc = "open", !.n = n] \in ReloadState
    BY DEF ReloadState
  <1>2. ASSUME NEW data \in SUBSET Name
        PROVE  [r EXCEPT !.pc = "lock", !.data = data] \in ReloadState
    BY DEF ReloadState
  <1>3. [r EXCEPT !.pc = "wait"] \in ReloadState
    BY DEF ReloadState
  <1>. QED BY <1>1, <1>2, <1>3

(* Entering readLists keeps the goroutine's state in its type. *)
LEMMA EnterType ==
    ASSUME TypeOK, NEW g \in Thread, Enter(g)
    PROVE  reload' \in [Thread -> ReloadState]
  <1>1. [Idle EXCEPT !.pc = "list", !.since = ver] \in ReloadState
    BY IdleType DEF ReloadState, TypeOK
  <1>. QED BY <1>1 DEF Enter, TypeOK

(* Which phase of its life the process is in, and what runs in that phase. *)
PhaseInv ==
    /\ status # "serving" => /\ \A h \in Handler : filter[h] = NoFilter
                             /\ \A g \in Reloader : reload[g].pc = "idle"
    /\ status # "starting" => reload[Main].pc = "idle"
    /\ \A h \in Handler : filter[h].pc \in {"ads", "white", "black"} => filter[h].rrs # <<>>

(* A verdict of isRestricted on a record keeps the handler's state in its type. *)
LEMMA VerdictType ==
    ASSUME TypeOK, NEW h \in Handler, NEW restricted,
           filter[h].rrs # <<>>, Verdict(h, restricted)
    PROVE  filter' \in [Handler -> FilterState]
  <1>1. filter[h] \in FilterState
    BY DEF TypeOK
  <1>2. owner(h) \in Domain /\ Tail(filter[h].rrs) \in Seq(Domain)
    BY <1>1 DEF owner, FilterState
  <1>3. filter'[h] \in FilterState
    BY <1>1, <1>2 DEF Verdict, FilterState, TypeOK
  <1>. QED BY <1>3 DEF Verdict, TypeOK

(* Every step of Server and directory keeps the types. *)
LEMMA TypeStep ==
    ASSUME TypeOK, DirInv, PhaseInv, [Next]_vars
    PROVE  TypeOK'
  <1>. USE DEF TypeOK
  <1>0. \A g \in Thread : reload[g] \in ReloadState
    OBVIOUS
  <1>1. CASE Start
    BY <1>1, EnterType DEF Start, Thread
  <1>2. CASE Kill
    BY <1>2, ExitType DEF Kill
  <1>3. ASSUME NEW g \in Reloader, Post(g)
        PROVE  TypeOK'
    BY <1>3, EnterType DEF Post, Thread
  <1>4. ASSUME NEW g \in Thread, getMaxNumberFilenameForRE(g)
        PROVE  TypeOK'
    <2> DEFINE n == maxNumberForRE(files[kind(g)])
    <2>1. n \in Nat \cup {-1}
      BY KindType, MaxNumberFacts DEF DirInv
    <2> HIDE DEF n
    <2>2. [reload[g] EXCEPT !.pc = "open", !.n = n] \in ReloadState
      BY <1>0, <2>1, ReloadUpdates, Zenon
    <2>. QED BY <1>4, <2>2 DEF getMaxNumberFilenameForRE, n
  <1>5. ASSUME NEW g \in Thread, ReadFile(g)
        PROVE  TypeOK'
    <2> DEFINE data == parseList(files[kind(g)][reload[g].n])
    <2>1. files[kind(g)][reload[g].n] \in Seq(Cell)
      BY <1>5, KindType DEF ReadFile, DirInv
    <2>2. data \in SUBSET Name
      BY <2>1, ParsedNames
    <2> HIDE DEF data
    <2>3. [reload[g] EXCEPT !.pc = "lock", !.data = data] \in ReloadState
      BY <1>0, <2>2, ReloadUpdates, Zenon
    <2>. QED BY <1>5, <2>3 DEF ReadFile, data
  <1>6. ASSUME NEW g \in Thread, ReadFails(g)
        PROVE  TypeOK'
    <2>1. CASE g = Main
      BY <1>6, <2>1, ExitType DEF ReadFails
    <2>2. CASE g # Main
      BY <1>6, <2>2, IdleType DEF ReadFails
    <2>. QED BY <2>1, <2>2
  <1>7. ASSUME NEW g \in Thread, Lock(g)
        PROVE  TypeOK'
    <2>1. [reload[g] EXCEPT !.pc = "wait"] \in ReloadState
      BY <1>0, ReloadUpdates, Zenon
    <2>. QED BY <1>7, <2>1 DEF Lock
  <1>8. ASSUME NEW g \in Thread, Install(g)
        PROVE  TypeOK'
    <2>1. kind(g) \in Kind /\ reload[g] \in ReloadState
      BY KindType
    <2>2. lists' \in [Kind -> SUBSET Name] /\ ver' \in [Kind -> Nat \cup {-1}]
      BY <1>8, <2>1 DEF Install, ReloadState
    <2>3. ASSUME reload[g].i < Len(ReadOrder)
          PROVE  [pc |-> "list", i |-> reload[g].i + 1, n |-> -1, data |-> {},
                  since |-> reload[g].since] \in ReloadState
      BY <2>1, <2>3, ReadOrderFacts DEF ReloadState
    <2>4. [pc |-> "log", i |-> reload[g].i, n |-> -1, data |-> {},
           since |-> reload[g].since] \in ReloadState
      BY <2>1 DEF ReloadState
    <2>. QED BY <1>8, <2>2, <2>3, <2>4 DEF Install
  <1>14. ASSUME NEW g \in Thread, LogSizes(g)
        PROVE  TypeOK'
    BY <1>14, IdleType DEF LogSizes
  <1>9. ASSUME NEW h \in Handler, postLookup(h)
        PROVE  TypeOK'
    <2>1. \A rrs \in Answers, ads \in BOOLEAN :
             [pc |-> "next", rrs |-> rrs, ads |-> ads, kept |-> {}, dropped |-> {}] \in FilterState
      BY FilteringAssumption DEF FilterState
    <2>. QED BY <1>9, <2>1 DEF postLookup
  <1>10. ASSUME NEW h \in Handler, isRestricted(h)
        PROVE  TypeOK'
    <2>1. /\ [filter[h] EXCEPT !.pc = "ads"] \in FilterState
          /\ [filter[h] EXCEPT !.pc = "white"] \in FilterState
          /\ [filter[h] EXCEPT !.pc = "black"] \in FilterState
      BY DEF FilterState
    <2>2. CASE RLock(h)
      BY <2>1, <2>2 DEF RLock
    <2>3. CASE CheckAds(h)
      BY <2>1, <2>3, VerdictType DEF CheckAds, PhaseInv
    <2>4. CASE CheckWhitelist(h)
      BY <2>1, <2>4, VerdictType DEF CheckWhitelist, PhaseInv
    <2>5. CASE CheckBlacklist(h)
      BY <2>5, VerdictType DEF CheckBlacklist, PhaseInv
    <2>. QED BY <1>10, <2>2, <2>3, <2>4, <2>5 DEF isRestricted
  <1>11. ASSUME NEW h \in Handler, Respond(h)
        PROVE  TypeOK'
    BY <1>11, IdleType DEF Respond
  <1>12. CASE DirectoryNext
    BY <1>12, DirectoryStep DEF serverVars
  <1>13. CASE UNCHANGED vars
    BY <1>13 DEF vars
  <1>. QED
    BY <1>1, <1>2, <1>3, <1>4, <1>5, <1>6, <1>7, <1>8, <1>9, <1>10, <1>11, <1>12, <1>13,
       <1>14
       DEF Next, ServerNext, readLists

-------------------------------------------------------------------------------
(* Start, the end of readLists and the end of the process keep phase and goroutines in line. *)
LEMMA PhaseStep ==
    ASSUME TypeOK, DirInv, PhaseInv, [Next]_vars
    PROVE  PhaseInv'
  <1>. USE FilteringAssumption DEF PhaseInv, Thread
  <1>0. reload \in [Thread -> ReloadState] /\ filter \in [Handler -> FilterState]
    BY DEF TypeOK
  <1>1. CASE Start
    BY <1>0, <1>1 DEF Start, Enter
  <1>2. CASE Exit
    BY <1>2 DEF Exit, Idle, NoFilter
  <1>3. ASSUME NEW g \in Reloader, Post(g)
        PROVE  PhaseInv'
    BY <1>0, <1>3 DEF Post, Enter
  <1>4. ASSUME NEW g \in Thread,
               \/ getMaxNumberFilenameForRE(g) \/ ReadFile(g) \/ Lock(g)
        PROVE  PhaseInv'
    <2>1. reload[g].pc # "idle" /\ UNCHANGED <<status, filter>>
      BY <1>4 DEF getMaxNumberFilenameForRE, ReadFile, Lock
    <2>2. \A x \in Thread : x # g => reload'[x] = reload[x]
      BY <1>0, <1>4 DEF getMaxNumberFilenameForRE, ReadFile, Lock
    <2>. QED BY <2>1, <2>2
  <1>5. ASSUME NEW g \in Thread, ReadFails(g), g # Main
        PROVE  PhaseInv'
    BY <1>0, <1>5 DEF ReadFails, Idle
  <1>6. ASSUME NEW g \in Thread, Install(g) \/ LogSizes(g)
        PROVE  PhaseInv'
    <2>1. /\ reload[g].pc # "idle"
          /\ UNCHANGED filter
          /\ status' = status \/ (g = Main /\ status' = "serving" /\ reload'[Main].pc = "idle")
          /\ \A x \in Thread : x # g => reload'[x] = reload[x]
      BY <1>0, <1>6 DEF Install, LogSizes, Idle
    <2>. QED BY <2>1
  <1>7. ASSUME NEW h \in Handler, postLookup(h)
        PROVE  PhaseInv'
    <2>1. /\ status = "serving" /\ UNCHANGED <<status, reload>>
          /\ filter'[h].pc = "next"
          /\ \A x \in Handler : x # h => filter'[x] = filter[x]
      BY <1>0, <1>7 DEF postLookup
    <2>. QED BY <2>1
  <1>8. ASSUME NEW h \in Handler, isRestricted(h)
        PROVE  PhaseInv'
    <2>1. /\ filter[h].pc # "idle"
          /\ UNCHANGED <<status, reload>>
          /\ \A x \in Handler : x # h => filter'[x] = filter[x]
      BY <1>0, <1>8 DEF isRestricted, RLock, CheckAds, CheckWhitelist, CheckBlacklist, Verdict
    <2>2. filter'[h].pc \in {"ads", "white", "black"} => filter'[h].rrs # <<>>
      BY <1>0, <1>8 DEF isRestricted, RLock, CheckAds, CheckWhitelist, CheckBlacklist, Verdict,
                        FilterState
    <2>3. status = "serving"
      BY <2>1 DEF NoFilter
    <2>. QED BY <2>1, <2>2, <2>3
  <1>9. ASSUME NEW h \in Handler, Respond(h)
        PROVE  PhaseInv'
    BY <1>0, <1>9 DEF Respond, NoFilter
  <1>10. CASE DirectoryNext \/ UNCHANGED vars
    <2>1. UNCHANGED serverVars
      BY <1>10, DirectoryStep DEF vars, serverVars
    <2>. QED BY <2>1 DEF serverVars
  <1>11. Kill \/ (\E g \in Thread : ReadFails(g) /\ g = Main) => Exit
    BY DEF Kill, ReadFails
  <1>. QED
    BY <1>1, <1>2, <1>3, <1>4, <1>5, <1>6, <1>7, <1>8, <1>9, <1>10, <1>11
       DEF Next, ServerNext, readLists

-------------------------------------------------------------------------------
(* The server leaves the directory alone. *)
LEMMA ServerLeavesDirectory ==
    ASSUME ServerNext \/ UNCHANGED vars
    PROVE  UNCHANGED <<files, ever>>
  BY DEF ServerNext, Start, Kill, Post, readLists, getMaxNumberFilenameForRE, ReadFile, ReadFails,
         Lock, Install, LogSizes, postLookup, isRestricted, RLock, CheckAds, CheckWhitelist, CheckBlacklist,
         Respond, vars

(* No step takes the newest file of a list away. *)
LEMMA DirStep ==
    ASSUME TypeOK, DirInv, [Next]_vars
    PROVE  DirInv'
  <1>1. CASE DirectoryNext
    BY <1>1, DirectoryStep
  <1>2. CASE ServerNext \/ UNCHANGED vars
    BY <1>2, ServerLeavesDirectory DEF DirInv
  <1>. QED BY <1>1, <1>2 DEF Next

-------------------------------------------------------------------------------
(* No number the server has seen is above the newest file's: not the versions in use, not the *)
(* file a reread has chosen.  And the chosen file is no older than the version in use when    *)
(* the reread began.                                                                          *)
VersionInv ==
    /\ \A k \in Kind : ver[k] <= maxNumberForRE(files[k])
    /\ \A g \in Thread : \A k \in Kind : reload[g].since[k] <= maxNumberForRE(files[k])
    /\ \A g \in Thread :
          reload[g].pc \in {"open", "lock", "wait"} =>
              /\ reload[g].n <= maxNumberForRE(files[kind(g)])
              /\ reload[g].since[kind(g)] <= reload[g].n

(* Listing, installing and entering readLists keep the numbers in order. *)
LEMMA VersionStep ==
    ASSUME TypeOK, DirInv, VersionInv, [Next]_vars
    PROVE  VersionInv'
  <1>0. reload \in [Thread -> ReloadState] /\ ver \in [Kind -> Nat \cup {-1}]
    BY DEF TypeOK
  <1>m. \A k \in Kind : maxNumberForRE(files[k]) \in Nat \cup {-1}
    BY MaxNumberFacts DEF TypeOK, DirInv
  <1>k. \A g \in Thread : kind(g) \in Kind
    BY KindType
  <1>1. ASSUME NEW g \in Thread, Enter(g), UNCHANGED <<files, ver>>
        PROVE  VersionInv'
    <2>1. reload'[g].pc = "list" /\ reload'[g].since = ver
      BY <1>0, <1>1 DEF Enter, Idle
    <2>2. \A x \in Thread : x # g => reload'[x] = reload[x] /\ kind(x)' = kind(x)
      BY <1>0, <1>1 DEF Enter, kind
    <2>. QED BY <1>1, <2>1, <2>2 DEF VersionInv
  <1>2. ASSUME Exit, UNCHANGED files
        PROVE  VersionInv'
    <2>1. /\ \A k \in Kind : ver'[k] = -1
          /\ \A g \in Thread : reload'[g].pc = "idle" /\ \A k \in Kind : reload'[g].since[k] = -1
      BY <1>2 DEF Exit, Idle, NoVersions
    <2>. QED BY SMTT(20), <1>2, <1>m, <2>1 DEF VersionInv
  <1>3. ASSUME NEW g \in Thread, getMaxNumberFilenameForRE(g)
        PROVE  VersionInv'
    <2>1. /\ reload'[g].n = maxNumberForRE(files[kind(g)])
          /\ reload'[g].since = reload[g].since
          /\ kind(g)' = kind(g)
          /\ UNCHANGED <<files, ver>>
      BY <1>0, <1>3 DEF getMaxNumberFilenameForRE, kind, ReloadState
    <2>2. \A x \in Thread : x # g => reload'[x] = reload[x] /\ kind(x)' = kind(x)
      BY <1>0, <1>3 DEF getMaxNumberFilenameForRE, kind
    <2>. QED BY <1>m, <1>k, <2>1, <2>2 DEF VersionInv
  <1>4. ASSUME NEW g \in Thread, ReadFile(g) \/ Lock(g)
        PROVE  VersionInv'
    <2>1. /\ reload[g].pc \in {"open", "lock"}
          /\ reload'[g].n = reload[g].n
          /\ reload'[g].since = reload[g].since
          /\ kind(g)' = kind(g)
          /\ UNCHANGED <<files, ver>>
      BY <1>0, <1>4 DEF ReadFile, Lock, kind, ReloadState
    <2>2. \A x \in Thread : x # g => reload'[x] = reload[x] /\ kind(x)' = kind(x)
      BY <1>0, <1>4 DEF ReadFile, Lock, kind
    <2>. QED BY <1>m, <1>k, <2>1, <2>2 DEF VersionInv
  <1>5. ASSUME NEW g \in Thread, (ReadFails(g) /\ g # Main) \/ LogSizes(g)
        PROVE  VersionInv'
    <2>1. /\ reload'[g].pc = "idle" /\ \A k \in Kind : reload'[g].since[k] = -1
          /\ UNCHANGED <<files, ver>>
      BY <1>0, <1>5 DEF ReadFails, LogSizes, Idle, NoVersions
    <2>2. \A x \in Thread : x # g => reload'[x] = reload[x] /\ kind(x)' = kind(x)
      BY <1>0, <1>5 DEF ReadFails, LogSizes, kind
    <2>. QED BY <1>m, <2>1, <2>2 DEF VersionInv
  <1>6. ASSUME NEW g \in Thread, Install(g)
        PROVE  VersionInv'
    <2>1. /\ reload[g].pc = "wait"
          /\ ver' = [ver EXCEPT ![kind(g)] = reload[g].n]
          /\ reload'[g].pc \in {"list", "log"}
          /\ UNCHANGED files
      BY <1>0, <1>6 DEF Install
    <2>2. reload'[g].since = reload[g].since
      BY <1>0, <1>6 DEF Install
    <2>3. \A k \in Kind : reload'[g].since[k] <= maxNumberForRE(files[k])
      BY <2>2 DEF VersionInv
    <2>4. \A x \in Thread : x # g => reload'[x] = reload[x] /\ kind(x)' = kind(x)
      BY <1>0, <1>6 DEF Install, kind
    <2>5. \A k \in Kind : ver'[k] <= maxNumberForRE(files[k])
      BY <1>0, <1>k, <2>1 DEF VersionInv
    <2>. QED BY <2>1, <2>3, <2>4, <2>5 DEF VersionInv
  <1>7. CASE UNCHANGED <<files, ver, reload>>
    BY <1>7 DEF VersionInv, kind
  <1>8. CASE DirectoryNext
    <2>1. /\ UNCHANGED <<ver, reload>>
          /\ \A k \in Kind : maxNumberForRE(files[k]) <= maxNumberForRE(files'[k])
      BY <1>8, DirectoryStep DEF serverVars
    <2>2. \A k \in Kind : maxNumberForRE(files'[k]) \in Nat \cup {-1}
      <3>1. \A k \in Kind : DOMAIN files'[k] \subseteq Nat /\ HasNewest(files'[k])
        BY <1>8, DirectoryStep DEF DirInv
      <3>. QED BY <3>1, MaxNumberFacts
    <2>3. /\ \A g \in Thread : kind(g)' = kind(g)
          /\ \A g \in Thread : reload[g].n \in Int /\ \A k \in Kind : reload[g].since[k] \in Int
          /\ \A k \in Kind : ver[k] \in Int
      BY <1>0, <2>1 DEF kind, ReloadState
    <2>. QED BY SMTT(20), <1>m, <1>k, <2>1, <2>2, <2>3 DEF VersionInv
  <1>. QED
    <2>1. CASE Start
      BY <1>1, <2>1 DEF Start, Thread
    <2>2. CASE \E g \in Reloader : Post(g)
      BY <1>1, <2>2 DEF Post, Thread
    <2>3. CASE Kill \/ \E g \in Thread : ReadFails(g) /\ g = Main
      BY <1>2, <2>3 DEF Kill, ReadFails
    <2>4. CASE \E h \in Handler : postLookup(h) \/ isRestricted(h) \/ Respond(h)
      BY <1>7, <2>4 DEF postLookup, isRestricted, RLock, CheckAds, CheckWhitelist, CheckBlacklist,
                        Respond
    <2>5. CASE UNCHANGED vars
      BY <1>7, <2>5 DEF vars
    <2>. QED BY <1>3, <1>4, <1>5, <1>6, <1>8, <2>1, <2>2, <2>3, <2>4, <2>5
             DEF Next, ServerNext, readLists

-------------------------------------------------------------------------------
(* Every map a lookup may see was read from a file that was published. *)
Parsed(k) == {parseList(text) : text \in ever[k]}

LoadedInv ==
    /\ \A g \in Thread : reload[g].pc \in {"lock", "wait"} => reload[g].data \in Parsed(kind(g))
    /\ status = "serving" => \A k \in Kind : lists[k] \in Parsed(k)
    /\ status = "starting" =>
          \A j \in 1..3 : j < reload[Main].i \/ reload[Main].pc = "log" =>
                             lists[ReadOrder[j]] \in Parsed(ReadOrder[j])

(* The record of published texts only grows. *)
LEMMA EverGrows ==
    ASSUME TypeOK, DirInv, [Next]_vars
    PROVE  \A k \in Kind : ever[k] \subseteq ever'[k]
  <1>1. CASE DirectoryNext
    BY <1>1, DirectoryStep
  <1>2. CASE ServerNext \/ UNCHANGED vars
    BY <1>2, ServerLeavesDirectory
  <1>. QED BY <1>1, <1>2 DEF Next

(* Reading, installing and publishing keep every map in memory a published one. *)
LEMMA LoadedStep ==
    ASSUME TypeOK, DirInv, PhaseInv, LoadedInv, [Next]_vars
    PROVE  LoadedInv'
  <1>0. reload \in [Thread -> ReloadState] /\ lists \in [Kind -> SUBSET Name] /\ Main \in Thread
    BY DEF TypeOK, Thread
  <1>k. \A g \in Thread : kind(g) \in Kind
    BY KindType
  <1>p. \A k \in Kind : Parsed(k) \subseteq Parsed(k)'
    BY EverGrows DEF Parsed
  <1>1. CASE Start
    <2>1. /\ reload'[Main].pc = "list" /\ reload'[Main].i = 1
          /\ status' = "starting"
          /\ \A x \in Thread : x # Main => reload'[x] = reload[x] /\ kind(x)' = kind(x)
      BY <1>0, <1>1 DEF Start, Enter, Idle, kind
    <2>. QED BY <1>k, <1>p, <2>1 DEF LoadedInv
  <1>2. CASE Exit
    BY <1>2 DEF LoadedInv, Exit, Idle
  <1>3. ASSUME NEW g \in Reloader, Post(g)
        PROVE  LoadedInv'
    <2>1. /\ g \in Thread
          /\ reload'[g].pc = "list"
          /\ status' = "serving" /\ status = "serving"
          /\ UNCHANGED lists
          /\ \A x \in Thread : x # g => reload'[x] = reload[x] /\ kind(x)' = kind(x)
      BY <1>0, <1>3 DEF Post, Enter, Idle, kind, Thread
    <2>. QED BY <1>k, <1>p, <2>1 DEF LoadedInv
  <1>4. ASSUME NEW g \in Thread,
               \/ getMaxNumberFilenameForRE(g) \/ ReadFile(g) \/ Lock(g)
        PROVE  LoadedInv'
    <2>1. /\ reload'[g].i = reload[g].i
          /\ kind(g)' = kind(g)
          /\ UNCHANGED <<status, lists, files>>
          /\ \A x \in Thread : x # g => reload'[x] = reload[x] /\ kind(x)' = kind(x)
      BY SMTT(20), <1>0, <1>4 DEF getMaxNumberFilenameForRE, ReadFile, Lock, kind, ReloadState
    <2>2. reload'[g].pc \in {"lock", "wait"} => reload'[g].data \in Parsed(kind(g))
      <3>1. CASE getMaxNumberFilenameForRE(g)
        BY <1>0, <3>1 DEF getMaxNumberFilenameForRE, ReloadState
      <3>2. CASE ReadFile(g)
        <4>1. files[kind(g)][reload[g].n] \in ever[kind(g)]
          BY <1>k, <3>2 DEF ReadFile, DirInv
        <4>2. reload'[g].data = parseList(files[kind(g)][reload[g].n])
          BY <1>0, <3>2 DEF ReadFile, ReloadState
        <4>. QED BY <4>1, <4>2 DEF Parsed
      <3>3. CASE Lock(g)
        <4>1. reload'[g].data = reload[g].data /\ reload[g].pc = "lock"
          BY <1>0, <3>3 DEF Lock, ReloadState
        <4>. QED BY <4>1 DEF LoadedInv
      <3>. QED BY <1>4, <3>1, <3>2, <3>3
    <2>3. reload'[Main].i = reload[Main].i /\ (reload'[Main].pc = "log" => reload[Main].pc = "log")
      <3>1. CASE g = Main
        <4>1. reload'[g].pc \in {"open", "lock", "wait"}
          BY <1>0, <1>4 DEF getMaxNumberFilenameForRE, ReadFile, Lock, ReloadState
        <4>. QED BY <2>1, <3>1, <4>1
      <3>2. CASE g # Main
        BY <1>0, <2>1, <3>2
      <3>. QED BY <3>1, <3>2
    <2>. QED BY <1>k, <1>p, <2>1, <2>2, <2>3, ReadOrderFacts DEF LoadedInv
  <1>5. ASSUME NEW g \in Thread, ReadFails(g), g # Main
        PROVE  LoadedInv'
    <2>1. /\ reload'[g].pc = "idle"
          /\ UNCHANGED <<status, lists>>
          /\ \A x \in Thread : x # g => reload'[x] = reload[x] /\ kind(x)' = kind(x)
      BY SMTT(20), <1>0, <1>5 DEF ReadFails, Idle, kind
    <2>2. reload'[Main] = reload[Main]
      BY <1>0, <1>5, <2>1
    <2>3. \A x \in Thread : reload'[x].pc \in {"lock", "wait"} =>
                             reload'[x].data \in Parsed(kind(x))'
      <3> SUFFICES ASSUME NEW x \in Thread, reload'[x].pc \in {"lock", "wait"}
                   PROVE  reload'[x].data \in Parsed(kind(x))'
        OBVIOUS
      <3>1. x # g /\ reload'[x] = reload[x] /\ kind(x)' = kind(x)
        BY <2>1
      <3>. QED BY <1>k, <1>p, <3>1 DEF LoadedInv
    <2>. QED BY <1>p, <2>1, <2>2, <2>3, ReadOrderFacts DEF LoadedInv
  <1>6. ASSUME NEW g \in Thread, Install(g)
        PROVE  LoadedInv'
    <2>1. /\ reload[g].pc = "wait"
          /\ reload'[g].pc \in {"list", "log"}
          /\ UNCHANGED status
          /\ lists' = [lists EXCEPT ![kind(g)] = reload[g].data]
          /\ \A x \in Thread : x # g => reload'[x] = reload[x] /\ kind(x)' = kind(x)
      BY <1>0, <1>6 DEF Install, Idle, kind
    <2>2. PICK k \in Kind : k = kind(g)
      BY <1>k
    <2>3. /\ lists'[k] \in Parsed(k)'
          /\ \A j \in Kind : j # k => lists'[j] = lists[j]
      <3>1. reload[g].data \in Parsed(k)
        BY <2>1, <2>2 DEF LoadedInv
      <3>. QED BY <1>0, <1>p, <2>1, <2>2, <3>1
    <2>4. CASE g # Main
      <3>1. g \in Reloader
        BY <2>4 DEF Thread
      <3>2. status = "serving" /\ status' = "serving"
        BY <2>1, <2>4, <3>1 DEF PhaseInv
      <3>3. \A j \in Kind : lists'[j] \in Parsed(j)'
        BY <1>p, <2>3, <3>2 DEF LoadedInv
      <3>. QED BY <1>k, <1>p, <2>1, <3>2, <3>3 DEF LoadedInv
    <2>5. CASE g = Main
      <3>1. status = "starting" /\ reload[Main].i \in 1..3 /\ k = ReadOrder[reload[Main].i]
        BY <1>0, <2>1, <2>2, <2>5, ReadOrderFacts DEF PhaseInv, ReloadState, kind
      <3>2. \A j \in 1..3 : j <= reload[Main].i =>
                               lists'[ReadOrder[j]] \in Parsed(ReadOrder[j])'
        <4> SUFFICES ASSUME NEW j \in 1..3, j <= reload[Main].i
                     PROVE  lists'[ReadOrder[j]] \in Parsed(ReadOrder[j])'
          OBVIOUS
        <4>1. CASE j = reload[Main].i
          BY <2>3, <3>1, <4>1
        <4>2. CASE j < reload[Main].i
          <5>1. ReadOrder[j] \in Kind /\ lists[ReadOrder[j]] \in Parsed(ReadOrder[j])
            BY <3>1, <4>2, ReadOrderFacts DEF LoadedInv
          <5>. QED BY <1>p, <2>3, <5>1
        <4>. QED BY <3>1, <4>1, <4>2
      <3>5. \A x \in Thread : reload'[x].pc \in {"lock", "wait"} =>
                               reload'[x].data \in Parsed(kind(x))'
        <4> SUFFICES ASSUME NEW x \in Thread, reload'[x].pc \in {"lock", "wait"}
                     PROVE  reload'[x].data \in Parsed(kind(x))'
          OBVIOUS
        <4>1. x # g /\ reload'[x] = reload[x] /\ kind(x)' = kind(x)
          BY <2>1
        <4>. QED BY <1>k, <1>p, <4>1 DEF LoadedInv
      <3>3. CASE reload[Main].i < Len(ReadOrder)
        <4>1. reload'[Main].i = reload[Main].i + 1 /\ reload'[Main].pc = "list"
          BY <1>0, <1>6, <2>5, <3>1, <3>3 DEF Install
        <4>. QED BY SMTT(20), <2>1, <3>1, <3>2, <3>5, <4>1 DEF LoadedInv
      <3>4. CASE ~(reload[Main].i < Len(ReadOrder))
        <4>1. reload[Main].i = 3
          BY <3>1, <3>4, ReadOrderFacts
        <4>2. \A j \in 1..3 : lists'[ReadOrder[j]] \in Parsed(ReadOrder[j])'
          BY <3>2, <4>1
        <4>. QED BY <2>1, <3>1, <3>5, <4>2 DEF LoadedInv
      <3>. QED BY <3>3, <3>4
    <2>. QED BY <2>4, <2>5
  <1>8. ASSUME NEW g \in Thread, LogSizes(g)
        PROVE  LoadedInv'
    <2>1. /\ reload[g].pc = "log"
          /\ reload'[g].pc = "idle"
          /\ status' = IF g = Main THEN "serving" ELSE status
          /\ UNCHANGED lists
          /\ \A x \in Thread : x # g => reload'[x] = reload[x] /\ kind(x)' = kind(x)
      BY <1>0, <1>8 DEF LogSizes, Idle, kind
    <2>2. CASE g = Main
      <3>1. status = "starting"
        BY <2>1, <2>2 DEF PhaseInv
      <3>2. \A k \in Kind : lists[k] \in Parsed(k)
        BY SMTT(20), <2>1, <2>2, <3>1, ReadOrderFacts DEF LoadedInv
      <3>. QED BY <1>k, <1>p, <2>1, <2>2, <3>2 DEF LoadedInv
    <2>3. CASE g # Main
      BY <1>0, <1>k, <1>p, <2>1, <2>3, ReadOrderFacts DEF LoadedInv
    <2>. QED BY <2>2, <2>3
  <1>7. CASE UNCHANGED <<status, lists, reload>>
    <2>1. \A g \in Thread : kind(g)' = kind(g)
      BY <1>7 DEF kind
    <2>. QED BY <1>7, <1>k, <1>p, <2>1, ReadOrderFacts DEF LoadedInv
  <1>. QED
    <2>1. CASE Kill \/ \E g \in Thread : ReadFails(g) /\ g = Main
      BY <1>2, <2>1 DEF Kill, ReadFails
    <2>2. CASE \E h \in Handler : postLookup(h) \/ isRestricted(h) \/ Respond(h)
      BY <1>7, <2>2 DEF postLookup, isRestricted, RLock, CheckAds, CheckWhitelist, CheckBlacklist,
                        Respond
    <2>3. CASE DirectoryNext \/ UNCHANGED vars
      BY <1>7, <2>3, DirectoryStep DEF vars, serverVars
    <2>. QED BY <1>1, <1>3, <1>4, <1>5, <1>6, <1>8, <2>1, <2>2, <2>3
             DEF Next, ServerNext, readLists

-------------------------------------------------------------------------------
(* No step makes a check that isRestricted has passed untrue before it returns. *)
LEMMA LookupStep ==
    ASSUME TypeOK, LookupIsAtomic, [Next]_vars
    PROVE  LookupIsAtomic'
  <1>0. filter \in [Handler -> FilterState]
    BY DEF TypeOK
  <1>1. CASE Exit
    BY <1>1 DEF LookupIsAtomic, Exit, NoFilter
  <1>2. ASSUME NEW g \in Thread, Install(g)
        PROVE  LookupIsAtomic'
    BY <1>2 DEF Install, Readers, LookupIsAtomic
  <1>3. ASSUME NEW h \in Handler, UNCHANGED lists,
               \A x \in Handler : x # h => filter'[x] = filter[x],
               filter'[h].pc \notin {"white", "black"}
        PROVE  LookupIsAtomic'
    BY <1>3 DEF LookupIsAtomic, Listed, owner
  <1>4. ASSUME NEW h \in Handler, Verdict(h, TRUE) \/ Verdict(h, FALSE), UNCHANGED lists
        PROVE  LookupIsAtomic'
    BY SMTT(20), <1>0, <1>3, <1>4 DEF Verdict
  <1>5. ASSUME NEW h \in Handler, isRestricted(h)
        PROVE  LookupIsAtomic'
    <2>1. CASE RLock(h)
      BY <1>0, <1>3, <2>1 DEF RLock
    <2>2. CASE CheckAds(h)
      <3>1. CASE filter[h].ads /\ Listed(owner(h), "adslist")
        BY <1>4, <2>2, <3>1 DEF CheckAds
      <3>2. CASE ~(filter[h].ads /\ Listed(owner(h), "adslist"))
        <4>1. filter' = [filter EXCEPT ![h].pc = "white"] /\ UNCHANGED lists
          BY <2>2, <3>2 DEF CheckAds
        <4>. QED BY <1>0, <3>2, <4>1 DEF LookupIsAtomic, Listed, owner, FilterState
      <3>. QED BY <3>1, <3>2
    <2>3. CASE CheckWhitelist(h)
      <3>1. CASE Listed(owner(h), "whitelist")
        BY <1>4, <2>3, <3>1 DEF CheckWhitelist
      <3>2. CASE ~Listed(owner(h), "whitelist")
        <4>1. /\ filter' = [filter EXCEPT ![h].pc = "black"] /\ UNCHANGED lists
              /\ filter[h].pc = "white"
          BY <2>3, <3>2 DEF CheckWhitelist
        <4>. QED BY <1>0, <3>2, <4>1 DEF LookupIsAtomic, Listed, owner, FilterState
      <3>. QED BY <3>1, <3>2
    <2>4. CASE CheckBlacklist(h)
      BY <1>0, <1>3, <2>4 DEF CheckBlacklist, Verdict
    <2>. QED BY <1>5, <2>1, <2>2, <2>3, <2>4 DEF isRestricted
  <1>6. ASSUME NEW h \in Handler, postLookup(h) \/ Respond(h)
        PROVE  LookupIsAtomic'
    <2>1. /\ UNCHANGED lists
          /\ filter'[h].pc \in {"next", "idle"}
          /\ \A x \in Handler : x # h => filter'[x] = filter[x]
      BY <1>0, <1>6 DEF postLookup, Respond, NoFilter
    <2>. QED BY <1>3, <2>1
  <1>7. CASE UNCHANGED <<lists, filter>>
    BY <1>7 DEF LookupIsAtomic, Listed, owner
  <1>. QED
    <2>1. CASE Kill \/ \E g \in Thread : ReadFails(g) /\ g = Main
      BY <1>1, <2>1 DEF Kill, ReadFails
    <2>2. CASE Start \/ \E g \in Reloader : Post(g)
      BY <1>7, <2>2 DEF Start, Post
    <2>3. ASSUME NEW g \in Thread, readLists(g), ~(ReadFails(g) /\ g = Main)
          PROVE  LookupIsAtomic'
      BY <1>2, <1>7, <2>3 DEF readLists, getMaxNumberFilenameForRE, ReadFile, ReadFails, Lock,
                              LogSizes
    <2>4. CASE DirectoryNext \/ UNCHANGED vars
      BY <1>7, <2>4 DEF DirectoryNext, NewFile, OldFile, vars, serverVars
    <2>. QED BY <1>5, <1>6, <2>1, <2>2, <2>3, <2>4 DEF Next, ServerNext

-------------------------------------------------------------------------------
(* What the published texts say about a name, the maps in memory say too. *)
LEMMA ListedFacts ==
    ASSUME LoadedInv, status = "serving", NEW d, NEW k \in Kind
    PROVE  /\ AlwaysListed(d, k) => Listed(d, k)
           /\ NeverListed(d, k) => ~Listed(d, k)
  BY DEF LoadedInv, Parsed, AlwaysListed, NeverListed, Listed

(* What holds of every text so far held of every text before. *)
LEMMA ListedShrinks ==
    ASSUME TypeOK, DirInv, [Next]_vars, NEW d, NEW k \in Kind
    PROVE  /\ AlwaysListed(d, k)' => AlwaysListed(d, k)
           /\ NeverListed(d, k)' => NeverListed(d, k)
  BY EverGrows DEF AlwaysListed, NeverListed

(* A name that may be kept, and one that may be dropped, as far as the texts published tell. *)
MayKeep(ads, d) ==
    /\ ~(AlwaysListed(d, "blacklist") /\ NeverListed(d, "whitelist"))
    /\ ~(ads /\ AlwaysListed(d, "adslist"))

MayDrop(ads, d) ==
    /\ AlwaysListed(d, "whitelist") => ads /\ ~NeverListed(d, "adslist")
    /\ NeverListed(d, "blacklist") => ads /\ ~NeverListed(d, "adslist")

VerdictsInv ==
    \A h \in Handler : /\ \A d \in filter[h].kept : MayKeep(filter[h].ads, d)
                       /\ \A d \in filter[h].dropped : MayDrop(filter[h].ads, d)

(* The two properties of the Readme, record by record. *)
LEMMA VerdictsInvMeans == VerdictsInv <=> DeniedStaysDenied /\ WhitelistedStaysResolved
  BY DEF VerdictsInv, MayKeep, MayDrop, DeniedStaysDenied, WhitelistedStaysResolved

(* Every verdict agrees with the texts published, and goes on to agree. *)
LEMMA VerdictsStep ==
    ASSUME TypeOK, DirInv, PhaseInv, LoadedInv, LookupIsAtomic, VerdictsInv, [Next]_vars
    PROVE  VerdictsInv'
  <1>0. filter \in [Handler -> FilterState]
    BY DEF TypeOK
  <1>m. ASSUME NEW ads, NEW d
        PROVE  /\ MayKeep(ads, d) => MayKeep(ads, d)'
               /\ MayDrop(ads, d) => MayDrop(ads, d)'
    BY ListedShrinks DEF MayKeep, MayDrop, Kind
  <1>1. ASSUME NEW h \in Handler,
               \A x \in Handler : x # h => filter'[x] = filter[x],
               \A d \in filter'[h].kept : MayKeep(filter'[h].ads, d),
               \A d \in filter'[h].dropped : MayDrop(filter'[h].ads, d)
        PROVE  VerdictsInv'
    BY <1>1, <1>m DEF VerdictsInv
  <1>2. ASSUME NEW h \in Handler, NEW restricted, Verdict(h, restricted),
               ~restricted => MayKeep(filter[h].ads, owner(h)),
               restricted => MayDrop(filter[h].ads, owner(h))
        PROVE  VerdictsInv'
    <2>1. /\ \A x \in Handler : x # h => filter'[x] = filter[x]
          /\ filter'[h].ads = filter[h].ads
          /\ filter'[h].kept = IF restricted THEN filter[h].kept
                                             ELSE filter[h].kept \cup {owner(h)}
          /\ filter'[h].dropped = IF restricted THEN filter[h].dropped \cup {owner(h)}
                                                ELSE filter[h].dropped
      BY <1>0, <1>2 DEF Verdict
    <2>2. /\ \A d \in filter'[h].kept : MayKeep(filter'[h].ads, d)
          /\ \A d \in filter'[h].dropped : MayDrop(filter'[h].ads, d)
      BY <1>2, <2>1 DEF VerdictsInv
    <2>. QED BY <1>1, <2>1, <2>2
  <1>3. ASSUME NEW h \in Handler, isRestricted(h)
        PROVE  VerdictsInv'
    <2>0. status = "serving"
      <3>1. filter[h].pc # "idle"
        BY <1>3 DEF isRestricted, RLock, CheckAds, CheckWhitelist, CheckBlacklist
      <3>. QED BY <3>1 DEF PhaseInv, NoFilter
    <2>1. ASSUME NEW k \in Kind
          PROVE  /\ AlwaysListed(owner(h), k) => Listed(owner(h), k)
                 /\ NeverListed(owner(h), k) => ~Listed(owner(h), k)
      BY <2>0, ListedFacts
    <2>2. ASSUME NEW pc, filter' = [filter EXCEPT ![h].pc = pc]
          PROVE  VerdictsInv'
      <3>1. /\ \A x \in Handler : x # h => filter'[x] = filter[x]
            /\ filter'[h].ads = filter[h].ads
            /\ filter'[h].kept = filter[h].kept
            /\ filter'[h].dropped = filter[h].dropped
        BY <1>0, <2>2 DEF FilterState
      <3>. QED BY <1>1, <3>1 DEF VerdictsInv
    <2>3. CASE RLock(h)
      BY <2>2, <2>3 DEF RLock
    <2>4. CASE CheckAds(h)
      <3>1. CASE filter[h].ads /\ Listed(owner(h), "adslist")
        <4>1. MayDrop(filter[h].ads, owner(h))
          BY <2>1, <3>1 DEF MayDrop, Kind
        <4>. QED BY <1>2, <2>4, <3>1, <4>1 DEF CheckAds
      <3>2. CASE ~(filter[h].ads /\ Listed(owner(h), "adslist"))
        BY <2>2, <2>4, <3>2 DEF CheckAds
      <3>. QED BY <3>1, <3>2
    <2>5. CASE CheckWhitelist(h)
      <3>1. CASE Listed(owner(h), "whitelist")
        <4>1. MayKeep(filter[h].ads, owner(h))
          BY <2>1, <2>5, <3>1 DEF MayKeep, Kind, CheckWhitelist, LookupIsAtomic
        <4>. QED BY <1>2, <2>5, <3>1, <4>1 DEF CheckWhitelist
      <3>2. CASE ~Listed(owner(h), "whitelist")
        BY <2>2, <2>5, <3>2 DEF CheckWhitelist
      <3>. QED BY <3>1, <3>2
    <2>6. CASE CheckBlacklist(h)
      <3>1. /\ ~(filter[h].ads /\ Listed(owner(h), "adslist"))
            /\ ~Listed(owner(h), "whitelist")
        BY <2>6 DEF CheckBlacklist, LookupIsAtomic
      <3>2. ~Listed(owner(h), "blacklist") => MayKeep(filter[h].ads, owner(h))
        BY <2>1, <3>1 DEF MayKeep, Kind
      <3>3. Listed(owner(h), "blacklist") => MayDrop(filter[h].ads, owner(h))
        BY <2>1, <3>1 DEF MayDrop, Kind
      <3>. QED BY <1>2, <2>6, <3>2, <3>3 DEF CheckBlacklist
    <2>. QED BY <1>3, <2>3, <2>4, <2>5, <2>6 DEF isRestricted
  <1>4. ASSUME NEW h \in Handler, postLookup(h) \/ Respond(h)
        PROVE  VerdictsInv'
    <2>1. /\ \A x \in Handler : x # h => filter'[x] = filter[x]
          /\ filter'[h].kept = {} /\ filter'[h].dropped = {}
      BY SMTT(20), <1>0, <1>4 DEF postLookup, Respond, NoFilter
    <2>. QED BY <1>1, <2>1
  <1>5. CASE Exit
    BY <1>5 DEF VerdictsInv, Exit, NoFilter
  <1>6. CASE UNCHANGED filter
    BY <1>6, <1>m DEF VerdictsInv
  <1>. QED
    <2>1. CASE Kill \/ \E g \in Thread : ReadFails(g) /\ g = Main
      BY <1>5, <2>1 DEF Kill, ReadFails
    <2>2. CASE Start \/ \E g \in Reloader : Post(g)
      BY <1>6, <2>2 DEF Start, Post
    <2>3. ASSUME NEW g \in Thread, readLists(g), ~(ReadFails(g) /\ g = Main)
          PROVE  VerdictsInv'
      BY <1>6, <2>3 DEF readLists, getMaxNumberFilenameForRE, ReadFile, ReadFails, Lock, Install,
                        LogSizes
    <2>4. CASE DirectoryNext \/ UNCHANGED vars
      BY <1>6, <2>4 DEF DirectoryNext, NewFile, OldFile, vars, serverVars
    <2>. QED BY <1>3, <1>4, <2>1, <2>2, <2>3, <2>4 DEF Next, ServerNext

-------------------------------------------------------------------------------
(* The inductive invariant. *)
IInv ==
    /\ TypeOK /\ DirInv /\ PhaseInv
    /\ VersionInv /\ LoadedInv
    /\ LookupIsAtomic /\ VerdictsInv

(* A fresh Server satisfies the invariant. *)
LEMMA InitIInv == Init => IInv
  <1>. SUFFICES ASSUME Init PROVE IInv
    OBVIOUS
  <1>1. /\ DOMAIN files = Kind
        /\ \A k \in Kind : DOMAIN files[k] = {} /\ maxNumberForRE(files[k]) = -1
    BY DEF Init, DirInit, NoFiles, maxNumberForRE
  <1>2. TypeOK
    BY <1>1, IdleType DEF Init, TypeOK, NoVersions
  <1>3. DirInv
    BY <1>1 DEF DirInv, HasNewest
  <1>4. PhaseInv
    BY DEF Init, PhaseInv, Idle, NoFilter, Thread
  <1>5. VersionInv
    BY <1>1 DEF Init, VersionInv, Idle, NoVersions
  <1>6. LoadedInv
    BY DEF Init, LoadedInv, Idle
  <1>7. LookupIsAtomic /\ VerdictsInv
    BY DEF Init, LookupIsAtomic, VerdictsInv, NoFilter
  <1>. QED BY <1>2, <1>3, <1>4, <1>5, <1>6, <1>7 DEF IInv

(* Every step of readLists, postLookup, the process and the directory preserves it. *)
LEMMA NextIInv == IInv /\ [Next]_vars => IInv'
  BY TypeStep, DirStep, PhaseStep, VersionStep, LoadedStep, LookupStep, VerdictsStep DEF IInv

(* The inductive invariant holds throughout: types, the phases of Server.Start, numbers that only *)
(* grow, and maps in memory that were all read from published files.                              *)
THEOREM Inductive == Spec => []IInv
  BY InitIInv, NextIInv, PTL DEF Spec

(* The type invariant: the goroutines of filtering.go never leave their states. *)
THEOREM TypeCorrect == Spec => []TypeOK
  <1>1. IInv => TypeOK
    BY DEF IInv
  <1>. QED BY <1>1, Inductive, PTL

(* One call of isRestricted sees one set of maps: listsMu keeps readLists from replacing a *)
(* map between its lookups.                                                                *)
THEOREM LookupsAreAtomic == Spec => []LookupIsAtomic
  <1>1. IInv => LookupIsAtomic
    BY DEF IInv
  <1>. QED BY <1>1, Inductive, PTL

(* postLookup keeps no record whose name every published list denies, whatever rereads, read *)
(* errors, removals and restarts happen while the answer is filtered.                        *)
THEOREM DeniedNamesStayDenied == Spec => []DeniedStaysDenied
  <1>1. IInv => DeniedStaysDenied
    BY VerdictsInvMeans DEF IInv
  <1>. QED BY <1>1, Inductive, PTL

(* postLookup drops no record whose name every published whitelist has, unless the request *)
(* asked for ads filtering and an ads list has it.                                         *)
THEOREM WhitelistedNamesStayResolved == Spec => []WhitelistedStaysResolved
  <1>1. IInv => WhitelistedStaysResolved
    BY VerdictsInvMeans DEF IInv
  <1>. QED BY <1>1, Inductive, PTL

(* readLists never installs a file older than the one in use when the call began. *)
THEOREM RereadsDoNotGoBack == Spec => []NoOlderThanAtStart
  <1>1. IInv => NoOlderThanAtStart
    <2>. SUFFICES ASSUME IInv, NEW g \in Thread, reload[g].pc \in {"open", "lock", "wait"}
                  PROVE  reload[g].n >= reload[g].since[kind(g)]
      BY DEF NoOlderThanAtStart
    <2>1. kind(g) \in Kind /\ reload[g] \in ReloadState
      BY KindType DEF IInv, TypeOK
    <2>2. reload[g].n \in Int /\ reload[g].since[kind(g)] \in Int
      BY <2>1 DEF ReloadState
    <2>3. reload[g].since[kind(g)] <= reload[g].n
      BY DEF IInv, VersionInv
    <2>. QED BY <2>2, <2>3
  <1>. QED BY <1>1, Inductive, PTL
-------------------------------------------------------------------------------
(***************************************************************************)
(* Filtering implements AnswerFilter: every step of the server or of the   *)
(* directory is a step of the abstract filter or none at all.  The step    *)
(* that decides a record is the abstract verdict because, by               *)
(* LookupIsAtomic, what the earlier lookups of the call found still holds. *)
(***************************************************************************)

(* The abstract kinds of list are the concrete ones. *)
LEMMA SameKinds == Abstract!Kind = Kind
  BY DEF Abstract!Kind, Kind

(* The mapping of one handler depends on nothing but that handler's state. *)
LEMMA FilterMapping ==
    ASSUME TypeOK, NEW h \in Handler, NEW f \in FilterState, filter' = [filter EXCEPT ![h] = f]
    PROVE  AbstractAnswer' = [AbstractAnswer EXCEPT ![h] =
               [busy |-> f.pc # "idle", rrs |-> f.rrs, ads |-> f.ads,
                kept |-> f.kept, dropped |-> f.dropped]]
  BY DEF AbstractAnswer, TypeOK

(* With the maps in memory the abstract lists stay. *)
LEMMA ListsMapping ==
    ASSUME UNCHANGED lists
    PROVE  UNCHANGED AbstractLists
  BY DEF AbstractLists, Listed

(* The end of the process is the abstract Down. *)
LEMMA ExitIsDown ==
    ASSUME Exit
    PROVE  Abstract!Down
  <1>1. AbstractLists' = [k \in Kind |-> {}]
    BY DEF Exit, AbstractLists, Listed
  <1>2. AbstractAnswer' = [h \in Handler |-> Abstract!NoAnswer]
    BY DEF Exit, AbstractAnswer, NoFilter, Abstract!NoAnswer
  <1>3. ~(status = "serving")'
    BY DEF Exit
  <1>. QED BY <1>1, <1>2, <1>3, SameKinds DEF Abstract!Down, Abstract!NoLists

(* Install replaces one abstract list. *)
LEMMA InstallIsReplace ==
    ASSUME TypeOK, NEW g \in Thread, Install(g)
    PROVE  Abstract!Replace(kind(g))
  <1>. DEFINE new == {d \in Domain : NameOf(d) \in reload[g].data}
  <1>1. kind(g) \in Kind /\ lists' = [lists EXCEPT ![kind(g)] = reload[g].data]
    BY KindType DEF Install
  <1>2. AbstractLists' = [AbstractLists EXCEPT ![kind(g)] = new]
    BY <1>1 DEF AbstractLists, Listed, TypeOK
  <1>3. new \in SUBSET Domain
    OBVIOUS
  <1>4. UNCHANGED <<status, filter>>
    BY DEF Install
  <1>5. UNCHANGED <<status = "serving", AbstractAnswer>>
    BY <1>4 DEF AbstractAnswer
  <1>. QED BY <1>2, <1>3, <1>5 DEF Abstract!Replace

(* A verdict is the abstract one when it is what the lists of this instant say. *)
LEMMA VerdictIsJudge ==
    ASSUME TypeOK, NEW h \in Handler, filter[h].rrs # <<>>, filter[h].pc # "idle",
           NEW restricted \in BOOLEAN, Verdict(h, restricted),
           restricted <=> Abstract!Restricted(owner(h), filter[h].ads),
           UNCHANGED <<status, lists>>
    PROVE  Abstract!Judge(h)
  <1>. DEFINE f == [pc |-> "next", rrs |-> Tail(filter[h].rrs), ads |-> filter[h].ads,
         kept |-> IF restricted THEN filter[h].kept ELSE filter[h].kept \cup {owner(h)},
         dropped |-> IF restricted THEN filter[h].dropped \cup {owner(h)} ELSE filter[h].dropped]
  <1>1. filter' = [filter EXCEPT ![h] = f] /\ filter' \in [Handler -> FilterState]
    BY VerdictType DEF Verdict, TypeOK
  <1>2. f \in FilterState
    BY <1>1 DEF TypeOK
  <1>3. /\ f.pc # "idle" /\ f.rrs = Tail(filter[h].rrs) /\ f.ads = filter[h].ads
        /\ f.kept = IF restricted THEN filter[h].kept ELSE filter[h].kept \cup {owner(h)}
        /\ f.dropped = IF restricted THEN filter[h].dropped \cup {owner(h)} ELSE filter[h].dropped
    OBVIOUS
  <1>. HIDE DEF f
  <1>4. AbstractAnswer' = [AbstractAnswer EXCEPT ![h] =
               [busy |-> f.pc # "idle", rrs |-> f.rrs, ads |-> f.ads,
                kept |-> f.kept, dropped |-> f.dropped]]
    BY <1>1, <1>2, FilterMapping
  <1>5. /\ AbstractAnswer[h].busy /\ AbstractAnswer[h].rrs = filter[h].rrs
        /\ AbstractAnswer[h].ads = filter[h].ads
        /\ AbstractAnswer[h].kept = filter[h].kept /\ AbstractAnswer[h].dropped = filter[h].dropped
    BY DEF AbstractAnswer
  <1>6. UNCHANGED <<status = "serving", AbstractLists>>
    BY ListsMapping
  <1>. QED BY <1>3, <1>4, <1>5, <1>6 DEF Abstract!Judge, owner

(* What isRestricted decides is what the abstract filter says of the record. *)
LEMMA ListedMeans ==
    ASSUME TypeOK, NEW h \in Handler, filter[h].rrs # <<>>
    PROVE  Abstract!Restricted(owner(h), filter[h].ads) <=>
              \/ filter[h].ads /\ Listed(owner(h), "adslist")
              \/ ~Listed(owner(h), "whitelist") /\ Listed(owner(h), "blacklist")
  <1>1. owner(h) \in Domain
    BY DEF owner, TypeOK, FilterState
  <1>. QED BY <1>1 DEF Abstract!Restricted, AbstractLists, Kind

(* Steps of isRestricted that do not decide are invisible. *)
LEMMA SilentStep ==
    ASSUME TypeOK, NEW h \in Handler, NEW p, p # "idle", filter[h].pc # "idle",
           filter' = [filter EXCEPT ![h].pc = p], UNCHANGED <<status, lists>>
    PROVE  UNCHANGED Abstract!vars
  <1>1. UNCHANGED AbstractAnswer
    BY DEF AbstractAnswer, TypeOK, FilterState
  <1>2. UNCHANGED <<status = "serving", AbstractLists>>
    BY ListsMapping
  <1>. QED BY <1>1, <1>2 DEF Abstract!vars

(* Every step of one handler, from postLookup to the response. *)
LEMMA HandlerRefines ==
    ASSUME TypeOK, PhaseInv, LookupIsAtomic, NEW h \in Handler,
           postLookup(h) \/ isRestricted(h) \/ Respond(h)
    PROVE  Abstract!Begin(h) \/ Abstract!Judge(h) \/ Abstract!End(h) \/ UNCHANGED Abstract!vars
  <1>0. filter[h] \in FilterState
    BY DEF TypeOK
  <1>1. CASE postLookup(h)
    <2>1. PICK rrs \in Answers, ads \in BOOLEAN :
             filter' = [filter EXCEPT ![h] =
                [pc |-> "next", rrs |-> rrs, ads |-> ads, kept |-> {}, dropped |-> {}]]
      BY <1>1 DEF postLookup
    <2>. DEFINE f == [pc |-> "next", rrs |-> rrs, ads |-> ads, kept |-> {}, dropped |-> {}]
    <2>2. f \in FilterState
      BY FilteringAssumption DEF FilterState
    <2>3. AbstractAnswer' = [AbstractAnswer EXCEPT ![h] =
               [busy |-> TRUE, rrs |-> rrs, ads |-> ads, kept |-> {}, dropped |-> {}]]
      BY <2>1, <2>2, FilterMapping
    <2>4. status = "serving" /\ ~AbstractAnswer[h].busy /\ UNCHANGED <<status = "serving", AbstractLists>>
      BY <1>1, ListsMapping DEF postLookup, AbstractAnswer
    <2>. QED BY <2>3, <2>4 DEF Abstract!Begin
  <1>2. CASE RLock(h)
    BY <1>2, SilentStep DEF RLock
  <1>3. CASE CheckAds(h)
    <2>1. filter[h].rrs # <<>> /\ UNCHANGED <<status, lists>> /\ filter[h].pc = "ads"
      BY <1>3 DEF PhaseInv, CheckAds
    <2>2. CASE filter[h].ads /\ Listed(owner(h), "adslist")
      BY <1>3, <2>1, <2>2, ListedMeans, VerdictIsJudge DEF CheckAds
    <2>3. CASE ~(filter[h].ads /\ Listed(owner(h), "adslist"))
      BY <1>3, <2>1, <2>3, SilentStep DEF CheckAds
    <2>. QED BY <2>2, <2>3
  <1>4. CASE CheckWhitelist(h)
    <2>1. /\ filter[h].rrs # <<>> /\ UNCHANGED <<status, lists>> /\ filter[h].pc = "white"
          /\ ~(filter[h].ads /\ Listed(owner(h), "adslist"))
      BY <1>4 DEF PhaseInv, CheckWhitelist, LookupIsAtomic
    <2>2. CASE Listed(owner(h), "whitelist")
      BY <1>4, <2>1, <2>2, ListedMeans, VerdictIsJudge DEF CheckWhitelist
    <2>3. CASE ~Listed(owner(h), "whitelist")
      BY <1>4, <2>1, <2>3, SilentStep DEF CheckWhitelist
    <2>. QED BY <2>2, <2>3
  <1>5. CASE CheckBlacklist(h)
    <2>1. /\ filter[h].rrs # <<>> /\ UNCHANGED <<status, lists>> /\ filter[h].pc = "black"
          /\ ~(filter[h].ads /\ Listed(owner(h), "adslist")) /\ ~Listed(owner(h), "whitelist")
      BY <1>5 DEF PhaseInv, CheckBlacklist, LookupIsAtomic
    <2>2. Listed(owner(h), "blacklist") \in BOOLEAN
      BY DEF Listed
    <2>3. Listed(owner(h), "blacklist") <=> Abstract!Restricted(owner(h), filter[h].ads)
      BY <2>1, ListedMeans
    <2>. QED BY <1>5, <2>1, <2>2, <2>3, VerdictIsJudge DEF CheckBlacklist
  <1>6. CASE Respond(h)
    <2>0. filter' = [filter EXCEPT ![h] = NoFilter] /\ NoFilter \in FilterState
      BY <1>6, IdleType DEF Respond
    <2>1. AbstractAnswer' = [AbstractAnswer EXCEPT ![h] =
               [busy |-> NoFilter.pc # "idle", rrs |-> NoFilter.rrs, ads |-> NoFilter.ads,
                kept |-> NoFilter.kept, dropped |-> NoFilter.dropped]]
      BY <2>0, FilterMapping
    <2>4. Abstract!NoAnswer =
               [busy |-> NoFilter.pc # "idle", rrs |-> NoFilter.rrs, ads |-> NoFilter.ads,
                kept |-> NoFilter.kept, dropped |-> NoFilter.dropped]
      BY DEF NoFilter, Abstract!NoAnswer
    <2>2. AbstractAnswer[h].busy /\ AbstractAnswer[h].rrs = <<>>
      BY <1>6 DEF Respond, AbstractAnswer
    <2>3. UNCHANGED <<status = "serving", AbstractLists>>
      BY <1>6, ListsMapping DEF Respond
    <2>. QED BY <2>1, <2>2, <2>3, <2>4 DEF Abstract!End
  <1>. QED BY <1>1, <1>2, <1>3, <1>4, <1>5, <1>6 DEF isRestricted

(* Steps that change neither the maps, nor an answer, nor whether the server serves. *)
LEMMA InvisibleStep ==
    ASSUME UNCHANGED <<lists, filter>>, (status = "serving") = (status' = "serving")
    PROVE  UNCHANGED Abstract!vars
  BY ListsMapping DEF Abstract!vars, AbstractAnswer

(* Every step of a goroutine in readLists. *)
LEMMA ReloadRefines ==
    ASSUME TypeOK, PhaseInv, NEW g \in Thread, readLists(g)
    PROVE  Abstract!Next \/ UNCHANGED Abstract!vars
  <1>1. CASE getMaxNumberFilenameForRE(g) \/ ReadFile(g) \/ Lock(g)
    BY <1>1, InvisibleStep DEF getMaxNumberFilenameForRE, ReadFile, Lock
  <1>2. CASE ReadFails(g)
    BY <1>2, InvisibleStep, ExitIsDown DEF ReadFails, Abstract!Next
  <1>3. CASE Install(g)
    BY <1>3, InstallIsReplace, KindType, SameKinds DEF Abstract!Next
  <1>4. CASE LogSizes(g)
    <2>1. CASE g = Main
      <3>1. status # "serving" /\ status' = "serving"
        BY <1>4, <2>1 DEF LogSizes, PhaseInv
      <3>2. UNCHANGED <<AbstractLists, AbstractAnswer>>
        BY <1>4, ListsMapping DEF LogSizes, AbstractAnswer
      <3>. QED BY <3>1, <3>2 DEF Abstract!Up, Abstract!Next
    <2>2. CASE g # Main
      BY <1>4, <2>2, InvisibleStep DEF LogSizes
    <2>. QED BY <2>1, <2>2
  <1>. QED BY <1>1, <1>2, <1>3, <1>4 DEF readLists

(* Every step of Filtering is one of AnswerFilter or changes nothing there. *)
LEMMA StepRefines ==
    ASSUME IInv, [Next]_vars
    PROVE  [Abstract!Next]_Abstract!vars
  <1>. USE DEF IInv
  <1>1. CASE Start
    BY <1>1, InvisibleStep DEF Start
  <1>2. CASE Kill
    BY <1>2, ExitIsDown DEF Kill, Abstract!Next
  <1>3. ASSUME NEW g \in Reloader, Post(g) PROVE [Abstract!Next]_Abstract!vars
    BY <1>3, InvisibleStep DEF Post
  <1>4. ASSUME NEW g \in Thread, readLists(g) PROVE [Abstract!Next]_Abstract!vars
    BY <1>4, ReloadRefines
  <1>5. ASSUME NEW h \in Handler, postLookup(h) \/ isRestricted(h) \/ Respond(h)
        PROVE  [Abstract!Next]_Abstract!vars
    BY <1>5, HandlerRefines DEF Abstract!Next
  <1>6. CASE DirectoryNext \/ UNCHANGED vars
    BY <1>6, DirectoryStep, InvisibleStep DEF serverVars, vars
  <1>. QED BY <1>1, <1>2, <1>3, <1>4, <1>5, <1>6 DEF Next, ServerNext

(* A fresh server is a fresh abstract filter. *)
LEMMA InitRefines == Init => Abstract!Init
  <1>. SUFFICES ASSUME Init PROVE Abstract!Init
    OBVIOUS
  <1>1. AbstractLists = [k \in Kind |-> {}]
    BY DEF Init, AbstractLists, Listed
  <1>2. AbstractAnswer = [h \in Handler |-> Abstract!NoAnswer]
    BY DEF Init, AbstractAnswer, NoFilter, Abstract!NoAnswer
  <1>. QED BY <1>1, <1>2, SameKinds DEF Init, Abstract!Init, Abstract!NoLists

(* filtering.go keeps the promise of AnswerFilter for any number of rereads, handlers, domains *)
(* and files: whatever the interleaving, each record gets one atomic verdict.                  *)
THEOREM FilterImplementsAnswerFilter == Spec => ImplementsAnswerFilter
  BY InitRefines, StepRefines, Inductive, PTL DEF Spec, ImplementsAnswerFilter, Abstract!Spec
===============================================================================
