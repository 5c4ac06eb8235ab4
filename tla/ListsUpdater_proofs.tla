------------------------- MODULE ListsUpdater_proofs -------------------------
(***************************************************************************)
(* lists-updater implements ListDirectory, the environment for which       *)
(* Filtering is proved, and keeps the newest files, for any number of      *)
(* processes, any feeds and any -keep above 0.                             *)
(***************************************************************************)
EXTENDS ListsUpdater, FiniteSetTheorems, SequenceTheorems, WellFoundedInduction, TLAPS

(* The numbers of a list: finitely many, and one is the largest. *)
Numbers(S) ==
    /\ S \subseteq Nat /\ IsFiniteSet(S)
    /\ S # {} => \E x \in S : \A y \in S : y <= x

Newer(S, n) == {m \in S : m > n}

Step == [pc : {"down", "write", "number", "rename", "list", "remove", "notify", "sleep"},
         k : Written, n : Nat, old : SUBSET Nat]

(* What a process that is under way knows of the directory is true, since it is the only one. *)
UpdaterInv(u) ==
    LET f == files[upd[u].k]
    IN  /\ upd[u].pc # "down" => lockfile = u
        /\ upd[u].pc = "rename" => upd[u].n = NumberAfter(f)
        /\ upd[u].pc = "remove" => \A n \in upd[u].old :
                n \in DOMAIN f /\ Cardinality(Newer(DOMAIN f, n)) >= Keep

DirInv == DOMAIN files = Kind /\ \A k \in Kind : Numbers(DOMAIN files[k])

IInv ==
    /\ upd \in [Updater -> Step]
    /\ DirInv
    /\ \A u \in Updater : UpdaterInv(u)

(* maxNumberForRE and NumberAfter. *)
LEMMA LargestNumber ==
    ASSUME NEW f, Numbers(DOMAIN f)
    PROVE  /\ maxNumberForRE(f) \in Int /\ NumberAfter(f) \in Nat
           /\ \A n \in DOMAIN f : n <= maxNumberForRE(f)
<1>1. CASE DOMAIN f = {}
  BY <1>1 DEF maxNumberForRE, NumberAfter
<1>2. CASE DOMAIN f # {}
  <2>1. PICK x \in DOMAIN f : \A y \in DOMAIN f : y <= x
    BY <1>2 DEF Numbers
  <2>2. DOMAIN f \subseteq Nat
    BY DEF Numbers
  <2>3. \A y \in DOMAIN f : x >= y
    BY <2>1, <2>2
  <2>4. Max(DOMAIN f) \in DOMAIN f /\ \A y \in DOMAIN f : Max(DOMAIN f) >= y
    BY <2>3 DEF Max
  <2>5. maxNumberForRE(f) = Max(DOMAIN f)
    BY <1>2 DEF maxNumberForRE
  <2> QED
    BY <2>2, <2>4, <2>5 DEF NumberAfter
<1> QED
  BY <1>1, <1>2

(* A nonempty set of numbers has a least one. *)
LEMMA LeastNumber ==
    ASSUME NEW S, S \subseteq Nat, S # {}
    PROVE  Min(S) \in S /\ \A y \in S : Min(S) <= y
<1> DEFINE R == OpToRel(<, Nat)
<1>1. IsWellFoundedOn(R, Nat)
  BY NatLessThanWellFounded
<1>2. \A x, y \in Nat : <<y, x>> \notin R => x <= y
  BY DEF OpToRel
<1> HIDE DEF R
<1>3. PICK x \in S : \A y \in S : ~(<<y, x>> \in R)
  BY <1>1, WFMin
<1>4. \A y \in S : x <= y
  BY <1>2, <1>3
<1> QED
  BY <1>4 DEF Min

(* What Rename does to the numbers of a list. *)
LEMMA AddedNumber ==
    ASSUME NEW S, Numbers(S), NEW n \in Nat, \A m \in S : m < n
    PROVE  Numbers(S \cup {n})
<1>1. IsFiniteSet(S \cup {n})
  BY FS_AddElement DEF Numbers
<1>2. \A y \in S \cup {n} : y <= n
  BY DEF Numbers
<1> QED
  BY <1>1, <1>2 DEF Numbers

(* What the removal of a file does to them. *)
LEMMA DroppedNumber ==
    ASSUME NEW S, Numbers(S), NEW n \in S, Newer(S, n) # {}
    PROVE  Numbers(S \ {n})
<1>1. IsFiniteSet(S \ {n})
  BY FS_RemoveElement DEF Numbers
<1>2. PICK x \in S : \A y \in S : y <= x
  BY DEF Numbers
<1>3. PICK m \in S : m > n
  BY DEF Newer
<1>4. S \subseteq Nat
  BY DEF Numbers
<1>5. x # n
  BY <1>2, <1>3, <1>4
<1> QED
  BY <1>1, <1>2, <1>4, <1>5 DEF Numbers

(* A number that has Keep newer ones has a newer one. *)
LEMMA KeepIsPositive ==
    ASSUME NEW S, NEW n, Cardinality(Newer(S, n)) >= Keep
    PROVE  Newer(S, n) # {}
<1>1. Keep > 0 /\ Cardinality({}) = 0 /\ Keep \in Nat
  BY UpdaterAssumption, FS_EmptySet
<1>2. ASSUME Newer(S, n) = {}
      PROVE  FALSE
  <2>1. Cardinality(Newer(S, n)) = 0
    BY <1>1, <1>2
  <2> QED
    BY <1>1, <2>1
<1> QED
  BY <1>2

(* removeOld removes only numbers that have Keep newer ones in the directory, listed or not. *)
LEMMA OldHaveNewer ==
    ASSUME NEW S, Numbers(S), NEW T \in SUBSET S, NEW n \in OldNumbers(T)
    PROVE  n \in S /\ Cardinality(Newer(S, n)) >= Keep
<1> DEFINE N == Newer(S, n)
           M == {m \in T : m > n}
<1>1. n \in T /\ Cardinality(M) >= Keep
  BY DEF OldNumbers
<1>2. N \subseteq S /\ M \subseteq N /\ IsFiniteSet(S)
  BY DEF Newer, Numbers
<1> HIDE DEF N, M
<1>3. IsFiniteSet(N)
  BY <1>2, FS_Subset
<1>4. IsFiniteSet(M) /\ Cardinality(M) <= Cardinality(N)
  BY <1>2, <1>3, FS_Subset
<1>5. Cardinality(M) \in Nat /\ Cardinality(N) \in Nat
  BY <1>3, <1>4, FS_CardinalityType
<1>6. Cardinality(N) >= Keep
  BY <1>1, <1>4, <1>5, UpdaterAssumption
<1> QED
  BY <1>1, <1>6 DEF N
-------------------------------------------------------------------------------
(* The other processes are down while this one is under way. *)
LEMMA OnlyOne ==
    ASSUME IInv, NEW u \in Updater, upd[u].pc # "down", NEW v \in Updater, v # u
    PROVE  upd[v].pc = "down"
  BY DEF IInv, UpdaterInv

(* A step of u that keeps the lock: only what u knows is to be looked at. *)
LEMMA OwnStep ==
    ASSUME IInv, NEW u \in Updater, upd[u].pc # "down", UNCHANGED lockfile,
           NEW s \in Step, upd' = [upd EXCEPT ![u] = s], DirInv',
           s.pc = "rename" => s.n = NumberAfter(files'[s.k]),
           s.pc = "remove" => \A n \in s.old :
               n \in DOMAIN files'[s.k] /\ Cardinality(Newer(DOMAIN files'[s.k], n)) >= Keep
    PROVE  IInv'
<1>1. upd \in [Updater -> Step] /\ lockfile = u
  BY DEF IInv, UpdaterInv
<1>2. upd' \in [Updater -> Step] /\ upd'[u] = s
  BY <1>1
<1>3. UpdaterInv(u)'
  BY <1>1, <1>2 DEF UpdaterInv
<1>4. ASSUME NEW v \in Updater, v # u
      PROVE  UpdaterInv(v)'
  <2>1. upd'[v] = upd[v] /\ upd[v].pc = "down"
    BY <1>1, <1>4, OnlyOne
  <2> QED
    BY <2>1 DEF UpdaterInv
<1> QED
  BY <1>2, <1>3, <1>4 DEF IInv

(* The record a step leaves behind. *)
LEMMA Steps ==
    /\ Down \in Step /\ Down.pc = "down"
    /\ \A p \in {"write", "number", "list", "notify", "sleep"} : \A k \in Written :
          LET s == [Down EXCEPT !.pc = p, !.k = k]
          IN  s \in Step /\ s.pc = p
    /\ \A p \in {"write", "number", "list", "notify", "sleep"} :
          LET s == [Down EXCEPT !.pc = p]
          IN  s \in Step /\ s.pc = p
  BY DEF Down, Step, Written

(* Launch and Die are the steps that take and release the lock. *)
LEMMA LockInv ==
    ASSUME IInv, NEW u \in Updater, Launch(u) \/ Die(u)
    PROVE  IInv' /\ files' = files
<1>1. upd \in [Updater -> Step] /\ files' = files
  BY DEF IInv, Launch, Die
<1>2. DirInv'
  BY <1>1 DEF IInv, DirInv
<1>3. CASE Launch(u)
  <2> DEFINE s == [Down EXCEPT !.pc = "write"]
  <2>1. s \in Step /\ s.pc = "write"
    BY Steps
  <2>2. upd' = [upd EXCEPT ![u] = s] /\ lockfile = Nobody /\ lockfile' = u
    BY <1>3 DEF Launch
  <2> HIDE DEF s
  <2>3. upd' \in [Updater -> Step] /\ upd'[u] = s
    BY <1>1, <2>1, <2>2
  <2>4. UpdaterInv(u)'
    BY <2>1, <2>2, <2>3 DEF UpdaterInv
  <2>5. ASSUME NEW v \in Updater, v # u
        PROVE  UpdaterInv(v)'
    <3>1. upd'[v] = upd[v] /\ UpdaterInv(v)
      BY <1>1, <2>2, <2>5 DEF IInv
    <3>2. upd[v].pc = "down"
      BY <2>2, <3>1, UpdaterAssumption DEF UpdaterInv
    <3> QED
      BY <3>1, <3>2 DEF UpdaterInv
  <2> QED
    BY <1>1, <1>2, <2>3, <2>4, <2>5 DEF IInv
<1>4. CASE Die(u)
  <2>1. upd' = [upd EXCEPT ![u] = Down] /\ upd[u].pc # "down"
    BY <1>4 DEF Die
  <2>2. Down \in Step /\ Down.pc = "down"
    BY Steps
  <2>3. upd' \in [Updater -> Step]
    BY <1>1, <2>1, <2>2
  <2>4. ASSUME NEW v \in Updater
        PROVE  upd'[v].pc = "down"
    BY <1>1, <2>1, <2>2, <2>4, OnlyOne
  <2>5. \A v \in Updater : UpdaterInv(v)'
    BY <2>4 DEF UpdaterInv
  <2> QED
    BY <1>1, <1>2, <2>3, <2>5 DEF IInv
<1> QED
  BY <1>3, <1>4

(* The steps that only pass on to the next one. *)
LEMMA PassInv ==
    ASSUME IInv, NEW u \in Updater, WriteList(u) \/ StepFails(u) \/ Notify(u) \/ Wake(u)
    PROVE  IInv' /\ files' = files
<1>1. upd[u].pc # "down" /\ UNCHANGED lockfile /\ files' = files
  BY DEF WriteList, StepFails, Notify, Wake
<1>2. DirInv'
  BY <1>1 DEF IInv, DirInv
<1>3. \/ \E p \in {"write", "number", "sleep"} : upd' = [upd EXCEPT ![u] = [Down EXCEPT !.pc = p]]
      \/ upd' = [upd EXCEPT ![u] = [Down EXCEPT !.pc = "write", !.k = "blacklist"]]
  <2>1. CASE WriteList(u)
    <3>1. Goto(u, "write", "number") \/ upd' = [upd EXCEPT ![u] = [Down EXCEPT !.pc = "sleep"]]
      BY <2>1, Zenon DEF WriteList
    <3> QED
      BY <3>1 DEF Goto
  <2> QED
    BY <2>1 DEF StepFails, Notify, Wake
<1>4. CASE \E p \in {"write", "number", "sleep"} : upd' = [upd EXCEPT ![u] = [Down EXCEPT !.pc = p]]
  <2> PICK p \in {"write", "number", "sleep"} : upd' = [upd EXCEPT ![u] = [Down EXCEPT !.pc = p]]
    BY <1>4
  <2> DEFINE s == [Down EXCEPT !.pc = p]
  <2>1. s \in Step /\ s.pc = p
    BY Steps
  <2>2. upd' = [upd EXCEPT ![u] = s]
    OBVIOUS
  <2> HIDE DEF s
  <2> QED
    BY <1>1, <1>2, <2>1, <2>2, OwnStep
<1>5. CASE upd' = [upd EXCEPT ![u] = [Down EXCEPT !.pc = "write", !.k = "blacklist"]]
  <2> DEFINE s == [Down EXCEPT !.pc = "write", !.k = "blacklist"]
  <2>1. s \in Step /\ s.pc = "write"
    BY Steps DEF Written
  <2>2. upd' = [upd EXCEPT ![u] = s]
    BY <1>5
  <2> HIDE DEF s
  <2> QED
    BY <1>1, <1>2, <2>1, <2>2, OwnStep
<1> QED
  BY <1>1, <1>3, <1>4, <1>5

(* The number after the largest is still that when the file is renamed. *)
LEMMA NextNumberInv ==
    ASSUME IInv, NEW u \in Updater, NextNumber(u)
    PROVE  IInv' /\ files' = files
<1>1. upd \in [Updater -> Step] /\ upd[u].pc # "down" /\ UNCHANGED lockfile /\ files' = files
  BY DEF IInv, NextNumber
<1>2. DirInv'
  BY <1>1 DEF IInv, DirInv
<1> DEFINE n == NumberAfter(files[upd[u].k])
           s == [upd[u] EXCEPT !.pc = "rename", !.n = n]
<1>3. upd[u] \in Step
  BY <1>1
<1>4. upd[u].k \in Written /\ Numbers(DOMAIN files[upd[u].k])
  BY <1>3 DEF Step, IInv, DirInv, Written, Kind
<1>5. n \in Nat
  BY <1>4, LargestNumber
<1>6. upd' = [upd EXCEPT ![u] = s]
  BY DEF NextNumber
<1> HIDE DEF n
<1>7. s \in Step /\ s.pc = "rename" /\ s.k = upd[u].k /\ s.n = n
  BY <1>3, <1>5 DEF Step
<1>8. s.n = NumberAfter(files'[s.k])
  BY <1>1, <1>7 DEF n
<1> HIDE DEF s
<1> QED
  BY <1>1, <1>2, <1>6, <1>7, <1>8, OwnStep

(* A file appears under the number after the largest. *)
LEMMA RenameInv ==
    ASSUME IInv, NEW u \in Updater, Rename(u)
    PROVE  /\ IInv' /\ SomePublish(upd[u].k) /\ upd[u].k \in Kind
           /\ \A k \in Kind : DOMAIN files[k] \subseteq DOMAIN files'[k]
<1> DEFINE k == upd[u].k
           n == upd[u].n
           F == AddFile(files[k], n, newFile[k])
<1>1. upd[u] \in Step /\ upd[u].pc # "down" /\ UNCHANGED lockfile /\ upd[u].pc = "rename"
  BY DEF IInv, Rename
<1>2. k \in Kind /\ n \in Nat /\ n = NumberAfter(files[k]) /\ DOMAIN files = Kind
      /\ \A j \in Kind : Numbers(DOMAIN files[j])
  BY <1>1 DEF Step, IInv, UpdaterInv, DirInv, Written, Kind
<1>3. files' = [files EXCEPT ![k] = F] /\ Goto(u, "number", "list")
  BY DEF Rename
<1>4. DOMAIN F = DOMAIN files[k] \cup {n} /\ F = AddFile(files[k], n, F[n])
  BY DEF AddFile
<1>5. \A m \in DOMAIN files[k] : m < n
  <2>1. /\ maxNumberForRE(files[k]) \in Int
        /\ \A m \in DOMAIN files[k] : m <= maxNumberForRE(files[k])
    BY <1>2, LargestNumber
  <2>2. DOMAIN files[k] \subseteq Nat /\ n = maxNumberForRE(files[k]) + 1
    BY <1>2 DEF Numbers, NumberAfter
  <2> HIDE DEF k, n
  <2> QED
    BY <2>1, <2>2
<1> HIDE DEF F
<1>6. files'[k] = F /\ DOMAIN files' = Kind /\ \A j \in Kind \ {k} : files'[j] = files[j]
  BY <1>2, <1>3
<1>7. Numbers(DOMAIN F)
  BY <1>2, <1>4, <1>5, AddedNumber
<1>8. DirInv'
  BY <1>2, <1>6, <1>7 DEF DirInv
<1>9. SomePublish(k)
  BY <1>2, <1>3, <1>4, <1>6 DEF SomePublish, PublishFile
<1>10. \/ upd' = [upd EXCEPT ![u] = [Down EXCEPT !.pc = "list"]]
       \/ upd' = [upd EXCEPT ![u] = [Down EXCEPT !.pc = "number", !.k = "blacklist"]]
  BY <1>3 DEF Goto
<1>11. \E s \in Step : s.pc \in {"list", "number"} /\ upd' = [upd EXCEPT ![u] = s]
  BY <1>10, Steps DEF Written
<1>12. IInv'
  BY <1>1, <1>8, <1>11, OwnStep
<1> QED
  BY <1>2, <1>4, <1>6, <1>9, <1>12

(* The old files are chosen. *)
LEMMA ListOldInv ==
    ASSUME IInv, NEW u \in Updater, ListOld(u)
    PROVE  IInv' /\ files' = files
<1> DEFINE k == upd[u].k
<1>1. /\ upd[u] \in Step /\ upd[u].pc # "down" /\ UNCHANGED lockfile /\ files' = files
      /\ upd \in [Updater -> Step]
  BY DEF IInv, ListOld
<1>2. DirInv' /\ k \in Kind /\ Numbers(DOMAIN files[k])
  BY <1>1 DEF IInv, DirInv, Step, Written, Kind
<1>3. PICK T \in SUBSET DOMAIN files[k] :
          upd' = [upd EXCEPT ![u].pc = "remove", ![u].old = OldNumbers(T)]
  BY DEF ListOld
<1> DEFINE s == [upd[u] EXCEPT !.pc = "remove", !.old = OldNumbers(T)]
<1>4. upd' = [upd EXCEPT ![u] = s]
  BY <1>3
<1>5. \A n \in OldNumbers(T) : n \in DOMAIN files[k] /\ Cardinality(Newer(DOMAIN files[k], n)) >= Keep
  BY <1>2, OldHaveNewer
<1>6. OldNumbers(T) \in SUBSET Nat
  BY <1>2, <1>5 DEF Numbers
<1>7. s \in Step /\ s.pc = "remove" /\ s.k = k /\ s.old = OldNumbers(T)
  BY <1>1, <1>6 DEF Step
<1>8. \A n \in s.old : n \in DOMAIN files'[s.k] /\ Cardinality(Newer(DOMAIN files'[s.k], n)) >= Keep
  <2> HIDE DEF s, k
  <2> QED
    BY <1>1, <1>5, <1>7
<1> HIDE DEF s
<1> QED
  BY <1>1, <1>2, <1>4, <1>7, <1>8, OwnStep

(* What NewestAreKept asks of a step. *)
KeepsNewest ==
    \A k \in Kind : \A n \in DOMAIN files[k] \ DOMAIN files'[k] :
        Cardinality({m \in DOMAIN files'[k] : m > n}) >= Keep

(* One of them is removed: the least, so the others lose no newer one. *)
LEMMA RemovalInv ==
    ASSUME IInv, NEW u \in Updater, upd[u].pc = "remove", upd[u].old # {}, UNCHANGED lockfile,
           upd' = [upd EXCEPT ![u].old = @ \ {Min(upd[u].old)}],
           files' = [files EXCEPT ![upd[u].k] = DropFile(@, Min(upd[u].old))]
    PROVE  IInv' /\ DirNext /\ KeepsNewest
<1> DEFINE k == upd[u].k
           old == upd[u].old
           n == Min(old)
           F == DropFile(files[k], n)
           s == [upd[u] EXCEPT !.old = @ \ {n}]
<1>1. upd[u] \in Step /\ upd \in [Updater -> Step]
  BY DEF IInv
<1>2. k \in Kind /\ old \in SUBSET Nat /\ DOMAIN files = Kind /\ \A j \in Kind : Numbers(DOMAIN files[j])
  BY <1>1 DEF Step, IInv, DirInv, Written, Kind
<1>3. \A o \in old : o \in DOMAIN files[k] /\ Cardinality(Newer(DOMAIN files[k], o)) >= Keep
  BY DEF IInv, UpdaterInv
<1>4. n \in old /\ \A o \in old : n <= o
  BY <1>2, LeastNumber
<1>5. files' = [files EXCEPT ![k] = F] /\ upd' = [upd EXCEPT ![u] = s]
  OBVIOUS
<1>6. s \in Step /\ s.pc = "remove" /\ s.k = k /\ s.old = old \ {n}
  BY <1>1, <1>2 DEF Step
<1>7. DOMAIN F = DOMAIN files[k] \ {n}
  BY DEF DropFile
<1>8. F = DropFile(files[k], n)
  OBVIOUS
<1> HIDE DEF s, k, old, n, F
<1>9. files'[k] = F /\ DOMAIN files' = Kind /\ \A j \in Kind \ {k} : files'[j] = files[j]
  BY <1>2, <1>5
<1>10. Newer(DOMAIN files[k], n) # {}
  BY <1>3, <1>4, KeepIsPositive
<1>11. DirInv'
  <2>1. Numbers(DOMAIN F)
    BY <1>2, <1>3, <1>4, <1>7, <1>10, DroppedNumber
  <2> QED
    BY <1>2, <1>9, <2>1 DEF DirInv
<1>12. ASSUME NEW o \in old
       PROVE  Newer(DOMAIN F, o) = Newer(DOMAIN files[k], o)
  <2>1. n \in Nat /\ o \in Nat /\ n <= o
    BY <1>2, <1>4, <1>12
  <2>2. ~(n > o)
    BY <2>1
  <2> QED
    BY <1>7, <2>2 DEF Newer
<1>13. \A o \in s.old : o \in DOMAIN files'[s.k] /\ Cardinality(Newer(DOMAIN files'[s.k], o)) >= Keep
  BY <1>3, <1>6, <1>7, <1>9, <1>12
<1>14. IInv'
  BY <1>5, <1>6, <1>11, <1>13, OwnStep
<1>15. RemoveFile(k, n)
  <2>1. PICK m \in DOMAIN files[k] : m > n
    BY <1>10 DEF Newer
  <2>2. maxNumberForRE(files[k]) \in Int /\ m <= maxNumberForRE(files[k])
    BY <1>2, LargestNumber
  <2>3. m \in Nat /\ n \in Nat
    BY <1>2, <1>4, <2>1 DEF Numbers
  <2>4. n # maxNumberForRE(files[k])
    BY <2>1, <2>2, <2>3
  <2> QED
    BY <1>3, <1>4, <1>5, <1>8, <2>4 DEF RemoveFile
<1>16. KeepsNewest
  <2> SUFFICES ASSUME NEW j \in Kind, NEW o \in DOMAIN files[j] \ DOMAIN files'[j]
               PROVE  Cardinality({m \in DOMAIN files'[j] : m > o}) >= Keep
    BY DEF KeepsNewest
  <2>1. j = k /\ o = n
    BY <1>7, <1>9
  <2>2. {m \in DOMAIN files'[j] : m > o} = Newer(DOMAIN F, n)
    BY <1>9, <2>1 DEF Newer
  <2>3. Newer(DOMAIN F, n) = Newer(DOMAIN files[k], n)
    BY <1>4, <1>12
  <2> QED
    BY <1>3, <1>4, <2>2, <2>3
<1> QED
  BY <1>2, <1>3, <1>4, <1>14, <1>15, <1>16 DEF DirNext

(* A turn of removeOld. *)
LEMMA RemoveOldInv ==
    ASSUME IInv, NEW u \in Updater, removeOld(u)
    PROVE  IInv' /\ (files' = files \/ (DirNext /\ KeepsNewest))
<1>1. /\ upd[u] \in Step /\ upd \in [Updater -> Step] /\ UNCHANGED lockfile
      /\ upd[u].pc = "remove" /\ upd[u].pc # "down"
  BY DEF IInv, removeOld
<1>2. CASE files' = files /\ Goto(u, "list", "notify")
  <2>1. \/ upd' = [upd EXCEPT ![u] = [Down EXCEPT !.pc = "notify"]]
        \/ upd' = [upd EXCEPT ![u] = [Down EXCEPT !.pc = "list", !.k = "blacklist"]]
    BY <1>2 DEF Goto
  <2>2. \E s \in Step : s.pc \in {"list", "notify"} /\ upd' = [upd EXCEPT ![u] = s]
    BY <2>1, Steps DEF Written
  <2>3. DirInv'
    BY <1>2 DEF IInv, DirInv
  <2> QED
    BY <1>1, <1>2, <2>2, <2>3, OwnStep
<1>3. CASE files' = files /\ upd' = [upd EXCEPT ![u].old = @ \ {Min(upd[u].old)}]
  <2> DEFINE k == upd[u].k
             s == [upd[u] EXCEPT !.old = @ \ {Min(upd[u].old)}]
  <2>1. upd' = [upd EXCEPT ![u] = s]
    BY <1>3
  <2>2. s \in Step /\ s.pc = "remove" /\ s.k = k /\ s.old \subseteq upd[u].old
    BY <1>1 DEF Step
  <2>3. \A o \in upd[u].old : o \in DOMAIN files[k] /\ Cardinality(Newer(DOMAIN files[k], o)) >= Keep
    BY <1>1 DEF IInv, UpdaterInv
  <2> HIDE DEF s, k
  <2>4. \A o \in s.old : o \in DOMAIN files'[s.k] /\ Cardinality(Newer(DOMAIN files'[s.k], o)) >= Keep
    BY <1>3, <2>2, <2>3
  <2>5. DirInv'
    BY <1>3 DEF IInv, DirInv
  <2> QED
    BY <1>1, <1>3, <2>1, <2>2, <2>4, <2>5, OwnStep
<1>4. CASE /\ upd[u].old # {}
           /\ upd' = [upd EXCEPT ![u].old = @ \ {Min(upd[u].old)}]
           /\ files' = [files EXCEPT ![upd[u].k] = DropFile(@, Min(upd[u].old))]
  BY <1>1, <1>4, RemovalInv
<1> QED
  BY <1>2, <1>3, <1>4 DEF removeOld
-------------------------------------------------------------------------------
(* main: the invariant holds before an updater is launched. *)
LEMMA InitInv == Init => IInv
<1> SUFFICES ASSUME Init
             PROVE  IInv
  OBVIOUS
<1>1. DirInv
  BY FS_EmptySet DEF Init, DirInit, NoFiles, DirInv, Numbers
<1>2. upd = [u \in Updater |-> Down] /\ Down \in Step /\ Down.pc = "down"
  BY Steps DEF Init
<1> QED
  BY <1>1, <1>2 DEF IInv, UpdaterInv

(* Every step keeps the invariant and is one of ListDirectory's or none, and keeps the newest. *)
LEMMA StepInv ==
    IInv /\ [Next]_vars => IInv' /\ [DirNext]_files /\ [KeepsNewest]_vars
<1> SUFFICES ASSUME IInv, [Next]_vars
             PROVE  IInv' /\ [DirNext]_files /\ [KeepsNewest]_vars
  OBVIOUS
<1>1. files' = files => KeepsNewest
  BY DEF KeepsNewest
<1>2. ASSUME NEW u \in Updater, Launch(u) \/ WriteList(u) \/ StepFails(u) \/ NextNumber(u) \/ ListOld(u)
                                   \/ Notify(u) \/ Wake(u) \/ Die(u)
      PROVE  IInv' /\ files' = files
  BY <1>2, LockInv, PassInv, NextNumberInv, ListOldInv
<1>3. ASSUME NEW u \in Updater, Rename(u)
      PROVE  IInv' /\ DirNext /\ KeepsNewest
  BY <1>3, RenameInv DEF DirNext, KeepsNewest
<1>4. CASE UNCHANGED vars
  BY <1>4 DEF vars, IInv, DirInv, UpdaterInv
<1> QED
  BY <1>1, <1>2, <1>3, <1>4, RemoveOldInv DEF Next, process

(* process() changes the directory only as ListDirectory allows: it publishes under the next *)
(* number, changes no file and never removes the newest.                                     *)
THEOREM UpdaterImplementsDirectory == Spec => ImplementsDirectory
<1>1. Init => DirInit
  BY DEF Init
<1> QED
  BY <1>1, InitInv, StepInv, PTL DEF Spec, ImplementsDirectory, DirSpec

(* removeOld leaves the newest Keep files, whatever its listing misses. *)
THEOREM UpdaterKeepsNewest == Spec => NewestAreKept
<1>1. KeepsNewest <=> \A k \in Kind : \A n \in DOMAIN files[k] \ DOMAIN files'[k] :
                          Cardinality({m \in DOMAIN files'[k] : m > n}) >= Keep
  BY DEF KeepsNewest
<1> QED
  BY <1>1, InitInv, StepInv, PTL DEF Spec, NewestAreKept
-------------------------------------------------------------------------------
(* The values of a loop that starts with b and takes the steps g, after m turns. *)
Runs(f, m, b, g) == f[0] = b /\ \A i \in 1..m : f[i] = g[<<i, f[i - 1]>>]

LoopSteps(n, S) == [(1..n) \X S -> S]

Values(n, S) == [0..n -> S]

(* A loop computes something. *)
LEMMA Iterates ==
    ASSUME NEW S, NEW n \in Nat, NEW b \in S, NEW g \in LoopSteps(n, S)
    PROVE  \E f \in Values(n, S) : Runs(f, n, b, g)
<1> DEFINE Found(m) == \E f \in Values(m, S) : Runs(f, m, b, g)
           Bad == {m \in 0..n : ~Found(m)}
<1> SUFFICES ASSUME Bad # {} PROVE FALSE
  BY DEF Bad
<1> HIDE DEF Found
<1>1. Bad \subseteq Nat
  OBVIOUS
<1> DEFINE m == Min(Bad)
<1>2. m \in Bad /\ \A k \in Bad : m <= k
  <2> HIDE DEF Bad
  <2> QED
    BY <1>1, LeastNumber
<1> HIDE DEF m
<1>3. m \in 0..n /\ m \in Nat /\ ~Found(m)
  BY <1>2
<1>4. CASE m = 0
  <2> DEFINE f == [i \in 0..0 |-> b]
  <2>1. f \in Values(0, S) /\ Runs(f, 0, b, g)
    BY DEF Runs, Values
  <2> QED
    BY <1>3, <1>4, <2>1 DEF Found
<1>5. CASE m # 0
  <2>1. m - 1 \in 0..n /\ ~(m <= m - 1) /\ m \in 1..n
    BY <1>3, <1>5
  <2>2. Found(m - 1)
    BY <1>2, <2>1
  <2>3. PICK f \in Values(m - 1, S) : Runs(f, m - 1, b, g)
    BY <2>2 DEF Found
  <2> DEFINE next == g[<<m, f[m - 1]>>]
             h == [i \in 0..m |-> IF i < m THEN f[i] ELSE next]
  <2>4. f[m - 1] \in S /\ next \in S
    BY <1>3, <1>5, <2>1, <2>3 DEF Values, LoopSteps
  <2> HIDE DEF next
  <2>5. h \in Values(m, S) /\ h[0] = f[0] /\ h[m] = next /\ \A i \in 0..m - 1 : h[i] = f[i]
    BY <1>3, <1>5, <2>3, <2>4 DEF Values
  <2> HIDE DEF h
  <2>6. ASSUME NEW i \in 1..m PROVE h[i] = g[<<i, h[i - 1]>>]
    <3>1. CASE i = m
      <4>1. h[m - 1] = f[m - 1]
        BY <1>3, <2>1, <2>5
      <4> QED
        BY <2>5, <3>1, <4>1 DEF next
    <3>2. CASE i # m
      <4>1. i \in 1..m - 1 /\ i \in 0..m - 1 /\ i - 1 \in 0..m - 1
        BY <1>3, <3>2
      <4>2. h[i] = f[i] /\ h[i - 1] = f[i - 1] /\ f[i] = g[<<i, f[i - 1]>>]
        BY <2>3, <2>5, <4>1 DEF Runs
      <4> QED
        BY <4>2
    <3> QED
      BY <3>1, <3>2
  <2>7. Runs(h, m, b, g)
    BY <2>3, <2>5, <2>6 DEF Runs
  <2> QED
    BY <1>3, <2>5, <2>7 DEF Found
<1> QED
  BY <1>4, <1>5

(* Without repetitions, a sequence of domains is one of domains. *)
LEMMA NoRepeatsType ==
    ASSUME NEW ds \in Seq(Domain)
    PROVE  NoRepeats(ds) \in Seq(Domain)
<1> DEFINE n == Len(ds)
           S == Seq(Domain)
           Next1(i, s) == IF Contains(s, ds[i]) THEN s ELSE Append(s, ds[i])
           g == [p \in (1..n) \X S |-> Next1(p[1], p[2])]
           Is(f) == f = [i \in 0..n |->
                           CASE i = 0 -> <<>>
                             [] i > 0 /\ Contains(f[i - 1], ds[i]) -> f[i - 1]
                             [] OTHER -> Append(f[i - 1], ds[i])]
<1>1. n \in Nat /\ <<>> \in S /\ \A i \in 1..n : ds[i] \in Domain
  OBVIOUS
<1>2. \A i \in 1..n, s \in S : Next1(i, s) \in S
  BY <1>1
<1> HIDE DEF Next1, S, n
<1>3. g \in LoopSteps(n, S) /\ \A i \in 1..n, s \in S : g[<<i, s>>] = Next1(i, s)
  BY <1>2 DEF LoopSteps
<1> HIDE DEF g
<1>4. PICK f \in [0..n -> S] : f[0] = <<>> /\ \A i \in 1..n : f[i] = g[<<i, f[i - 1]>>]
  <2> DEFINE b == <<>>
  <2>1. b \in S
    BY <1>1
  <2> HIDE DEF b
  <2>2. \E f \in Values(n, S) : Runs(f, n, b, g)
    BY <1>1, <1>3, <2>1, Iterates
  <2> QED
    BY <2>2 DEF b, Runs, Values
<1>5. \A i \in 1..n : i - 1 \in 0..n /\ i > 0 /\ i # 0
  BY <1>1
<1>6. \A i \in 1..n : f[i] = Next1(i, f[i - 1])
  BY <1>3, <1>4, <1>5
<1>7. Is(f)
  <2>1. ASSUME NEW i \in 0..n
        PROVE  f[i] = CASE i = 0 -> <<>>
                        [] i > 0 /\ Contains(f[i - 1], ds[i]) -> f[i - 1]
                        [] OTHER -> Append(f[i - 1], ds[i])
    <3>1. CASE i = 0
      <4>1. ~(i > 0)
        BY <3>1
      <4> QED
        BY <1>4, <3>1, <4>1
    <3>2. CASE i # 0
      <4>1. i \in 1..n /\ i > 0
        BY <1>1, <3>2
      <4>2. CASE Contains(f[i - 1], ds[i])
        BY <1>6, <3>2, <4>1, <4>2 DEF Next1
      <4>3. CASE ~Contains(f[i - 1], ds[i])
        BY <1>6, <3>2, <4>1, <4>3 DEF Next1
      <4> QED
        BY <4>2, <4>3
    <3> QED
      BY <3>1, <3>2
  <2>2. f = [i \in 0..n |-> f[i]]
    BY <1>4
  <2> QED
    BY <2>1, <2>2, Zenon
<1> DEFINE c == CHOOSE f1 : Is(f1)
<1>8. NoRepeats(ds) = c[n] /\ Is(c)
  <2>1. NoRepeats(ds) = c[n]
    BY DEF NoRepeats, n
  <2>2. Is(c)
    BY <1>7, Zenon
  <2> QED
    BY <2>1, <2>2
<1> HIDE DEF c
<1>9. \A i \in 1..n : c[i] = Next1(i, c[i - 1])
  <2> SUFFICES ASSUME NEW i \in 1..n PROVE c[i] = Next1(i, c[i - 1])
    OBVIOUS
  <2>1. i \in 0..n /\ i # 0 /\ i > 0
    BY <1>1
  <2>2. c[i] = CASE i = 0 -> <<>>
                [] i > 0 /\ Contains(c[i - 1], ds[i]) -> c[i - 1]
                [] OTHER -> Append(c[i - 1], ds[i])
    BY <1>8, <2>1
  <2> QED
    BY <2>1, <2>2 DEF Next1
<1>10. c[0] = <<>>
  <2>1. 0 \in 0..n /\ ~(0 > 0)
    BY <1>1
  <2> QED
    BY <1>8, <2>1
<1> DEFINE Bad == {i \in 0..n : c[i] \notin S}
<1>11. CASE Bad = {}
  <2>1. n \in 0..n
    BY <1>1
  <2> QED
    BY <1>8, <1>11, <2>1 DEF S
<1>12. CASE Bad # {}
  <2>1. Bad \subseteq Nat
    OBVIOUS
  <2> DEFINE m == Min(Bad)
  <2>2. m \in Bad /\ \A k \in Bad : m <= k
    <3> HIDE DEF Bad
    <3> QED
      BY <1>12, <2>1, LeastNumber
  <2> HIDE DEF m
  <2>3. m \in 0..n /\ m \in Nat /\ c[m] \notin S
    BY <2>2
  <2>4. m # 0
    BY <1>1, <1>10, <2>3
  <2>5. m \in 1..n /\ m - 1 \in 0..n /\ ~(m <= m - 1)
    BY <1>1, <2>3, <2>4
  <2>6. c[m - 1] \in S
    BY <2>2, <2>5
  <2> QED
    BY <1>2, <1>9, <2>3, <2>5, <2>6
<1> QED
  BY <1>11, <1>12

(* The line of a domain: its first cell starts it, its last one is the newline. *)
LEMMA LineCells ==
    ASSUME NEW d \in Domain
    PROVE  /\ Line(d) \in Seq(Cell) /\ Len(Line(d)) = Width[d] /\ Width[d] \in Nat /\ Width[d] > 1
           /\ \A c \in 1..Width[d] : Line(d)[c] = <<d, c>>
<1> DEFINE w == Width[d]
<1>1. w \in Nat /\ w > 1
  BY FormatAssumption
<1> HIDE DEF w
<1>2. \A i \in 1..w : <<d, i>> \in Cell
  BY <1>1 DEF Cell
<1>3. Line(d) = [i \in 1..w |-> <<d, i>>]
  BY DEF Line, w
<1>4. Line(d) \in [1..w -> Cell]
  BY <1>2, <1>3
<1>5. Line(d) \in Seq(Cell)
  BY <1>1, <1>4, SeqDef
<1>6. Len(Line(d)) = w
  <2>1. Len(Line(d)) \in Nat /\ DOMAIN Line(d) = 1..Len(Line(d))
    BY <1>5, LenProperties
  <2> DEFINE L == Len(Line(d))
  <2>2. L \in Nat /\ 1..L = 1..w
    BY <1>4, <2>1
  <2> HIDE DEF L
  <2>3. L = w
    BY <1>1, <2>2
  <2> QED
    BY <2>3 DEF L
<1> QED
  BY <1>1, <1>3, <1>5, <1>6 DEF w

(* t has a line that is d's, all its bytes and the newline. *)
HasLine(t, d) ==
    \E a \in Nat : /\ a + Width[d] <= Len(t)
                  /\ LineStart(t, a + 1)
                  /\ \A c \in 1..Width[d] : t[a + c] = <<d, c>>

(* Bytes behind a text take no line from it. *)
LEMMA LongerText ==
    ASSUME NEW t \in Seq(Cell), NEW u \in Seq(Cell), Len(t) <= Len(u),
           \A i \in 1..Len(t) : u[i] = t[i], NEW d \in Domain, HasLine(t, d)
    PROVE  HasLine(u, d)
<1> DEFINE w == Width[d]
<1>1. PICK a \in Nat : /\ a + w <= Len(t)
                       /\ LineStart(t, a + 1)
                       /\ \A c \in 1..w : t[a + c] = <<d, c>>
  BY DEF HasLine
<1>2. w \in Nat /\ w > 1
  BY FormatAssumption
<1>3. Len(t) \in Nat /\ Len(u) \in Nat
  OBVIOUS
<1> HIDE DEF w
<1>4. a + w <= Len(u) /\ (a + 1) - 1 = a /\ (a + 1 # 1 => a \in 1..Len(t))
  BY <1>1, <1>2, <1>3
<1>5. LineStart(u, a + 1)
  BY <1>1, <1>4 DEF LineStart
<1>6. ASSUME NEW c \in 1..w
      PROVE  u[a + c] = <<d, c>>
  <2>1. a + c \in 1..Len(t)
    BY <1>1, <1>2, <1>3
  <2> QED
    BY <1>1, <2>1
<1> QED
  BY <1>4, <1>5, <1>6 DEF HasLine, w

(* t is text in which each of the first m domains has a line of its own, and which ends a line. *)
Lines(t, ds, m) ==
    /\ t \in Seq(Cell)
    /\ m > 0 => Len(t) > 0 /\ Newline(t[Len(t)])
    /\ \A j \in 1..m : HasLine(t, ds[j])

(* One more line. *)
LEMMA OneMoreLine ==
    ASSUME NEW ds \in Seq(Domain), NEW m \in Nat, m + 1 \in 1..Len(ds), NEW t, Lines(t, ds, m),
           m = 0 => t = <<>>
    PROVE  Lines(t \o Line(ds[m + 1]), ds, m + 1)
<1> DEFINE d == ds[m + 1]
           l == Line(d)
           u == t \o l
           a == Len(t)
           w == Width[d]
<1>1. d \in Domain
  OBVIOUS
<1>2. /\ l \in Seq(Cell) /\ Len(l) = w /\ w \in Nat /\ w > 1
      /\ \A c \in 1..w : l[c] = <<d, c>>
  BY <1>1, LineCells
<1>3. t \in Seq(Cell) /\ a \in Nat
  BY DEF Lines
<1> HIDE DEF l
<1>4. /\ u \in Seq(Cell) /\ Len(u) = a + w
      /\ \A i \in 1..a : u[i] = t[i]
      /\ \A c \in 1..w : u[a + c] = <<d, c>>
  <2> HIDE DEF w, d
  <2>1. /\ u \in Seq(Cell) /\ Len(u) = a + w
        /\ \A i \in 1..a + w : u[i] = IF i <= a THEN t[i] ELSE l[i - a]
    <3>1. t \in Seq(Cell) /\ l \in Seq(Cell)
      BY <1>2, <1>3
    <3>2. /\ t \o l \in Seq(Cell) /\ Len(t \o l) = Len(t) + Len(l)
          /\ \A i \in 1..Len(t) + Len(l) : (t \o l)[i] = IF i <= Len(t) THEN t[i] ELSE l[i - Len(t)]
      BY <3>1, ConcatProperties
    <3> QED
      BY <1>2, <3>2
  <2> HIDE DEF u, a
  <2>2. /\ \A i \in 1..a : i \in 1..a + w /\ i <= a
        /\ \A c \in 1..w : a + c \in 1..a + w /\ ~(a + c <= a) /\ (a + c) - a = c
    BY <1>2, <1>3
  <2> QED
    BY <1>2, <2>1, <2>2
<1> HIDE DEF u, a, d, w
<1>5. a + w > 0 /\ Newline(u[a + w])
  <2>1. w \in 1..w /\ a + w > 0
    BY <1>2, <1>3
  <2>2. u[a + w] = <<d, w>>
    BY <1>4, <2>1
  <2> QED
    BY <2>1, <2>2 DEF Newline, w
<1>6. ASSUME NEW j \in 1..m + 1
      PROVE  HasLine(u, ds[j])
  <2>1. CASE j = m + 1
    <3>1. LineStart(u, a + 1)
      <4>1. CASE m = 0
        BY <4>1 DEF LineStart, a
      <4>2. CASE m # 0
        <5>1. m > 0
          BY <4>2
        <5>2. a > 0 /\ Newline(t[a])
          BY <5>1 DEF Lines, a
        <5>3. a \in 1..a /\ (a + 1) - 1 = a
          BY <1>3, <5>2
        <5> QED
          BY <1>4, <5>2, <5>3 DEF LineStart
      <4> QED
        BY <4>1, <4>2
    <3>2. a + w <= Len(u)
      BY <1>2, <1>3, <1>4
    <3>3. HasLine(u, d)
      BY <1>3, <1>4, <3>1, <3>2 DEF HasLine, w
    <3> QED
      BY <2>1, <3>3 DEF d
  <2>2. CASE j # m + 1
    <3>1. j \in 1..m /\ j \in 1..Len(ds)
      BY <2>2
    <3>2. HasLine(t, ds[j]) /\ ds[j] \in Domain
      BY <3>1 DEF Lines
    <3>3. Len(t) <= Len(u) /\ \A i \in 1..Len(t) : u[i] = t[i]
      BY <1>2, <1>3, <1>4 DEF a
    <3> QED
      BY <1>3, <1>4, <3>2, <3>3, LongerText
  <2> QED
    BY <2>1, <2>2
<1> QED
  BY <1>4, <1>5, <1>6 DEF Lines, u, l, d, a

(* The bytes for a sequence of domains are whole lines, one for each domain. *)
LEMMA TextLines ==
    ASSUME NEW ds \in Seq(Domain)
    PROVE  Lines(Text(ds), ds, Len(ds))
<1> DEFINE n == Len(ds)
           S == Seq(Cell)
           L(i) == Line(ds[i])
           lines == [i \in 1..n |-> L(i)]
           g == [p \in (1..n) \X S |-> p[2] \o L(p[1])]
           Is(f) == f = [i \in 1..n |-> IF i = 1 THEN lines[i] ELSE f[i - 1] \o lines[i]]
<1>1. n \in Nat /\ <<>> \in S /\ \A i \in 1..n : ds[i] \in Domain
  OBVIOUS
<1>2. \A i \in 1..n : L(i) \in S
  BY <1>1, LineCells
<1>3. \A i \in 1..n, s \in S : s \o L(i) \in S
  <2> HIDE DEF L
  <2> QED
    BY <1>2
<1>4. \A i \in 1..n : <<>> \o L(i) = L(i)
  <2> HIDE DEF L
  <2> QED
    BY <1>2
<1> HIDE DEF S, n, L
<1>5. \A i \in 1..n : lines[i] = L(i)
  OBVIOUS
<1>6. Len(lines) = n
  <2>1. lines \in [1..n -> S]
    BY <1>2
  <2>2. lines \in Seq(S) /\ DOMAIN lines = 1..n
    BY <1>1, <2>1, SeqDef
  <2> DEFINE k == Len(lines)
  <2>3. k \in Nat /\ 1..k = 1..n
    BY <2>2, LenProperties
  <2> HIDE DEF k
  <2>4. k = n
    BY <1>1, <2>3
  <2> QED
    BY <2>4 DEF k
<1>7. g \in LoopSteps(n, S) /\ \A i \in 1..n, s \in S : g[<<i, s>>] = s \o L(i)
  BY <1>3 DEF LoopSteps
<1>8. Text(ds) = FlattenSeq(lines)
  BY DEF Text, lines, L, n
<1> HIDE DEF g, lines
<1>9. Lines(<<>>, ds, 0)
  BY DEF Lines
<1>10. CASE n = 0
  <2>1. Text(ds) = lines /\ lines = <<>>
    BY <1>6, <1>8, <1>10 DEF FlattenSeq, lines
  <2> QED
    BY <1>9, <1>10, <2>1 DEF n
<1>11. CASE n # 0
  <2>1. PICK f \in [0..n -> S] : f[0] = <<>> /\ \A i \in 1..n : f[i] = g[<<i, f[i - 1]>>]
    <3> DEFINE b == <<>>
    <3>1. b \in S
      BY <1>1
    <3> HIDE DEF b
    <3>2. \E f \in Values(n, S) : Runs(f, n, b, g)
      BY <1>1, <1>7, <3>1, Iterates
    <3> QED
      BY <3>2 DEF b, Runs, Values
  <2>2. \A i \in 1..n : i - 1 \in 0..n /\ i \in 0..n /\ (i # 1 => i - 1 \in 1..n) /\ (i = 1 => i - 1 = 0)
    BY <1>1
  <2>3. \A i \in 1..n : f[i] = f[i - 1] \o L(i)
    BY <1>7, <2>1, <2>2
  <2> DEFINE f1 == [i \in 1..n |-> f[i]]
  <2>4. Is(f1)
    <3>1. ASSUME NEW i \in 1..n PROVE f[i] = IF i = 1 THEN lines[i] ELSE f1[i - 1] \o lines[i]
      <4>1. CASE i = 1
        <5>1. f[i] = f[0] \o L(i) /\ f[0] = <<>>
          BY <2>1, <2>2, <2>3, <4>1
        <5>2. f[i] = L(i)
          BY <1>4, <5>1
        <5> QED
          BY <1>5, <4>1, <5>2
      <4>2. CASE i # 1
        <5>1. f1[i - 1] = f[i - 1]
          BY <2>2, <4>2
        <5> HIDE DEF f1
        <5> QED
          BY <1>5, <2>3, <4>2, <5>1
      <4> QED
        BY <4>1, <4>2
    <3> QED
      BY <3>1
  <2> DEFINE c == CHOOSE x : Is(x)
  <2>5. Is(c) /\ Text(ds) = c[n]
    <3>1. Is(c)
      BY <2>4, Zenon
    <3>2. Text(ds) = c[n]
      BY <1>6, <1>8, <1>11 DEF FlattenSeq
    <3> QED
      BY <3>1, <3>2
  <2> HIDE DEF c, f1
  <2>6. \A i \in 1..n : c[i] = IF i = 1 THEN L(i) ELSE c[i - 1] \o L(i)
    BY <1>5, <2>5
  <2> HIDE DEF Is
  <2> DEFINE Bad == {i \in 1..n : ~Lines(c[i], ds, i)}
  <2>7. CASE Bad = {}
    <3>1. n \in 1..n
      BY <1>1, <1>11
    <3> QED
      BY <2>5, <2>7, <3>1 DEF n
  <2>8. CASE Bad # {}
    <3>1. Bad \subseteq Nat
      BY <1>1
    <3> DEFINE m == Min(Bad)
    <3>2. m \in Bad /\ \A k \in Bad : m <= k
      <4> HIDE DEF Bad
      <4> QED
        BY <2>8, <3>1, LeastNumber
    <3> HIDE DEF m
    <3>3. m \in 1..n /\ m \in Nat /\ ~Lines(c[m], ds, m)
      BY <1>1, <3>2
    <3>4. m - 1 \in Nat /\ (m - 1) + 1 = m /\ ~(m <= m - 1) /\ (m # 1 => m - 1 \in 1..n /\ m - 1 # 0)
      BY <1>1, <3>3
    <3>5. CASE m = 1
      <4>1. c[1] = <<>> \o L(1)
        BY <1>4, <2>6, <3>3, <3>5
      <4>2. Lines(<<>> \o L(1), ds, 1)
        <5>1. 0 + 1 = 1 /\ 0 + 1 \in 1..Len(ds) /\ 0 \in Nat
          BY <3>3, <3>5 DEF n
        <5>2. Lines(<<>> \o Line(ds[0 + 1]), ds, 0 + 1)
          BY <1>9, <5>1, OneMoreLine
        <5> QED
          BY <5>1, <5>2 DEF L
      <4> QED
        BY <3>3, <3>5, <4>1, <4>2
    <3>6. CASE m # 1
      <4> DEFINE k == m - 1
                 t == c[m - 1]
      <4>1. Lines(t, ds, k) /\ c[m] = t \o L(m)
        BY <2>6, <3>2, <3>3, <3>4, <3>6
      <4>2. k \in Nat /\ k # 0 /\ k + 1 = m /\ k + 1 \in 1..Len(ds)
        BY <3>3, <3>4, <3>6 DEF n
      <4> HIDE DEF k, t
      <4>3. Lines(t \o Line(ds[k + 1]), ds, k + 1)
        BY <4>1, <4>2, OneMoreLine
      <4> QED
        BY <3>3, <4>1, <4>2, <4>3 DEF L
    <3> QED
      BY <3>5, <3>6
  <2> QED
    BY <2>7, <2>8
<1> QED
  BY <1>10, <1>11

(* ds are domains, and text has a line of its own for each of them. *)
Complete(text, ds) ==
    /\ text \in Seq(Cell) /\ ds \in Seq(Domain)
    /\ \A d \in ToSet(ds) : HasLine(text, d)

(* Writing all bytes of a list over what was there gives each of its domains a line. *)
LEMMA WholeWrite ==
    ASSUME NEW ds \in Seq(Domain), NEW old \in Seq(Cell)
    PROVE  Complete(Overwrite(old, SubSeq(Text(ds), 1, Len(Text(ds)))), ds)
<1> DEFINE t == Text(ds)
           rest == SubSeq(old, Len(t) + 1, Len(old))
           u == t \o rest
<1>1. Lines(t, ds, Len(ds))
  BY TextLines
<1> HIDE DEF t
<1>2. t \in Seq(Cell)
  BY <1>1 DEF Lines
<1>3. SubSeq(t, 1, Len(t)) = t
  BY <1>2
<1>4. rest \in Seq(Cell)
  BY <1>2
<1>5. Overwrite(old, SubSeq(t, 1, Len(t))) = u
  BY <1>3 DEF Overwrite
<1> HIDE DEF rest
<1>6. /\ u \in Seq(Cell) /\ Len(u) = Len(t) + Len(rest)
      /\ \A i \in 1..Len(t) : u[i] = t[i]
  BY <1>2, <1>4
<1>7. Len(t) \in Nat /\ Len(rest) \in Nat
  BY <1>2, <1>4
<1> HIDE DEF u
<1>8. ASSUME NEW d \in ToSet(ds)
      PROVE  HasLine(u, d)
  <2>1. PICK j \in 1..Len(ds) : d = ds[j]
    BY DEF ToSet
  <2>2. HasLine(t, d) /\ d \in Domain
    BY <1>1, <2>1 DEF Lines
  <2>3. Len(t) <= Len(u)
    BY <1>6, <1>7
  <2> QED
    BY <1>2, <1>6, <2>2, <2>3, LongerText
<1> QED
  BY <1>5, <1>6, <1>8 DEF Complete, t

(* Any bytes written over a file leave a file. *)
LEMMA PartialWrite ==
    ASSUME NEW ds \in Seq(Domain), NEW old \in Seq(Cell), NEW n \in 0..Len(Text(ds))
    PROVE  Overwrite(old, SubSeq(Text(ds), 1, n)) \in Seq(Cell)
<1> DEFINE t == Text(ds)
           new == SubSeq(t, 1, n)
           rest == SubSeq(old, Len(new) + 1, Len(old))
<1>1. Lines(t, ds, Len(ds)) /\ n \in 0..Len(t)
  BY TextLines
<1>0. Overwrite(old, new) = new \o rest
  BY DEF Overwrite
<1> HIDE DEF t
<1>2. t \in Seq(Cell)
  BY <1>1 DEF Lines
<1>3. new \in Seq(Cell)
  BY <1>1, <1>2
<1> HIDE DEF new
<1>4. rest \in Seq(Cell)
  BY <1>3
<1> HIDE DEF rest
<1>5. new \o rest \in Seq(Cell)
  BY <1>3, <1>4
<1> QED
  BY <1>0, <1>5 DEF new, t

(* A fetch gives domains. *)
LEMMA FetchedDomains ==
    ASSUME NEW k \in Written
    PROVE  Fetched(k) \subseteq Seq(Domain)
<1>1. /\ Feed["majestic"] \subseteq Seq(Domain) /\ Feed["phishTank"] \subseteq Seq(Domain)
      /\ Feed["openPhish"] \cup {<<>>} \subseteq Seq(Domain)
  <2>1. \A s \in Source : Feed[s] \subseteq Seq(Domain)
    BY UpdaterAssumption
  <2>2. <<>> \in Seq(Domain)
    OBVIOUS
  <2> QED
    BY <2>1, <2>2, Zenon DEF Source
<1>2. \A first, second \in Seq(Domain) : first \o second \in Seq(Domain)
  OBVIOUS
<1>3. \A first, second \in Seq(Domain) : NoRepeats(first \o second) \in Seq(Domain)
  BY <1>2, NoRepeatsType
<1>4. CASE k = "whitelist"
  BY <1>1, <1>4 DEF Fetched
<1>5. CASE k # "whitelist"
  <2>1. Fetched(k) = {NoRepeats(first \o second) : first \in Feed["phishTank"],
                                                  second \in Feed["openPhish"] \cup {<<>>}}
    BY <1>5 DEF Fetched
  <2>2. ASSUME NEW x \in Fetched(k) PROVE x \in Seq(Domain)
    <3>1. PICK first \in Feed["phishTank"], second \in Feed["openPhish"] \cup {<<>>} :
              x = NoRepeats(first \o second)
      BY <2>1, <2>2
    <3>2. first \in Seq(Domain) /\ second \in Seq(Domain)
      BY <1>1, <3>1, Zenon
    <3> QED
      BY <1>3, <3>1, <3>2
  <2> QED
    BY <2>2
<1> QED
  BY <1>4, <1>5

(* A process in step s is going to publish what is in the .new.txt of list j. *)
Pending(s, j) ==
    \/ s.pc = "write" /\ s.k = "blacklist" /\ j = "whitelist"
    \/ s.pc \in {"number", "rename"} /\ (s.k = "whitelist" \/ j = "blacklist")

(* The files and their history have their types, and lines for every domain that was fetched. *)
ListsInv ==
    /\ newFile \in [Written -> Seq(Cell)] /\ made \in [Written -> Seq(Domain)]
    /\ lockfile \in Updater \cup {Nobody}
    /\ DOMAIN source = Written
    /\ \A k \in Written : /\ DOMAIN source[k] = DOMAIN files[k]
                          /\ \A n \in DOMAIN files[k] : Complete(files[k][n], source[k][n])

(* What is pending is complete. *)
PendingInv == \A u \in Updater : \A j \in Written : Pending(upd[u], j) => Complete(newFile[j], made[j])

(* A process that is under way is the only one with something pending. *)
LEMMA OnlyOnePending ==
    ASSUME IInv, NEW u \in Updater, upd[u].pc # "down", NEW s, upd' = [upd EXCEPT ![u] = s],
           \A j \in Written : Pending(s, j) => Complete(newFile'[j], made'[j])
    PROVE  PendingInv'
<1>1. upd \in [Updater -> Step]
  BY DEF IInv
<1>2. ASSUME NEW v \in Updater, v # u, NEW j \in Written PROVE ~Pending(upd'[v], j)
  BY <1>1, <1>2, OnlyOne DEF Pending
<1>3. upd'[u] = s
  BY <1>1
<1> QED
  BY <1>2, <1>3 DEF PendingInv

(* Steps that touch no file: nothing new is pending after them. *)
LEMMA IdleStep ==
    ASSUME IInv, ListsInv, PendingInv, NEW u \in Updater,
           Launch(u) \/ Die(u) \/ NextNumber(u) \/ StepFails(u) \/ ListOld(u) \/ Notify(u) \/ Wake(u)
    PROVE  ListsInv' /\ PendingInv'
<1>1. UNCHANGED <<files, newFile, made, source>>
  BY DEF Launch, Die, NextNumber, StepFails, ListOld, Notify, Wake
<1>2. lockfile' \in Updater \cup {Nobody}
  BY DEF ListsInv, Launch, Die, NextNumber, StepFails, ListOld, Notify, Wake
<1>3. ListsInv'
  BY <1>1, <1>2 DEF ListsInv
<1>4. upd \in [Updater -> Step]
  BY DEF IInv
<1>5. PICK s : upd' = [upd EXCEPT ![u] = s] /\ \A j \in Written : Pending(s, j) => Pending(upd[u], j)
  <2>1. CASE NextNumber(u)
    <3> DEFINE s == [upd[u] EXCEPT !.pc = "rename", !.n = NumberAfter(files[upd[u].k])]
    <3>1. upd' = [upd EXCEPT ![u] = s] /\ upd[u].pc = "number" /\ upd[u] \in Step
      BY <1>4, <2>1 DEF NextNumber
    <3>2. s.k = upd[u].k /\ s.pc = "rename"
      BY <3>1 DEF Step
    <3> HIDE DEF s
    <3> QED
      BY <3>1, <3>2 DEF Pending
  <2>2. CASE ListOld(u)
    <3>1. PICK numbers \in SUBSET DOMAIN files[upd[u].k] :
             upd' = [upd EXCEPT ![u].pc = "remove", ![u].old = OldNumbers(numbers)]
      BY <2>2 DEF ListOld
    <3> DEFINE s == [upd[u] EXCEPT !.pc = "remove", !.old = OldNumbers(numbers)]
    <3>2. upd' = [upd EXCEPT ![u] = s] /\ upd[u] \in Step
      BY <1>4, <3>1
    <3>3. s.pc = "remove"
      BY <3>2 DEF Step
    <3> HIDE DEF s
    <3> QED
      BY <3>2, <3>3 DEF Pending
  <2>3. CASE Launch(u) \/ Wake(u)
    <3> DEFINE s == [Down EXCEPT !.pc = "write"]
    <3>1. upd' = [upd EXCEPT ![u] = s]
      BY <2>3 DEF Launch, Wake
    <3>2. s.pc = "write" /\ s.k = "whitelist"
      BY DEF Down
    <3> HIDE DEF s
    <3> QED
      BY <3>1, <3>2 DEF Pending
  <2>4. CASE StepFails(u) \/ Notify(u)
    <3> DEFINE s == [Down EXCEPT !.pc = "sleep"]
    <3>1. upd' = [upd EXCEPT ![u] = s]
      BY <2>4 DEF StepFails, Notify
    <3>2. s.pc = "sleep"
      BY DEF Down
    <3> HIDE DEF s
    <3> QED
      BY <3>1, <3>2 DEF Pending
  <2>5. CASE Die(u)
    <3>1. upd' = [upd EXCEPT ![u] = Down] /\ Down.pc = "down"
      BY <2>5 DEF Die, Down
    <3> QED
      BY <3>1 DEF Pending
  <2> QED
    BY <2>1, <2>2, <2>3, <2>4, <2>5
<1>6. ASSUME NEW v \in Updater, NEW j \in Written, Pending(upd'[v], j) PROVE Pending(upd[v], j)
  BY <1>4, <1>5, <1>6
<1>7. ASSUME NEW j \in Written PROVE Complete(newFile[j], made[j]) => Complete(newFile'[j], made'[j])
  BY <1>1
<1> QED
  BY <1>3, <1>6, <1>7 DEF PendingInv

(* writeWhitelist and writeBlacklist go on only when every byte is written. *)
LEMMA WriteStep ==
    ASSUME IInv, ListsInv, PendingInv, NEW u \in Updater, WriteList(u)
    PROVE  ListsInv' /\ PendingInv'
<1> DEFINE k == upd[u].k
<1>1. upd \in [Updater -> Step] /\ upd[u].pc = "write" /\ UNCHANGED <<files, lockfile, source>>
  BY DEF IInv, WriteList
<1>2. k \in Written /\ newFile \in [Written -> Seq(Cell)] /\ made \in [Written -> Seq(Domain)]
  BY <1>1 DEF Step, ListsInv
<1>3. PICK ds \in Fetched(k) : \E n \in 0..Len(Text(ds)) :
         /\ newFile' = [newFile EXCEPT ![k] = Overwrite(@, SubSeq(Text(ds), 1, n))]
         /\ IF n = Len(Text(ds))
              THEN /\ made' = [made EXCEPT ![k] = ds]
                   /\ Goto(u, "write", "number")
              ELSE /\ upd' = [upd EXCEPT ![u] = [Down EXCEPT !.pc = "sleep"]]
                   /\ UNCHANGED made
  BY Zenon DEF WriteList
<1>4. PICK n \in 0..Len(Text(ds)) :
         /\ newFile' = [newFile EXCEPT ![k] = Overwrite(@, SubSeq(Text(ds), 1, n))]
         /\ IF n = Len(Text(ds))
              THEN /\ made' = [made EXCEPT ![k] = ds]
                   /\ Goto(u, "write", "number")
              ELSE /\ upd' = [upd EXCEPT ![u] = [Down EXCEPT !.pc = "sleep"]]
                   /\ UNCHANGED made
  BY <1>3
<1>5. ds \in Seq(Domain)
  BY <1>2, FetchedDomains
<1> DEFINE text == Overwrite(newFile[k], SubSeq(Text(ds), 1, n))
<1>6. text \in Seq(Cell) /\ newFile' = [newFile EXCEPT ![k] = text]
  BY <1>2, <1>4, <1>5, PartialWrite
<1>7. n = Len(Text(ds)) => Complete(text, ds)
  BY <1>2, <1>5, WholeWrite
<1> HIDE DEF text
<1>8. newFile' \in [Written -> Seq(Cell)] /\ made' \in [Written -> Seq(Domain)]
  BY <1>2, <1>4, <1>5, <1>6
<1>9. ListsInv'
  BY <1>1, <1>8 DEF ListsInv
<1>10. CASE n # Len(Text(ds))
  <2> DEFINE s == [Down EXCEPT !.pc = "sleep"]
  <2>1. upd' = [upd EXCEPT ![u] = s] /\ s.pc = "sleep"
    BY <1>4, <1>10 DEF Down
  <2> HIDE DEF s
  <2>2. \A j \in Written : ~Pending(s, j)
    BY <2>1 DEF Pending
  <2>3. PendingInv'
    BY <1>1, <2>1, <2>2, OnlyOnePending
  <2> QED
    BY <1>9, <2>3
<1>11. CASE n = Len(Text(ds)) /\ k = "whitelist"
  <2> DEFINE s == [Down EXCEPT !.pc = "write", !.k = "blacklist"]
  <2>1. upd' = [upd EXCEPT ![u] = s]
    BY <1>1, <1>4, <1>11 DEF Goto
  <2>2. s.pc = "write"
    BY DEF Down
  <2> HIDE DEF s
  <2>3. ASSUME NEW j \in Written, Pending(s, j) PROVE Complete(newFile'[j], made'[j])
    <3>1. j = k
      BY <1>11, <2>2, <2>3 DEF Pending
    <3>2. newFile'[k] = text /\ made'[k] = ds
      BY <1>2, <1>4, <1>6, <1>11
    <3> QED
      BY <1>7, <1>11, <3>1, <3>2
  <2>4. PendingInv'
    BY <1>1, <2>1, <2>3, OnlyOnePending
  <2> QED
    BY <1>9, <2>4
<1>12. CASE n = Len(Text(ds)) /\ k = "blacklist"
  <2> DEFINE s == [Down EXCEPT !.pc = "number"]
  <2>1. upd' = [upd EXCEPT ![u] = s]
    BY <1>1, <1>4, <1>12 DEF Goto
  <2> HIDE DEF s
  <2>2. newFile'[k] = text /\ made'[k] = ds
    BY <1>2, <1>4, <1>6, <1>12
  <2>3. newFile'["whitelist"] = newFile["whitelist"] /\ made'["whitelist"] = made["whitelist"]
    BY <1>2, <1>4, <1>6, <1>12 DEF Written
  <2>4. Pending(upd[u], "whitelist")
    BY <1>1, <1>12 DEF Pending
  <2>5. Complete(newFile["whitelist"], made["whitelist"])
    BY <2>4 DEF PendingInv, Written
  <2>6. \A j \in Written : Complete(newFile'[j], made'[j])
    BY <1>7, <1>12, <2>2, <2>3, <2>5 DEF Written
  <2>7. PendingInv'
    BY <1>1, <2>1, <2>6, OnlyOnePending
  <2> QED
    BY <1>9, <2>7
<1> QED
  BY <1>2, <1>10, <1>11, <1>12 DEF Written

(* What is published is complete. *)
LEMMA RenameStep ==
    ASSUME IInv, ListsInv, PendingInv, NEW u \in Updater, Rename(u)
    PROVE  ListsInv' /\ PendingInv'
<1> DEFINE k == upd[u].k
           m == upd[u].n
<1>1. upd \in [Updater -> Step] /\ upd[u].pc = "rename" /\ UNCHANGED <<lockfile, made>>
  BY DEF IInv, Rename
<1>2. k \in Written /\ k \in Kind /\ newFile \in [Written -> Seq(Cell)]
  BY <1>1 DEF Step, ListsInv, Written, Kind
<1>3. /\ files' = [files EXCEPT ![k] = AddFile(@, m, newFile[k])]
      /\ source' = [source EXCEPT ![k] = AddFile(@, m, made[k])]
      /\ newFile' = [newFile EXCEPT ![k] = <<>>]
      /\ Goto(u, "number", "list")
  BY DEF Rename
<1>4. Complete(newFile[k], made[k])
  <2>1. Pending(upd[u], k)
    BY <1>1, <1>2 DEF Pending, Written
  <2> QED
    BY <1>2, <2>1 DEF PendingInv
<1>5. newFile' \in [Written -> Seq(Cell)]
  <2>1. <<>> \in Seq(Cell)
    OBVIOUS
  <2> QED
    BY <1>2, <1>3, <2>1
<1>6. DOMAIN files = Kind /\ DOMAIN source = Written /\ Written \subseteq Kind
  BY DEF IInv, DirInv, ListsInv, Written, Kind
<1> HIDE DEF m
<1>7. /\ files'[k] = AddFile(files[k], m, newFile[k]) /\ source'[k] = AddFile(source[k], m, made[k])
      /\ DOMAIN source' = Written
      /\ \A j \in Written \ {k} : files'[j] = files[j] /\ source'[j] = source[j]
  <2> HIDE DEF k
  <2> QED
    BY <1>2, <1>3, <1>6
<1>8. ASSUME NEW j \in Written
      PROVE  /\ DOMAIN source'[j] = DOMAIN files'[j]
             /\ \A n \in DOMAIN files'[j] : Complete(files'[j][n], source'[j][n])
  <2>1. /\ DOMAIN source[j] = DOMAIN files[j]
        /\ \A n \in DOMAIN files[j] : Complete(files[j][n], source[j][n])
    BY DEF ListsInv
  <2> HIDE DEF k
  <2>2. CASE j # k
    BY <1>7, <2>1, <2>2
  <2>3. CASE j = k
    <3>1. DOMAIN files'[k] = DOMAIN files[k] \cup {m} /\ DOMAIN source'[k] = DOMAIN files[k] \cup {m}
      BY <1>7, <2>1, <2>3 DEF AddFile
    <3>2. \A n \in DOMAIN files[k] \cup {m} :
             /\ files'[k][n] = IF n = m THEN newFile[k] ELSE files[k][n]
             /\ source'[k][n] = IF n = m THEN made[k] ELSE source[k][n]
      BY <1>7, <2>1, <2>3 DEF AddFile
    <3> QED
      BY <1>4, <2>1, <2>3, <3>1, <3>2
  <2> QED
    BY <2>2, <2>3
<1>9. ListsInv'
  BY <1>1, <1>5, <1>7, <1>8 DEF ListsInv
<1>10. CASE k = "whitelist"
  <2> DEFINE s == [Down EXCEPT !.pc = "number", !.k = "blacklist"]
  <2>1. upd' = [upd EXCEPT ![u] = s]
    BY <1>1, <1>3, <1>10 DEF Goto
  <2>2. s.pc = "number" /\ s.k = "blacklist"
    BY DEF Down
  <2> HIDE DEF s
  <2>3. Pending(upd[u], "blacklist") /\ "blacklist" \in Written
    BY <1>1, <1>10 DEF Pending, Written
  <2>4. newFile'["blacklist"] = newFile["blacklist"]
    BY <1>2, <1>3, <1>10, <2>3
  <2>5. Complete(newFile'["blacklist"], made'["blacklist"])
    BY <1>1, <2>3, <2>4 DEF PendingInv
  <2>6. \A j \in Written : Pending(s, j) => j = "blacklist"
    BY <2>2 DEF Pending
  <2>7. PendingInv'
    BY <1>1, <2>1, <2>5, <2>6, OnlyOnePending
  <2> QED
    BY <1>9, <2>7
<1>11. CASE k # "whitelist"
  <2> DEFINE s == [Down EXCEPT !.pc = "list"]
  <2>1. upd' = [upd EXCEPT ![u] = s] /\ s.pc = "list"
    BY <1>1, <1>3, <1>11 DEF Goto, Down
  <2> HIDE DEF s
  <2>2. \A j \in Written : ~Pending(s, j)
    BY <2>1 DEF Pending
  <2>3. PendingInv'
    BY <1>1, <2>1, <2>2, OnlyOnePending
  <2> QED
    BY <1>9, <2>3
<1> QED
  BY <1>10, <1>11

(* A file goes with its history. *)
LEMMA RemoveStep ==
    ASSUME IInv, ListsInv, PendingInv, NEW u \in Updater, removeOld(u)
    PROVE  ListsInv' /\ PendingInv'
<1> DEFINE k == upd[u].k
<1>1. upd \in [Updater -> Step] /\ upd[u].pc = "remove" /\ UNCHANGED <<newFile, lockfile, made>>
  BY DEF IInv, removeOld
<1>2. k \in Written /\ k \in Kind
  BY <1>1 DEF Step, Written, Kind
<1>3. DOMAIN files = Kind /\ DOMAIN source = Written /\ Written \subseteq Kind
  BY DEF IInv, DirInv, ListsInv, Written, Kind
<1>4. ListsInv'
  <2>1. CASE UNCHANGED <<files, source>>
    BY <1>1, <2>1 DEF ListsInv
  <2>2. CASE \E n : /\ files' = [files EXCEPT ![k] = DropFile(@, n)]
                    /\ source' = [source EXCEPT ![k] = DropFile(@, n)]
    <3>1. PICK n : /\ files' = [files EXCEPT ![k] = DropFile(@, n)]
                   /\ source' = [source EXCEPT ![k] = DropFile(@, n)]
      BY <2>2
    <3> HIDE DEF k
    <3>2. /\ files'[k] = DropFile(files[k], n) /\ source'[k] = DropFile(source[k], n)
          /\ DOMAIN source' = Written
          /\ \A j \in Written \ {k} : files'[j] = files[j] /\ source'[j] = source[j]
      BY <1>2, <1>3, <3>1
    <3>3. ASSUME NEW j \in Written
          PROVE  /\ DOMAIN source'[j] = DOMAIN files'[j]
                 /\ \A m \in DOMAIN files'[j] : Complete(files'[j][m], source'[j][m])
      <4>1. /\ DOMAIN source[j] = DOMAIN files[j]
            /\ \A m \in DOMAIN files[j] : Complete(files[j][m], source[j][m])
        BY DEF ListsInv
      <4>2. CASE j # k
        BY <3>2, <4>1, <4>2
      <4>3. CASE j = k
        <5>1. DOMAIN files'[k] = DOMAIN files[k] \ {n} /\ DOMAIN source'[k] = DOMAIN files[k] \ {n}
          BY <3>2, <4>1, <4>3 DEF DropFile
        <5>2. \A m \in DOMAIN files[k] \ {n} : files'[k][m] = files[k][m] /\ source'[k][m] = source[k][m]
          BY <3>2, <4>1, <4>3 DEF DropFile
        <5> QED
          BY <4>1, <4>3, <5>1, <5>2
      <4> QED
        BY <4>2, <4>3
    <3> QED
      BY <1>1, <3>2, <3>3 DEF ListsInv
  <2>3. \/ UNCHANGED <<files, source>>
        \/ /\ files' = [files EXCEPT ![k] = DropFile(@, Min(upd[u].old))]
           /\ source' = [source EXCEPT ![k] = DropFile(@, Min(upd[u].old))]
    BY Zenon DEF removeOld
  <2> QED
    BY <2>1, <2>2, <2>3
<1>5. PICK s : upd' = [upd EXCEPT ![u] = s] /\ s.pc \in {"list", "notify", "remove"}
  <2>1. CASE upd' = [upd EXCEPT ![u].old = @ \ {Min(upd[u].old)}]
    <3> DEFINE s == [upd[u] EXCEPT !.old = @ \ {Min(upd[u].old)}]
    <3>1. upd' = [upd EXCEPT ![u] = s] /\ upd[u] \in Step
      BY <1>1, <2>1
    <3>2. s.pc = "remove"
      BY <1>1, <3>1 DEF Step
    <3> HIDE DEF s
    <3> QED
      BY <3>1, <3>2
  <2>2. CASE Goto(u, "list", "notify")
    <3>1. \/ upd' = [upd EXCEPT ![u] = [Down EXCEPT !.pc = "notify"]]
          \/ upd' = [upd EXCEPT ![u] = [Down EXCEPT !.pc = "list", !.k = "blacklist"]]
      BY <2>2 DEF Goto
    <3>2. [Down EXCEPT !.pc = "notify"].pc = "notify" /\ [Down EXCEPT !.pc = "list", !.k = "blacklist"].pc = "list"
      BY DEF Down
    <3> QED
      BY <3>1, <3>2
  <2> QED
    BY <2>1, <2>2, Zenon DEF removeOld
<1>6. \A j \in Written : ~Pending(s, j)
  BY <1>5 DEF Pending
<1>7. PendingInv'
  BY <1>1, <1>5, <1>6, OnlyOnePending
<1> QED
  BY <1>4, <1>7

(* Initially there are no files and nobody is under way. *)
LEMMA ListsInit == Init => ListsInv /\ PendingInv
<1> SUFFICES ASSUME Init PROVE ListsInv /\ PendingInv
  OBVIOUS
<1>1. <<>> \in Seq(Cell) /\ <<>> \in Seq(Domain)
  OBVIOUS
<1>2. newFile \in [Written -> Seq(Cell)] /\ made \in [Written -> Seq(Domain)]
  BY <1>1 DEF Init
<1>3. \A k \in Written : DOMAIN source[k] = {} /\ DOMAIN files[k] = {}
  BY DEF Init, DirInit, NoFiles, Written, Kind
<1>4. ListsInv
  BY <1>2, <1>3 DEF Init, ListsInv
<1>5. \A u \in Updater : upd[u].pc = "down"
  BY DEF Init, Down
<1>6. PendingInv
  BY <1>5 DEF PendingInv, Pending
<1> QED
  BY <1>4, <1>6

(* Every step keeps the lists complete. *)
LEMMA ListsStep ==
    IInv /\ ListsInv /\ PendingInv /\ [Next]_vars => ListsInv' /\ PendingInv'
<1> SUFFICES ASSUME IInv, ListsInv, PendingInv, [Next]_vars PROVE ListsInv' /\ PendingInv'
  OBVIOUS
<1>1. CASE UNCHANGED vars
  BY <1>1 DEF vars, ListsInv, PendingInv
<1>2. CASE Next
  <2>1. PICK u \in Updater : Launch(u) \/ process(u) \/ Notify(u) \/ Wake(u) \/ Die(u)
    BY <1>2 DEF Next
  <2> QED
    BY <2>1, IdleStep, WriteStep, RenameStep, RemoveStep DEF process
<1> QED
  BY <1>1, <1>2

(* Type correctness of the directory, the .new.txt files and the processes. *)
THEOREM TypeCorrect == Spec => []TypeOK
<1>1. IInv /\ ListsInv => TypeOK
  BY DEF IInv, DirInv, ListsInv, TypeOK, Step, Numbers
<1> QED
  BY <1>1, InitInv, StepInv, ListsInit, ListsStep, PTL DEF Spec

(* Every line, with its newline, fits into the buffer of bufio.Reader. *)
LinesFit == \A d \in Domain : Width[d] <= BufSize

(* parseList finds a domain that has a line. *)
LEMMA LineIsRead ==
    ASSUME LinesFit, NEW f \in Seq(Cell), NEW d \in Domain, HasLine(f, d)
    PROVE  NameOf(d) \in parseList(f)
<1> DEFINE w == Width[d]
<1>1. PICK a \in Nat : /\ a + w <= Len(f)
                       /\ LineStart(f, a + 1)
                       /\ \A c \in 1..w : f[a + c] = <<d, c>>
  BY DEF HasLine
<1>2. w \in Nat /\ w > 1 /\ BufSize \in Nat /\ w <= BufSize
  BY FormatAssumption DEF LinesFit
<1> DEFINE i == a + 1
           j == a + w - 1
           name == SubSeq(f, i, j)
<1>3. \A b \in i..j : ~Newline(f[b])
  <2> SUFFICES ASSUME NEW b \in i..j PROVE ~Newline(f[b])
    OBVIOUS
  <2> DEFINE c == b - a
  <2>1. c \in 1..w /\ c # w /\ a + c = b
    BY <1>2
  <2> HIDE DEF c
  <2>2. f[b] = <<d, c>>
    BY <1>1, <2>1
  <2> QED
    BY <2>1, <2>2 DEF Newline
<1>4. Newline(f[j + 1])
  <2>1. w \in 1..w /\ j + 1 = a + w
    BY <1>2
  <2>2. f[j + 1] = <<d, w>>
    BY <1>1, <2>1
  <2> QED
    BY <2>2 DEF Newline
<1>5. i \in 1..Len(f) /\ j \in 1..Len(f) /\ i <= j
  BY <1>1, <1>2
<1>6. <<i, j>> \in TextLine(f)
  <2>1. IsLine(f, i, j)
    BY <1>1, <1>3, <1>4 DEF IsLine
  <2> HIDE DEF i, j
  <2> QED
    BY <1>5, <2>1 DEF TextLine
<1>7. name = NameOf(d) /\ name \in Seq(Cell) /\ Len(name) = w - 1
  <2> DEFINE m == w - 1
  <2>1. m \in Nat /\ (j - i) + 1 = m /\ \A c \in 1..m : i + c - 1 = a + c /\ c \in 1..w
    BY <1>2
  <2> HIDE DEF m, i, j
  <2>2. /\ name \in Seq(Cell) /\ Len(name) = m
        /\ \A c \in 1..m : name[c] = f[i + c - 1]
    BY <1>5, <2>1, SubSeqProperties
  <2> HIDE DEF name
  <2>3. \A c \in 1..m : name[c] = <<d, c>>
    BY <1>1, <2>1, <2>2
  <2>4. DOMAIN name = 1..m /\ name = [c \in 1..m |-> name[c]]
    BY <2>2
  <2>5. name = [c \in 1..m |-> <<d, c>>]
    BY <2>3, <2>4
  <2> QED
    BY <2>2, <2>5 DEF NameOf, m, w
<1> HIDE DEF name
<1>8. LastChunk(name) = name /\ name # <<>>
  <2>1. (w - 1) % BufSize = w - 1
    BY <1>2
  <2>2. Len(name) - (Len(name) % BufSize) + 1 = 1
    BY <1>2, <1>7, <2>1
  <2>3. LastChunk(name) = SubSeq(name, 1, Len(name))
    BY <2>2 DEF LastChunk
  <2> QED
    BY <1>2, <1>7, <2>3
<1>9. LastChunk(SubSeq(f, i, j)) \in {LastChunk(SubSeq(f, p[1], p[2])) : p \in TextLine(f)}
  <2> HIDE DEF i, j
  <2> QED
    BY <1>6
<1> QED
  BY <1>7, <1>8, <1>9 DEF parseList, name

(***************************************************************************)
(* Names that fit into the reader's buffer of 4096 bytes (a domain name    *)
(* has at most 253): what doh-server reads from a published list has every *)
(* domain of the fetch it was published from, through failed fetches and   *)
(* writes, deaths of the process and leftovers of earlier rounds.          *)
(***************************************************************************)
THEOREM PublishedListsAreComplete ==
    ASSUME LinesFit
    PROVE  Spec => []PublishedListIsComplete
<1>1. ListsInv => PublishedListIsComplete
  <2> SUFFICES ASSUME ListsInv, NEW k \in Written, NEW n \in DOMAIN files[k],
                      NEW d \in ToSet(source[k][n])
               PROVE  NameOf(d) \in parseList(files[k][n])
    BY DEF PublishedListIsComplete
  <2>1. files[k][n] \in Seq(Cell) /\ HasLine(files[k][n], d) /\ d \in Domain
    <3>1. source[k][n] \in Seq(Domain)
      BY DEF ListsInv, Complete
    <3>2. d \in Domain
      BY <3>1 DEF ToSet
    <3> QED
      BY <3>2 DEF ListsInv, Complete
  <2> QED
    BY <2>1, LineIsRead
<1> QED
  BY <1>1, InitInv, StepInv, ListsInit, ListsStep, PTL DEF Spec
===============================================================================
