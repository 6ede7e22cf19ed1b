----------------------- MODULE DownloadManager_proofs -----------------------
(***************************************************************************)
(* What DownloadManager states, for any number of files, keys, crashes  *)
(* and simultaneous Downloads: the safety invariants, and that the download*)
(* manager implements Transfers.                                           *)
(***************************************************************************)
EXTENDS DownloadManager, FiniteSetTheorems, TLAPS

-----------------------------------------------------------------------------
(* Sequences *)

LEMMA IntervalLength ==
  ASSUME NEW n \in Nat
  PROVE  Cardinality(1..n) = n
<1>1. Cardinality(1..n) = IF 1 > n THEN 0 ELSE n - 1 + 1
  BY FS_Interval
<1> QED BY <1>1

LEMMA OrdersFacts ==
  ASSUME NEW ids, IsFiniteSet(ids), NEW s \in Orders(ids)
  PROVE  /\ s \in Seq(ids) /\ Len(s) = Cardinality(ids)
         /\ SeqSet(s) = ids /\ Distinct(s)
<1> DEFINE n == Cardinality(ids)
<1>1. n \in Nat
  BY FS_CardinalityType
<1>2. s \in [1..n -> ids] /\ Distinct(s)
  BY DEF Orders
<1>3. s \in Seq(ids) /\ Len(s) = n /\ DOMAIN s = 1..n
  BY <1>1, <1>2
<1>4. s \in Injection(1..n, ids)
  BY <1>2, <1>3 DEF Distinct, Injection, IsInjective
<1>5. Cardinality(1..n) = n
  BY <1>1, IntervalLength
<1>6. s \in Surjection(1..n, ids)
  BY <1>4, <1>5, FS_Injection
<1>7. SeqSet(s) = ids
  BY <1>2, <1>3, <1>6 DEF SeqSet, Surjection
<1> QED BY <1>2, <1>3, <1>7

LEMMA SetOfSequence ==
  ASSUME NEW T, NEW s \in Seq(T)
  PROVE  SeqSet(s) \subseteq T
BY DEF SeqSet

LEMMA DistinctLength ==
  ASSUME NEW s \in Seq(Ids), Distinct(s)
  PROVE  Len(s) = Cardinality(SeqSet(s))
<1>1. IsFiniteSet(SeqSet(s))
  BY SetOfSequence, FS_Subset, DownloadAssumption
<1>2. s \in [1..Len(s) -> SeqSet(s)] /\ Len(s) \in Nat
  BY DEF SeqSet
<1>3. s \in Surjection(1..Len(s), SeqSet(s))
  BY <1>2 DEF Surjection, SeqSet
<1>4. s \in Injection(1..Len(s), SeqSet(s))
  BY <1>2 DEF Injection, IsInjective, Distinct
<1>5. Cardinality(1..Len(s)) = Cardinality(SeqSet(s))
  BY <1>1, <1>3, <1>4, FS_Injection
<1>6. Cardinality(1..Len(s)) = Len(s)
  BY <1>2, IntervalLength
<1> QED BY <1>5, <1>6

LEMMA RemoveFacts ==
  ASSUME NEW s \in Seq(Ids), NEW ids, NEW r \in Remove(s, ids)
  PROVE  /\ r \in Seq(Ids) /\ Distinct(r)
         /\ SeqSet(r) = SeqSet(s) \ ids
<1>1. SeqSet(s) \ ids \subseteq Ids
  BY SetOfSequence
<1>2. IsFiniteSet(SeqSet(s) \ ids)
  BY <1>1, FS_Subset, DownloadAssumption
<1>3. r \in Orders(SeqSet(s) \ ids)
  BY DEF Remove
<1>4. r \in Seq(SeqSet(s) \ ids)
  BY <1>2, <1>3, OrdersFacts
<1>5. r \in Seq(Ids)
  BY <1>1, <1>4
<1> QED BY <1>2, <1>3, <1>5, OrdersFacts

LEMMA AppendFacts ==
  ASSUME NEW T, NEW s \in Seq(T), NEW e \in T
  PROVE  /\ Append(s, e) \in Seq(T) /\ Len(Append(s, e)) = Len(s) + 1
         /\ SeqSet(Append(s, e)) = SeqSet(s) \cup {e}
         /\ Distinct(s) /\ e \notin SeqSet(s) => Distinct(Append(s, e))
<1> DEFINE a == Append(s, e)
<1>1. /\ a \in Seq(T) /\ Len(a) = Len(s) + 1 /\ Len(s) \in Nat
      /\ DOMAIN a = 1..(Len(s) + 1) /\ DOMAIN s = 1..Len(s)
      /\ \A i \in 1..Len(s) : a[i] = s[i]
      /\ a[Len(s) + 1] = e
  OBVIOUS
<1> HIDE DEF a
<1>2. SeqSet(a) = SeqSet(s) \cup {e}
  BY <1>1 DEF SeqSet
<1>3. ASSUME Distinct(s), e \notin SeqSet(s) PROVE Distinct(a)
  BY <1>1, <1>3 DEF SeqSet, Distinct
<1> QED BY <1>1, <1>2, <1>3 DEF a

LEMMA FrontFacts ==
  ASSUME NEW T, NEW s \in Seq(T), s # <<>>
  PROVE  /\ Front(s) \in Seq(T) /\ Len(Front(s)) = Len(s) - 1
         /\ s[Len(s)] \in SeqSet(s)
         /\ Distinct(s) => Distinct(Front(s)) /\ SeqSet(Front(s)) = SeqSet(s) \ {s[Len(s)]}
<1> DEFINE f == Front(s)
<1>1. /\ f \in Seq(T) /\ Len(f) = Len(s) - 1 /\ Len(s) \in Nat \ {0}
      /\ DOMAIN f = 1..(Len(s) - 1) /\ DOMAIN s = 1..Len(s)
      /\ \A i \in 1..(Len(s) - 1) : f[i] = s[i]
  <2>1. Len(s) \in Nat \ {0}
    OBVIOUS
  <2>2. f = [i \in 1..(Len(s) - 1) |-> s[i]]
    BY <2>1 DEF Front
  <2>3. \A i \in 1..(Len(s) - 1) : s[i] \in T
    BY <2>1
  <2> QED BY <2>1, <2>2, <2>3
<1> HIDE DEF f
<1>2. s[Len(s)] \in SeqSet(s)
  BY <1>1 DEF SeqSet
<1>3. ASSUME Distinct(s) PROVE Distinct(f) /\ SeqSet(f) = SeqSet(s) \ {s[Len(s)]}
  BY <1>1, <1>3 DEF SeqSet, Distinct
<1> QED BY <1>1, <1>2, <1>3 DEF f

-----------------------------------------------------------------------------
(* The inductive invariant *)

UnfinishedIds == {id \in Ids : disk[id].dlstate \in Unfinished}

\* A process that does not run remembers nothing.
DownIsEmpty ==
  ~up => /\ downloads = <<>> /\ pending_complete = <<>> /\ requests = <<>>
         /\ timers = {} /\ installers = {}

\* A file that was not written holds no command key.
Unnamed == \A id \in Ids : disk[id].dlstate \in {"ABSENT", "EMPTY"} => disk[id].key = NoKey

\* Accounted carries the others: the lists hold what the files call for, so that a
\* callback finds its Download in the state it left it in.
IInv ==
  /\ TypeOK
  /\ Accounted
  /\ DownloadsBounded
  /\ ResponseFindsDownload
  /\ InstalledOnce
  /\ Unnamed
  /\ DownIsEmpty

LEMMA StillBounded ==
  ASSUME IInv, TypeOK', Distinct(downloads'), SeqSet(downloads') \subseteq SeqSet(downloads),
         Distinct(downloads), UnfinishedIds' \subseteq UnfinishedIds
  PROVE  DownloadsBounded'
<1>1. IsFiniteSet(SeqSet(downloads)) /\ IsFiniteSet(UnfinishedIds)
  BY SetOfSequence, FS_Subset, DownloadAssumption DEF IInv, TypeOK, UnfinishedIds
<1>2. /\ Cardinality(SeqSet(downloads')) <= Cardinality(SeqSet(downloads))
      /\ Cardinality(UnfinishedIds') <= Cardinality(UnfinishedIds)
  BY <1>1, FS_Subset
<1>3. Len(downloads') = Cardinality(SeqSet(downloads'))
  BY DistinctLength DEF TypeOK
<1>4. Len(downloads) = Cardinality(SeqSet(downloads))
  BY DistinctLength DEF IInv, TypeOK
<1>5. /\ Cardinality(SeqSet(downloads)) \in Nat /\ Cardinality(SeqSet(downloads')) \in Nat
      /\ Cardinality(UnfinishedIds) \in Nat /\ Cardinality(UnfinishedIds') \in Nat
  BY <1>1, FS_Subset, FS_CardinalityType
<1>6. Len(downloads) <= MAXDOWNLOADS /\ Cardinality(UnfinishedIds) <= MAXDOWNLOADS
  BY DEF IInv, DownloadsBounded, UnfinishedIds
<1>7. Len(downloads') <= MAXDOWNLOADS /\ Cardinality(UnfinishedIds') <= MAXDOWNLOADS
  BY <1>2, <1>3, <1>4, <1>5, <1>6, DownloadAssumption
<1> QED BY <1>7 DEF DownloadsBounded, UnfinishedIds

\* The death of the process keeps what the files say.
LEMMA DeathKeepsFiles ==
  ASSUME IInv, Down, disk' \in [Ids -> Files], outcome' \in [Ids -> {"none", "installed", "failed"}],
         crashes' \in 0..MaxCrashes, InstalledOnce', Unnamed',
         Cardinality(UnfinishedIds') <= MAXDOWNLOADS
  PROVE  IInv'
<1>1. TypeOK'
  <2>1. <<>> \in Seq(Ids) /\ <<>> \in Seq([id : Ids, ok : BOOLEAN])
    OBVIOUS
  <2> QED BY <2>1 DEF Down, TypeOK
<1>2. Accounted' /\ DownIsEmpty'
  BY DEF Down, Accounted, DownIsEmpty
<1>3. ResponseFindsDownload'
  BY DEF Down, ResponseFindsDownload
<1>4. Len(downloads') = 0
  BY DEF Down
<1>5. DownloadsBounded'
  <2>1. Len(downloads') <= MAXDOWNLOADS /\ Cardinality(UnfinishedIds') <= MAXDOWNLOADS
    BY <1>4, DownloadAssumption
  <2> QED BY <2>1 DEF DownloadsBounded, UnfinishedIds
<1> QED BY <1>1, <1>2, <1>3, <1>5 DEF IInv

LEMMA CrashKeepsIInv ==
  ASSUME IInv, Crash \/ Reboot
  PROVE  IInv'
<1>1. Down /\ disk' = disk /\ outcome' = outcome /\ crashes' \in 0..MaxCrashes
  BY DownloadAssumption DEF IInv, TypeOK, Crash, Reboot, Crashed
<1>2. InstalledOnce' /\ Unnamed' /\ UnfinishedIds' = UnfinishedIds
  BY <1>1 DEF IInv, InstalledOnce, Unnamed, UnfinishedIds
<1>3. Cardinality(UnfinishedIds) <= MAXDOWNLOADS
  BY DEF IInv, DownloadsBounded, UnfinishedIds
<1> QED BY <1>1, <1>2, <1>3, DeathKeepsFiles DEF IInv, TypeOK

\* The Downloads that are not finished are among those of the list.
LEMMA RoomForOne ==
  ASSUME IInv, up, MayDownload
  PROVE  /\ Cardinality(UnfinishedIds) < MAXDOWNLOADS
         /\ IsFiniteSet(UnfinishedIds) /\ Cardinality(UnfinishedIds) \in Nat
<1>1. UnfinishedIds \subseteq SeqSet(downloads)
  BY DEF IInv, Accounted, UnfinishedIds, Unfinished
<1>2. IsFiniteSet(SeqSet(downloads))
  BY SetOfSequence, FS_Subset, DownloadAssumption DEF IInv, TypeOK
<1>3. Cardinality(UnfinishedIds) <= Cardinality(SeqSet(downloads)) /\ IsFiniteSet(UnfinishedIds)
  BY <1>1, <1>2, FS_Subset
<1>4. Len(downloads) = Cardinality(SeqSet(downloads))
  BY DistinctLength DEF IInv, TypeOK, Accounted
<1>5. Cardinality(UnfinishedIds) \in Nat /\ Cardinality(SeqSet(downloads)) \in Nat
  BY <1>2, <1>3, FS_CardinalityType
<1> QED BY <1>3, <1>4, <1>5, DownloadAssumption DEF MayDownload

LEMMA OneMore ==
  ASSUME IInv, up, MayDownload, NEW id \in Ids, UnfinishedIds' \subseteq UnfinishedIds \cup {id}
  PROVE  Cardinality(UnfinishedIds') <= MAXDOWNLOADS
<1>1. IsFiniteSet(UnfinishedIds \cup {id}) /\ Cardinality(UnfinishedIds \cup {id}) <= MAXDOWNLOADS
  <2> DEFINE more == UnfinishedIds \cup {id}
  <2>0. IsFiniteSet(UnfinishedIds) /\ Cardinality(UnfinishedIds) \in Nat
    BY RoomForOne
  <2>2. /\ IsFiniteSet(more)
        /\ Cardinality(more) = IF id \in UnfinishedIds THEN Cardinality(UnfinishedIds)
                               ELSE Cardinality(UnfinishedIds) + 1
    BY <2>0, FS_AddElement
  <2>1. Cardinality(more) <= Cardinality(UnfinishedIds) + 1
    BY <2>0, <2>2
  <2>3. Cardinality(UnfinishedIds \cup {id}) \in Nat
    BY <2>2, FS_CardinalityType
  <2> QED BY <2>1, <2>2, <2>3, RoomForOne, DownloadAssumption
<1>2. Cardinality(UnfinishedIds') <= Cardinality(UnfinishedIds \cup {id}) /\ IsFiniteSet(UnfinishedIds')
  BY <1>1, FS_Subset
<1>3. Cardinality(UnfinishedIds') \in Nat /\ Cardinality(UnfinishedIds \cup {id}) \in Nat
  BY <1>1, <1>2, FS_CardinalityType
<1> QED BY <1>1, <1>2, <1>3, DownloadAssumption

LEMMA NewDownloadKeepsIInv ==
  ASSUME IInv, NEW id \in Ids, NEW key \in Keys, NewDownload(id, key)
  PROVE  IInv'
<1> USE DEF NewDownload, ScheduleTimer
<1>1. /\ disk' = [disk EXCEPT ![id] = File("WAITING", key)]
      /\ disk \in [Ids -> Files] /\ disk[id].dlstate = "ABSENT" /\ up
      /\ disk'[id].dlstate = "WAITING" /\ disk'[id].key = key
      /\ \A i \in Ids \ {id} : disk'[i] = disk[i]
  BY DEF IInv, TypeOK, File
<1>2. id \notin SeqSet(downloads)
  BY <1>1 DEF IInv, Accounted
<1>3. /\ downloads' \in Seq(Ids) /\ SeqSet(downloads') = SeqSet(downloads) \cup {id}
      /\ Distinct(downloads') /\ Len(downloads') = Len(downloads) + 1
  BY <1>1, <1>2, AppendFacts DEF IInv, TypeOK, Accounted
<1>4. disk' \in [Ids -> Files]
  BY <1>1 DEF File, Files, Dlstates, Unfinished
<1>5. TypeOK'
  BY <1>3, <1>4 DEF IInv, TypeOK
<1>6. Accounted'
  BY <1>1, <1>3 DEF IInv, Accounted
<1>7. Cardinality(UnfinishedIds') <= MAXDOWNLOADS
  <2>1. UnfinishedIds' \subseteq UnfinishedIds \cup {id}
    BY <1>1 DEF UnfinishedIds
  <2> QED BY <1>1, <2>1, OneMore
<1>8. Len(downloads') <= MAXDOWNLOADS
  <2>1. Len(downloads) < MAXDOWNLOADS /\ Len(downloads) \in Nat
    BY DEF MayDownload, IInv, TypeOK
  <2> QED BY <1>3, <2>1, DownloadAssumption
<1>9. DownloadsBounded'
  BY <1>7, <1>8 DEF DownloadsBounded, UnfinishedIds
<1>10. InstalledOnce'
  BY <1>1 DEF IInv, TypeOK, InstalledOnce, Finished, Unfinished
<1>11. Unnamed' /\ ResponseFindsDownload' /\ DownIsEmpty'
  BY <1>1 DEF IInv, Unnamed, ResponseFindsDownload, DownIsEmpty
<1> QED BY <1>5, <1>6, <1>9, <1>10, <1>11 DEF IInv

LEMMA CrashInNewDownloadKeepsIInv ==
  ASSUME IInv, NEW id \in Ids, NEW key \in Keys, CrashInNewDownload(id, key)
  PROVE  IInv'
<1>1. PICK file \in {File("EMPTY", NoKey), File("NOSTATE", key), File("START", key)} :
        disk' = [disk EXCEPT ![id] = file]
  BY DEF CrashInNewDownload
<1>2. /\ disk \in [Ids -> Files] /\ file \in Files
      /\ file.dlstate \in {"EMPTY", "NOSTATE", "START"}
      /\ file.dlstate = "EMPTY" => file.key = NoKey
  BY DEF IInv, TypeOK, File, Files, Dlstates, Unfinished
<1>3. /\ disk' \in [Ids -> Files] /\ disk'[id] = file
      /\ \A i \in Ids \ {id} : disk'[i] = disk[i]
  BY <1>1, <1>2
<1>4. Down /\ up /\ MayDownload /\ crashes' \in 0..MaxCrashes
      /\ outcome' = [outcome EXCEPT ![id] = "none"]
  BY DownloadAssumption DEF CrashInNewDownload, Crashed, IInv, TypeOK
<1>5. Cardinality(UnfinishedIds') <= MAXDOWNLOADS
  <2>1. UnfinishedIds' \subseteq UnfinishedIds \cup {id}
    BY <1>3 DEF UnfinishedIds
  <2> QED BY <1>4, <2>1, OneMore
<1>6. InstalledOnce' /\ outcome' \in [Ids -> {"none", "installed", "failed"}]
  BY <1>2, <1>3, <1>4 DEF IInv, TypeOK, InstalledOnce, Finished, Unfinished
<1>7. Unnamed'
  BY <1>2, <1>3 DEF IInv, Unnamed
<1> QED BY <1>3, <1>4, <1>5, <1>6, <1>7, DeathKeepsFiles

LEMMA UpdateFacts ==
  ASSUME TypeOK, NEW id \in Ids, NEW d \in Dlstates, disk' = Update(disk, id, d)
  PROVE  /\ disk' \in [Ids -> Files]
         /\ disk'[id].dlstate = d /\ disk'[id].key = disk[id].key
         /\ \A i \in Ids \ {id} : disk'[i] = disk[i]
BY DEF TypeOK, Update, Files

LEMMA DeleteFacts ==
  ASSUME TypeOK, NEW ids, disk' = Delete(disk, ids)
  PROVE  /\ disk' \in [Ids -> Files]
         /\ \A i \in Ids : disk'[i] = IF i \in ids THEN NoFile ELSE disk[i]
         /\ NoFile.dlstate = "ABSENT" /\ NoFile.key = NoKey
         /\ UnfinishedIds' \subseteq UnfinishedIds
<1>1. NoFile \in Files /\ NoFile.dlstate = "ABSENT" /\ NoFile.key = NoKey
  BY DEF NoFile, File, Files, Dlstates
<1>2. \A i \in Ids : disk'[i] = IF i \in ids THEN NoFile ELSE disk[i]
  BY DEF Delete
<1>3. disk' \in [Ids -> Files]
  BY <1>1 DEF Delete, TypeOK
<1>4. UnfinishedIds' \subseteq UnfinishedIds
  BY <1>1, <1>2 DEF UnfinishedIds, Unfinished
<1> QED BY <1>1, <1>2, <1>3, <1>4

\* The installer's result, whether it comes at once or later.
LEMMA InstallCompleteKeepsIInv ==
  ASSUME IInv, up, NEW id \in Ids, NEW ok \in BOOLEAN, NEW must_reboot \in BOOLEAN,
         disk[id].dlstate \in {"WAITING", "INSTALLING"}, InstallComplete(id, ok, must_reboot),
         timers' = timers \ {id}, installers' = installers \ {id}, UNCHANGED <<up, crashes>>
  PROVE  IInv'
<1>1. /\ outcome' \in [Ids -> {"none", "installed", "failed"}] /\ outcome'[id] # "none"
      /\ \A i \in Ids \ {id} : outcome'[i] = outcome[i]
  BY DEF InstallComplete, IInv, TypeOK
<1>2. /\ SeqSet(downloads) \subseteq Ids /\ id \in SeqSet(downloads)
      /\ id \notin SeqSet(pending_complete)
      /\ Distinct(downloads) /\ Distinct(pending_complete)
  BY SetOfSequence DEF IInv, Accounted, TypeOK
<1>3. ASSUME disk' \in [Ids -> Files], disk'[id].dlstate \in Finished,
             \A i \in Ids \ {id} : disk'[i] = disk[i]
      PROVE  InstalledOnce' /\ Unnamed' /\ UnfinishedIds' \subseteq UnfinishedIds
  BY <1>1, <1>3 DEF IInv, InstalledOnce, Unnamed, UnfinishedIds, Finished, Unfinished
<1>4. CASE ok /\ must_reboot
  <2>1. /\ disk' = Update(disk, id, "REBOOTING") /\ rebooting' = TRUE
        /\ UNCHANGED <<downloads, pending_complete, requests>>
    BY <1>4 DEF InstallComplete
  <2>2. /\ disk' \in [Ids -> Files] /\ disk'[id].dlstate = "REBOOTING"
        /\ \A i \in Ids \ {id} : disk'[i] = disk[i]
    BY <2>1, UpdateFacts DEF IInv, Dlstates, Finished
  <2>3. TypeOK'
    BY <1>1, <2>1, <2>2 DEF IInv, TypeOK
  <2>4. Accounted'
    BY <1>2, <2>1, <2>2 DEF IInv, Accounted
  <2>5. InstalledOnce' /\ Unnamed' /\ UnfinishedIds' \subseteq UnfinishedIds
    BY <1>3, <2>2 DEF Finished
  <2>6. DownloadsBounded'
    BY <1>2, <2>1, <2>3, <2>5, StillBounded
  <2>7. ResponseFindsDownload' /\ DownIsEmpty'
    BY <2>1 DEF IInv, ResponseFindsDownload, DownIsEmpty
  <2> QED BY <2>3, <2>4, <2>5, <2>6, <2>7 DEF IInv
<1>5. CASE ~(ok /\ must_reboot)
  <2>1. /\ disk' = Update(disk, id, "EXITING") /\ UNCHANGED rebooting
        /\ downloads' \in Remove(downloads, {id})
        /\ pending_complete' = Append(pending_complete, id)
        /\ requests' = Append(requests, [id |-> id, ok |-> ok])
    BY <1>5 DEF InstallComplete, SendTransferComplete
  <2>2. /\ disk' \in [Ids -> Files] /\ disk'[id].dlstate = "EXITING"
        /\ \A i \in Ids \ {id} : disk'[i] = disk[i]
    BY <2>1, UpdateFacts DEF IInv, Dlstates, Finished
  <2>3. /\ downloads' \in Seq(Ids) /\ Distinct(downloads')
        /\ SeqSet(downloads') = SeqSet(downloads) \ {id}
    BY <2>1, RemoveFacts DEF IInv, TypeOK
  <2>4. /\ pending_complete' \in Seq(Ids) /\ Distinct(pending_complete')
        /\ SeqSet(pending_complete') = SeqSet(pending_complete) \cup {id}
        /\ Len(pending_complete') = Len(pending_complete) + 1
    BY <1>2, <2>1, AppendFacts DEF IInv, TypeOK
  <2>5. /\ requests' \in Seq([id : Ids, ok : BOOLEAN])
        /\ Len(requests') = Len(requests) + 1
    BY <2>1, AppendFacts DEF IInv, TypeOK
  <2>6. TypeOK'
    BY <1>1, <2>1, <2>2, <2>3, <2>4, <2>5 DEF IInv, TypeOK
  <2>7. Accounted'
    BY <1>2, <2>2, <2>3, <2>4 DEF IInv, Accounted
  <2>8. InstalledOnce' /\ Unnamed' /\ UnfinishedIds' \subseteq UnfinishedIds
    BY <1>3, <2>2 DEF Finished
  <2>9. DownloadsBounded'
    BY <1>2, <2>3, <2>6, <2>8, StillBounded
  <2>10. ResponseFindsDownload'
    <3>1. /\ Len(requests) \in Nat /\ Len(pending_complete) \in Nat
          /\ Len(requests) <= Len(pending_complete)
      BY DEF IInv, TypeOK, ResponseFindsDownload
    <3> QED BY <2>4, <2>5, <3>1 DEF ResponseFindsDownload
  <2>11. DownIsEmpty'
    BY DEF DownIsEmpty
  <2> QED BY <2>6, <2>7, <2>8, <2>9, <2>10, <2>11 DEF IInv
<1> QED BY <1>4, <1>5

LEMMA TimerCallbackKeepsIInv ==
  ASSUME IInv, NEW id \in Ids, TimerCallback(id)
  PROVE  IInv'
<1>1. up /\ disk[id].dlstate = "WAITING" /\ id \notin installers
  BY DEF TimerCallback, IInv, DownIsEmpty, Accounted
<1>2. timers' = timers \ {id} /\ UNCHANGED <<up, crashes>>
  BY DEF TimerCallback
<1>3. CASE InstallComplete(id, FALSE, TRUE) /\ UNCHANGED installers
  <2>1. installers' = installers \ {id}
    BY <1>1, <1>3
  <2> QED BY <1>1, <1>2, <1>3, <2>1, InstallCompleteKeepsIInv
<1>4. CASE /\ disk' = Update(disk, id, "INSTALLING")
           /\ installers' \in {installers, installers \cup {id}}
           /\ UNCHANGED <<downloads, pending_complete, rebooting, requests, outcome>>
  <2>1. /\ disk' \in [Ids -> Files] /\ disk'[id].dlstate = "INSTALLING"
        /\ disk'[id].key = disk[id].key
        /\ \A i \in Ids \ {id} : disk'[i] = disk[i]
    BY <1>4, UpdateFacts DEF IInv, Dlstates, Unfinished
  <2>2. TypeOK'
    BY <1>2, <1>4, <2>1 DEF IInv, TypeOK
  <2>3. Accounted'
    BY <1>1, <1>2, <1>4, <2>1 DEF IInv, Accounted
  <2>4. InstalledOnce' /\ Unnamed' /\ UnfinishedIds' \subseteq UnfinishedIds
    BY <1>1, <1>4, <2>1 DEF IInv, InstalledOnce, Unnamed, UnfinishedIds, Finished, Unfinished
  <2>5. Distinct(downloads)
    BY <1>1 DEF IInv, Accounted
  <2>6. DownloadsBounded'
    BY <1>4, <2>2, <2>4, <2>5, StillBounded
  <2>7. ResponseFindsDownload' /\ DownIsEmpty'
    BY <1>1, <1>2, <1>4 DEF IInv, ResponseFindsDownload, DownIsEmpty
  <2> QED BY <2>2, <2>3, <2>4, <2>6, <2>7 DEF IInv
<1> QED BY <1>3, <1>4 DEF TimerCallback

LEMMA InstallerCallbackKeepsIInv ==
  ASSUME IInv, NEW id \in Ids, NEW ok \in BOOLEAN, NEW must_reboot \in BOOLEAN,
         InstallerCallback(id, ok, must_reboot)
  PROVE  IInv'
<1>1. up /\ disk[id].dlstate = "INSTALLING" /\ id \notin timers
  BY DEF InstallerCallback, IInv, DownIsEmpty, Accounted
<1>2. /\ timers' = timers \ {id} /\ installers' = installers \ {id} /\ UNCHANGED <<up, crashes>>
      /\ InstallComplete(id, ok, must_reboot)
  BY <1>1 DEF InstallerCallback
<1> QED BY <1>1, <1>2, InstallCompleteKeepsIInv

LEMMA ResponseKeepsIInv ==
  ASSUME IInv, TransferCompleteResponseReceived
  PROVE  IInv'
<1> DEFINE last == pending_complete[Len(pending_complete)]
<1>1. /\ requests \in Seq([id : Ids, ok : BOOLEAN]) /\ requests # <<>>
      /\ Len(requests) <= Len(pending_complete) /\ pending_complete \in Seq(Ids)
  BY DEF TransferCompleteResponseReceived, IInv, ResponseFindsDownload, TypeOK
<1>2. /\ requests' \in Seq([id : Ids, ok : BOOLEAN])
      /\ Len(requests') = Len(requests) - 1 /\ Len(requests) \in Nat \ {0}
      /\ requests' = Tail(requests)
  BY <1>1 DEF TransferCompleteResponseReceived
<1>3. pending_complete # <<>> /\ Len(pending_complete) \in Nat \ {0} /\ up
  BY <1>1, <1>2 DEF IInv, DownIsEmpty
<1>4. /\ pending_complete' = Front(pending_complete) /\ disk' = Delete(disk, {last})
      /\ UNCHANGED <<up, downloads, timers, installers, rebooting, outcome, crashes>>
  BY <1>3 DEF TransferCompleteResponseReceived, Pop
<1>5. /\ pending_complete' \in Seq(Ids) /\ Distinct(pending_complete')
      /\ Len(pending_complete') = Len(pending_complete) - 1
      /\ SeqSet(pending_complete') = SeqSet(pending_complete) \ {last}
      /\ last \in SeqSet(pending_complete)
  BY <1>1, <1>3, <1>4, FrontFacts DEF IInv, Accounted
<1>6. last \in Ids /\ disk[last].dlstate = "EXITING"
  BY <1>1, <1>3, <1>5 DEF IInv, Accounted
<1>7. /\ disk' \in [Ids -> Files] /\ UnfinishedIds' \subseteq UnfinishedIds
      /\ disk'[last].dlstate = "ABSENT" /\ disk'[last].key = NoKey
      /\ \A i \in Ids \ {last} : disk'[i] = disk[i]
  BY <1>4, <1>6, DeleteFacts DEF IInv
<1> HIDE DEF last
<1>8. TypeOK'
  BY <1>2, <1>4, <1>5, <1>7 DEF IInv, TypeOK
<1>9. Accounted'
  BY <1>3, <1>4, <1>5, <1>6, <1>7 DEF IInv, Accounted
<1>10. InstalledOnce' /\ Unnamed'
  BY <1>4, <1>6, <1>7 DEF IInv, InstalledOnce, Unnamed, Finished, Unfinished
<1>11. Distinct(downloads)
  BY <1>3 DEF IInv, Accounted
<1>12. DownloadsBounded'
  BY <1>4, <1>7, <1>8, <1>11, StillBounded
<1>13. ResponseFindsDownload'
  BY <1>1, <1>2, <1>3, <1>5 DEF ResponseFindsDownload
<1>14. DownIsEmpty'
  BY <1>3, <1>4 DEF DownIsEmpty
<1> QED BY <1>8, <1>9, <1>10, <1>12, <1>13, <1>14 DEF IInv

LEMMA LoseRequestKeepsIInv ==
  ASSUME IInv, LoseRequest
  PROVE  IInv'
<1>1. /\ requests \in Seq([id : Ids, ok : BOOLEAN]) /\ requests # <<>>
      /\ requests' = Tail(requests)
      /\ UNCHANGED <<disk, up, downloads, pending_complete, timers, installers,
                     rebooting, outcome, crashes>>
  BY DEF LoseRequest, IInv, TypeOK
<1>2. /\ requests' \in Seq([id : Ids, ok : BOOLEAN])
      /\ Len(requests') = Len(requests) - 1 /\ Len(requests) \in Nat \ {0}
  BY <1>1
<1>3. TypeOK'
  BY <1>1, <1>2 DEF IInv, TypeOK
<1>4. Accounted' /\ InstalledOnce' /\ Unnamed'
  BY <1>1 DEF IInv, Accounted, InstalledOnce, Unnamed
<1>5. DownloadsBounded'
  BY <1>1 DEF IInv, DownloadsBounded
<1>6. Len(pending_complete) \in Nat /\ Len(requests) <= Len(pending_complete)
  BY DEF IInv, TypeOK, ResponseFindsDownload
<1>7. ResponseFindsDownload'
  BY <1>1, <1>2, <1>6 DEF ResponseFindsDownload
<1>8. DownIsEmpty'
  BY <1>1 DEF IInv, DownIsEmpty
<1> QED BY <1>3, <1>4, <1>5, <1>7, <1>8 DEF IInv

LEMMA CancelledFacts ==
  ASSUME NEW key, NEW id \in Cancelled(key)
  PROVE  id \in SeqSet(downloads) /\ Cancellable(id)
<1>1. PICK j \in Met(key) : id = downloads[j] /\ (\A k \in Met(key) : k <= j => Cancellable(downloads[k]))
  BY DEF Cancelled
<1>2. j \in 1..Len(downloads) /\ j <= j
  BY DEF Met
<1> QED BY <1>1, <1>2 DEF SeqSet

LEMMA CancelTransferKeepsIInv ==
  ASSUME IInv, NEW key \in Keys, CancelTransfer(key)
  PROVE  IInv'
<1> DEFINE cancelled == Cancelled(key)
<1>1. /\ cancelled # {} /\ disk' = Delete(disk, cancelled)
      /\ downloads' \in Remove(downloads, cancelled) /\ timers' = timers \ cancelled
      /\ UNCHANGED <<up, pending_complete, installers, rebooting, requests, outcome, crashes>>
  BY DEF CancelTransfer
<1>2. /\ up /\ cancelled \subseteq SeqSet(downloads)
      /\ \A id \in cancelled : disk[id].dlstate = "WAITING"
  <2>1. /\ cancelled \subseteq SeqSet(downloads) /\ SeqSet(downloads) \subseteq Ids
        /\ \A id \in cancelled : Cancellable(id)
    BY CancelledFacts, SetOfSequence DEF IInv, TypeOK
  <2>2. up
    BY <1>1, <2>1 DEF SeqSet, IInv, DownIsEmpty
  <2> QED BY <2>1, <2>2 DEF IInv, Accounted, Cancellable
<1> HIDE DEF cancelled
<1>3. /\ disk' \in [Ids -> Files] /\ UnfinishedIds' \subseteq UnfinishedIds
      /\ NoFile.dlstate = "ABSENT" /\ NoFile.key = NoKey
      /\ \A i \in Ids : disk'[i] = IF i \in cancelled THEN NoFile ELSE disk[i]
  BY <1>1, DeleteFacts DEF IInv
<1>4. /\ downloads' \in Seq(Ids) /\ Distinct(downloads')
      /\ SeqSet(downloads') = SeqSet(downloads) \ cancelled
  BY <1>1, RemoveFacts DEF IInv, TypeOK
<1>5. TypeOK'
  BY <1>1, <1>3, <1>4 DEF IInv, TypeOK
<1>6. Accounted'
  BY <1>1, <1>2, <1>3, <1>4 DEF IInv, Accounted
<1>7. InstalledOnce' /\ Unnamed'
  BY <1>1, <1>3 DEF IInv, InstalledOnce, Unnamed, Finished, Unfinished
<1>8. Distinct(downloads)
  BY <1>2 DEF IInv, Accounted
<1>9. DownloadsBounded'
  BY <1>3, <1>4, <1>5, <1>8, StillBounded
<1>10. ResponseFindsDownload' /\ DownIsEmpty'
  BY <1>1, <1>2 DEF IInv, ResponseFindsDownload, DownIsEmpty
<1> QED BY <1>5, <1>6, <1>7, <1>9, <1>10 DEF IInv

\* Where a restart takes up each Download.
LEMMA RestoredFacts ==
  ASSUME TypeOK, NEW id \in Ids
  PROVE  /\ RestoredFile(id) \in Files
         /\ RestoredFile(id).dlstate \in {"ABSENT", "WAITING", "EXITING"}
         /\ (RestoredFile(id).dlstate = "WAITING" <=> disk[id].dlstate \in Unfinished)
         /\ (RestoredFile(id).dlstate = "EXITING" <=> disk[id].dlstate \in Finished)
         /\ RestoredFile(id).key = IF disk[id].dlstate \in Unfinished \cup Finished
                                   THEN disk[id].key ELSE NoKey
<1>1. disk[id].dlstate \in Dlstates /\ disk[id].key \in Keys \cup {NoKey}
  BY DEF TypeOK, Files
<1> QED BY <1>1 DEF RestoredFile, Stored, RestoreDlstate, RebootComplete, NoFile, File,
               Files, Dlstates, Finished, Unfinished

LEMMA RestoreKeepsIInv ==
  ASSUME IInv, RestoreDownloads
  PROVE  IInv'
<1> DEFINE waiting == {id \in Ids : RestoredFile(id).dlstate = "WAITING"}
           exiting == {id \in Ids : RestoredFile(id).dlstate = "EXITING"}
<1>1. /\ ~up /\ up' /\ disk' = [id \in Ids |-> RestoredFile(id)]
      /\ downloads' \in Orders(waiting) /\ pending_complete' \in Orders(exiting)
      /\ requests' = [i \in DOMAIN pending_complete' |-> [id |-> pending_complete'[i], ok |-> TRUE]]
      /\ timers' = timers \cup waiting
      /\ UNCHANGED <<installers, rebooting, outcome, crashes>>
  BY DEF RestoreDownloads, ScheduleTimer
<1>2. /\ timers = {} /\ installers = {}
  BY <1>1 DEF IInv, DownIsEmpty
<1>3. /\ waiting = UnfinishedIds /\ waiting \subseteq Ids /\ exiting \subseteq Ids
      /\ IsFiniteSet(waiting) /\ IsFiniteSet(exiting)
  <2>1. waiting = UnfinishedIds
    BY RestoredFacts DEF UnfinishedIds, IInv
  <2> QED BY <2>1, FS_Subset, DownloadAssumption
<1>4. /\ disk' \in [Ids -> Files]
      /\ \A id \in Ids : /\ disk'[id].dlstate \in {"ABSENT", "WAITING", "EXITING"}
                         /\ (disk'[id].dlstate = "WAITING" <=> id \in waiting)
                         /\ (disk'[id].dlstate = "EXITING" <=> id \in exiting)
                         /\ (disk'[id].dlstate = "WAITING" <=> disk[id].dlstate \in Unfinished)
                         /\ (disk'[id].dlstate = "EXITING" <=> disk[id].dlstate \in Finished)
                         /\ disk'[id].dlstate = "ABSENT" => disk'[id].key = NoKey
  BY <1>1, RestoredFacts DEF IInv
<1> HIDE DEF waiting, exiting
<1>5. /\ downloads' \in Seq(Ids) /\ Distinct(downloads') /\ SeqSet(downloads') = waiting
      /\ Len(downloads') = Cardinality(waiting)
  <2>1. /\ downloads' \in Seq(waiting) /\ Distinct(downloads') /\ SeqSet(downloads') = waiting
        /\ Len(downloads') = Cardinality(waiting)
    BY <1>1, <1>3, OrdersFacts
  <2> QED BY <1>3, <2>1
<1>6. /\ pending_complete' \in Seq(Ids) /\ Distinct(pending_complete')
      /\ SeqSet(pending_complete') = exiting
  <2>1. /\ pending_complete' \in Seq(exiting) /\ Distinct(pending_complete')
        /\ SeqSet(pending_complete') = exiting
    BY <1>1, <1>3, OrdersFacts
  <2> QED BY <1>3, <2>1
<1>7. /\ requests' \in Seq([id : Ids, ok : BOOLEAN]) /\ Len(requests') = Len(pending_complete')
      /\ Len(pending_complete') \in Nat
  <2>1. DOMAIN pending_complete' = 1..Len(pending_complete') /\ Len(pending_complete') \in Nat
    BY <1>6
  <2>2. \A i \in 1..Len(pending_complete') : pending_complete'[i] \in Ids
    BY <1>6
  <2>3. requests' = [i \in 1..Len(pending_complete') |-> [id |-> pending_complete'[i], ok |-> TRUE]]
    BY <1>1, <2>1
  <2> QED BY <2>1, <2>2, <2>3
<1>8. TypeOK'
  BY <1>1, <1>2, <1>3, <1>4, <1>5, <1>6, <1>7 DEF IInv, TypeOK
<1>9. Accounted'
  BY <1>1, <1>2, <1>4, <1>5, <1>6 DEF Accounted
<1>10. InstalledOnce'
  BY <1>1, <1>4 DEF IInv, InstalledOnce, Finished, Unfinished
<1>11. Unnamed' /\ DownIsEmpty'
  BY <1>1, <1>4 DEF Unnamed, DownIsEmpty
<1>12. ResponseFindsDownload'
  BY <1>7 DEF ResponseFindsDownload
<1>13. DownloadsBounded'
  <2>1. UnfinishedIds' = waiting
    BY <1>3, <1>4 DEF UnfinishedIds, Unfinished
  <2>2. Cardinality(waiting) <= MAXDOWNLOADS
    BY <1>3 DEF IInv, DownloadsBounded, UnfinishedIds
  <2>3. Len(downloads') <= MAXDOWNLOADS /\ Cardinality(UnfinishedIds') <= MAXDOWNLOADS
    BY <1>5, <2>1, <2>2
  <2> QED BY <2>3 DEF DownloadsBounded, UnfinishedIds
<1> QED BY <1>8, <1>9, <1>10, <1>11, <1>12, <1>13 DEF IInv

\* What a death in the middle of the restart leaves of each file.
LEMMA HalfRestored ==
  ASSUME IInv, CrashInRestore
  PROVE  /\ disk' \in [Ids -> Files]
         /\ \A id \in Ids :
              \/ disk'[id] = disk[id]
              \/ disk'[id] = RestoredFile(id)
              \/ /\ disk[id].dlstate \in Unfinished \cup Finished
                 /\ disk'[id].dlstate = IF disk[id].dlstate \in Finished THEN "REBOOTING" ELSE "START"
                 /\ disk'[id].key = disk[id].key
<1>1. PICK done, halfway :
        /\ \A id \in halfway : Stored(id)
        /\ disk' = [id \in Ids |->
                      IF id \in halfway
                      THEN File(RestoreDlstate(disk[id].dlstate), disk[id].key)
                      ELSE IF id \in done THEN RestoredFile(id) ELSE disk[id]]
  BY DEF CrashInRestore
<1>2. ASSUME NEW id \in Ids
      PROVE  /\ disk'[id] \in Files
             /\ \/ disk'[id] = disk[id]
                \/ disk'[id] = RestoredFile(id)
                \/ /\ disk[id].dlstate \in Unfinished \cup Finished
                   /\ disk'[id].dlstate = IF disk[id].dlstate \in Finished THEN "REBOOTING" ELSE "START"
                   /\ disk'[id].key = disk[id].key
  <2>1. disk[id] \in Files /\ RestoredFile(id) \in Files
    BY RestoredFacts DEF IInv, TypeOK
  <2>2. CASE id \in halfway
    <3>1. disk'[id] = File(RestoreDlstate(disk[id].dlstate), disk[id].key) /\ Stored(id)
      BY <1>1, <2>2
    <3> QED BY <2>1, <3>1 DEF Stored, RestoreDlstate, File, Files, Dlstates, Finished, Unfinished
  <2>3. CASE id \notin halfway
    BY <1>1, <2>1, <2>3
  <2> QED BY <2>2, <2>3
<1>3. disk' = [id \in Ids |-> disk'[id]]
  BY <1>1
<1> QED BY <1>2, <1>3

LEMMA CrashInRestoreKeepsIInv ==
  ASSUME IInv, CrashInRestore
  PROVE  IInv'
<1>1. Down /\ outcome' = outcome /\ crashes' \in 0..MaxCrashes
  BY DownloadAssumption DEF IInv, TypeOK, CrashInRestore, Crashed
<1>2. disk' \in [Ids -> Files] /\ UnfinishedIds' \subseteq UnfinishedIds /\ InstalledOnce' /\ Unnamed'
  <2>1. ASSUME NEW id \in Ids
        PROVE  /\ disk'[id].dlstate \in Unfinished => disk[id].dlstate \in Unfinished
               /\ disk'[id].dlstate \in Finished => disk[id].dlstate \in Finished
               /\ disk'[id].dlstate \in {"ABSENT", "EMPTY"} => disk'[id].key = NoKey
    <3>1. RestoredFile(id).dlstate \in {"ABSENT", "WAITING", "EXITING"}
          /\ (RestoredFile(id).dlstate = "WAITING" <=> disk[id].dlstate \in Unfinished)
          /\ (RestoredFile(id).dlstate = "EXITING" <=> disk[id].dlstate \in Finished)
          /\ (RestoredFile(id).dlstate = "ABSENT" => RestoredFile(id).key = NoKey)
      BY RestoredFacts DEF IInv
    <3> QED BY <3>1, HalfRestored DEF IInv, Unnamed, Finished, Unfinished
  <2> QED BY <1>1, <2>1, HalfRestored DEF IInv, InstalledOnce, Unnamed, UnfinishedIds
<1>3. Cardinality(UnfinishedIds') <= MAXDOWNLOADS
  <2>1. IsFiniteSet(UnfinishedIds)
    BY FS_Subset, DownloadAssumption DEF UnfinishedIds
  <2>2. /\ Cardinality(UnfinishedIds') <= Cardinality(UnfinishedIds)
        /\ IsFiniteSet(UnfinishedIds')
    BY <1>2, <2>1, FS_Subset
  <2>3. Cardinality(UnfinishedIds') \in Nat /\ Cardinality(UnfinishedIds) \in Nat
    BY <2>1, <2>2, FS_CardinalityType
  <2>4. Cardinality(UnfinishedIds) <= MAXDOWNLOADS
    BY DEF IInv, DownloadsBounded, UnfinishedIds
  <2> QED BY <2>2, <2>3, <2>4, DownloadAssumption
<1> QED BY <1>1, <1>2, <1>3, DeathKeepsFiles DEF IInv, TypeOK

LEMMA InitEstablishesIInv ==
  ASSUME Init
  PROVE  IInv
<1> USE DEF Init
<1>1. NoFile \in Files /\ NoFile.dlstate = "ABSENT" /\ NoFile.key = NoKey
  BY DEF NoFile, File, Files, Dlstates
<1>2. TypeOK
  <2>1. <<>> \in Seq(Ids) /\ <<>> \in Seq([id : Ids, ok : BOOLEAN])
    OBVIOUS
  <2>2. crashes \in 0..MaxCrashes
    BY DownloadAssumption
  <2>3. disk \in [Ids -> Files] /\ outcome \in [Ids -> {"none", "installed", "failed"}]
    BY <1>1
  <2> QED BY <2>1, <2>2, <2>3 DEF TypeOK
<1>3. Accounted /\ InstalledOnce /\ Unnamed /\ DownIsEmpty /\ ResponseFindsDownload
  BY <1>1 DEF Accounted, InstalledOnce, Unnamed, DownIsEmpty, ResponseFindsDownload,
              Finished, Unfinished
<1>4. DownloadsBounded
  <2>1. UnfinishedIds = {}
    BY <1>1 DEF UnfinishedIds, Unfinished
  <2>2. Cardinality({}) = 0
    BY FS_EmptySet
  <2>3. Len(downloads) = 0
    OBVIOUS
  <2>4. Len(downloads) <= MAXDOWNLOADS /\ Cardinality(UnfinishedIds) <= MAXDOWNLOADS
    BY <2>1, <2>2, <2>3, DownloadAssumption
  <2> QED BY <2>4 DEF DownloadsBounded, UnfinishedIds
<1> QED BY <1>2, <1>3, <1>4 DEF IInv

LEMMA StepKeepsIInv ==
  ASSUME IInv, [Next]_vars
  PROVE  IInv'
<1>1. ASSUME NEW id \in Ids, NEW key \in Keys, NewDownload(id, key)
      PROVE  IInv'
  BY <1>1, NewDownloadKeepsIInv
<1>2. ASSUME NEW id \in Ids, NEW key \in Keys, CrashInNewDownload(id, key)
      PROVE  IInv'
  BY <1>2, CrashInNewDownloadKeepsIInv
<1>3. ASSUME NEW id \in Ids, TimerCallback(id)
      PROVE  IInv'
  BY <1>3, TimerCallbackKeepsIInv
<1>4. ASSUME NEW id \in Ids, NEW ok \in BOOLEAN, NEW must_reboot \in BOOLEAN,
             InstallerCallback(id, ok, must_reboot)
      PROVE  IInv'
  BY <1>4, InstallerCallbackKeepsIInv
<1>5. ASSUME NEW key \in Keys, CancelTransfer(key)
      PROVE  IInv'
  BY <1>5, CancelTransferKeepsIInv
<1>6. CASE TransferCompleteResponseReceived
  BY <1>6, ResponseKeepsIInv
<1>7. CASE LoseRequest
  BY <1>7, LoseRequestKeepsIInv
<1>8. CASE RestoreDownloads
  BY <1>8, RestoreKeepsIInv
<1>9. CASE CrashInRestore
  BY <1>9, CrashInRestoreKeepsIInv
<1>10. CASE Crash \/ Reboot
  BY <1>10, CrashKeepsIInv
<1>11. CASE UNCHANGED vars
  BY <1>11 DEF IInv, vars, memory, TypeOK, Accounted, DownloadsBounded, ResponseFindsDownload,
               InstalledOnce, Unnamed, DownIsEmpty
<1> QED
  BY <1>1, <1>2, <1>3, <1>4, <1>5, <1>6, <1>7, <1>8, <1>9, <1>10, <1>11 DEF Next

LEMMA Invariance == Spec => []IInv
<1>1. Init => IInv
  BY InitEstablishesIInv
<1>2. IInv /\ [Next]_vars => IInv'
  BY StepKeepsIInv
<1> QED BY <1>1, <1>2, PTL DEF Spec

-----------------------------------------------------------------------------
(* The theorems *)

\* The lists hold Downloads and the files what the program writes to them
\* (tr/download.py, tr/persistobj.py).
THEOREM TypeCorrect == Spec => []TypeOK
<1>1. IInv => TypeOK
  BY DEF IInv
<1> QED BY <1>1, Invariance, PTL

\* Whatever crashes, restarts, cancels and installers that call back late or never,
\* every file belongs to one Download in the one list that its dlstate calls for.
THEOREM FilesAccounted == Spec => []Accounted
<1>1. IInv => Accounted
  BY DEF IInv
<1> QED BY <1>1, Invariance, PTL

\* A restart never brings back more Downloads than MAXDOWNLOADS, although
\* RestoreDownloads does not look at it (download.py:399).
THEOREM NeverTooMany == Spec => []DownloadsBounded
<1>1. IInv => DownloadsBounded
  BY DEF IInv
<1> QED BY <1>1, Invariance, PTL

\* _pending_complete.pop() never meets an empty list (download.py:403).
THEOREM PopFindsDownload == Spec => []ResponseFindsDownload
<1>1. IInv => ResponseFindsDownload
  BY DEF IInv
<1> QED BY <1>1, Invariance, PTL

\* A finished install is not begun again after any number of deaths, and an
\* unfinished one is not reported (_RestoreDlstate, StateMachine).
THEOREM InstallsOnce == Spec => []InstalledOnce
<1>1. IInv => InstalledOnce
  BY DEF IInv
<1> QED BY <1>1, Invariance, PTL

-----------------------------------------------------------------------------
(* The refinement *)

\* What Transfers sees of a file.
Transfer(f) == [status |-> StatusOf(f.dlstate), key |-> f.key]

\* It moves as Transfers allows.
Moves(id) == Durable!Step(Transfer(disk[id]), Transfer(disk'[id]))

LEMMA SameFileMoves ==
  ASSUME NEW id, disk'[id] = disk[id]
  PROVE  Moves(id)
BY DEF Moves, Durable!Step

\* The moves of a file whose key stays.
LEMMA ProgressMoves ==
  ASSUME NEW id \in Ids, disk'[id].key = disk[id].key,
         \/ StatusOf(disk'[id].dlstate) = StatusOf(disk[id].dlstate)
         \/ <<StatusOf(disk[id].dlstate), StatusOf(disk'[id].dlstate)>> \in Durable!Progress
  PROVE  Moves(id)
BY DEF Moves, Transfer, Durable!Step, Durable!Continue

LEMMA InstallCompleteMoves ==
  ASSUME IInv, NEW id \in Ids, NEW ok \in BOOLEAN, NEW must_reboot \in BOOLEAN,
         \/ disk[id].dlstate = "INSTALLING"
         \/ disk[id].dlstate = "WAITING" /\ ~ok,
         InstallComplete(id, ok, must_reboot)
  PROVE  \A i \in Ids : Moves(i)
<1>1. \/ disk' = Update(disk, id, "REBOOTING") /\ disk[id].dlstate = "INSTALLING"
      \/ disk' = Update(disk, id, "EXITING")
  BY DEF InstallComplete
<1>2. /\ disk'[id].key = disk[id].key /\ \A i \in Ids \ {id} : disk'[i] = disk[i]
      /\ \/ disk'[id].dlstate = "REBOOTING" /\ disk[id].dlstate = "INSTALLING"
         \/ disk'[id].dlstate = "EXITING"
  BY <1>1, UpdateFacts DEF IInv, Dlstates, Finished
<1>3. Moves(id)
  BY <1>2, ProgressMoves DEF StatusOf, Durable!Progress
<1> QED BY <1>2, <1>3, SameFileMoves

LEMMA DeleteMoves ==
  ASSUME IInv, NEW ids, disk' = Delete(disk, ids),
         \A id \in ids : id \in Ids => disk[id].dlstate \in {"WAITING", "EXITING"}
  PROVE  \A i \in Ids : Moves(i)
<1> SUFFICES ASSUME NEW i \in Ids PROVE Moves(i)
  OBVIOUS
<1>1. CASE i \notin ids
  BY <1>1, DeleteFacts, SameFileMoves DEF IInv
<1>2. CASE i \in ids
  <2>1. disk'[i].dlstate = "ABSENT" /\ disk'[i].key = NoKey
    BY <1>2, DeleteFacts DEF IInv
  <2> QED BY <1>2, <2>1 DEF Moves, Transfer, StatusOf, Durable!Step, Durable!Forget, Durable!NoTransfer
<1> QED BY <1>1, <1>2

LEMMA NewFileMoves ==
  ASSUME IInv, NEW id \in Ids, NEW key \in Keys, disk[id].dlstate = "ABSENT",
         NEW f \in {File("EMPTY", NoKey), File("NOSTATE", key), File("START", key),
                    File("WAITING", key)},
         disk' = [disk EXCEPT ![id] = f]
  PROVE  \A i \in Ids : Moves(i)
<1>1. disk[id].key = NoKey /\ disk'[id] = f /\ \A i \in Ids \ {id} : disk'[i] = disk[i]
  BY DEF IInv, Unnamed, TypeOK
<1>2. Moves(id)
  BY <1>1 DEF Moves, Transfer, File, StatusOf, Durable!Step, Durable!Accept, Durable!NoTransfer
<1> QED BY <1>1, <1>2, SameFileMoves

LEMMA RestoredMoves ==
  ASSUME IInv, NEW id \in Ids,
         \/ disk'[id] = disk[id]
         \/ disk'[id] = RestoredFile(id)
         \/ /\ disk[id].dlstate \in Unfinished \cup Finished
            /\ disk'[id].dlstate = IF disk[id].dlstate \in Finished THEN "REBOOTING" ELSE "START"
            /\ disk'[id].key = disk[id].key
  PROVE  Moves(id)
<1>1. disk[id].dlstate \in Dlstates
  BY DEF IInv, TypeOK, Files
<1>2. CASE disk'[id] = disk[id]
  BY <1>2, SameFileMoves
<1>3. CASE disk'[id] = RestoredFile(id)
  <2>1. /\ RestoredFile(id).dlstate =
             CASE disk[id].dlstate \in Unfinished -> "WAITING"
               [] disk[id].dlstate \in Finished   -> "EXITING"
               [] OTHER                           -> "ABSENT"
        /\ RestoredFile(id).key = disk[id].key
    <3>1. disk[id].dlstate \in {"ABSENT", "EMPTY"} => disk[id].key = NoKey
      BY DEF IInv, Unnamed
    <3> QED BY <1>1, <3>1, RestoredFacts DEF IInv, Dlstates, Finished, Unfinished
  <2> QED BY <1>1, <1>3, <2>1, ProgressMoves
          DEF StatusOf, Durable!Progress, Dlstates, Finished, Unfinished
<1>4. CASE /\ disk[id].dlstate \in Unfinished \cup Finished
           /\ disk'[id].dlstate = IF disk[id].dlstate \in Finished THEN "REBOOTING" ELSE "START"
           /\ disk'[id].key = disk[id].key
  BY <1>4, ProgressMoves DEF StatusOf, Durable!Progress, Finished, Unfinished
<1> QED BY <1>2, <1>3, <1>4

LEMMA StepMoves ==
  ASSUME IInv, [Next]_vars
  PROVE  \A i \in Ids : Moves(i)
<1>1. ASSUME NEW id \in Ids, NEW key \in Keys, NewDownload(id, key) \/ CrashInNewDownload(id, key)
      PROVE  \A i \in Ids : Moves(i)
  BY <1>1, NewFileMoves DEF NewDownload, CrashInNewDownload
<1>2. ASSUME NEW id \in Ids, TimerCallback(id)
      PROVE  \A i \in Ids : Moves(i)
  <2>1. disk[id].dlstate = "WAITING"
    BY <1>2 DEF TimerCallback, IInv, DownIsEmpty, Accounted
  <2>2. CASE InstallComplete(id, FALSE, TRUE)
    BY <2>1, <2>2, InstallCompleteMoves
  <2>3. CASE disk' = Update(disk, id, "INSTALLING")
    <3>1. /\ disk'[id].dlstate = "INSTALLING" /\ disk'[id].key = disk[id].key
          /\ \A i \in Ids \ {id} : disk'[i] = disk[i]
      BY <2>3, UpdateFacts DEF IInv, Dlstates, Unfinished
    <3>2. Moves(id)
      BY <2>1, <3>1, ProgressMoves DEF StatusOf, Durable!Progress
    <3> QED BY <3>1, <3>2, SameFileMoves
  <2> QED BY <1>2, <2>2, <2>3 DEF TimerCallback
<1>3. ASSUME NEW id \in Ids, NEW ok \in BOOLEAN, NEW must_reboot \in BOOLEAN,
             InstallerCallback(id, ok, must_reboot)
      PROVE  \A i \in Ids : Moves(i)
  <2>1. disk[id].dlstate = "INSTALLING" /\ InstallComplete(id, ok, must_reboot)
    BY <1>3 DEF InstallerCallback, IInv, DownIsEmpty, Accounted
  <2> QED BY <2>1, InstallCompleteMoves
<1>4. ASSUME NEW key \in Keys, CancelTransfer(key)
      PROVE  \A i \in Ids : Moves(i)
  <2>1. disk' = Delete(disk, Cancelled(key)) /\ Cancelled(key) # {}
    BY <1>4 DEF CancelTransfer
  <2>2. \A id \in Cancelled(key) : id \in SeqSet(downloads) /\ Cancellable(id)
    BY CancelledFacts
  <2>3. up
    BY <2>1, <2>2 DEF SeqSet, IInv, DownIsEmpty
  <2>4. \A id \in Cancelled(key) : id \in Ids => disk[id].dlstate = "WAITING"
    BY <2>2, <2>3 DEF IInv, Accounted, Cancellable
  <2> QED BY <2>1, <2>4, DeleteMoves
<1>5. CASE TransferCompleteResponseReceived
  <2> DEFINE last == pending_complete[Len(pending_complete)]
  <2>1. CASE UNCHANGED disk
    BY <2>1, SameFileMoves
  <2>2. CASE disk' = Delete(disk, {last}) /\ pending_complete # <<>>
    <3>1. pending_complete \in Seq(Ids) /\ up
      BY <2>2 DEF IInv, TypeOK, DownIsEmpty
    <3>2. last \in SeqSet(pending_complete)
      BY <2>2, <3>1, FrontFacts
    <3>3. last \in Ids => disk[last].dlstate = "EXITING"
      BY <3>1, <3>2 DEF IInv, Accounted
    <3> QED BY <2>2, <3>3, DeleteMoves
  <2> QED BY <1>5, <2>1, <2>2 DEF TransferCompleteResponseReceived
<1>6. CASE RestoreDownloads
  BY <1>6, RestoredMoves DEF RestoreDownloads
<1>7. CASE CrashInRestore
  BY <1>7, HalfRestored, RestoredMoves
<1>8. CASE LoseRequest \/ Crash \/ Reboot \/ UNCHANGED vars
  BY <1>8, SameFileMoves DEF LoseRequest, Crash, Reboot, vars
<1> QED BY <1>1, <1>2, <1>3, <1>4, <1>5, <1>6, <1>7, <1>8 DEF Next

\* The download manager implements Transfers: an accepted transfer is carried on
\* through any death of the process, and forgotten only when it is cancelled before
\* it is installed or after its report (tr/download.py).
THEOREM ImplementsTransfers == Spec => TransfersSpec
<1>1. Init => Durable!Init
  BY DEF Init, Durable!Init, Durable!NoTransfer, NoFile, File, StatusOf
<1>2. IInv /\ IInv' /\ [Next]_vars => [Durable!Next]_([id \in Ids |-> [status |-> StatusOf(disk[id].dlstate), key |-> disk[id].key]])
  <2> SUFFICES ASSUME IInv, IInv', [Next]_vars
               PROVE  Durable!Next
    OBVIOUS
  <2>1. \A id \in Ids : Moves(id)
    BY StepMoves
  <2>2. \A id \in Ids : Transfer(disk'[id]) \in [status : Durable!Statuses, key : Keys \cup {NoKey}]
    <3>1. \A id \in Ids : disk'[id] \in Files
      BY DEF IInv, TypeOK
    <3> QED BY <3>1 DEF Transfer, StatusOf, Files, Dlstates, Finished, Unfinished, Durable!Statuses
  <2> QED BY <2>1, <2>2 DEF Durable!Next, Moves, Transfer
<1> QED BY <1>1, <1>2, Invariance, PTL DEF Spec, TransfersSpec, Durable!Spec

=============================================================================
