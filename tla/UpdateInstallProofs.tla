--------------------------- MODULE UpdateInstallProofs --------------------------
(***************************************************************************)
(* Proofs about UpdateInstall and HttpDownload, how a package is installed *)
(* and how it is fetched, for every value of their constants: any number   *)
(* of editions of any sizes, any server and any number of process stops.   *)
(***************************************************************************)
EXTENDS UpdateInstall, HttpDownload, SequenceTheorems, TLAPS

--------------------------------------------------------------------------------
\* Type correctness

\* Prepending an entry to a journal and trimming it yields a journal.
LEMMA PrependIsJournal ==
  ASSUME journal \in Seq(Entry), Len(journal) <= MaxEntries, NEW e \in Entry
  PROVE  Prepend(e) \in Seq(Entry) /\ Len(Prepend(e)) <= MaxEntries
<1>1. CASE Len(journal) < MaxEntries
  <2>1. Prepend(e) = <<e>> \o journal  BY <1>1 DEF Prepend
  <2>2. <<e>> \in Seq(Entry) /\ Len(<<e>>) = 1  OBVIOUS
  <2>3. <<e>> \o journal \in Seq(Entry) /\ Len(<<e>> \o journal) = 1 + Len(journal)
    BY <2>2, ConcatProperties
  <2> QED  BY <1>1, <2>1, <2>3, LenProperties, MaxEntriesAssumption
<1>2. CASE ~(Len(journal) < MaxEntries)
  <2> DEFINE rest == SubSeq(journal, 1, MaxEntries - 1)
  <2>1. Prepend(e) = <<e>> \o rest  BY <1>2 DEF Prepend
  <2>2. Len(journal) = MaxEntries  BY <1>2, LenProperties, MaxEntriesAssumption
  <2>3. rest \in Seq(Entry) /\ Len(rest) = MaxEntries - 1
    BY <2>2, SubSeqProperties, MaxEntriesAssumption
  <2>4. <<e>> \in Seq(Entry) /\ Len(<<e>>) = 1  OBVIOUS
  <2> HIDE DEF rest
  <2>5. <<e>> \o rest \in Seq(Entry) /\ Len(<<e>> \o rest) = 1 + (MaxEntries - 1)
    BY <2>3, <2>4, ConcatProperties
  <2> QED  BY <2>1, <2>5, MaxEntriesAssumption
<1> QED  BY <1>1, <1>2

\* What the journal helpers leave is a journal again.
LEMMA RecordIsJournal ==
  ASSUME TypeOK, offer \in Offers, NEW s \in Status, Record(s)
  PROVE  journal' \in Seq(Entry) /\ Len(journal') <= MaxEntries
<1> DEFINE e == [status |-> s, to |-> offer.version]
<1>1. e \in Entry  BY InputAssumption DEF Entry, Offer
<1>2. journal' = Prepend(e) \/ journal' = journal  BY DEF Record
<1> HIDE DEF e
<1> QED  BY <1>1, <1>2, PrependIsJournal DEF TypeOK

\* Begin is only called with a manifest, and only while it runs is one in use.
Offering == pc # "idle" => (up /\ offer \in Offers)

\* A download that arrived, and a copy cut short, are files.
LEMMA DeliveredIsFile ==
  ASSUME NEW o \in Offers, NEW f \in Delivered(o)
  PROVE  f \in File /\ f.release = o.version /\ f.declared \in {f.schema, NoSchema}
<1>1. o \in Offer /\ o.declared \in {o.schema, NoSchema}
  BY InputAssumption, PublisherAssumption
<1>2. PICK s \in BOOLEAN, i \in BOOLEAN :
        f = [release |-> o.version, schema |-> o.schema, declared |-> o.declared,
             sound |-> s, intact |-> i]
  BY <1>1 DEF Delivered, Offer
<1> QED  BY <1>1, <1>2 DEF Offer, File

\* The files a step works on are there when it runs.
FilesPresent ==
  /\ pc = "checksum" => Arrived # NoFile
  /\ pc = "extract" => transfer # NoFile
  /\ pc \in {"verify", "migrate", "backup", "close", "copy", "replace"} => staged # NoFile
  /\ pc \in {"open", "index", "stamp", "analyze", "metadata", "record",
             "journal", "cleanup"} => live # NoFile

TypeInv == TypeOK /\ Offering /\ FilesPresent

\* Changing what a file says about itself leaves a file.
LEMMA FileUpdates ==
  \A f \in File :
    /\ Torn(f) \in File
    /\ \A s \in Schemas :
         /\ [f EXCEPT !.declared = s] \in File
         /\ [f EXCEPT !.schema = s] \in File
         /\ [f EXCEPT !.schema = s, !.declared = s] \in File
BY DEF File, Torn

\* A schema a migration produces is one of the schemas.
LEMMA MigrationTarget ==
  ASSUME NEW f \in File, CanMigrate(f.declared), f.declared < MaxSchema
  PROVE  f.declared + 1 \in Schemas
<1>1. f.declared \in Nat /\ MaxSchema \in Nat
  <2>1. f.declared \in Schemas \cup {NoSchema}  BY DEF File
  <2>2. Schemas \subseteq Nat /\ MaxSchema \in Schemas  BY SchemaAssumption
  <2>3. NoSchema \in Nat  BY DEF NoSchema
  <2> QED  BY <2>1, <2>2, <2>3, Zenon
<1>2. f.declared + 1 \in (f.declared + 1) .. MaxSchema  BY <1>1
<1> QED  BY <1>2, SchemaAssumption DEF CanMigrate

\* Every variable has its type, an install under way has a manifest, and the
\* files its steps read are present, in every reachable state.
LEMMA TypeInvariant == Spec => []TypeInv
<1> USE InputAssumption, FileAssumption, SchemaAssumption
<1>1. Init => TypeInv
  <2> SUFFICES ASSUME Init PROVE TypeInv
    OBVIOUS
  <2>1. journal \in Seq(Entry) /\ Len(journal) <= MaxEntries
    BY MaxEntriesAssumption DEF Init
  <2> QED  BY <2>1 DEF Init, TypeInv, TypeOK, Offering, FilesPresent, Outcomes
<1>2. TypeInv /\ [Next]_vars => TypeInv'
  <2> SUFFICES ASSUME TypeInv, [Next]_vars
               PROVE  TypeInv'
    OBVIOUS
  <2> USE DEF TypeInv, TypeOK, Offering, FilesPresent, Arrived, Steps, Outcomes,
              files, history, At, GoTo, FailWith, Running
  <2>1. ASSUME NEW o \in Offers, Begin(o) PROVE TypeInv'
    BY <2>1 DEF Begin
  <2>2. CASE Download
    <3>1. PICK f \in Delivered(offer) :
            IF offer.compressed
              THEN transfer' = f /\ UNCHANGED staged
              ELSE staged' = f /\ UNCHANGED transfer
      BY <2>2 DEF Download
    <3>2. f \in File /\ f # NoFile  BY <2>2, <3>1, DeliveredIsFile DEF Download
    <3> QED  BY <2>2, <3>1, <3>2 DEF Download
  <2>3. ASSUME NEW k \in {"cancelled", "error"},
               DownloadFails(k) \/ ChecksumFails(k) \/ ExtractFails(k)
        PROVE  TypeInv'
    BY <2>3 DEF DownloadFails, ChecksumFails, ExtractFails
  <2>4. CASE ChecksumAccepts \/ ChecksumMismatch
    BY <2>4 DEF ChecksumAccepts, ChecksumMismatch
  <2>5. CASE Extract  BY <2>5 DEF Extract
  <2>6. CASE VerifyAccepts \/ VerifyRejects  BY <2>6 DEF VerifyAccepts, VerifyRejects
  <2>7. CASE MigrateStep
    <3>1. staged \in File  BY <2>7 DEF MigrateStep
    <3>2. staged.declared + 1 \in Schemas
      BY <2>7, <3>1, MigrationTarget DEF MigrateStep
    <3>3. [staged EXCEPT !.schema = staged.declared + 1,
                         !.declared = staged.declared + 1] \in File
      BY <3>1, <3>2, FileUpdates
    <3>4. staged' \in File /\ staged' # NoFile  BY <2>7, <3>3 DEF MigrateStep
    <3> QED  BY <2>7, <3>4 DEF MigrateStep
  <2>8. CASE MigrateDone  BY <2>8 DEF MigrateDone
  <2>9. CASE MigrateFails
    <3>1. staged \in File  BY <2>9 DEF MigrateFails
    <3>2. staged' \in File
      BY <2>9, <3>1, FileUpdates, MigrationTarget, ZenonT(60) DEF MigrateFails
    <3> QED  BY <2>9, <3>2 DEF MigrateFails
  <2>10. CASE Backup \/ BackupFails \/ CloseLive
    <3>1. CASE Backup  BY <3>1 DEF Backup
    <3>2. CASE BackupFails  BY <3>2 DEF BackupFails
    <3>3. CASE CloseLive
      <4>1. wasOpen' \in BOOLEAN  BY <3>3, Zenon DEF CloseLive
      <4>2. TypeOK'  BY <3>3, <4>1, ZenonT(60) DEF CloseLive
      <4>3. Offering'  BY <3>3 DEF CloseLive
      <4>4. FilesPresent'  BY <3>3 DEF CloseLive
      <4> QED  BY <4>2, <4>3, <4>4
    <3> QED  BY <2>10, <3>1, <3>2, <3>3
  <2>11. CASE CopyIncoming
    <3>1. incoming' \in File  BY <2>11, FileUpdates DEF CopyIncoming
    <3> QED  BY <2>11, <3>1 DEF CopyIncoming
  <2>12. CASE ReplaceLive \/ InstallFails \/ OpenNew
    <3>1. CASE ReplaceLive  BY <3>1 DEF ReplaceLive
    <3>2. CASE InstallFails  BY <3>2, ZenonT(60) DEF InstallFails
    <3>3. CASE OpenNew  BY <3>3 DEF OpenNew
    <3> QED  BY <2>12, <3>1, <3>2, <3>3
  <2>13. ASSUME NEW step, NEW then, Stamp(step, then), step \in {"stamp", "metadata"},
                then \in {"analyze", "record"}
         PROVE  TypeInv'
    <3>1. live \in File /\ offer.schema \in Schemas  BY <2>13 DEF Stamp, Offer
    <3>2. [live EXCEPT !.declared = offer.schema] \in File  BY <3>1, FileUpdates
    <3>3. live' \in File /\ live' # NoFile  BY <2>13, <3>2 DEF Stamp
    <3> QED  BY <2>13, <3>3 DEF Stamp
  <2>14. CASE BuildIndexes \/ Analyze \/ PostInstallFails \/ RecordLineage
    BY <2>14 DEF BuildIndexes, Analyze, PostInstallFails, RecordLineage, Maintain
  <2>15. CASE RecordSuccess
    <3>1. journal' \in Seq(Entry) /\ Len(journal') <= MaxEntries
      BY <2>15, RecordIsJournal DEF RecordSuccess, Status
    <3> QED  BY <2>15, <3>1 DEF RecordSuccess
  <2>16. CASE CleanUp \/ CleanUpFails  BY <2>16 DEF CleanUp, CleanUpFails
  <2>17. CASE DiscardStaging \/ RollbackRestores \/ RollbackFails \/ RollbackOpenFails
    <3>1. CASE DiscardStaging  BY <3>1 DEF DiscardStaging
    <3>2. CASE RollbackRestores  BY <3>2 DEF RollbackRestores
    <3>3. CASE RollbackFails
      <4>1. TypeOK'  BY <3>3, ZenonT(60) DEF RollbackFails
      <4>2. Offering'  BY <3>3 DEF RollbackFails
      <4>3. FilesPresent'  BY <3>3 DEF RollbackFails
      <4> QED  BY <4>1, <4>2, <4>3
    <3>4. CASE RollbackOpenFails  BY <3>4, ZenonT(60) DEF RollbackOpenFails
    <3> QED  BY <2>17, <3>1, <3>2, <3>3, <3>4
  <2>18. CASE RollbackReopens
    <3>1. open' \in BOOLEAN  BY <2>18, Zenon DEF RollbackReopens
    <3> QED  BY <2>18, <3>1 DEF RollbackReopens
  <2>19. CASE RecordFailure
    <3>1. journal' \in Seq(Entry) /\ Len(journal') <= MaxEntries
      BY <2>19, RecordIsJournal DEF RecordFailure, Status, FailureStatus
    <3> QED  BY <2>19, <3>1 DEF RecordFailure
  <2>20. CASE Stop  BY <2>20 DEF Stop
  <2>21. CASE Start
    <3>1. open' \in BOOLEAN  BY <2>21, Zenon DEF Start
    <3> QED  BY <2>21, <3>1 DEF Start
  <2>22. CASE UNCHANGED vars  BY <2>22 DEF vars
  <2>23. CASE StampSchema \/ StampMetadata
    BY <2>13, <2>23 DEF StampSchema, StampMetadata
  <2> QED
    BY <2>1, <2>2, <2>3, <2>4, <2>5, <2>6, <2>7, <2>8, <2>9, <2>10, <2>11, <2>12,
       <2>14, <2>15, <2>16, <2>17, <2>18, <2>19, <2>20, <2>21, <2>22, <2>23
    DEF Next, Install, Prepare, Swap, Handle
<1> QED  BY <1>1, <1>2, PTL DEF Spec

\* Type correctness of the whole pipeline.
THEOREM TypeCorrect == Spec => []TypeOK
BY TypeInvariant, PTL DEF TypeInv

--------------------------------------------------------------------------------
\* The inductive invariant, in three parts

Consistent(f) == f.declared \in {f.schema, NoSchema}
Checked(f)    == f.release = offer.version /\ (offer.digest => f.intact)
Proved(f)     == Checked(f) /\ Usable(f)

BeforeSwap == {"download", "checksum", "extract", "verify", "migrate", "backup",
               "close", "copy", "replace", "cancel"}
AfterSwap  == {"open", "index", "stamp", "analyze", "metadata", "record",
               "journal", "cleanup"}

\* What each step has established about the file it hands on: by the time
\* the working database is touched, the staged package has been checked
\* against its manifest, verified and migrated.
StagingInv ==
  /\ pc = "checksum" => Arrived.release = offer.version /\ Consistent(Arrived)
  /\ pc = "extract" => offer.compressed /\ Checked(transfer) /\ Consistent(transfer)
  /\ pc \in {"verify", "migrate"} => Checked(staged) /\ Consistent(staged)
  /\ pc = "migrate" => staged.sound
  /\ pc \in {"backup", "close", "copy", "replace"} => Proved(staged)

\* What the working database is relative to the call of install().
BeforeUsable == before = NoFile \/ before \in FirstLive \/ Usable(before)
LiveInv ==
  /\ LiveUsable /\ BeforeUsable /\ BackupIsPrevious
  /\ pc \in BeforeSwap => live = before
  /\ pc \in AfterSwap => swapped /\ Proved(live)
  /\ pc \in {"rollback", "record_failure"} =>
       \/ live = before
       \/ swapped /\ failure = "error" /\ live # NoFile /\ Proved(live)
  /\ pc = "record_failure" => (live = before \/ backup = NoFile \/ gaveUp)

\* Who holds the database open, and what the manifest stamped into it.
OpenInv ==
  /\ OpenAtRest
  /\ pc \in AfterSwap \ {"open"} => open
  /\ pc \in {"analyze", "metadata", "record", "journal", "cleanup"} =>
       live.declared = offer.schema
  /\ pc = "record_failure" => (live # NoFile => open \/ gaveUp)

\* What the steps establish about the staging files holds.
LEMMA StagingInvariant == Spec => []StagingInv
<1> USE DEF StagingInv
<1>1. Init => StagingInv
  BY DEF Init
<1>2. TypeInv /\ StagingInv /\ [Next]_vars => StagingInv'
  <2> SUFFICES ASSUME TypeInv, StagingInv, [Next]_vars
               PROVE  StagingInv'
    OBVIOUS
  <2> USE DEF Arrived, Checked, Proved, Consistent, Usable, files, history,
              At, GoTo, FailWith, Running
  <2>1. ASSUME NEW o \in Offers, Begin(o) PROVE StagingInv'
    BY <2>1 DEF Begin
  <2>2. CASE Download
    <3>1. offer \in Offers  BY <2>2 DEF Download, TypeInv, Offering
    <3>2. PICK f \in Delivered(offer) :
            IF offer.compressed
              THEN transfer' = f /\ UNCHANGED staged
              ELSE staged' = f /\ UNCHANGED transfer
      BY <2>2 DEF Download
    <3>3. f.release = offer.version /\ f.declared \in {f.schema, NoSchema}
      BY <3>1, DeliveredIsFile
    <3> QED  BY <2>2, <3>2, <3>3 DEF Download
  <2>3. ASSUME NEW k \in {"cancelled", "error"},
               DownloadFails(k) \/ ChecksumFails(k) \/ ExtractFails(k)
        PROVE  StagingInv'
    BY <2>3 DEF DownloadFails, ChecksumFails, ExtractFails
  <2>4. CASE ChecksumAccepts  BY <2>4 DEF ChecksumAccepts
  <2>5. CASE ChecksumMismatch  BY <2>5 DEF ChecksumMismatch
  <2>6. CASE Extract  BY <2>6 DEF Extract
  <2>7. CASE VerifyAccepts \/ VerifyRejects
    BY <2>7 DEF VerifyAccepts, VerifyRejects, Verifies
  <2>8. CASE MigrateStep
    <3>1. staged \in File  BY <2>8 DEF MigrateStep, TypeInv, TypeOK, FilesPresent
    <3>2. /\ staged'.release = staged.release /\ staged'.sound = staged.sound
          /\ staged'.intact = staged.intact /\ staged'.declared = staged'.schema
      BY <2>8, <3>1 DEF MigrateStep, File
    <3> QED  BY <2>8, <3>2 DEF MigrateStep
  <2>9. CASE MigrateDone
    <3>1. MaxSchema # NoSchema  BY SchemaAssumption
    <3> QED  BY <2>9, <3>1 DEF MigrateDone
  <2>10. CASE MigrateFails  BY <2>10 DEF MigrateFails
  <2>11. CASE Backup \/ BackupFails \/ CloseLive \/ CopyIncoming \/ ReplaceLive
    BY <2>11 DEF Backup, BackupFails, CloseLive, CopyIncoming, ReplaceLive
  <2>12. CASE InstallFails \/ OpenNew \/ BuildIndexes \/ StampSchema \/ Analyze
    BY <2>12 DEF InstallFails, OpenNew, BuildIndexes, StampSchema, Analyze, Stamp, Maintain
  <2>13. CASE StampMetadata \/ PostInstallFails \/ RecordLineage \/ RecordSuccess
    BY <2>13 DEF StampMetadata, PostInstallFails, RecordLineage, RecordSuccess, Stamp, Maintain
  <2>14. CASE CleanUp \/ CleanUpFails \/ Handle
    BY <2>14 DEF CleanUp, CleanUpFails, Handle, DiscardStaging, RollbackRestores,
                 RollbackFails, RollbackOpenFails, RollbackReopens, RecordFailure
  <2>15. CASE Stop \/ Start  BY <2>15 DEF Stop, Start
  <2>16. CASE UNCHANGED vars  BY <2>16 DEF vars
  <2> QED
    BY <2>1, <2>2, <2>3, <2>4, <2>5, <2>6, <2>7, <2>8, <2>9, <2>10, <2>11, <2>12,
       <2>13, <2>14, <2>15, <2>16
    DEF Next, Install, Prepare, Swap
<1> QED  BY <1>1, <1>2, TypeInvariant, PTL DEF Spec

\* What is said of the working database holds.
LEMMA LiveInvariant == Spec => []LiveInv
<1> USE DEF LiveInv, LiveUsable, BeforeUsable, BackupIsPrevious, BeforeSwap, AfterSwap
<1>1. Init => LiveInv
  BY DEF Init
<1>2. TypeInv /\ StagingInv /\ LiveInv /\ [Next]_vars => LiveInv'
  <2> SUFFICES ASSUME TypeInv, StagingInv, LiveInv, [Next]_vars
               PROVE  LiveInv'
    OBVIOUS
  <2> USE DEF Checked, Proved, Usable, files, history, At, GoTo, FailWith, Running
  <2>1. ASSUME NEW o \in Offers, Begin(o) PROVE LiveInv'
    BY <2>1 DEF Begin
  <2>2. CASE Prepare
    <3>1. pc \in BeforeSwap /\ pc' \in BeforeSwap \cup {"rollback"}
      BY <2>2 DEF Prepare, Download, DownloadFails, ChecksumAccepts, ChecksumMismatch,
           ChecksumFails, Extract, ExtractFails, VerifyAccepts, VerifyRejects,
           MigrateStep, MigrateDone, MigrateFails
    <3>2. UNCHANGED <<live, before, backup, swapped, gaveUp>>
      BY <2>2 DEF Prepare, Download, DownloadFails, ChecksumAccepts, ChecksumMismatch,
           ChecksumFails, Extract, ExtractFails, VerifyAccepts, VerifyRejects,
           MigrateStep, MigrateDone, MigrateFails
    <3> QED  BY <3>1, <3>2
  <2>3. CASE Backup \/ BackupFails
    BY <2>3 DEF Backup, BackupFails
  <2>4. CASE CloseLive \/ CopyIncoming
    BY <2>4 DEF CloseLive, CopyIncoming
  <2>5. CASE ReplaceLive  BY <2>5 DEF ReplaceLive, StagingInv
  <2>6. CASE InstallFails  BY <2>6 DEF InstallFails
  <2>7. CASE OpenNew \/ BuildIndexes \/ Analyze \/ RecordLineage \/ RecordSuccess
    BY <2>7 DEF OpenNew, BuildIndexes, Analyze, RecordLineage, RecordSuccess, Maintain
  <2>8. CASE StampSchema \/ StampMetadata
    <3>1. live \in File
      BY <2>8 DEF StampSchema, StampMetadata, Stamp, TypeInv, TypeOK, FilesPresent
    <3>2. /\ live'.release = live.release /\ live'.intact = live.intact
          /\ live'.sound = live.sound /\ live'.schema = live.schema
      BY <2>8, <3>1 DEF StampSchema, StampMetadata, Stamp, File
    <3> QED  BY <2>8, <3>2 DEF StampSchema, StampMetadata, Stamp
  <2>9. CASE PostInstallFails \/ CleanUpFails
    BY <2>9 DEF PostInstallFails, CleanUpFails, TypeInv, FilesPresent
  <2>10. CASE CleanUp  BY <2>10 DEF CleanUp
  <2>11. CASE \/ DiscardStaging \/ RollbackRestores \/ RollbackFails
             \/ RollbackOpenFails \/ RollbackReopens
    BY <2>11 DEF DiscardStaging, RollbackRestores, RollbackFails, RollbackOpenFails,
         RollbackReopens
  <2>12. CASE RecordFailure  BY <2>12 DEF RecordFailure
  <2>13. CASE Stop \/ Start  BY <2>13 DEF Stop, Start
  <2>14. CASE UNCHANGED vars  BY <2>14 DEF vars
  <2> QED
    BY <2>1, <2>2, <2>3, <2>4, <2>5, <2>6, <2>7, <2>8, <2>9, <2>10, <2>11, <2>12,
       <2>13, <2>14
    DEF Next, Install, Swap, Handle
<1> QED  BY <1>1, <1>2, TypeInvariant, StagingInvariant, PTL DEF Spec

\* What is said of who has it open holds.
LEMMA OpenInvariant == Spec => []OpenInv
<1> USE DEF OpenInv, OpenAtRest, AfterSwap
<1>1. Init => OpenInv
  BY DEF Init
<1>2. TypeInv /\ OpenInv /\ [Next]_vars => OpenInv'
  <2> SUFFICES ASSUME TypeInv, OpenInv, [Next]_vars
               PROVE  OpenInv'
    OBVIOUS
  <2> USE DEF files, history, At, GoTo, FailWith, Running
  <2>1. ASSUME NEW o \in Offers, Begin(o) PROVE OpenInv'
    BY <2>1 DEF Begin
  <2>2. CASE Prepare
    BY <2>2 DEF Prepare, Download, DownloadFails, ChecksumAccepts, ChecksumMismatch,
         ChecksumFails, Extract, ExtractFails, VerifyAccepts, VerifyRejects,
         MigrateStep, MigrateDone, MigrateFails
  <2>3. CASE Backup \/ BackupFails \/ CloseLive \/ CopyIncoming \/ ReplaceLive
    BY <2>3 DEF Backup, BackupFails, CloseLive, CopyIncoming, ReplaceLive
  <2>4. CASE InstallFails  BY <2>4 DEF InstallFails
  <2>5. CASE OpenNew \/ BuildIndexes \/ Analyze \/ RecordLineage \/ RecordSuccess
    BY <2>5 DEF OpenNew, BuildIndexes, Analyze, RecordLineage, RecordSuccess, Maintain
  <2>6. CASE StampSchema \/ StampMetadata
    <3>1. live \in File
      BY <2>6 DEF StampSchema, StampMetadata, Stamp, TypeInv, TypeOK, FilesPresent
    <3>2. live'.declared = offer'.schema
      BY <2>6, <3>1 DEF StampSchema, StampMetadata, Stamp, File
    <3> QED  BY <2>6, <3>2 DEF StampSchema, StampMetadata, Stamp
  <2>7. CASE PostInstallFails \/ CleanUp \/ CleanUpFails
    BY <2>7 DEF PostInstallFails, CleanUp, CleanUpFails
  <2>8. CASE \/ DiscardStaging \/ RollbackRestores \/ RollbackFails
             \/ RollbackOpenFails \/ RollbackReopens
    BY <2>8 DEF DiscardStaging, RollbackRestores, RollbackFails, RollbackOpenFails,
         RollbackReopens
  <2>9. CASE RecordFailure  BY <2>9 DEF RecordFailure
  <2>10. CASE Stop \/ Start
    <3>1. CASE Stop  BY <3>1 DEF Stop
    <3>2. CASE Start
      <4>1. pc = "idle" /\ pc' = "idle" /\ live' = live
        BY <3>2 DEF Start, TypeInv, Offering
      <4>2. (live # NoFile /\ Verifies(live)) => open'  BY <3>2, Zenon DEF Start
      <4> QED  BY <4>1, <4>2 DEF Verifies
    <3> QED  BY <2>10, <3>1, <3>2
  <2>11. CASE UNCHANGED vars
    BY <2>11 DEF vars, Verifies
  <2> QED
    BY <2>1, <2>2, <2>3, <2>4, <2>5, <2>6, <2>7, <2>8, <2>9, <2>10, <2>11
    DEF Next, Install, Swap, Handle
<1> QED  BY <1>1, <1>2, TypeInvariant, PTL DEF Spec

--------------------------------------------------------------------------------
\* The theorems

\* Whatever fails, and wherever the process is killed, the working database is
\* absent, the first one, or a verified package at this build's schema.
THEOREM LiveStaysUsable == Spec => []LiveUsable
BY LiveInvariant, PTL DEF LiveInv

\* After a handler's rollback the previous database is in place, unless the
\* swap had happened and there was no snapshot or it could not be restored.
THEOREM HandlersKeepPrevious == Spec => []HandlerKeepsPrevious
<1>1. LiveInv => HandlerKeepsPrevious  BY DEF LiveInv, HandlerKeepsPrevious
<1> QED  BY <1>1, LiveInvariant, PTL

\* A snapshot a run has taken is the database that run started from.
THEOREM SnapshotsArePrevious == Spec => []BackupIsPrevious
BY LiveInvariant, PTL DEF LiveInv

\* At rest an installed, verifiable database is open, unless a rollback gave up.
THEOREM OpensAtRest == Spec => []OpenAtRest
BY OpenInvariant, PTL DEF OpenInv

\* Only the checked, verified and migrated package, or the previous database,
\* ever takes the place of the working database.
THEOREM OnlyProvedPackagesInstalled == Spec => OnlyProvedPackages
<1> DEFINE Replaced ==
      \/ live' = before
      \/ /\ pc # "idle" /\ live' # NoFile
         /\ live'.release = offer.version
         /\ Usable(live')
         /\ offer.digest => live'.intact
<1>1. TypeInv /\ StagingInv /\ LiveInv /\ [Next]_vars => [live' # live => Replaced]_vars
  <2> SUFFICES ASSUME TypeInv, StagingInv, LiveInv, Next, live' # live
               PROVE  Replaced
    OBVIOUS
  <2> USE DEF files, history, At, GoTo, FailWith, Running
  <2>1. CASE ReplaceLive
    BY <2>1 DEF ReplaceLive, StagingInv, Proved, Checked, TypeInv, FilesPresent
  <2>2. CASE StampSchema \/ StampMetadata
    <3>1. live \in File /\ Proved(live) /\ offer.schema \in Schemas
      BY <2>2, InputAssumption DEF StampSchema, StampMetadata, Stamp, TypeInv, TypeOK,
              FilesPresent, Offering, LiveInv, AfterSwap, Offer
    <3>2. live' = [live EXCEPT !.declared = offer.schema] /\ pc # "idle"
      BY <2>2 DEF StampSchema, StampMetadata, Stamp
    <3>3. live' \in File  BY <3>1, <3>2, FileUpdates
    <3>4. /\ live'.release = live.release /\ live'.intact = live.intact
          /\ live'.sound = live.sound /\ live'.schema = live.schema
      BY <3>1, <3>2 DEF File
    <3> QED  BY <3>1, <3>2, <3>3, <3>4, FileAssumption DEF Proved, Checked, Usable
  <2>3. CASE RollbackRestores \/ RollbackOpenFails
    BY <2>3 DEF RollbackRestores, RollbackOpenFails, LiveInv, BackupIsPrevious
  <2>4. CASE Prepare
    BY <2>4 DEF Prepare, Download, DownloadFails, ChecksumAccepts, ChecksumMismatch,
         ChecksumFails, Extract, ExtractFails, VerifyAccepts, VerifyRejects,
         MigrateStep, MigrateDone, MigrateFails
  <2>5. CASE (\E o \in Offers : Begin(o)) \/ Stop \/ Start
    BY <2>5 DEF Begin, Stop, Start
  <2>6. CASE \/ Backup \/ BackupFails \/ CloseLive \/ CopyIncoming \/ InstallFails
             \/ OpenNew \/ BuildIndexes \/ Analyze \/ PostInstallFails
             \/ RecordLineage \/ RecordSuccess \/ CleanUp \/ CleanUpFails
    BY <2>6 DEF Backup, BackupFails, CloseLive, CopyIncoming, InstallFails, OpenNew,
         BuildIndexes, Analyze, PostInstallFails, RecordLineage, RecordSuccess,
         CleanUp, CleanUpFails, Maintain
  <2>7. CASE DiscardStaging \/ RollbackFails \/ RollbackReopens \/ RecordFailure
    BY <2>7 DEF DiscardStaging, RollbackFails, RollbackReopens, RecordFailure
  <2> QED
    BY <2>1, <2>2, <2>3, <2>4, <2>5, <2>6, <2>7 DEF Next, Install, Swap, Handle
<1> QED
  BY <1>1, TypeInvariant, StagingInvariant, LiveInvariant, PTL
  DEF Spec, OnlyProvedPackages

\* The entry a journal write adds is the one in front.
LEMMA PrependHead ==
  ASSUME journal \in Seq(Entry), Len(journal) <= MaxEntries, NEW e \in Entry
  PROVE  Head(Prepend(e)) = e
<1> DEFINE rest == IF Len(journal) < MaxEntries THEN journal
                   ELSE SubSeq(journal, 1, MaxEntries - 1)
<1>1. Prepend(e) = <<e>> \o rest  BY DEF Prepend
<1>2. rest \in Seq(Entry)
  <2>1. CASE Len(journal) < MaxEntries  BY <2>1
  <2>2. CASE ~(Len(journal) < MaxEntries)
    <3>1. Len(journal) = MaxEntries  BY <2>2, LenProperties, MaxEntriesAssumption
    <3> QED  BY <2>2, <3>1, SubSeqProperties, MaxEntriesAssumption
  <2> QED  BY <2>1, <2>2
<1>3. <<e>> \in Seq(Entry) /\ Len(<<e>>) = 1 /\ <<e>>[1] = e  OBVIOUS
<1> HIDE DEF rest
<1>4. (<<e>> \o rest)[1] = e  BY <1>2, <1>3, ConcatProperties, LenProperties
<1> QED  BY <1>1, <1>4

\* The journal says "success" only of the release that is in place, open and
\* stamped at that moment.
THEOREM SuccessEarned == Spec => SuccessIsEarned
<1> DEFINE Earned ==
      /\ open /\ live # NoFile
      /\ live.release = Head(journal').to
      /\ live.declared = offer.schema
<1>1. TypeInv /\ LiveInv /\ OpenInv /\ [Next]_vars =>
        [(journal' # journal /\ Head(journal').status = "success") => Earned]_vars
  <2> SUFFICES ASSUME TypeInv, LiveInv, OpenInv, Next, journal' # journal,
                      Head(journal').status = "success"
               PROVE  Earned
    OBVIOUS
  <2> USE DEF files, history, At, GoTo, FailWith, Running
  <2>1. ASSUME NEW s \in Status, Record(s), offer \in Offers
        PROVE  Head(journal').status = s /\ Head(journal').to = offer.version
    <3> DEFINE e == [status |-> s, to |-> offer.version]
    <3>1. e \in Entry  BY <2>1, InputAssumption DEF Entry, Offer
    <3>2. journal' = Prepend(e)  BY <2>1 DEF Record
    <3>3. e.status = s /\ e.to = offer.version  OBVIOUS
    <3> HIDE DEF e
    <3>4. Head(journal') = e  BY <3>1, <3>2, PrependHead DEF TypeInv, TypeOK
    <3> QED  BY <3>3, <3>4
  <2>2. CASE RecordSuccess
    <3>1. Head(journal').to = offer.version
      BY <2>1, <2>2 DEF RecordSuccess, Status, TypeInv, Offering
    <3> QED
      BY <2>2, <3>1
      DEF RecordSuccess, LiveInv, OpenInv, AfterSwap, Proved, Checked, TypeInv, FilesPresent
  <2>3. CASE RecordFailure
    <3>1. FailureStatus \in Status /\ FailureStatus # "success"
      BY DEF FailureStatus, Status
    <3> QED  BY <2>1, <2>3, <3>1 DEF RecordFailure, TypeInv, Offering
  <2>4. CASE Prepare
    BY <2>4 DEF Prepare, Download, DownloadFails, ChecksumAccepts, ChecksumMismatch,
         ChecksumFails, Extract, ExtractFails, VerifyAccepts, VerifyRejects,
         MigrateStep, MigrateDone, MigrateFails
  <2>5. CASE (\E o \in Offers : Begin(o)) \/ Stop \/ Start
    BY <2>5 DEF Begin, Stop, Start
  <2>6. CASE \/ Backup \/ BackupFails \/ CloseLive \/ CopyIncoming \/ ReplaceLive
             \/ InstallFails \/ OpenNew \/ BuildIndexes \/ StampSchema \/ Analyze
             \/ StampMetadata \/ PostInstallFails \/ RecordLineage
             \/ CleanUp \/ CleanUpFails
    BY <2>6 DEF Backup, BackupFails, CloseLive, CopyIncoming, ReplaceLive, InstallFails,
         OpenNew, BuildIndexes, StampSchema, Analyze, StampMetadata, PostInstallFails,
         RecordLineage, CleanUp, CleanUpFails, Maintain, Stamp
  <2>7. CASE \/ DiscardStaging \/ RollbackRestores \/ RollbackFails
             \/ RollbackOpenFails \/ RollbackReopens
    BY <2>7 DEF DiscardStaging, RollbackRestores, RollbackFails, RollbackOpenFails,
         RollbackReopens
  <2> QED
    BY <2>2, <2>3, <2>4, <2>5, <2>6, <2>7 DEF Next, Install, Swap, Handle
<1> QED
  BY <1>1, TypeInvariant, LiveInvariant, OpenInvariant, PTL
  DEF Spec, SuccessIsEarned

--------------------------------------------------------------------------------
\* Refinement

\* Every behaviour of the pipeline, its handlers and its crashes is, for a
\* reader of the database path, a behaviour of AtomicUpdate.
THEOREM UpdateIsAtomic == Spec => ImplementsAtomicUpdate
<1> USE DEF ReleaseOf
<1>1. Init => Atomic!Init
  BY InputAssumption DEF Init, Atomic!Init, Atomic!Stored, File
<1>2. TypeInv /\ StagingInv /\ LiveInv /\ [Next]_vars => [Atomic!Next]_(Atomic!vars)
  <2> SUFFICES ASSUME TypeInv, StagingInv, LiveInv, [Next]_vars
               PROVE  [Atomic!Next]_(Atomic!vars)
    OBVIOUS
  <2> USE DEF files, history, At, GoTo, FailWith, Running, Atomic!vars
  <2>1. ASSUME NEW o \in Offers, Begin(o) PROVE Atomic!Next
    <3>1. o.version \in Releases  BY InputAssumption DEF Offer
    <3>2. Atomic!Begin(o.version)  BY <2>1 DEF Begin, Atomic!Begin
    <3> QED  BY <3>1, <3>2 DEF Atomic!Next
  <2>2. CASE Prepare
    <3>1. pc # "idle" /\ pc' # "idle" /\ UNCHANGED <<live, before, offer>>
      BY <2>2 DEF Prepare, Download, DownloadFails, ChecksumAccepts, ChecksumMismatch,
           ChecksumFails, Extract, ExtractFails, VerifyAccepts, VerifyRejects,
           MigrateStep, MigrateDone, MigrateFails
    <3> QED  BY <3>1
  <2>3. CASE \/ Backup \/ BackupFails \/ CloseLive \/ CopyIncoming \/ InstallFails
             \/ OpenNew \/ BuildIndexes \/ Analyze \/ PostInstallFails
             \/ RecordLineage \/ RecordSuccess \/ CleanUpFails
    <3>1. pc # "idle" /\ pc' # "idle" /\ UNCHANGED <<live, before, offer>>
      BY <2>3 DEF Backup, BackupFails, CloseLive, CopyIncoming, InstallFails, OpenNew,
           BuildIndexes, Analyze, PostInstallFails, RecordLineage, RecordSuccess,
           CleanUpFails, Maintain
    <3> QED  BY <3>1
  <2>4. CASE ReplaceLive
    <3>1. staged # NoFile /\ staged.release = offer.version /\ live = before
      BY <2>4 DEF ReplaceLive, TypeInv, FilesPresent, StagingInv, LiveInv, BeforeSwap,
              Proved, Checked
    <3>2. Atomic!Commit  BY <2>4, <3>1 DEF ReplaceLive, Atomic!Commit
    <3> QED  BY <3>2 DEF Atomic!Next
  <2>5. CASE StampSchema \/ StampMetadata
    <3>1. live \in File /\ live # NoFile /\ offer.schema \in Schemas
      BY <2>5, InputAssumption DEF StampSchema, StampMetadata, Stamp, TypeInv, TypeOK,
              FilesPresent, Offering, Offer
    <3>2. live' = [live EXCEPT !.declared = offer.schema]
      BY <2>5 DEF StampSchema, StampMetadata, Stamp
    <3>3. live' \in File  BY <3>1, <3>2, FileUpdates
    <3>4. live'.release = live.release /\ live' # NoFile
      BY <3>1, <3>2, <3>3, FileAssumption DEF File
    <3>5. pc # "idle" /\ pc' # "idle" /\ UNCHANGED <<before, offer>>
      BY <2>5 DEF StampSchema, StampMetadata, Stamp
    <3> QED  BY <3>1, <3>4, <3>5
  <2>6. CASE RollbackRestores \/ RollbackOpenFails
    <3>1. CASE backup # NoFile
      <4>1. Atomic!Undo
        BY <2>6, <3>1 DEF RollbackRestores, RollbackOpenFails, Atomic!Undo, LiveInv,
             BackupIsPrevious
      <4> QED  BY <4>1 DEF Atomic!Next
    <3>2. CASE backup = NoFile
      <4>1. pc # "idle" /\ pc' # "idle" /\ UNCHANGED <<live, before, offer>>
        BY <2>6, <3>2 DEF RollbackRestores, RollbackOpenFails
      <4> QED  BY <4>1
    <3> QED  BY <3>1, <3>2
  <2>7. CASE DiscardStaging \/ RollbackFails \/ RollbackReopens
    <3>1. pc # "idle" /\ pc' # "idle" /\ UNCHANGED <<live, before, offer>>
      BY <2>7 DEF DiscardStaging, RollbackFails, RollbackReopens
    <3> QED  BY <3>1
  <2>8. CASE CleanUp \/ RecordFailure
    <3>1. Atomic!End  BY <2>8 DEF CleanUp, RecordFailure, Atomic!End
    <3> QED  BY <3>1 DEF Atomic!Next
  <2>9. CASE Stop
    <3>1. CASE pc = "idle"  BY <2>9, <3>1 DEF Stop
    <3>2. CASE pc # "idle"
      <4>1. Atomic!End  BY <2>9, <3>2 DEF Stop, Atomic!End
      <4> QED  BY <4>1 DEF Atomic!Next
    <3> QED  BY <3>1, <3>2
  <2>10. CASE Start
    <3>1. pc = "idle" /\ pc' = "idle" /\ UNCHANGED live
      BY <2>10 DEF Start, TypeInv, Offering
    <3> QED  BY <3>1
  <2>11. CASE UNCHANGED vars  BY <2>11 DEF vars
  <2> QED
    BY <2>1, <2>2, <2>3, <2>4, <2>5, <2>6, <2>7, <2>8, <2>9, <2>10, <2>11
    DEF Next, Install, Swap, Handle
<1> QED
  BY <1>1, <1>2, TypeInvariant, StagingInvariant, LiveInvariant, PTL
  DEF Spec, ImplementsAtomicUpdate, Atomic!Spec

--------------------------------------------------------------------------------
\* Where a package comes from: HttpDownload

USE EditionAssumption, ServerAssumption, MaxStopsAssumption

--------------------------------------------------------------------------------
\* Type correctness

\* A chunk appended to a file, and a file cut short, are files.
LEMMA Extended ==
  ASSUME NEW f \in Content, NEW c \in Chunk
  PROVE  /\ Append(f, c) \in Content
         /\ Len(Append(f, c)) = Len(f) + 1
         /\ \A i \in 1 .. Len(f) : Append(f, c)[i] = f[i]
         /\ Append(f, c)[Len(f) + 1] = c
BY DEF Content

\* What is left of a file that is cut short.
LEMMA CutShort ==
  ASSUME NEW f \in Content, NEW n \in 0 .. Len(f)
  PROVE  /\ SubSeq(f, 1, n) \in Content
         /\ Len(SubSeq(f, 1, n)) = n
         /\ \A i \in 1 .. n : SubSeq(f, 1, n)[i] = f[i]
<1>1. f \in Seq(Chunk)
  BY DEF Content
<1>2. n \in Nat /\ n <= Len(f) /\ Len(f) \in Nat
  BY <1>1
<1>3. SubSeq(f, 1, n) \in Seq(Chunk)
  BY <1>1, <1>2, SubSeqProperties
<1>4. Len(SubSeq(f, 1, n)) = n
  BY <1>1, <1>2, SubSeqProperties
<1>5. \A i \in 1 .. n : SubSeq(f, 1, n)[i] = f[i]
  BY <1>1, <1>2, SubSeqProperties
<1> QED
  BY <1>3, <1>4, <1>5 DEF Content

(***************************************************************************)
(* While a response is read, the file is as long as the response has come, *)
(* and at least as long as the part it was resumed from.                   *)
(***************************************************************************)
Reading ==
  place = "receiving" => next = Len(part) + 1 /\ resume <= Len(part)

Asking == place = "requested" => resume = Len(part)

FetchTypeInv == FetchTypeOK /\ Reading /\ Asking

\* The types hold.
LEMMA FetchTypeInvariant == FetchSpec => []FetchTypeInv
<1>1. FetchInit => FetchTypeInv
  <2> SUFFICES ASSUME FetchInit PROVE FetchTypeInv
    OBVIOUS
  <2>1. Size[source] \in Nat \ {0} /\ source = edition
    BY DEF FetchInit
  <2>2. next \in 1 .. Size[source] + 1
    BY <2>1 DEF FetchInit
  <2>3. part \in Content /\ dest \in Content
    BY DEF FetchInit, Content
  <2>4. stops \in 0 .. MaxStops
    BY DEF FetchInit
  <2> QED
    BY <2>2, <2>3, <2>4 DEF FetchInit, FetchTypeInv, FetchTypeOK, Reading, Asking, Places
<1>2. FetchTypeInv /\ [FetchNext]_fetchVars => FetchTypeInv'
  <2> SUFFICES ASSUME FetchTypeInv, [FetchNext]_fetchVars
               PROVE  FetchTypeInv'
    OBVIOUS
  <2> USE DEF FetchTypeInv, FetchTypeOK, Reading, Asking, Places
  <2>0. Len(part) \in Nat /\ edition \in Nat /\ source \in Nat /\ Size[edition] \in Nat \ {0}
    BY DEF Content, Editions
  <2>1. CASE Publish
    BY <2>1 DEF Publish
  <2>2. CASE AnswerRange
    BY <2>0, <2>2 DEF AnswerRange, Streaming
  <2>3. CASE AnswerFirst \/ AnswerAnew
    <3>1. part' = <<>> /\ resume' = 0 /\ Streaming(0)
      BY <2>3 DEF AnswerFirst, AnswerAnew
    <3>2. part' \in Content /\ Len(part') = 0
      BY <3>1 DEF Content
    <3> QED
      BY <2>0, <3>1, <3>2 DEF Streaming
  <2>4. CASE AnswerError
    BY <2>4 DEF AnswerError
  <2>5. CASE Check
    BY <2>5 DEF Check
  <2>6. CASE Request
    BY <2>0, <2>6 DEF Request
  <2>7. CASE Receive
    <3>1. Size[source] \in Nat /\ next \in Nat \ {0}
      BY DEF Editions
    <3>2. [edition |-> source, at |-> next] \in Chunk
      BY <3>1 DEF Chunk
    <3>3. part' \in Content /\ Len(part') = Len(part) + 1
      BY <2>7, <3>2, Extended DEF Receive
    <3>4. next' \in 1 .. Size[source'] + 1
      BY <2>7, <3>1 DEF Receive
    <3>5. Reading' /\ Asking'
      BY <2>0, <2>7, <3>3 DEF Receive
    <3> QED
      BY <2>7, <3>3, <3>4, <3>5 DEF Receive
  <2>8. CASE Interrupted
    BY <2>8 DEF Interrupted
  <2>9. CASE Finish
    BY <2>9 DEF Finish, Content
  <2>10. CASE FinishFails
    BY <2>10 DEF FinishFails
  <2>11. CASE Accept
    BY <2>11 DEF Accept
  <2>12. CASE Reject
    BY <2>12 DEF Reject, Content
  <2>13. CASE StopFetch
    <3>1. dest' \in Content /\ stops' \in 0 .. MaxStops
      BY <2>13 DEF StopFetch, Content
    <3>2. part' \in Content
      <4>1. CASE place = "receiving"
        <5>1. PICK n \in resume .. Len(part) : part' = SubSeq(part, 1, n)
          BY <2>13, <4>1 DEF StopFetch
        <5>2. n \in 0 .. Len(part)
          BY <2>0, <5>1
        <5> QED
          BY <5>1, <5>2, CutShort
      <4>2. CASE place # "receiving"
        BY <2>13, <4>2 DEF StopFetch
      <4> QED
        BY <4>1, <4>2
    <3> QED
      BY <2>13, <3>1, <3>2 DEF StopFetch
  <2>14. CASE UNCHANGED fetchVars
    BY <2>14 DEF fetchVars
  <2> QED
    BY <2>1, <2>2, <2>3, <2>4, <2>5, <2>6, <2>7, <2>8, <2>9, <2>10, <2>11,
       <2>12, <2>13, <2>14 DEF FetchNext, Server, Client
<1> QED
  BY <1>1, <1>2, PTL DEF FetchSpec

\* The client's and the server's state keep their types, and a response is
\* never read past its end (HttpProvider.download).
THEOREM FetchTypeCorrect == FetchSpec => []FetchTypeOK
<1>1. FetchTypeInv => FetchTypeOK
  BY DEF FetchTypeInv
<1> QED
  BY <1>1, FetchTypeInvariant, PTL

--------------------------------------------------------------------------------
\* Chunks

\* No interruption, restart, resumption or crash leaves a hole in the file
\* or a chunk in it twice (HttpProvider.download, resume_from and the mode
\* the .part file is opened in).
THEOREM ChunksStayInPlace == FetchSpec => []ChunksInPlace
<1> USE DEF ChunksInPlace, InPlace
<1>1. FetchInit => ChunksInPlace
  BY DEF FetchInit
<1>2. FetchTypeInv /\ ChunksInPlace /\ [FetchNext]_fetchVars => ChunksInPlace'
  <2> SUFFICES ASSUME FetchTypeInv, ChunksInPlace, [FetchNext]_fetchVars
               PROVE  ChunksInPlace'
    OBVIOUS
  <2> USE DEF FetchTypeInv, FetchTypeOK
  <2>1. CASE Receive
    <3>1. [edition |-> source, at |-> next] \in Chunk
      BY DEF Chunk, Editions
    <3>2. /\ Len(part') = Len(part) + 1
          /\ \A i \in 1 .. Len(part) : part'[i] = part[i]
          /\ part'[Len(part) + 1].at = next
      BY <2>1, <3>1, Extended DEF Receive
    <3>3. next = Len(part) + 1 /\ Len(part) \in Nat
      BY <2>1 DEF Receive, Reading, Content
    <3>4. \A i \in 1 .. Len(part') : i \in 1 .. Len(part) \/ i = Len(part) + 1
      BY <3>2, <3>3
    <3> QED
      BY <2>1, <3>2, <3>3, <3>4 DEF Receive
  <2>2. CASE StopFetch
    <3>1. CASE place = "receiving"
      <4>1. PICK n \in resume .. Len(part) : part' = SubSeq(part, 1, n)
        BY <2>2, <3>1 DEF StopFetch
      <4>2. n \in 0 .. Len(part)
        BY <4>1 DEF Content
      <4> QED
        BY <2>2, <4>1, <4>2, CutShort DEF StopFetch
    <3>2. CASE place # "receiving"
      BY <2>2, <3>2 DEF StopFetch
    <3> QED
      BY <3>1, <3>2
  <2>3. CASE Finish \/ Reject \/ AnswerFirst \/ AnswerAnew
    <3>1. \/ part' = <<>> /\ dest' \in {part, dest}
          \/ part' = part /\ dest' = <<>>
      BY <2>3 DEF Finish, Reject, AnswerFirst, AnswerAnew, Streaming
    <3>2. Len(<<>>) = 0
      OBVIOUS
    <3>3. CASE part' = <<>> /\ dest' \in {part, dest}
      BY <3>2, <3>3
    <3>4. CASE part' = part /\ dest' = <<>>
      BY <3>2, <3>4
    <3> QED
      BY <3>1, <3>3, <3>4
  <2>4. CASE \/ Publish \/ AnswerRange \/ AnswerError \/ Check \/ Request
             \/ Interrupted \/ FinishFails \/ Accept \/ UNCHANGED fetchVars
    BY <2>4 DEF Publish, AnswerRange, AnswerError, Check, Request,
                Interrupted, FinishFails, Accept, Streaming, fetchVars
  <2> QED
    BY <2>1, <2>2, <2>3, <2>4 DEF FetchNext, Server, Client
<1> QED
  BY <1>1, <1>2, FetchTypeInvariant, PTL DEF FetchSpec

--------------------------------------------------------------------------------
\* Editions

(***************************************************************************)
(* No chunk is of an edition published before the file's first chunk or    *)
(* after the present; while a response is read, none is newer than it.     *)
(***************************************************************************)
Dated(file) ==
  \A i \in 1 .. Len(file) :
    file[1].edition <= file[i].edition /\ file[i].edition <= edition

EditionInv ==
  /\ Dated(part)
  /\ source <= edition
  /\ place = "receiving" =>
       \A i \in 1 .. Len(part) : part[i].edition <= source
  /\ ArrivesWhole

\* What is said of the editions of the bytes holds.
LEMMA EditionInvariant == FetchSpec => []EditionInv
<1>1. FetchInit => EditionInv
  BY DEF FetchInit, EditionInv, Dated, ArrivesWhole, Editions
<1>2. FetchTypeInv /\ ChunksInPlace /\ EditionInv /\ [FetchNext]_fetchVars => EditionInv'
  <2> SUFFICES ASSUME FetchTypeInv, ChunksInPlace, EditionInv, [FetchNext]_fetchVars
               PROVE  EditionInv'
    OBVIOUS
  <2> USE DEF FetchTypeInv, FetchTypeOK
  <2>0. /\ edition \in Nat /\ source \in Nat /\ Len(part) \in Nat /\ Len(dest) \in Nat
        /\ \A i \in 1 .. Len(part) : part[i].edition \in Nat
        /\ \A i \in 1 .. Len(dest) : dest[i].edition \in Nat
    <3>1. edition \in Nat /\ source \in Nat
      BY DEF Editions
    <3>2. \A c \in Chunk : c.edition \in Nat
      BY DEF Chunk, Editions
    <3>3. \A i \in 1 .. Len(part) : part[i] \in Chunk
      BY DEF Content
    <3>4. \A i \in 1 .. Len(dest) : dest[i] \in Chunk
      BY DEF Content
    <3>5. Len(part) \in Nat /\ Len(dest) \in Nat
      BY DEF Content
    <3> QED
      BY <3>1, <3>2, <3>3, <3>4, <3>5
  <2>1. CASE Publish
    <3>1. edition' = edition + 1 /\ UNCHANGED <<place, source, part, dest>>
      BY <2>1 DEF Publish
    <3>2. Dated(part)' /\ source' <= edition'
      BY <2>0, <3>1 DEF EditionInv, Dated
    <3>3. dest # <<>> => Len(dest) # 0
      BY DEF Content
    <3>4. dest # <<>> => dest[1].edition \in Nat
      BY <2>0, <3>3
    <3>5. ArrivesWhole'
      BY <2>0, <3>1, <3>4 DEF EditionInv, ArrivesWhole, Published
    <3> QED
      BY <3>1, <3>2, <3>5 DEF EditionInv
  <2>2. CASE AnswerRange
    BY <2>0, <2>2 DEF AnswerRange, Streaming, EditionInv, Dated, ArrivesWhole, Published
  <2>3. CASE AnswerFirst \/ AnswerAnew
    <3>1. part' = <<>> /\ Streaming(0)
      BY <2>3 DEF AnswerFirst, AnswerAnew
    <3> QED
      BY <2>0, <3>1 DEF Streaming, EditionInv, Dated, ArrivesWhole, Published
  <2>4. CASE Receive
    <3>1. [edition |-> source, at |-> next] \in Chunk
      BY DEF Chunk, Editions
    <3>2. /\ Len(part') = Len(part) + 1
          /\ \A i \in 1 .. Len(part) : part'[i] = part[i]
          /\ part'[Len(part) + 1].edition = source
      BY <2>4, <3>1, Extended DEF Receive
    <3>3. \A i \in 1 .. Len(part') : i \in 1 .. Len(part) \/ i = Len(part) + 1
      BY <2>0, <3>2
    <3>4. \A i \in 1 .. Len(part') : part'[i].edition <= source
      BY <2>0, <2>4, <3>2, <3>3 DEF EditionInv, Receive
    <3>5. \A i \in 1 .. Len(part') : part'[1].edition <= part'[i].edition
      <4>1. CASE Len(part) = 0
        BY <2>0, <3>2, <3>3, <4>1
      <4>2. CASE Len(part) # 0
        <5>1. part'[1] = part[1] /\ 1 \in 1 .. Len(part)
          BY <2>0, <3>2, <4>2
        <5>2. part[1].edition <= source
          BY <2>4, <5>1 DEF EditionInv, Receive
        <5> QED
          BY <2>0, <3>2, <3>3, <5>1, <5>2 DEF EditionInv, Dated
      <4> QED
        BY <4>1, <4>2
    <3>6. UNCHANGED <<edition, source, dest>>
      BY <2>4 DEF Receive
    <3>7. \A i \in 1 .. Len(part') : part'[i].edition <= edition
      BY <2>0, <3>2, <3>3 DEF EditionInv, Dated
    <3> QED
      BY <3>4, <3>5, <3>6, <3>7 DEF EditionInv, Dated, ArrivesWhole, Published
  <2>5. CASE Finish
    <3>1. /\ dest' = part /\ part' = <<>> /\ place' = "checksum"
          /\ UNCHANGED <<edition, source>>
      BY <2>5 DEF Finish
    <3>2. Len(part) = Size[source] /\ Size[source] \in Nat \ {0}
      BY <2>0, <2>5 DEF Finish, Reading, Editions
    <3>3. CASE part[1].edition < edition
      BY <3>1, <3>3 DEF EditionInv, Dated, ArrivesWhole
    <3>4. CASE ~(part[1].edition < edition)
      <4>1. 1 \in 1 .. Len(part) /\ Len(part) \in 1 .. Len(part)
        BY <3>2
      <4>2. \A i \in 1 .. Len(part) : part[i].edition = edition
        BY <2>0, <3>4, <4>1 DEF EditionInv, Dated
      <4>3. source = edition
        BY <2>0, <2>5, <4>1, <4>2 DEF EditionInv, Finish
      <4>4. \A i \in 1 .. Len(part) : part[i] = [edition |-> edition, at |-> i]
        <5>1. \A c \in Chunk : c = [edition |-> c.edition, at |-> c.at]
          BY DEF Chunk
        <5>2. \A i \in 1 .. Len(part) : part[i] \in Chunk /\ part[i].at = i
          BY DEF ChunksInPlace, InPlace, Content
        <5> QED
          BY <4>2, <5>1, <5>2
      <4>5. part = [i \in 1 .. Len(part) |-> part[i]]
        BY DEF Content
      <4>6. part = Published(edition)
        BY <3>2, <4>3, <4>4, <4>5 DEF Published
      <4>7. part[Len(part)].edition = edition
        BY <4>1, <4>2
      <4>8. ArrivesWhole'
        BY <3>1, <4>6, <4>7 DEF ArrivesWhole, Published
      <4> QED
        BY <3>1, <4>8 DEF EditionInv, Dated
    <3> QED
      BY <3>3, <3>4
  <2>6. CASE Reject
    BY <2>6 DEF Reject, EditionInv, Dated, ArrivesWhole
  <2>7. CASE StopFetch
    <3>1. Dated(part)'
      <4>1. CASE place = "receiving"
        <5>1. PICK n \in resume .. Len(part) : part' = SubSeq(part, 1, n)
          BY <2>7, <4>1 DEF StopFetch
        <5>2. n \in 0 .. Len(part)
          BY <2>0, <5>1
        <5>3. Len(part') = n /\ \A i \in 1 .. n : part'[i] = part[i]
          BY <5>1, <5>2, CutShort
        <5>4. \A i \in 1 .. n : 1 \in 1 .. n /\ i \in 1 .. Len(part)
          BY <2>0, <5>2
        <5> QED
          BY <2>7, <5>3, <5>4 DEF StopFetch, EditionInv, Dated
      <4>2. CASE place # "receiving"
        BY <2>7, <4>2 DEF StopFetch, EditionInv, Dated
      <4> QED
        BY <4>1, <4>2
    <3> QED
      BY <2>7, <3>1 DEF StopFetch, EditionInv, ArrivesWhole
  <2>8. CASE \/ AnswerError \/ Check \/ Request \/ Interrupted \/ FinishFails
             \/ Accept \/ UNCHANGED fetchVars
    BY <2>8 DEF AnswerError, Check, Request, Interrupted, FinishFails, Accept,
                fetchVars, EditionInv, Dated, ArrivesWhole, Published
  <2> QED
    BY <2>1, <2>2, <2>3, <2>4, <2>5, <2>6, <2>7, <2>8 DEF FetchNext, Server, Client
<1> QED
  BY <1>1, <1>2, FetchTypeInvariant, ChunksStayInPlace, PTL DEF FetchSpec

\* A download that completes is one published edition from its first chunk
\* to its last, unless the package was replaced on the server while half of
\* it was waiting here (HttpProvider.download sends no If-Range).
THEOREM ArrivalsAreWhole == FetchSpec => []ArrivesWhole
<1>1. EditionInv => ArrivesWhole
  BY DEF EditionInv
<1> QED
  BY <1>1, EditionInvariant, PTL
================================================================================
