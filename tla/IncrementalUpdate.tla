-------------------------- MODULE IncrementalUpdate --------------------------
(***************************************************************************)
(* incrementalupdate.c of the Percona toolkit: brings a backup of a        *)
(* tablespace up to a newer snapshot, by writing over it, page by page,    *)
(* the pages whose LSN or checksums differ.                                *)
(*                                                                         *)
(* The snapshot and the backup are read side by side.  A page of the       *)
(* snapshot has to be whole; op, the page of the backup, stays as it was   *)
(* where the backup has no more to read.  Seeks and writes are not looked  *)
(* at.  Runs follow one another, each with a snapshot of its own.          *)
(***************************************************************************)
EXTENDS PageLoop, Sequences

CONSTANTS
  Sums,         \* values of the checksum fields
  Snapshots,    \* the newer files
  Backups       \* the backups there may be at first

\* What of a page is compared; pages that agree in it are the same page.
UpdatePage == [lsn : Lsns, sum : Sums, end_lsn : Lsns]

ASSUME FilesAssumption == Snapshots \subseteq Seq(UpdatePage) /\ Backups \subseteq Seq(UpdatePage)

VARIABLES
  file,     \* the snapshot of this run
  backup,   \* the backup
  old,      \* the backup as this run found it (history)
  op,       \* the page read from the backup, as p is from the snapshot
  pos,      \* pages before the position in the backup
  missed    \* a page of the backup was not read, or not written (history)

updateVars == <<file, backup, old, ct, p, op, pos, missed, loop, status, runs>>

-----------------------------------------------------------------------------
Whole(b) == b.lsn = b.end_lsn

\* mutant: pages with one LSN are taken to be the same
Differ_Lsn(b, c) == b.lsn # c.lsn
Differ(b, c) == b.lsn # c.lsn \/ b.sum # c.sum

\* The page the position is at after fseek(b, -UNIV_PAGE_SIZE, SEEK_CUR), which
\* fails at the start of the file.
\* mutant: without the seek
Rewound_Not == pos
Rewound == IF pos = 0 THEN 0 ELSE pos - 1

Written(i, b) == IF i < Len(backup) THEN [backup EXCEPT ![i + 1] = b] ELSE Append(backup, b)

\* A page that is overwritten by its front half only.
Torn(new, b) == [new EXCEPT !.end_lsn = b.end_lsn]

UpdateInit ==
  /\ file \in Snapshots /\ backup \in Backups /\ old = backup
  /\ ct = 0 /\ pos = 0 /\ missed = FALSE
  /\ op \in UpdatePage /\ p = op       \* malloc
  /\ loop = "file" /\ status = -1 /\ runs = 1

ReadFile ==
  /\ loop = "file" /\ ct < Len(file)
  /\ p' = file[ct + 1] /\ loop' = "backup"
  /\ UNCHANGED <<file, backup, old, ct, op, pos, missed, status, runs>>

\* The end of the snapshot, or a rest that is not a page.
UpdateEndOfFile ==
  /\ loop = "file" /\ ct = Len(file)
  /\ Return(IF Rest THEN 1 ELSE 0)
  /\ UNCHANGED <<file, backup, old, ct, p, op, pos, missed, runs>>

UpdateReadError ==
  /\ loop = "file" /\ "read" \in RunFaults
  /\ Return(1)
  /\ UNCHANGED <<file, backup, old, ct, p, op, pos, missed, runs>>

\* Nobody asks whether the backup had a page to read, or could read it.
ReadBackup ==
  /\ loop = "backup"
  /\ \/ /\ pos < Len(backup)
        /\ op' = backup[pos + 1] /\ pos' = pos + 1 /\ UNCHANGED missed
     \/ /\ pos = Len(backup) \/ "read" \in RunFaults
        /\ missed' = TRUE /\ UNCHANGED <<op, pos>>
  /\ loop' = "compare"
  /\ UNCHANGED <<file, backup, old, ct, p, status, runs>>

\* A page of either file with two LSNs ends the run, between two pages.
NotWhole ==
  /\ loop = "compare" /\ ~ (Whole(p) /\ Whole(op))
  /\ Return(1)
  /\ UNCHANGED <<file, backup, old, ct, p, op, pos, missed, runs>>

SamePage ==
  /\ loop = "compare" /\ Whole(p) /\ Whole(op) /\ ~ Differ(p, op)
  /\ ct' = ct + 1 /\ loop' = "file"
  /\ UNCHANGED <<file, backup, old, p, op, pos, missed, status, runs>>

ToWrite == loop = "compare" /\ Whole(p) /\ Whole(op) /\ Differ(p, op)

CopyPage ==
  /\ ToWrite
  /\ backup' = Written(Rewound, p) /\ pos' = Rewound + 1
  /\ ct' = ct + 1 /\ loop' = "file"
  /\ UNCHANGED <<file, old, p, op, missed, status, runs>>

\* fwrite fails, and the position of the backup stays a page behind.
UpdateWriteError ==
  /\ ToWrite /\ "write" \in RunFaults
  /\ pos' = Rewound /\ missed' = TRUE
  /\ ct' = ct + 1 /\ loop' = "file"
  /\ UNCHANGED <<file, backup, old, p, op, status, runs>>

\* In the middle of a write the front of the page may be there already.  (Less
\* than a page at the end of the backup is not counted.)
UpdateKilled ==
  /\ loop # "exit" /\ "kill" \in RunFaults
  /\ \/ backup' = backup
     \/ ToWrite /\ Rewound < Len(backup) /\ backup' = Written(Rewound, Torn(p, backup[Rewound + 1]))
  /\ Return(-1)
  /\ UNCHANGED <<file, old, ct, p, op, pos, missed, runs>>

UpdateAgain ==
  /\ loop = "exit" /\ runs < MaxRuns
  /\ file' \in Snapshots /\ old' = backup
  /\ ct' = 0 /\ pos' = 0 /\ missed' = FALSE
  /\ loop' = "file" /\ status' = -1 /\ runs' = runs + 1
  /\ UNCHANGED <<backup, p, op>>

UpdateEnded == loop = "exit" /\ runs = MaxRuns /\ UNCHANGED updateVars

UpdateStep == ReadFile \/ UpdateEndOfFile \/ ReadBackup \/ NotWhole \/ SamePage \/ CopyPage

UpdateNext == UpdateStep \/ UpdateReadError \/ UpdateWriteError \/ UpdateKilled \/ UpdateAgain \/ UpdateEnded

\* The program waits for nothing; nobody has to run it again.
UpdateSpec == UpdateInit /\ [][UpdateNext]_updateVars /\ WF_updateVars(UpdateStep)

-----------------------------------------------------------------------------
UpdateTypeOK ==
  /\ file \in Snapshots /\ backup \in Seq(UpdatePage) /\ old \in Seq(UpdatePage)
  /\ p \in UpdatePage /\ op \in UpdatePage
  /\ ct \in 0 .. Len(file) /\ pos \in 0 .. Len(backup) /\ missed \in BOOLEAN
  /\ loop \in {"file", "backup", "compare", "exit"}
  /\ status \in {-1, 0, 1} /\ runs \in Nat

\* While every page of the backup was read and written, the pages a run has done
\* are those of the snapshot, also if it stops at a page that is not whole or is
\* killed; a return of 0 means all of them.
DonePagesCopied ==
  ~ missed => /\ \A i \in 1 .. ct : i <= Len(backup) /\ backup[i] = file[i]
              /\ status = 0 => ct = Len(file)

\* Pages such a run has not come to are as they were, and the one it is at is
\* old, new or torn: two snapshots are only mixed at one place.
RestIsOld ==
  ~ missed => \A i \in ct + 1 .. Len(old) :
    \/ backup[i] = old[i]
    \/ i = ct + 1 /\ i <= Len(file) /\ backup[i] = Torn(file[i], old[i])

=============================================================================
