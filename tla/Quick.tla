------------------------------- MODULE Quick -------------------------------
(***************************************************************************)
(* quick/quick.go: Save keeps the configuration a file holds in a second   *)
(* file, with ".old" at the end of its name, and replaces the first.  Both *)
(* are written through safe.File, so this module composes two copies of    *)
(* SafeFile, one for each name; one Save is one File of either.            *)
(*                                                                         *)
(* A config has a lock of its own: nothing keeps two of them, in one       *)
(* process or in two, from saving to the same file at the same time.       *)
(*                                                                         *)
(* For client = "any" the callers of safe.File are arbitrary and the       *)
(* second copy rests.                                                      *)
(***************************************************************************)
EXTENDS SafeFile, Sequences

VARIABLES
    client,      \* who uses the named file: "quick" or "any"
    exclusive,   \* the Saves are of one config, or one process after the other
    holder,      \* d.lock, when they are
    save,        \* where each Save is
    oldData,     \* what each Save has read
    hist,        \* history: the configurations the file has held
    bNamed, bTemp, bHandle, bClosed, bAborted, bPc, bWrote, bAnswer, bStuck  \* the backup file

bVars == <<bNamed, bTemp, bHandle, bClosed, bAborted, bPc, bWrote, bAnswer, bStuck>>
qVars == <<client, exclusive, holder, save, oldData, hist>>
allVars == <<vars, bVars, qVars>>

Backup == INSTANCE SafeFile WITH
    named <- bNamed, temp <- bTemp, handle <- bHandle, closed <- bClosed, aborted <- bAborted,
    pc <- bPc, wrote <- bWrote, answer <- bAnswer, stuck <- bStuck

QInit ==
    /\ Init
    /\ Backup!Init /\ bNamed = NoFile
    /\ client \in {"quick", "any"} /\ exclusive \in BOOLEAN
    /\ client = "any" => ~exclusive
    /\ holder = Nobody
    /\ save = [f \in Files |-> "new"]
    /\ oldData = [f \in Files |-> NoFile]
    /\ hist = IF named = NoFile THEN <<>> ELSE <<named>>

SaveAt(f, here) == client = "quick" /\ save[f] = here
Return(f, result) ==
    /\ save' = [save EXCEPT ![f] = result]
    /\ holder' = IF holder = f THEN Nobody ELSE holder

\* The lock, then os.ReadFile: no such file, an error, or its content.
Save(f) ==
    /\ SaveAt(f, "new") /\ (exclusive => holder = Nobody)
    /\ \/ /\ named = NoFile
          /\ save' = [save EXCEPT ![f] = "config"]
          /\ holder' = IF exclusive THEN f ELSE holder
          /\ UNCHANGED oldData
       \/ /\ named # NoFile
          /\ save' = [save EXCEPT ![f] = "backup"]
          /\ holder' = IF exclusive THEN f ELSE holder
          /\ oldData' = [oldData EXCEPT ![f] = named]
       \/ Return(f, "error") /\ UNCHANGED oldData
    /\ UNCHANGED <<vars, bVars, client, exclusive, hist>>

\* writeFile of the backup file: CreateFile, one Write, Close.  After an error
\* of the Write the File is dropped; nobody closes one twice or aborts it.
WriteBackup(f) ==
    /\ SaveAt(f, "backup")
    /\ \/ Backup!CreateFails(f) \/ Backup!CreateTemp(f) \/ Backup!Chmod(f) \/ Backup!ChmodErr(f)
       \/ bWrote[f] = 0 /\ (Backup!Write(f) \/ Backup!WriteFails(f))
       \/ Backup!WriteErr(f)
       \/ bWrote[f] = 1 /\ (Backup!CloseHandle(f) \/ Backup!CloseHandleFails(f))
       \/ Backup!Rename(f) \/ Backup!RenameFails(f) \/ Backup!CloseErr(f)
    /\ UNCHANGED <<vars, qVars>>

\* The same of the configuration file; hist notes the rename.
WriteConfig(f) ==
    /\ SaveAt(f, "config")
    /\ \/ CreateFails(f) \/ CreateTemp(f) \/ Chmod(f) \/ ChmodErr(f)
       \/ wrote[f] = 0 /\ (Write(f) \/ WriteFails(f))
       \/ WriteErr(f)
       \/ wrote[f] = 1 /\ (CloseHandle(f) \/ CloseHandleFails(f))
       \/ Rename(f) \/ RenameFails(f) \/ CloseErr(f)
    /\ hist' = IF named' # named THEN Append(hist, named') ELSE hist
    /\ UNCHANGED <<bVars, client, exclusive, holder, save, oldData>>

\* writeFile has returned.
Ended(fpc, isAborted, isClosed) == fpc = "none" \/ (fpc = "idle" /\ (isAborted \/ isClosed))

\* Mutant: an error of the backup is ignored.
BackupDoneRegardless(f) ==
    /\ SaveAt(f, "backup") /\ Ended(bPc[f], bAborted[f], bClosed[f])
    /\ save' = [save EXCEPT ![f] = "config"] /\ UNCHANGED holder
    /\ UNCHANGED <<vars, bVars, client, exclusive, oldData, hist>>

BackupDone(f) ==
    /\ SaveAt(f, "backup") /\ Ended(bPc[f], bAborted[f], bClosed[f])
    /\ IF bAnswer[f] = "ok" THEN save' = [save EXCEPT ![f] = "config"] /\ UNCHANGED holder
                            ELSE Return(f, "error")
    /\ UNCHANGED <<vars, bVars, client, exclusive, oldData, hist>>

\* The data cannot be marshalled: saveFileConfig has not touched the file.
MarshalFails(f) ==
    /\ SaveAt(f, "config") /\ At(f, "new")
    /\ Return(f, "error")
    /\ UNCHANGED <<vars, bVars, client, exclusive, oldData, hist>>

SaveDone(f) ==
    /\ SaveAt(f, "config") /\ Ended(pc[f], aborted[f], closed[f])
    /\ Return(f, IF answer[f] = "ok" THEN "ok" ELSE "error")
    /\ UNCHANGED <<vars, bVars, client, exclusive, oldData, hist>>

\* The process ends; the next one finds no lock.
SaveCrash(f) ==
    /\ client = "quick" /\ save[f] \in {"backup", "config"}
    /\ IF At(f, "new") THEN UNCHANGED vars ELSE Crash(f) \/ (At(f, "none") /\ UNCHANGED vars)
    /\ IF bPc[f] = "new" THEN UNCHANGED bVars ELSE Backup!Crash(f) \/ (bPc[f] = "none" /\ UNCHANGED bVars)
    /\ Return(f, "crashed")
    /\ UNCHANGED <<client, exclusive, oldData, hist>>

QNext ==
    \/ client = "any" /\ Next /\ UNCHANGED <<bVars, qVars>>
    \/ \E f \in Files :
          Save(f) \/ WriteBackup(f) \/ BackupDone(f) \/ WriteConfig(f) \/ MarshalFails(f) \/ SaveDone(f) \/ SaveCrash(f)

QSpec == QInit /\ [][QNext]_allVars

-----------------------------------------------------------------------------
\* What the backup file holds: the data its writer had read.
BackedUp == IF bNamed.by = Nobody THEN NoFile ELSE oldData[bNamed.by]

\* Save: "Backup if given file exists".  Of the Saves of one config, whatever
\* fails and wherever the process crashes, the file is never without the
\* configuration that the present one replaced: the backup file holds it, whole,
\* until a Save has put the present one there.
Recoverable ==
    /\ Backup!Intact
    /\ exclusive /\ Len(hist) > 1 => BackedUp \in {hist[Len(hist) - 1], hist[Len(hist)]}
=============================================================================
