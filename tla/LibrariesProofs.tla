-------------------------- MODULE LibrariesProofs --------------------------
(***************************************************************************)
(* safe.File for any number of Files and Writes: the named file is always  *)
(* one whole file, and an answer is kept.                                  *)
(*                                                                         *)
(* quick.Save for any number of Saves, of one config or of several, with   *)
(* failures and crashes anywhere: it uses safe.File as SafeFile says, so   *)
(* what is proved there holds for the configuration file; the backup file  *)
(* is whole as well, and of one config it holds what the present           *)
(* configuration replaced.                                                 *)
(*                                                                         *)
(* Then, each in a section of its own: a lifecycle rule of ilm stays what  *)
(* was asked for over any edits; a reader of rng delivers its stream byte  *)
(* for byte, for every size of lanes and buffer; a match of wildcard takes *)
(* quadratic time and answers by the meaning of the pattern, for every     *)
(* pattern and name; ellipses refuses exactly the arguments without a      *)
(* reading, however many patterns they have.                               *)
(***************************************************************************)
EXTENDS Libraries, GlobProofs, SequenceTheorems

-----------------------------------------------------------------------------
(* safe: the temporary and the named file *)

\* A temporary file that can still be renamed is whole: it belongs to its File
\* and holds exactly the Writes that succeeded.
TempWhole ==
    \A f \in Files : InUse(f) \/ At(f, "chmod") \/ At(f, "rename") =>
        temp[f] = [by |-> f, len |-> wrote[f], part |-> 0]

\* A File that has no temporary file yet has written nothing, and the named
\* file is of a File that is closed: it writes no more.
NamedDone ==
    /\ \A f \in Files : At(f, "new") => temp[f] = NoFile
    /\ \A f \in Files : At(f, "new") \/ At(f, "chmod") => wrote[f] = 0
    /\ \A f \in Files : At(f, "new") \/ At(f, "chmod") \/ At(f, "rename") => ~closed[f] /\ ~aborted[f]
    /\ named.by \in Files => closed[named.by]

IInv == TypeOK /\ TempWhole /\ NamedDone /\ Intact /\ AnswerHolds /\ NoLitter

\* Every step keeps the types; a Write needs to know that the temporary file
\* holds no more than what was written.
LEMMA TypeStep ==
  ASSUME TypeOK, TempWhole, [Next]_vars
  PROVE  TypeOK'
PROOF
  <1>1. CASE UNCHANGED vars
    BY <1>1 DEF TypeOK, vars
  <1>2. ASSUME NEW f \in Files,
               \/ CreateFails(f) \/ CreateTemp(f) \/ Chmod(f) \/ ChmodErr(f)
               \/ Write(f) \/ WriteFails(f) \/ WriteErr(f)
               \/ CloseRefused(f) \/ CloseHandle(f) \/ CloseHandleFails(f)
               \/ Rename(f) \/ RenameFails(f) \/ CloseErr(f)
               \/ Abort(f) \/ AbortRemove(f) \/ Crash(f)
        PROVE  TypeOK'
    <2>. USE <1>2, MaxWritesAssumption DEF TypeOK, Content, At, Goto, InUse
    <2>0. NoFile \in Content
      BY DEF NoFile
    <2>1. CASE CreateFails(f) BY <2>1 DEF CreateFails
    <2>2. CASE CreateTemp(f)
      <3>1. [by |-> f, len |-> 0, part |-> 0] \in Content
        OBVIOUS
      <3>. QED BY <2>2, <3>1 DEF CreateTemp
    <2>3. CASE Chmod(f) BY <2>3 DEF Chmod
    <2>4. CASE ChmodErr(f) BY <2>0, <2>4 DEF ChmodErr, Remove
    <2>5. CASE Write(f)
      <3>1. [temp[f] EXCEPT !.len = @ + 1] \in Content
        BY <2>5 DEF Write, TempWhole
      <3>. QED BY <2>5, <3>1 DEF Write
    <2>6. CASE WriteFails(f) BY <2>6 DEF WriteFails
    <2>7. CASE WriteErr(f) BY <2>0, <2>7 DEF WriteErr, Remove
    <2>8. CASE CloseRefused(f) BY <2>8 DEF CloseRefused
    <2>9. CASE CloseHandle(f) BY <2>9 DEF CloseHandle
    <2>10. CASE CloseHandleFails(f) BY <2>10 DEF CloseHandleFails
    <2>11. CASE Rename(f) BY <2>0, <2>11 DEF Rename
    <2>12. CASE RenameFails(f) BY <2>12 DEF RenameFails
    <2>13. CASE CloseErr(f) BY <2>0, <2>13 DEF CloseErr, Remove
    <2>14. CASE Abort(f) BY <2>14 DEF Abort
    <2>15. CASE AbortRemove(f) BY <2>0, <2>15 DEF AbortRemove, Remove
    <2>16. CASE Crash(f) BY <2>16 DEF Crash
    <2>. QED BY <2>1, <2>2, <2>3, <2>4, <2>5, <2>6, <2>7, <2>8, <2>9, <2>10, <2>11, <2>12, <2>13, <2>14, <2>15, <2>16
  <1>. QED BY <1>1, <1>2 DEF Next

\* One more chunk in a whole file.
LEMMA OneMore ==
  ASSUME NEW f, NEW n \in Nat, NEW r, r = [by |-> f, len |-> n, part |-> 0]
  PROVE  [r EXCEPT !.len = r.len + 1] = [by |-> f, len |-> n + 1, part |-> 0]
PROOF
  <1>1. r.len = n OBVIOUS
  <1>2. [r EXCEPT !.len = n + 1] = [by |-> f, len |-> n + 1, part |-> 0]
    OBVIOUS
  <1>. QED BY <1>1, <1>2, Zenon

\* A temporary file that can be renamed stays whole: after any failure its File
\* is no longer in use.
LEMMA WholeStep ==
  ASSUME TypeOK, TempWhole, NamedDone, [Next]_vars
  PROVE  TempWhole'
PROOF
  <1>1. CASE UNCHANGED vars
    BY <1>1 DEF vars, TypeOK, Content, TempWhole, NamedDone, At, Goto, InUse
  <1>2. ASSUME NEW f \in Files,
               \/ CreateFails(f) \/ CreateTemp(f) \/ Chmod(f) \/ ChmodErr(f)
               \/ Write(f) \/ WriteFails(f) \/ WriteErr(f)
               \/ CloseRefused(f) \/ CloseHandle(f) \/ CloseHandleFails(f)
               \/ Rename(f) \/ RenameFails(f) \/ CloseErr(f)
               \/ Abort(f) \/ AbortRemove(f) \/ Crash(f)
        PROVE  TempWhole'
    <2>. USE <1>2, NobodyAssumption DEF TypeOK, Content, TempWhole, NamedDone, At, Goto, InUse
    <2>1. CASE CreateFails(f) BY <2>1 DEF CreateFails
    <2>2. CASE CreateTemp(f) BY <2>2 DEF CreateTemp
    <2>3. CASE Chmod(f) BY <2>3 DEF Chmod
    <2>4. CASE ChmodErr(f) BY <2>4 DEF ChmodErr, Remove
    <2>5. CASE Write(f)
      <3>1. temp[f] = [by |-> f, len |-> wrote[f], part |-> 0]
        BY <2>5 DEF Write
      <3>a. temp'[f] = [temp[f] EXCEPT !.len = temp[f].len + 1] /\ wrote'[f] = wrote[f] + 1
        BY <2>5 DEF Write
      <3>2. temp'[f] = [by |-> f, len |-> wrote'[f], part |-> 0]
        BY <3>1, <3>a, OneMore
      <3>3. \A g \in Files \ {f} : temp'[g] = temp[g] /\ wrote'[g] = wrote[g]
        BY <2>5 DEF Write
      <3>. QED BY <2>5, <3>2, <3>3 DEF Write
    <2>6. CASE WriteFails(f) BY <2>6 DEF WriteFails
    <2>7. CASE WriteErr(f) BY <2>7 DEF WriteErr, Remove
    <2>8. CASE CloseRefused(f) BY <2>8 DEF CloseRefused
    <2>9. CASE CloseHandle(f) BY <2>9 DEF CloseHandle
    <2>10. CASE CloseHandleFails(f) BY <2>10 DEF CloseHandleFails
    <2>11. CASE Rename(f) BY <2>11 DEF Rename
    <2>12. CASE RenameFails(f) BY <2>12 DEF RenameFails
    <2>13. CASE CloseErr(f) BY <2>13 DEF CloseErr, Remove
    <2>14. CASE Abort(f) BY <2>14 DEF Abort
    <2>15. CASE AbortRemove(f) BY <2>15 DEF AbortRemove, Remove
    <2>16. CASE Crash(f) BY <2>16 DEF Crash
    <2>. QED BY <2>1, <2>2, <2>3, <2>4, <2>5, <2>6, <2>7, <2>8, <2>9, <2>10, <2>11, <2>12, <2>13, <2>14, <2>15, <2>16
  <1>. QED BY <1>1, <1>2 DEF Next

\* The File whose content is in use stays closed.
LEMMA DoneStep ==
  ASSUME TypeOK, TempWhole, NamedDone, [Next]_vars
  PROVE  NamedDone'
PROOF
  <1>1. CASE UNCHANGED vars
    BY <1>1 DEF vars, TypeOK, Content, TempWhole, NamedDone, At, Goto, InUse, NoFile, Old
  <1>2. ASSUME NEW f \in Files,
               \/ CreateFails(f) \/ CreateTemp(f) \/ Chmod(f) \/ ChmodErr(f)
               \/ Write(f) \/ WriteFails(f) \/ WriteErr(f)
               \/ CloseRefused(f) \/ CloseHandle(f) \/ CloseHandleFails(f)
               \/ Rename(f) \/ RenameFails(f) \/ CloseErr(f)
               \/ Abort(f) \/ AbortRemove(f) \/ Crash(f)
        PROVE  NamedDone'
    <2>. USE <1>2, NobodyAssumption DEF TypeOK, Content, TempWhole, NamedDone, At, Goto, InUse, NoFile, Old
    <2>1. CASE CreateFails(f) BY <2>1 DEF CreateFails
    <2>2. CASE CreateTemp(f) BY <2>2 DEF CreateTemp
    <2>3. CASE Chmod(f) BY <2>3 DEF Chmod
    <2>4. CASE ChmodErr(f) BY <2>4 DEF ChmodErr, Remove
    <2>5. CASE Write(f) BY <2>5 DEF Write
    <2>6. CASE WriteFails(f) BY <2>6 DEF WriteFails
    <2>7. CASE WriteErr(f) BY <2>7 DEF WriteErr, Remove
    <2>8. CASE CloseRefused(f) BY <2>8 DEF CloseRefused
    <2>9. CASE CloseHandle(f) BY <2>9 DEF CloseHandle
    <2>10. CASE CloseHandleFails(f) BY <2>10 DEF CloseHandleFails
    <2>11. CASE Rename(f) BY <2>11 DEF Rename
    <2>12. CASE RenameFails(f) BY <2>12 DEF RenameFails
    <2>13. CASE CloseErr(f) BY <2>13 DEF CloseErr, Remove
    <2>14. CASE Abort(f) BY <2>14 DEF Abort
    <2>15. CASE AbortRemove(f) BY <2>15 DEF AbortRemove, Remove
    <2>16. CASE Crash(f) BY <2>16 DEF Crash
    <2>. QED BY <2>1, <2>2, <2>3, <2>4, <2>5, <2>6, <2>7, <2>8, <2>9, <2>10, <2>11, <2>12, <2>13, <2>14, <2>15, <2>16
  <1>. QED BY <1>1, <1>2 DEF Next

\* The named file stays whole.
LEMMA IntactStep ==
  ASSUME TypeOK, TempWhole, NamedDone, Intact, [Next]_vars
  PROVE  Intact'
PROOF
  <1>1. CASE UNCHANGED vars
    BY <1>1 DEF vars, TypeOK, Content, TempWhole, NamedDone, Intact, At, Goto, InUse, NoFile, Old
  <1>2. ASSUME NEW f \in Files,
               \/ CreateFails(f) \/ CreateTemp(f) \/ Chmod(f) \/ ChmodErr(f)
               \/ Write(f) \/ WriteFails(f) \/ WriteErr(f)
               \/ CloseRefused(f) \/ CloseHandle(f) \/ CloseHandleFails(f)
               \/ Rename(f) \/ RenameFails(f) \/ CloseErr(f)
               \/ Abort(f) \/ AbortRemove(f) \/ Crash(f)
        PROVE  Intact'
    <2>. USE <1>2, NobodyAssumption DEF TypeOK, Content, TempWhole, NamedDone, Intact, At, Goto, InUse, NoFile, Old
    <2>1. CASE CreateFails(f) BY <2>1 DEF CreateFails
    <2>2. CASE CreateTemp(f) BY <2>2 DEF CreateTemp
    <2>3. CASE Chmod(f) BY <2>3 DEF Chmod
    <2>4. CASE ChmodErr(f) BY <2>4 DEF ChmodErr, Remove
    <2>5. CASE Write(f) BY <2>5 DEF Write
    <2>6. CASE WriteFails(f) BY <2>6 DEF WriteFails
    <2>7. CASE WriteErr(f) BY <2>7 DEF WriteErr, Remove
    <2>8. CASE CloseRefused(f) BY <2>8 DEF CloseRefused
    <2>9. CASE CloseHandle(f) BY <2>9 DEF CloseHandle
    <2>10. CASE CloseHandleFails(f) BY <2>10 DEF CloseHandleFails
    <2>11. CASE Rename(f) BY <2>11 DEF Rename
    <2>12. CASE RenameFails(f) BY <2>12 DEF RenameFails
    <2>13. CASE CloseErr(f) BY <2>13 DEF CloseErr, Remove
    <2>14. CASE Abort(f) BY <2>14 DEF Abort
    <2>15. CASE AbortRemove(f) BY <2>15 DEF AbortRemove, Remove
    <2>16. CASE Crash(f) BY <2>16 DEF Crash
    <2>. QED BY <2>1, <2>2, <2>3, <2>4, <2>5, <2>6, <2>7, <2>8, <2>9, <2>10, <2>11, <2>12, <2>13, <2>14, <2>15, <2>16
  <1>. QED BY <1>1, <1>2 DEF Next

\* The answers stay true.
LEMMA AnswerStep ==
  ASSUME TypeOK, TempWhole, NamedDone, AnswerHolds, [Next]_vars
  PROVE  AnswerHolds'
PROOF
  <1>1. CASE UNCHANGED vars
    BY <1>1 DEF vars, TypeOK, Content, TempWhole, NamedDone, AnswerHolds, At, Goto, InUse
  <1>2. ASSUME NEW f \in Files,
               \/ CreateFails(f) \/ CreateTemp(f) \/ Chmod(f) \/ ChmodErr(f)
               \/ Write(f) \/ WriteFails(f) \/ WriteErr(f)
               \/ CloseRefused(f) \/ CloseHandle(f) \/ CloseHandleFails(f)
               \/ Rename(f) \/ RenameFails(f) \/ CloseErr(f)
               \/ Abort(f) \/ AbortRemove(f) \/ Crash(f)
        PROVE  AnswerHolds'
    <2>. USE <1>2, NobodyAssumption DEF TypeOK, Content, TempWhole, NamedDone, AnswerHolds, At, Goto, InUse
    <2>1. CASE CreateFails(f) BY <2>1 DEF CreateFails
    <2>2. CASE CreateTemp(f) BY <2>2 DEF CreateTemp
    <2>3. CASE Chmod(f) BY <2>3 DEF Chmod
    <2>4. CASE ChmodErr(f) BY <2>4 DEF ChmodErr, Remove
    <2>5. CASE Write(f) BY <2>5 DEF Write
    <2>6. CASE WriteFails(f) BY <2>6 DEF WriteFails
    <2>7. CASE WriteErr(f) BY <2>7 DEF WriteErr, Remove
    <2>8. CASE CloseRefused(f) BY <2>8 DEF CloseRefused
    <2>9. CASE CloseHandle(f) BY <2>9 DEF CloseHandle
    <2>10. CASE CloseHandleFails(f) BY <2>10 DEF CloseHandleFails
    <2>11. CASE Rename(f) BY <2>11 DEF Rename
    <2>12. CASE RenameFails(f) BY <2>12 DEF RenameFails
    <2>13. CASE CloseErr(f) BY <2>13 DEF CloseErr, Remove
    <2>14. CASE Abort(f) BY <2>14 DEF Abort
    <2>15. CASE AbortRemove(f) BY <2>15 DEF AbortRemove, Remove
    <2>16. CASE Crash(f) BY <2>16 DEF Crash
    <2>. QED BY <2>1, <2>2, <2>3, <2>4, <2>5, <2>6, <2>7, <2>8, <2>9, <2>10, <2>11, <2>12, <2>13, <2>14, <2>15, <2>16
  <1>. QED BY <1>1, <1>2 DEF Next

\* What is left behind is what could not be removed.
LEMMA LitterStep ==
  ASSUME TypeOK, TempWhole, NamedDone, NoLitter, [Next]_vars
  PROVE  NoLitter'
PROOF
  <1>1. CASE UNCHANGED vars
    BY <1>1 DEF vars, TypeOK, Content, TempWhole, NamedDone, NoLitter, At, Goto, InUse, NoFile
  <1>2. ASSUME NEW f \in Files,
               \/ CreateFails(f) \/ CreateTemp(f) \/ Chmod(f) \/ ChmodErr(f)
               \/ Write(f) \/ WriteFails(f) \/ WriteErr(f)
               \/ CloseRefused(f) \/ CloseHandle(f) \/ CloseHandleFails(f)
               \/ Rename(f) \/ RenameFails(f) \/ CloseErr(f)
               \/ Abort(f) \/ AbortRemove(f) \/ Crash(f)
        PROVE  NoLitter'
    <2>. USE <1>2, NobodyAssumption DEF TypeOK, Content, TempWhole, NamedDone, NoLitter, At, Goto, InUse, NoFile
    <2>1. CASE CreateFails(f) BY <2>1 DEF CreateFails
    <2>2. CASE CreateTemp(f) BY <2>2 DEF CreateTemp
    <2>3. CASE Chmod(f) BY <2>3 DEF Chmod
    <2>4. CASE ChmodErr(f) BY <2>4 DEF ChmodErr, Remove
    <2>5. CASE Write(f) BY <2>5 DEF Write
    <2>6. CASE WriteFails(f) BY <2>6 DEF WriteFails
    <2>7. CASE WriteErr(f) BY <2>7 DEF WriteErr, Remove
    <2>8. CASE CloseRefused(f) BY <2>8 DEF CloseRefused
    <2>9. CASE CloseHandle(f) BY <2>9 DEF CloseHandle
    <2>10. CASE CloseHandleFails(f) BY <2>10 DEF CloseHandleFails
    <2>11. CASE Rename(f)
      <3>1. temp'[f] = NoFile /\ \A g \in Files \ {f} : temp'[g] = temp[g] /\ pc'[g] = pc[g] /\ closed'[g] = closed[g]
        BY <2>11 DEF Rename
      <3>. QED BY <2>11, <3>1 DEF Rename
    <2>12. CASE RenameFails(f) BY <2>12 DEF RenameFails
    <2>13. CASE CloseErr(f) BY <2>13 DEF CloseErr, Remove
    <2>14. CASE Abort(f) BY <2>14 DEF Abort
    <2>15. CASE AbortRemove(f) BY <2>15 DEF AbortRemove, Remove
    <2>16. CASE Crash(f) BY <2>16 DEF Crash
    <2>. QED BY <2>1, <2>2, <2>3, <2>4, <2>5, <2>6, <2>7, <2>8, <2>9, <2>10, <2>11, <2>12, <2>13, <2>14, <2>15, <2>16
  <1>. QED BY <1>1, <1>2 DEF Next

\* A new File, whatever the named file holds, satisfies the invariant.
LEMMA InitSafe == Init => IInv
PROOF
  <1>. SUFFICES ASSUME Init PROVE IInv
    OBVIOUS
  <1>. USE MaxWritesAssumption, NobodyAssumption DEF Init, NoFile, Old
  <1>1. TypeOK
    <2>1. NoFile \in Content /\ Old \in Content
      BY DEF Content
    <2>2. named \in Content /\ temp \in [Files -> Content]
      BY <2>1
    <2>3. 0 \in 0..MaxWrites
      OBVIOUS
    <2>. QED BY <2>2, <2>3 DEF TypeOK
  <1>2. TempWhole /\ NamedDone BY DEF TempWhole, NamedDone, InUse, At
  <1>3. Intact BY DEF Intact
  <1>4. AnswerHolds BY DEF AnswerHolds
  <1>5. NoLitter BY DEF NoLitter
  <1>. QED BY <1>1, <1>2, <1>3, <1>4, <1>5 DEF IInv

\* The invariant that is preserved by every system call and every crash.
THEOREM Inductive == Spec => []IInv
PROOF
  <1>1. IInv /\ [Next]_vars => IInv'
    BY TypeStep, WholeStep, DoneStep, IntactStep, AnswerStep, LitterStep DEF IInv
  <1>. QED BY InitSafe, <1>1, PTL DEF Spec

\* For any number of writers, writes, failures and crashes, the named file is
\* what it was or the whole of what one writer wrote.
THEOREM NamedIntact == Spec => []Intact
PROOF
  <1>1. IInv => Intact BY DEF IInv
  <1>. QED BY Inductive, <1>1, PTL

\* What Close returns is true of the named file.
THEOREM AnswersTrue == Spec => []AnswerHolds
PROOF
  <1>1. IInv => AnswerHolds BY DEF IInv
  <1>. QED BY Inductive, <1>1, PTL

\* Only a crash or a failed removal leaves a temporary file behind.
THEOREM NothingLeft == Spec => []NoLitter
PROOF
  <1>1. IInv => NoLitter BY DEF IInv
  <1>. QED BY Inductive, <1>1, PTL

-----------------------------------------------------------------------------
(* quick: the inductive invariant *)

Stages == {"new", "backup", "config", "ok", "error", "crashed"}

QTypeOK ==
    /\ exclusive \in BOOLEAN
    /\ save \in [Files -> Stages]
    /\ oldData \in [Files -> Content]
    /\ hist \in Seq(Content)

\* The lock: of one config one Save at a time is between its first and its last
\* step.
OneSave == exclusive => client = "quick" /\ \A f \in Files : save[f] \in {"backup", "config"} => holder = f

\* Neither file is touched before its turn.
InTurn ==
    client = "quick" => \A f \in Files :
        /\ save[f] = "new" => bPc[f] = "new"
        /\ save[f] \in {"new", "backup"} => pc[f] = "new"

\* hist ends with what the file holds.
HistIsFile ==
    client = "quick" => (hist = <<>> <=> named = NoFile) /\ (hist # <<>> => named = hist[Len(hist)])

BTypeOK ==
    /\ bPc \in [Files -> {"new", "none", "chmod", "chmodErr", "idle", "writeErr", "rename", "closeErr", "abort", "crashed"}]
    /\ bTemp \in [Files -> [by : Files \cup {Nobody}, len : Nat, part : 0..1]]
    /\ bWrote \in [Files -> Nat]
    /\ bClosed \in [Files -> BOOLEAN] /\ bAborted \in [Files -> BOOLEAN]
    /\ bAnswer \in [Files -> {"none", "ok", "error"}]

\* The backup file's own temporary files: as TempWhole and NamedDone say.
BWhole(f) == [by |-> f, len |-> bWrote[f], part |-> 0]
BFile ==
    /\ \A f \in Files : bPc[f] = "new" => bWrote[f] = 0 /\ ~bClosed[f] /\ bAnswer[f] = "none"
    /\ \A f \in Files : bPc[f] = "chmod" => bWrote[f] = 0
    /\ \A f \in Files :
          bPc[f] \in {"chmod", "rename"} \/ (bPc[f] = "idle" /\ ~bClosed[f] /\ ~bAborted[f]) => bTemp[f] = BWhole(f)
    /\ bNamed = NoFile \/ \E f \in Files : bNamed = BWhole(f) /\ bClosed[f]

\* The Save has not yet renamed its file to the configuration's name.
Before(f) == pc[f] \in {"new", "chmod", "rename"} \/ InUse(f)

\* Of one config: a Save that is making a backup has read the present
\* configuration, and has it in the backup file once that is closed; one that
\* writes the new configuration has the present one in the backup file until
\* the rename.
Chain ==
    exclusive =>
        /\ \A f \in Files : save[f] = "backup" => oldData[f] = named /\ hist # <<>>
        /\ \A f \in Files : save[f] = "backup" /\ bAnswer[f] = "ok" => bNamed.by = f
        /\ \A f \in Files : save[f] = "config" /\ Before(f) /\ hist # <<>> => BackedUp = named
        /\ Len(hist) > 1 => BackedUp \in {hist[Len(hist) - 1], hist[Len(hist)]}

QInv == IInv /\ QTypeOK /\ OneSave /\ InTurn /\ HistIsFile /\ BTypeOK /\ BFile /\ Chain

-----------------------------------------------------------------------------
(* The configuration file: SafeFile's lemmas apply *)

\* One step of Save on the configuration file is one of safe.File's.
ConfigStep(f) ==
    \/ CreateFails(f) \/ CreateTemp(f) \/ Chmod(f) \/ ChmodErr(f)
    \/ Write(f) \/ WriteFails(f) \/ WriteErr(f)
    \/ CloseHandle(f) \/ CloseHandleFails(f)
    \/ Rename(f) \/ RenameFails(f) \/ CloseErr(f)

\* What Save does to the configuration file is a step of safe.File.
LEMMA ConfigIsStep == ASSUME NEW f \in Files, WriteConfig(f) PROVE ConfigStep(f)
    BY DEF WriteConfig, ConfigStep

\* Whatever Save does, safe.File takes one of its steps or none.
LEMMA QuickIsSafe == [QNext]_allVars => [Next]_vars
<1> SUFFICES ASSUME [QNext]_allVars PROVE [Next]_vars
    OBVIOUS
<1>1. CASE client = "any" /\ Next
    BY <1>1
<1>2. ASSUME NEW f \in Files, WriteConfig(f) PROVE [Next]_vars
    BY <1>2, ConfigIsStep DEF ConfigStep, Next
<1>3. ASSUME NEW f \in Files, SaveCrash(f) PROVE [Next]_vars
    BY <1>3 DEF SaveCrash, Next
<1>4. ASSUME NEW f \in Files, Save(f) \/ WriteBackup(f) \/ BackupDone(f) \/ MarshalFails(f) \/ SaveDone(f)
      PROVE  [Next]_vars
    BY <1>4 DEF Save, WriteBackup, BackupDone, MarshalFails, SaveDone
<1>5. CASE UNCHANGED allVars
    BY <1>5 DEF allVars
<1>6. QED
    BY <1>1, <1>2, <1>3, <1>4, <1>5 DEF QNext

\* SafeFile's inductive invariant, as one step.
LEMMA SafeStep == IInv /\ [Next]_vars => IInv'
    BY TypeStep, WholeStep, DoneStep, IntactStep, AnswerStep, LitterStep DEF IInv

\* The rename ends the time before the rename, for good; no other step touches
\* the named file.
LEMMA ConfigFacts ==
    ASSUME TypeOK, NEW f \in Files, ConfigStep(f)
    PROVE  /\ pc'[f] # "new"
           /\ \A g \in Files : g # f => pc'[g] = pc[g] /\ closed'[g] = closed[g] /\ aborted'[g] = aborted[g]
           /\ Before(f)' => Before(f) /\ named' = named
           /\ named' = named \/ (Before(f) /\ named' = temp[f] /\ temp[f] # NoFile)
<1> USE DEF TypeOK, Before, InUse, At, Goto
<1>1. CASE CreateFails(f)
    BY <1>1 DEF CreateFails
<1>2. CASE CreateTemp(f)
    BY <1>2 DEF CreateTemp
<1>3. CASE Chmod(f)
    BY <1>3 DEF Chmod
<1>4. CASE ChmodErr(f)
    BY <1>4 DEF ChmodErr
<1>5. CASE Write(f)
    BY <1>5 DEF Write
<1>6. CASE WriteFails(f)
    BY <1>6 DEF WriteFails
<1>7. CASE WriteErr(f)
    BY <1>7 DEF WriteErr
<1>8. CASE CloseHandle(f)
    BY <1>8 DEF CloseHandle
<1>9. CASE CloseHandleFails(f)
    BY <1>9 DEF CloseHandleFails
<1>10. CASE Rename(f)
    BY <1>10 DEF Rename
<1>11. CASE RenameFails(f)
    BY <1>11 DEF RenameFails
<1>12. CASE CloseErr(f)
    BY <1>12 DEF CloseErr
<1>13. QED
    BY <1>1, <1>2, <1>3, <1>4, <1>5, <1>6, <1>7, <1>8, <1>9, <1>10, <1>11, <1>12 DEF ConfigStep

-----------------------------------------------------------------------------
(* The backup file *)

BackupStep(f) ==
    \/ Backup!CreateFails(f) \/ Backup!CreateTemp(f) \/ Backup!Chmod(f) \/ Backup!ChmodErr(f)
    \/ Backup!Write(f) \/ Backup!WriteFails(f) \/ Backup!WriteErr(f)
    \/ Backup!CloseHandle(f) \/ Backup!CloseHandleFails(f)
    \/ Backup!Rename(f) \/ Backup!RenameFails(f) \/ Backup!CloseErr(f) \/ Backup!Crash(f)

\* What a step of one File leaves to the others, and what its rename does.
BackupDoes(f) ==
    /\ bPc'[f] # "new"
    /\ \A g \in Files : g # f => bPc'[g] = bPc[g] /\ bAnswer'[g] = bAnswer[g]
    /\ \/ bNamed' = bNamed /\ (bAnswer'[f] = "ok" => bAnswer[f] = "ok")
       \/ bNamed'.by = f

\* Every step on the backup file keeps its part of the invariant.
LEMMA BackupFacts ==
    ASSUME BTypeOK, BFile, NEW f \in Files, BackupStep(f)
    PROVE  BTypeOK' /\ BFile' /\ BackupDoes(f)
<1> USE DEF BTypeOK, BFile, BWhole, BackupDoes, Backup!At, Backup!Goto, Backup!InUse, Backup!Remove, Backup!NoFile, NoFile
<1>1. CASE Backup!CreateFails(f)
    BY <1>1 DEF Backup!CreateFails
<1>2. CASE Backup!CreateTemp(f)
    BY <1>2 DEF Backup!CreateTemp
<1>3. CASE Backup!Chmod(f)
    BY <1>3 DEF Backup!Chmod
<1>4. CASE Backup!ChmodErr(f)
    BY <1>4 DEF Backup!ChmodErr
<1>5. CASE Backup!Write(f)
    BY <1>5 DEF Backup!Write
<1>6. CASE Backup!WriteFails(f)
    BY <1>6 DEF Backup!WriteFails
<1>7. CASE Backup!WriteErr(f)
    BY <1>7 DEF Backup!WriteErr
<1>8. CASE Backup!CloseHandle(f)
    BY <1>8 DEF Backup!CloseHandle
<1>9. CASE Backup!CloseHandleFails(f)
    BY <1>9 DEF Backup!CloseHandleFails
<1>10. CASE Backup!Rename(f)
    BY <1>10 DEF Backup!Rename
<1>11. CASE Backup!RenameFails(f)
    BY <1>11 DEF Backup!RenameFails
<1>12. CASE Backup!CloseErr(f)
    BY <1>12 DEF Backup!CloseErr
<1>13. CASE Backup!Crash(f)
    BY <1>13 DEF Backup!Crash
<1>14. QED
    BY <1>1, <1>2, <1>3, <1>4, <1>5, <1>6, <1>7, <1>8, <1>9, <1>10, <1>11, <1>12, <1>13 DEF BackupStep

-----------------------------------------------------------------------------
(* Save *)

\* No Save has begun: the invariant holds.
LEMMA QuickInit == QInit => QInv
<1> SUFFICES ASSUME QInit PROVE QInv
    OBVIOUS
<1>1. IInv
    BY InitSafe DEF QInit
<1>2. QTypeOK /\ OneSave /\ InTurn /\ HistIsFile
  <2>1. NoFile \in Content /\ named \in Content
    BY <1>1, MaxWritesAssumption DEF Content, NoFile, IInv, TypeOK
  <2>2. hist \in Seq(Content) /\ HistIsFile
    BY <2>1 DEF QInit, HistIsFile
  <2>3. QTypeOK
    BY <2>1, <2>2 DEF QInit, QTypeOK, Stages
  <2>4. OneSave /\ InTurn
    BY DEF QInit, Init, OneSave, InTurn, Backup!Init
  <2>5. QED
    BY <2>2, <2>3, <2>4
<1>3. BTypeOK /\ BFile
    BY DEF QInit, Backup!Init, BTypeOK, BFile, BWhole, NoFile, Backup!NoFile
<1>4. Chain
    BY DEF QInit, Init, Chain, BackedUp, NoFile
<1>5. QED
    BY <1>1, <1>2, <1>3, <1>4 DEF QInv

\* What the backup file holds was read by a Save that has begun.
LEMMA BackupBegun ==
    ASSUME QInv, client = "quick", NEW f \in Files, save[f] = "new" PROVE bNamed.by # f
    BY NobodyAssumption DEF QInv, InTurn, BFile, BWhole, NoFile

\* A Save returns, or crashes; neither file changes.
LEMMA StageStep ==
    ASSUME QInv, NEW f \in Files, NEW outcome \in {"ok", "error", "crashed"}, save[f] \in {"backup", "config"},
           Return(f, outcome),
           client' = client /\ exclusive' = exclusive /\ oldData' = oldData /\ hist' = hist,
           named' = named /\ bNamed' = bNamed,
           \A g \in Files : g # f => /\ pc'[g] = pc[g] /\ closed'[g] = closed[g] /\ aborted'[g] = aborted[g]
                                     /\ bPc'[g] = bPc[g] /\ bAnswer'[g] = bAnswer[g]
    PROVE  (QTypeOK /\ OneSave /\ InTurn /\ HistIsFile /\ Chain)'
<1>1. save'[f] = outcome /\ \A g \in Files : g # f => save'[g] = save[g]
    BY DEF QInv, QTypeOK, Return
<1>2. QTypeOK'
    BY DEF QInv, QTypeOK, Stages, Return
<1>3. OneSave'
    BY <1>1 DEF QInv, OneSave, Return
<1>4. InTurn' /\ HistIsFile'
    BY <1>1 DEF QInv, InTurn, HistIsFile
<1>5. BackedUp' = BackedUp
    BY DEF BackedUp
<1>6. \A g \in Files : g # f => (Before(g)' <=> Before(g))
    BY DEF Before, InUse, At
<1>7. Chain'
    BY <1>1, <1>5, <1>6 DEF QInv, Chain
<1>8. QED
    BY <1>2, <1>3, <1>4, <1>7

\* The backup is made: Save goes on to the configuration file.
LEMMA ToConfig ==
    ASSUME QInv, NEW f \in Files, save[f] = "backup", exclusive => BackedUp = named,
           save' = [save EXCEPT ![f] = "config"],
           UNCHANGED <<vars, bVars, client, exclusive, holder, oldData, hist>>
    PROVE  (QTypeOK /\ OneSave /\ InTurn /\ HistIsFile /\ Chain)'
<1>1. save'[f] = "config" /\ \A g \in Files : g # f => save'[g] = save[g]
    BY DEF QInv, QTypeOK
<1>2. QTypeOK'
    BY DEF QInv, QTypeOK, Stages
<1>3. OneSave'
    BY <1>1 DEF QInv, OneSave
<1>4. InTurn' /\ HistIsFile'
    BY <1>1 DEF QInv, InTurn, HistIsFile, vars, bVars
<1>5. BackedUp' = BackedUp /\ named' = named /\ bNamed' = bNamed /\ bAnswer' = bAnswer /\ exclusive' = exclusive
    BY DEF BackedUp, vars, bVars
<1>6. \A g \in Files : Before(g)' <=> Before(g)
    BY DEF Before, InUse, At, vars
<1>7. Chain'
    BY <1>1, <1>5, <1>6 DEF QInv, Chain
<1>8. QED
    BY <1>2, <1>3, <1>4, <1>7

\* Every step of a Save, a failure and a crash keep the invariant.
LEMMA QuickNext == QInv /\ [QNext]_allVars => QInv'
<1> SUFFICES ASSUME QInv, [QNext]_allVars PROVE QInv'
    OBVIOUS
<1>1. IInv'
    BY QuickIsSafe, SafeStep DEF QInv
<1>2. CASE client = "any" /\ Next /\ UNCHANGED <<bVars, qVars>>
  <2>1. (QTypeOK /\ OneSave /\ InTurn /\ HistIsFile)'
    BY <1>2 DEF QInv, QTypeOK, OneSave, InTurn, HistIsFile, qVars
  <2>2. BTypeOK' /\ BFile'
    BY <1>2 DEF QInv, BTypeOK, BFile, BWhole, bVars
  <2>3. Chain'
    BY <1>2 DEF QInv, OneSave, Chain, qVars
  <2>4. QED
    BY <1>1, <2>1, <2>2, <2>3 DEF QInv
<1>3. ASSUME NEW f \in Files, Save(f) PROVE QInv'
  <2>1. /\ client = "quick" /\ save[f] = "new" /\ (exclusive => holder = Nobody)
        /\ UNCHANGED <<vars, bVars>> /\ client' = client /\ exclusive' = exclusive /\ hist' = hist
    BY <1>3 DEF Save, SaveAt
  <2>2. BTypeOK' /\ BFile'
    BY <2>1 DEF QInv, BTypeOK, BFile, BWhole, bVars
  <2>3. bNamed' = bNamed /\ bNamed.by # f /\ named' = named /\ pc' = pc /\ bPc' = bPc /\ bAnswer' = bAnswer /\ bAnswer[f] = "none"
    BY <2>1, BackupBegun DEF QInv, InTurn, BFile, bVars, vars
  <2>4. \A g \in Files : Before(g)' <=> Before(g)
    BY <2>1 DEF Before, InUse, At, vars
  <2>5. \E stage \in {"config", "backup", "error"} :
            /\ save' = [save EXCEPT ![f] = stage]
            /\ exclusive => holder' = f \/ (stage = "error" /\ holder' = holder)
            /\ stage = "config" => named = NoFile /\ oldData' = oldData
            /\ stage = "backup" => named # NoFile /\ oldData' = [oldData EXCEPT ![f] = named]
            /\ stage = "error" => oldData' = oldData
    BY <1>3, <2>1, NobodyAssumption DEF Save, Return
  <2>6. PICK stage \in {"config", "backup", "error"} :
            /\ save' = [save EXCEPT ![f] = stage]
            /\ exclusive => holder' = f \/ (stage = "error" /\ holder' = holder)
            /\ stage = "config" => named = NoFile /\ oldData' = oldData
            /\ stage = "backup" => named # NoFile /\ oldData' = [oldData EXCEPT ![f] = named]
            /\ stage = "error" => oldData' = oldData
    BY <2>5
  <2>7. save'[f] = stage /\ \A g \in Files : g # f => save'[g] = save[g]
    BY <2>6 DEF QInv, QTypeOK
  <2>8. /\ \A g \in Files : g # f => oldData'[g] = oldData[g]
        /\ stage = "backup" => oldData'[f] = named
        /\ oldData' \in [Files -> Content]
    <3>1. oldData \in [Files -> Content] /\ named \in Content
        BY DEF QInv, QTypeOK, IInv, TypeOK
    <3>2. oldData' = oldData \/ oldData' = [oldData EXCEPT ![f] = named]
        BY <2>6
    <3>3. QED
        BY <2>6, <3>1, <3>2
  <2>9. QTypeOK'
    BY <2>1, <2>6, <2>8 DEF QInv, QTypeOK, Stages
  <2>10. OneSave'
    BY <2>1, <2>6, <2>7, NobodyAssumption DEF QInv, OneSave
  <2>11. InTurn'
    BY <2>1, <2>3, <2>7 DEF QInv, InTurn
  <2>12. HistIsFile'
    BY <2>1, <2>3 DEF QInv, HistIsFile
  <2>13. BackedUp' = BackedUp
    <3>1. bNamed.by \in Files \cup {Nobody}
        BY DEF QInv, BFile, BWhole, NoFile
    <3>2. QED
        BY <2>3, <2>8, <3>1 DEF BackedUp
  <2>14. Chain'
    <3> SUFFICES ASSUME exclusive' PROVE Chain'
        BY DEF Chain
    <3>1. \A g \in Files : save'[g] = "backup" => oldData'[g] = named' /\ hist' # <<>>
        BY <2>1, <2>3, <2>6, <2>7, <2>8 DEF QInv, Chain, HistIsFile
    <3>2. \A g \in Files : save'[g] = "backup" /\ bAnswer'[g] = "ok" => bNamed'.by = g
        BY <2>1, <2>3, <2>7 DEF QInv, Chain
    <3>3. \A g \in Files : save'[g] = "config" /\ Before(g)' /\ hist' # <<>> => BackedUp' = named'
        BY <2>1, <2>3, <2>4, <2>6, <2>7, <2>13 DEF QInv, Chain, HistIsFile
    <3>4. QED
        BY <2>1, <2>13, <3>1, <3>2, <3>3 DEF QInv, Chain
  <2>15. QED
    BY <1>1, <2>2, <2>9, <2>10, <2>11, <2>12, <2>14 DEF QInv
<1>4. ASSUME NEW f \in Files, WriteBackup(f) PROVE QInv'
  <2>1. /\ client = "quick" /\ save[f] = "backup" /\ BackupStep(f) /\ UNCHANGED <<vars, qVars>>
    BY <1>4 DEF WriteBackup, SaveAt, BackupStep
  <2>2. BTypeOK' /\ BFile' /\ BackupDoes(f)
    BY <2>1, BackupFacts DEF QInv
  <2>3. (QTypeOK /\ OneSave /\ HistIsFile)'
    BY <2>1 DEF QInv, QTypeOK, OneSave, HistIsFile, vars, qVars
  <2>4. InTurn'
    BY <2>1, <2>2 DEF QInv, InTurn, BackupDoes, vars, qVars
  <2>5. \A g \in Files : Before(g)' <=> Before(g)
    BY <2>1 DEF Before, InUse, At, vars
  <2>6. save' = save /\ oldData' = oldData /\ hist' = hist /\ named' = named /\ exclusive' = exclusive
    BY <2>1 DEF vars, qVars
  <2>7. Chain'
    <3> SUFFICES ASSUME exclusive PROVE Chain'
        BY <2>6 DEF Chain
    <3>1. \A g \in Files : save[g] \in {"backup", "config"} => g = f
        BY <2>1 DEF QInv, OneSave
    <3>2. oldData[f] = named /\ hist # <<>> /\ named = hist[Len(hist)]
        BY <2>1 DEF QInv, Chain, HistIsFile
    <3>3. CASE bNamed' = bNamed /\ (bAnswer'[f] = "ok" => bAnswer[f] = "ok")
      <4>1. BackedUp' = BackedUp
        BY <2>6, <3>3 DEF BackedUp
      <4>2. QED
        BY <2>1, <2>5, <2>6, <3>1, <3>3, <4>1 DEF QInv, Chain
    <3>4. CASE bNamed'.by = f
      <4>1. BackedUp' = named
        BY <2>6, <3>2, <3>4, NobodyAssumption DEF BackedUp
      <4>2. QED
        BY <2>1, <2>5, <2>6, <3>1, <3>2, <3>4, <4>1 DEF QInv, Chain
    <3>5. QED
        BY <2>2, <3>3, <3>4 DEF BackupDoes
  <2>8. QED
    BY <1>1, <2>2, <2>3, <2>4, <2>7 DEF QInv
<1>5. ASSUME NEW f \in Files, BackupDone(f) PROVE QInv'
  <2>1. /\ save[f] = "backup" /\ UNCHANGED <<vars, bVars, client, exclusive, oldData, hist>>
        /\ \/ bAnswer[f] = "ok" /\ save' = [save EXCEPT ![f] = "config"] /\ holder' = holder
           \/ Return(f, "error")
    BY <1>5 DEF BackupDone, SaveAt
  <2>2. BTypeOK' /\ BFile'
    BY <2>1 DEF QInv, BTypeOK, BFile, BWhole, bVars
  <2>3. exclusive /\ bAnswer[f] = "ok" => BackedUp = named
    BY <2>1, NobodyAssumption DEF QInv, Chain, BackedUp
  <2>4. (QTypeOK /\ OneSave /\ InTurn /\ HistIsFile /\ Chain)'
    <3>1. CASE bAnswer[f] = "ok" /\ save' = [save EXCEPT ![f] = "config"] /\ holder' = holder
        BY <2>1, <2>3, <3>1, ToConfig
    <3>2. CASE Return(f, "error")
        BY <2>1, <3>2, StageStep DEF vars, bVars
    <3>3. QED
        BY <2>1, <3>1, <3>2
  <2>5. QED
    BY <1>1, <2>2, <2>4 DEF QInv
<1>6. ASSUME NEW f \in Files, WriteConfig(f) PROVE QInv'
  <2>1. /\ client = "quick" /\ save[f] = "config" /\ ConfigStep(f)
        /\ hist' = IF named' # named THEN Append(hist, named') ELSE hist
        /\ UNCHANGED <<bVars, client, exclusive, holder, save, oldData>>
    BY <1>6, ConfigIsStep DEF WriteConfig, SaveAt
  <2>2. /\ pc'[f] # "new"
        /\ \A g \in Files : g # f => pc'[g] = pc[g] /\ closed'[g] = closed[g] /\ aborted'[g] = aborted[g]
        /\ Before(f)' => Before(f) /\ named' = named
        /\ named' = named \/ (Before(f) /\ named' = temp[f] /\ temp[f] # NoFile)
    BY <2>1, ConfigFacts DEF QInv, IInv
  <2>3. BTypeOK' /\ BFile'
    BY <2>1 DEF QInv, BTypeOK, BFile, BWhole, bVars
  <2>4. named' \in Content /\ hist \in Seq(Content)
    BY <1>1 DEF IInv, TypeOK, QInv, QTypeOK
  <2>5. hist' \in Seq(Content)
    BY <2>1, <2>4
  <2>6. (QTypeOK /\ OneSave)'
    BY <2>1, <2>5 DEF QInv, QTypeOK, OneSave
  <2>7. InTurn'
    BY <2>1, <2>2 DEF QInv, InTurn, bVars
  <2>8. \/ named' = named /\ hist' = hist
        \/ /\ named' # named /\ named' # NoFile /\ hist' = Append(hist, named')
           /\ Len(hist') = Len(hist) + 1 /\ hist'[Len(hist')] = named' /\ hist' # <<>>
           /\ \A i \in 1..Len(hist) : hist'[i] = hist[i]
    BY <2>1, <2>2, <2>4
  <2>9. HistIsFile'
    BY <2>1, <2>8 DEF QInv, HistIsFile
  <2>10. BackedUp' = BackedUp
    BY <2>1 DEF BackedUp, bVars
  <2>11. Chain'
    <3> SUFFICES ASSUME exclusive PROVE Chain'
        BY <2>1 DEF Chain
    <3>1. \A g \in Files : save'[g] \in {"backup", "config"} => g = f /\ save'[g] = "config"
        BY <2>1 DEF QInv, OneSave
    <3>2. CASE named' = named /\ hist' = hist
        BY <2>1, <2>2, <2>10, <3>1, <3>2 DEF QInv, Chain
    <3>3. CASE named' # named
      <4>1. ~Before(f)' /\ Before(f)
        BY <2>2, <3>3
      <4>2. Len(hist') > 1 => hist # <<>> /\ hist'[Len(hist') - 1] = hist[Len(hist)]
        BY <2>4, <2>8, <3>3
      <4>3. hist # <<>> => BackedUp = hist[Len(hist)]
        BY <2>1, <4>1 DEF QInv, Chain, HistIsFile
      <4>4. QED
        BY <2>10, <3>1, <4>1, <4>2, <4>3 DEF Chain
    <3>4. QED
        BY <2>8, <3>2, <3>3
  <2>12. QED
    BY <1>1, <2>3, <2>6, <2>7, <2>9, <2>11 DEF QInv
<1>7. ASSUME NEW f \in Files, MarshalFails(f) \/ SaveDone(f) PROVE QInv'
  <2>1. /\ save[f] = "config" /\ UNCHANGED <<vars, bVars, client, exclusive, oldData, hist>>
        /\ Return(f, "ok") \/ Return(f, "error")
    BY <1>7 DEF MarshalFails, SaveDone, SaveAt
  <2>2. BTypeOK' /\ BFile'
    BY <2>1 DEF QInv, BTypeOK, BFile, BWhole, bVars
  <2>3. (QTypeOK /\ OneSave /\ InTurn /\ HistIsFile /\ Chain)'
    BY <2>1, StageStep DEF vars, bVars
  <2>4. QED
    BY <1>1, <2>2, <2>3 DEF QInv
<1>8. ASSUME NEW f \in Files, SaveCrash(f) PROVE QInv'
  <2>1. /\ save[f] \in {"backup", "config"} /\ Return(f, "crashed")
        /\ Crash(f) \/ UNCHANGED vars
        /\ Backup!Crash(f) \/ UNCHANGED bVars
        /\ UNCHANGED <<client, exclusive, oldData, hist>>
    BY <1>8 DEF SaveCrash
  <2>2. BTypeOK' /\ BFile'
    <3>1. CASE Backup!Crash(f)
        BY <3>1, BackupFacts DEF QInv, BackupStep
    <3>2. CASE UNCHANGED bVars
        BY <3>2 DEF QInv, BTypeOK, BFile, BWhole, bVars
    <3>3. QED
        BY <2>1, <3>1, <3>2
  <2>3. named' = named /\ \A g \in Files : g # f => pc'[g] = pc[g] /\ closed'[g] = closed[g] /\ aborted'[g] = aborted[g]
    BY <2>1 DEF Crash, Goto, vars, QInv, IInv, TypeOK
  <2>4. bNamed' = bNamed /\ \A g \in Files : g # f => bPc'[g] = bPc[g] /\ bAnswer'[g] = bAnswer[g]
    BY <2>1 DEF Backup!Crash, Backup!Goto, bVars, QInv, BTypeOK
  <2>5. (QTypeOK /\ OneSave /\ InTurn /\ HistIsFile /\ Chain)'
    BY <2>1, <2>3, <2>4, StageStep
  <2>6. QED
    BY <1>1, <2>2, <2>5 DEF QInv
<1>9. CASE UNCHANGED allVars
  <2>1. (QTypeOK /\ OneSave /\ InTurn /\ HistIsFile)' /\ BTypeOK' /\ BFile'
    BY <1>9 DEF QInv, QTypeOK, OneSave, InTurn, HistIsFile, BTypeOK, BFile, BWhole, allVars, vars, bVars, qVars
  <2>2. Chain'
    BY <1>9 DEF QInv, Chain, BackedUp, Before, InUse, At, allVars, vars, bVars, qVars
  <2>3. QED
    BY <1>1, <2>1, <2>2 DEF QInv
<1>10. QED
    BY <1>2, <1>3, <1>4, <1>5, <1>6, <1>7, <1>8, <1>9 DEF QNext

\* The invariant holds throughout.
LEMMA QuickInductive == QSpec => []QInv
    BY QuickInit, QuickNext, PTL DEF QSpec

\* quick implements safe: Save and the arbitrary callers alike use the Files of
\* the configuration file as SafeFile specifies them.
THEOREM QuickImplementsSafe == QSpec => Spec
<1>1. QInit => Init
    BY DEF QInit
<1>2. QED
    BY <1>1, QuickIsSafe, PTL DEF QSpec, Spec

\* "Backup if given file exists": however many Saves of one config fail or
\* crash, and wherever, the backup file is whole and holds the present
\* configuration or the one it replaced.
THEOREM AlwaysRecoverable == QSpec => []Recoverable
<1>1. QInv => Recoverable
    BY DEF QInv, BFile, BWhole, Chain, Recoverable, Backup!Intact, NoFile, Backup!NoFile
<1>2. QED
    BY <1>1, QuickInductive, PTL

-----------------------------------------------------------------------------
(* ilm: a rule edited after it was validated *)

\* The parts that edits change have their fields.
Shaped(r) ==
    /\ r = [filter |-> r.filter, status |-> r.status, expiration |-> r.expiration, allVersions |-> r.allVersions,
            transition |-> r.transition, noncurrentExpiry |-> r.noncurrentExpiry,
            noncurrentTransition |-> r.noncurrentTransition]
    /\ r.expiration = [days |-> r.expiration.days, date |-> r.expiration.date, marker |-> r.expiration.marker]
    /\ r.transition = [days |-> r.transition.days, date |-> r.transition.date, class |-> r.transition.class]

\* PrefixAsAsked, of a prefix and of a prefix and tags under And.
ShowsParts(own, under, tags, prefix) ==
    /\ own = "" \/ (under = "" /\ tags = <<>>)
    /\ prefix \in {own, under}
    /\ prefix # "" \/ (own = "" /\ under = "")
Shows(f, prefix) == ShowsParts(f.prefix, f.and.prefix, f.and.tags, prefix)

\* OthersAsAsked, of what was asked.
Holds(f, tags, alone, lt, gt) ==
    /\ f.and.tags = tags \/ (f.and.tags = <<>> /\ tags = alone)
    /\ f.tag = IF alone = <<>> THEN "" ELSE alone[1]
    /\ <<f.lt, f.and.lt, f.gt, f.and.gt>> \in {<<lt, 0, gt, 0>>, <<0, lt, 0, gt>>}

OneTimerOf(r) ==
    /\ r.expiration.date = 0 \/ (r.expiration.days = 0 /\ ~r.expiration.marker)
    /\ r.transition.date = 0 \/ r.transition.days = 0

IlmInv == Shaped(rule) /\ I!RuleAsAsked

\* What a filter shows is what it was put together from.
LEMMA WithShown ==
    ASSUME NEW f, NEW own, NEW under, NEW tags, NEW prefix
    PROVE  Shows(I!With(f, own, under, tags), prefix) <=> ShowsParts(own, under, tags, prefix)
<1>1. LET g == I!With(f, own, under, tags) IN g.prefix = own /\ g.and.prefix = under /\ g.and.tags = tags
    BY DEF I!With
<1>2. QED
    BY <1>1, Zenon DEF Shows

\* The tags step of ApplyRuleFields: the filter shows the prefix it had.
LEMMA TagsShown ==
    ASSUME NEW f, NEW prefix, Shows(f, prefix), NEW opts
    PROVE  LET g == I!FilterTags(f, opts)
           IN  Shows(g, prefix)
<1> DEFINE new == I!extractILMTags(opts["Tags"])
           had == IF f.prefix # "" THEN f.prefix ELSE f.and.prefix
<1>1. CASE ~I!Has(opts, "Tags")
    BY <1>1 DEF I!FilterTags
<1>2. CASE I!Has(opts, "Tags")
  <2>1. opts["Tags"] = <<>> => new = <<>>
    BY DEF I!extractILMTags
  <2>2. I!FilterTags(f, opts) = IF had = "" THEN I!With(f, f.prefix, f.and.prefix, new)
                                ELSE IF opts["Tags"] # <<>> THEN I!With(f, "", had, new) ELSE I!With(f, had, "", new)
    BY <1>2 DEF I!FilterTags
  <2>3. had = prefix
    BY DEF Shows, ShowsParts
  <2>4. had = "" => f.prefix = "" /\ f.and.prefix = ""
    OBVIOUS
  <2>8. SUFFICES Shows(I!FilterTags(f, opts), prefix)
    BY <1>2
  <2> HIDE DEF new
  <2>5. CASE had = ""
    <3>1. I!FilterTags(f, opts) = I!With(f, f.prefix, f.and.prefix, new)
        BY <2>2, <2>5
    <3>2. ShowsParts(f.prefix, f.and.prefix, new, prefix)
        BY <2>3, <2>4, <2>5 DEF ShowsParts
    <3>3. QED
        BY <3>1, <3>2, WithShown
  <2>6. CASE had # "" /\ opts["Tags"] # <<>>
    <3>1. I!FilterTags(f, opts) = I!With(f, "", had, new)
        BY <2>2, <2>6
    <3>2. ShowsParts("", had, new, prefix)
        BY <2>3, <2>6 DEF ShowsParts
    <3>3. QED
        BY <3>1, <3>2, WithShown
  <2>7. CASE had # "" /\ opts["Tags"] = <<>>
    <3>1. I!FilterTags(f, opts) = I!With(f, had, "", new)
        BY <2>2, <2>7
    <3>2. ShowsParts(had, "", new, prefix)
        BY <2>1, <2>3, <2>7 DEF ShowsParts
    <3>3. QED
        BY <3>1, <3>2, WithShown
  <2>9. QED
    BY <2>5, <2>6, <2>7
<1>3. QED
    BY <1>1, <1>2

\* The prefix step of ApplyRuleFields: the filter shows the prefix asked for.
LEMMA PrefixShown ==
    ASSUME NEW f, NEW prefix, Shows(f, prefix), NEW opts
    PROVE  LET g == I!FilterPrefix(f, opts)
           IN  Shows(g, I!Get(opts, "Prefix", prefix))
<1> DEFINE new == opts["Prefix"]
<1>1. CASE ~I!Has(opts, "Prefix")
    BY <1>1 DEF I!FilterPrefix, I!Get
<1>2. CASE I!Has(opts, "Prefix")
  <2>1. I!FilterPrefix(f, opts) = IF f.and.tags # <<>> THEN I!With(f, "", new, f.and.tags) ELSE I!With(f, new, "", f.and.tags)
    BY <1>2 DEF I!FilterPrefix
  <2>2. I!Get(opts, "Prefix", prefix) = new
    BY <1>2 DEF I!Get
  <2> HIDE DEF new
  <2>4. CASE f.and.tags # <<>>
    <3>1. ShowsParts("", new, f.and.tags, new)
        BY <2>4 DEF ShowsParts
    <3>2. QED
        BY <2>1, <2>2, <2>4, <3>1, WithShown
  <2>5. CASE f.and.tags = <<>>
    <3>1. ShowsParts(new, "", f.and.tags, new)
        BY <2>5 DEF ShowsParts
    <3>2. QED
        BY <2>1, <2>2, <2>5, <3>1, WithShown
  <2>6. QED
    BY <2>4, <2>5
<1>3. QED
    BY <1>1, <1>2

\* Edits change no predicate but the prefix and the tags under And.
LEMMA OthersKept ==
    ASSUME NEW f, NEW tags, NEW alone, NEW lt, NEW gt, Holds(f, tags, alone, lt, gt), NEW opts
    PROVE  Holds(I!FilterPrefix(I!FilterTags(f, opts), opts),
                 IF I!Has(opts, "Tags") THEN I!extractILMTags(opts["Tags"]) ELSE tags, alone, lt, gt)
<1> DEFINE new == I!extractILMTags(opts["Tags"])
           Same(g, h) == g.tag = h.tag /\ g.lt = h.lt /\ g.gt = h.gt /\ g.and.lt = h.and.lt /\ g.and.gt = h.and.gt
<1>1. ASSUME NEW g, NEW own, NEW under, NEW put
      PROVE  Same(I!With(g, own, under, put), g) /\ I!With(g, own, under, put).and.tags = put
    BY DEF I!With
<1> HIDE DEF Same
<1>2. ASSUME NEW g PROVE Same(g, g)
    BY DEF Same
<1>3. LET g == I!FilterTags(f, opts)
      IN  Same(g, f) /\ g.and.tags = IF I!Has(opts, "Tags") THEN new ELSE f.and.tags
  <2>1. CASE ~I!Has(opts, "Tags")
    BY <1>2, <2>1 DEF I!FilterTags
  <2>2. CASE I!Has(opts, "Tags")
    <3>1. \E own, under : I!FilterTags(f, opts) = I!With(f, own, under, new)
        BY <2>2, Zenon DEF I!FilterTags
    <3> HIDE DEF new
    <3>2. QED
        BY <1>1, <2>2, <3>1
  <2>3. QED
    BY <2>1, <2>2
<1>4. ASSUME NEW g
      PROVE  Same(I!FilterPrefix(g, opts), g) /\ I!FilterPrefix(g, opts).and.tags = g.and.tags
  <2>1. CASE ~I!Has(opts, "Prefix")
    BY <1>2, <2>1 DEF I!FilterPrefix
  <2>2. CASE I!Has(opts, "Prefix")
    <3>1. \E own, under : I!FilterPrefix(g, opts) = I!With(g, own, under, g.and.tags)
        BY <2>2, Zenon DEF I!FilterPrefix
    <3>2. QED
        BY <1>1, <3>1
  <2>3. QED
    BY <2>1, <2>2
<1> HIDE DEF new
<1> DEFINE h == I!FilterPrefix(I!FilterTags(f, opts), opts)
<1>5. Same(h, I!FilterTags(f, opts)) /\ h.and.tags = I!FilterTags(f, opts).and.tags
    BY <1>4
<1> HIDE DEF h
<1>6. Same(h, f) /\ h.and.tags = IF I!Has(opts, "Tags") THEN new ELSE f.and.tags
    BY <1>3, <1>5 DEF Same
<1>7. Holds(h, IF I!Has(opts, "Tags") THEN new ELSE tags, alone, lt, gt)
    BY <1>6 DEF Same, Holds
<1>8. QED
    BY <1>7 DEF h, new

\* The filter that ToILMRule makes shows what its options ask for.
LEMMA FilterMade ==
    ASSUME NEW opts
    PROVE  LET f == I!Filter(opts)
               tags == I!extractILMTags(I!Get(opts, "Tags", <<>>))
               alone == IF I!predCount(opts) >= 2 THEN <<>> ELSE tags
           IN  /\ Shows(f, I!Get(opts, "Prefix", ""))
               /\ Holds(f, tags, alone, I!Get(opts, "SizeLess", 0), I!Get(opts, "SizeGreater", 0))
<1> DEFINE tags == I!extractILMTags(I!Get(opts, "Tags", <<>>))
           prefix == I!Get(opts, "Prefix", "")
           lt == I!Get(opts, "SizeLess", 0)
           gt == I!Get(opts, "SizeGreater", 0)
           several == I!predCount(opts) >= 2
           alone == IF several THEN <<>> ELSE tags
           f1 == [prefix |-> "", tag |-> "", lt |-> 0, gt |-> 0, and |-> [prefix |-> prefix, tags |-> tags, lt |-> lt, gt |-> gt]]
           f2 == [prefix |-> prefix, tag |-> IF tags = <<>> THEN "" ELSE tags[1], lt |-> lt, gt |-> gt,
                  and |-> [prefix |-> "", tags |-> <<>>, lt |-> 0, gt |-> 0]]
<1>1. I!Filter(opts) = IF several THEN f1 ELSE f2
    BY Zenon DEF I!Filter
<1> HIDE DEF tags, prefix, lt, gt, several
<1>2. Shows(f1, prefix) /\ Shows(f2, prefix)
    BY DEF Shows, ShowsParts
<1>3. several => Holds(f1, tags, alone, lt, gt)
    BY DEF Holds
<1>4. ~several => Holds(f2, tags, alone, lt, gt)
    BY DEF Holds
<1> HIDE DEF f1, f2, alone
<1>5. Shows(I!Filter(opts), prefix) /\ Holds(I!Filter(opts), tags, alone, lt, gt)
    BY <1>1, <1>2, <1>3, <1>4
<1>6. QED
    BY <1>5 DEF tags, prefix, lt, gt, several, alone

\* A rule that passes validation has one timer of each kind.
LEMMA Timers ==
    ASSUME NEW r, I!validateExpiration(r), I!validateTransition(r) PROVE OneTimerOf(r)
    BY DEF I!validateExpiration, I!validateTransition, OneTimerOf

\* RuleAsAsked in the terms of the lemmas.
LEMMA AsShown ==
    I!RuleAsAsked <=> /\ Shows(rule.filter, asked.prefix)
                      /\ Holds(rule.filter, asked.tags, asked.alone, asked.lt, asked.gt)
                      /\ OneTimerOf(rule)
    BY DEF I!RuleAsAsked, I!PrefixAsAsked, I!OthersAsAsked, I!DateAlone, Shows, ShowsParts, Holds, OneTimerOf

\* Before a rule is made nothing is asked for, and nothing shown.
LEMMA IlmInit == I!Init => IlmInv
<1> SUFFICES ASSUME I!Init PROVE IlmInv
    OBVIOUS
<1>1. rule = I!NoRule /\ asked = [prefix |-> "", tags |-> <<>>, alone |-> <<>>, lt |-> 0, gt |-> 0]
    BY DEF I!Init
<1>2. Shaped(I!NoRule) /\ OneTimerOf(I!NoRule)
    BY DEF I!NoRule, Shaped, OneTimerOf
<1>3. Shows(I!NoRule.filter, "") /\ Holds(I!NoRule.filter, <<>>, <<>>, 0, 0)
    BY DEF I!NoRule, I!EmptyFilter, Shows, ShowsParts, Holds
<1>4. QED
    BY <1>1, <1>2, <1>3, AsShown DEF IlmInv

\* ToILMRule makes the rule asked for, or leaves the present one.
LEMMA IlmCreate == ASSUME IlmInv, NEW opts, I!ToILMRule(opts) PROVE IlmInv'
<1> DEFINE new == [filter |-> I!Filter(opts),
                   status |-> IF I!Get(opts, "Status", TRUE) THEN "Enabled" ELSE "Disabled",
                   expiration |-> I!parseExpiry(opts),
                   allVersions |-> I!parseAllVersionsExpiry(opts),
                   transition |-> I!parseTransition(opts),
                   noncurrentExpiry |-> [days |-> I!Get(opts, "NoncurrentExpiryDays", 0), newer |-> I!Get(opts, "NewerExpiry", 0)],
                   noncurrentTransition |-> [days |-> I!Get(opts, "NoncurrentTransitionDays", 0),
                                             newer |-> I!Get(opts, "NewerTransition", 0),
                                             class |-> I!Get(opts, "NoncurrentClass", "")]]
<1>1. I!validateILMRule(new) /\ rule' = new /\ I!MadeAs(opts)
    BY DEF I!ToILMRule
<1>2. Shows(I!Filter(opts), asked'.prefix) /\ Holds(I!Filter(opts), asked'.tags, asked'.alone, asked'.lt, asked'.gt)
  <2> DEFINE tags == I!extractILMTags(I!Get(opts, "Tags", <<>>))
             alone == IF I!predCount(opts) >= 2 THEN <<>> ELSE tags
             prefix == I!Get(opts, "Prefix", "")
             lt == I!Get(opts, "SizeLess", 0)
             gt == I!Get(opts, "SizeGreater", 0)
  <2>1. Shows(I!Filter(opts), prefix) /\ Holds(I!Filter(opts), tags, alone, lt, gt)
    BY FilterMade, Zenon
  <2>2. asked' = [prefix |-> prefix, tags |-> tags, alone |-> alone, lt |-> lt, gt |-> gt]
    BY <1>1, Zenon DEF I!MadeAs
  <2> HIDE DEF tags, alone, prefix, lt, gt
  <2>3. QED
    BY <2>1, <2>2
<1>3. OneTimerOf(new)
    BY <1>1, Timers DEF I!validateILMRule
<1>4. Shaped(new) /\ new.filter = I!Filter(opts)
    BY DEF Shaped, I!parseExpiry, I!parseTransition
<1> HIDE DEF new
<1>5. /\ Shows(rule'.filter, asked'.prefix) /\ Holds(rule'.filter, asked'.tags, asked'.alone, asked'.lt, asked'.gt)
      /\ OneTimerOf(rule') /\ Shaped(rule')
    BY <1>1, <1>2, <1>3, <1>4
<1>6. I!RuleAsAsked'
    BY <1>5 DEF I!RuleAsAsked, I!PrefixAsAsked, I!OthersAsAsked, I!DateAlone, Shows, ShowsParts, Holds, OneTimerOf
<1>7. QED
    BY <1>5, <1>6 DEF IlmInv

\* The expiration and the transition have one timer each, in every case that
\* edits distinguish.
LEMMA TimersEdited ==
    ASSUME NEW r, Shaped(r), OneTimerOf(r), NEW opts
    PROVE  LET e == I!ApplyExpiration(r.expiration, opts)
               t == I!ApplyTransition(r.transition, opts)
           IN  /\ e = [days |-> e.days, date |-> e.date, marker |-> e.marker]
               /\ e.date = 0 \/ (e.days = 0 /\ ~e.marker)
               /\ t = [days |-> t.days, date |-> t.date, class |-> t.class]
               /\ t.date = 0 \/ t.days = 0
<1> DEFINE e0 == r.expiration
           t0 == r.transition
           e == I!ApplyExpiration(e0, opts)
           t == I!ApplyTransition(t0, opts)
<1>1. /\ e = [days |-> e.days, date |-> e.date, marker |-> e.marker]
      /\ e.date = 0 \/ (e.days = 0 /\ ~e.marker)
    BY DEF I!ApplyExpiration, Shaped, OneTimerOf
<1>2. /\ t = [days |-> t.days, date |-> t.date, class |-> t.class]
      /\ t.date = 0 \/ t.days = 0
    BY DEF I!ApplyTransition, Shaped, OneTimerOf
<1>3. QED
    BY <1>1, <1>2

\* The edits of ApplyRuleFields that cannot fail keep one timer and the filter.
LEMMA PlainEdited ==
    ASSUME NEW r, Shaped(r), OneTimerOf(r), NEW opts
    PROVE  LET x == I!ApplyPlain(r, opts) IN Shaped(x) /\ OneTimerOf(x) /\ x.filter = r.filter
<1> DEFINE t == r.transition
           class == I!Get(opts, "StorageClass", t.class)
<1>1. [t EXCEPT !.class = I!Get(opts, "StorageClass", @)] = [days |-> t.days, date |-> t.date, class |-> class]
    BY DEF Shaped
<1>2. LET x == I!ApplyPlain(r, opts)
      IN  x.filter = r.filter /\ x.expiration = r.expiration /\ x.transition = [days |-> t.days, date |-> t.date, class |-> class]
    BY <1>1 DEF I!ApplyPlain
<1>3. LET x == I!ApplyPlain(r, opts)
      IN  x = [filter |-> x.filter, status |-> x.status, expiration |-> x.expiration, allVersions |-> x.allVersions,
               transition |-> x.transition, noncurrentExpiry |-> x.noncurrentExpiry,
               noncurrentTransition |-> x.noncurrentTransition]
    BY DEF I!ApplyPlain
<1>4. QED
    BY <1>2, <1>3 DEF Shaped, OneTimerOf

\* ApplyRuleFields keeps the invariant, also where it stops half way with an error.
LEMMA IlmEdit == ASSUME IlmInv, NEW opts, I!ApplyRuleFields(opts) PROVE IlmInv'
<1> DEFINE f == I!FilterPrefix(I!FilterTags(rule.filter, opts), opts)
           av == [days |-> IF I!Has(opts, "PurgeDays") THEN I!Num(opts, "PurgeDays") ELSE rule.allVersions.days,
                  marker |-> I!Get(opts, "PurgeMarker", rule.allVersions.marker)]
           r1 == [rule EXCEPT !.filter = f]
           r2 == [r1 EXCEPT !.expiration = I!ApplyExpiration(rule.expiration, opts)]
           r3 == [r2 EXCEPT !.allVersions = av]
           r4 == [r3 EXCEPT !.transition = I!ApplyTransition(rule.transition, opts)]
<1>1. /\ Shaped(rule) /\ OneTimerOf(rule) /\ Shows(rule.filter, asked.prefix)
      /\ Holds(rule.filter, asked.tags, asked.alone, asked.lt, asked.gt)
    BY AsShown DEF IlmInv
<1>2. rule' \in {r1, r2, r3, I!ApplyPlain(r4, opts)} /\ I!EditedTo(opts)
    BY <1>1 DEF I!ApplyRuleFields, Shaped
<1>3. Shows(f, asked'.prefix) /\ Holds(f, asked'.tags, asked'.alone, asked'.lt, asked'.gt)
  <2> DEFINE tags == IF I!Has(opts, "Tags") THEN I!extractILMTags(opts["Tags"]) ELSE asked.tags
             prefix == I!Get(opts, "Prefix", asked.prefix)
  <2>1. asked' = [prefix |-> prefix, tags |-> tags, alone |-> asked.alone, lt |-> asked.lt, gt |-> asked.gt]
    BY <1>2, Zenon DEF I!EditedTo
  <2>2. Shows(I!FilterTags(rule.filter, opts), asked.prefix)
    BY <1>1, TagsShown, Zenon
  <2>3. Holds(f, tags, asked.alone, asked.lt, asked.gt)
    BY <1>1, OthersKept, Zenon
  <2> HIDE DEF tags
  <2>4. Shows(f, prefix)
    BY <2>2, PrefixShown, Zenon
  <2> HIDE DEF f, prefix
  <2>5. QED
    BY <2>1, <2>3, <2>4
<1> HIDE DEF f, av
<1> DEFINE e == I!ApplyExpiration(rule.expiration, opts)
           t == I!ApplyTransition(rule.transition, opts)
           L(ex, all, tr) == [filter |-> f, status |-> rule.status, expiration |-> ex, allVersions |-> all,
                              transition |-> tr, noncurrentExpiry |-> rule.noncurrentExpiry,
                              noncurrentTransition |-> rule.noncurrentTransition]
<1>4. \A x \in {r1, r2, r3, r4} : Shaped(x) /\ OneTimerOf(x) /\ x.filter = f
  <2>1. /\ e = [days |-> e.days, date |-> e.date, marker |-> e.marker]
        /\ e.date = 0 \/ (e.days = 0 /\ ~e.marker)
        /\ t = [days |-> t.days, date |-> t.date, class |-> t.class]
        /\ t.date = 0 \/ t.days = 0
    BY <1>1, TimersEdited, Zenon
  <2>2. ASSUME NEW ex, NEW all, NEW tr,
               ex = [days |-> ex.days, date |-> ex.date, marker |-> ex.marker], ex.date = 0 \/ (ex.days = 0 /\ ~ex.marker),
               tr = [days |-> tr.days, date |-> tr.date, class |-> tr.class], tr.date = 0 \/ tr.days = 0
        PROVE  Shaped(L(ex, all, tr)) /\ OneTimerOf(L(ex, all, tr)) /\ L(ex, all, tr).filter = f
    BY <2>2 DEF Shaped, OneTimerOf
  <2> HIDE DEF e, t
  <2>3. r1 = L(rule.expiration, rule.allVersions, rule.transition)
    BY <1>1 DEF Shaped
  <2> HIDE DEF r1
  <2>4. r2 = L(e, rule.allVersions, rule.transition)
    BY <2>3 DEF e
  <2> HIDE DEF r2
  <2>5. r3 = L(e, av, rule.transition)
    BY <2>4
  <2> HIDE DEF r3
  <2>6. r4 = L(e, av, t)
    BY <2>5 DEF t
  <2> HIDE DEF r4, L
  <2> DEFINE e0 == rule.expiration
             t0 == rule.transition
  <2>7. /\ e0 = [days |-> e0.days, date |-> e0.date, marker |-> e0.marker]
        /\ e0.date = 0 \/ (e0.days = 0 /\ ~e0.marker)
        /\ t0 = [days |-> t0.days, date |-> t0.date, class |-> t0.class]
        /\ t0.date = 0 \/ t0.days = 0
    BY <1>1 DEF Shaped, OneTimerOf
  <2>13. /\ r1 = L(e0, rule.allVersions, t0)
         /\ r2 = L(e, rule.allVersions, t0)
         /\ r3 = L(e, av, t0)
    BY <2>3, <2>4, <2>5
  <2> HIDE DEF e0, t0
  <2>8. Shaped(r1) /\ OneTimerOf(r1) /\ r1.filter = f
    BY ONLY <2>2, <2>7, <2>13, Zenon
  <2>9. Shaped(r2) /\ OneTimerOf(r2) /\ r2.filter = f
    BY ONLY <2>1, <2>2, <2>7, <2>13, Zenon
  <2>10. Shaped(r3) /\ OneTimerOf(r3) /\ r3.filter = f
    BY ONLY <2>1, <2>2, <2>7, <2>13, Zenon
  <2>11. Shaped(r4) /\ OneTimerOf(r4) /\ r4.filter = f
    BY <2>1, <2>2, <2>6, Zenon
  <2>12. QED
    BY <2>8, <2>9, <2>10, <2>11
<1> HIDE DEF r1, r2, r3, r4
<1>5. LET x == I!ApplyPlain(r4, opts) IN Shaped(x) /\ OneTimerOf(x) /\ x.filter = f
  <2>1. Shaped(r4) /\ OneTimerOf(r4) /\ r4.filter = f
    BY <1>4
  <2>2. QED
    BY <2>1, PlainEdited, Zenon
<1>6. Shaped(rule') /\ OneTimerOf(rule') /\ rule'.filter = f
    BY <1>2, <1>4, <1>5
<1>7. I!RuleAsAsked'
    BY <1>3, <1>6 DEF I!RuleAsAsked, I!PrefixAsAsked, I!OthersAsAsked, I!DateAlone, Shows, ShowsParts, Holds, OneTimerOf
<1>8. QED
    BY <1>6, <1>7 DEF IlmInv

\* However often a validated lifecycle rule is edited in place, by edits that succeed
\* or fail half way, its filter has the prefix and the tags last asked for, a single
\* tag and the sizes it was made with, and nothing else, and no date stands beside
\* another timer, though ApplyRuleFields validates nothing.
THEOREM EditsAsAsked == I!Spec => []RuleAsAsked
<1>1. IlmInv /\ [I!Next]_(I!vars) => IlmInv'
  <2>1. IlmInv /\ I!Next => IlmInv'
    BY IlmCreate, IlmEdit DEF I!Next
  <2>2. IlmInv /\ UNCHANGED I!vars => IlmInv'
    BY DEF I!vars, IlmInv, I!RuleAsAsked, I!PrefixAsAsked, I!OthersAsAsked, I!DateAlone
  <2>3. QED
    BY <2>1, <2>2
<1>2. IlmInv => RuleAsAsked
    BY DEF IlmInv, RuleAsAsked
<1>3. QED
    BY IlmInit, <1>1, <1>2, PTL DEF I!Spec

-----------------------------------------------------------------------------
(* rng: division, and what follows from a whole number of lanes *)

\* Multiples of b keep their order and lie b apart.
LEMMA Multiple ==
    ASSUME NEW b \in Nat, NEW x \in Int, NEW y \in Int, x < y
    PROVE  b * x \in Int /\ b * x + b <= b * y
<1>1. PICK d \in Nat : y = x + 1 + d
    <2>1. y - x - 1 \in Nat
        OBVIOUS
    <2>2. y = x + 1 + (y - x - 1)
        OBVIOUS
    <2>3. QED
        BY <2>1, <2>2
<1>2. b * d \in Nat
    OBVIOUS
<1>3. b * y = b * x + b + b * d
    BY <1>1
<1>4. QED
    BY <1>2, <1>3

\* Division with remainder.
LEMMA DivMod ==
    ASSUME NEW a \in Int, NEW b \in Nat, b > 0
    PROVE  a \div b \in Int /\ a % b \in 0..b-1 /\ a = b * (a \div b) + (a % b)
    OBVIOUS

\* Quotient and remainder are unique.
LEMMA Unique ==
    ASSUME NEW b \in Nat, NEW q \in Int, NEW r \in 0..b-1
    PROVE  (b * q + r) \div b = q /\ (b * q + r) % b = r
<1> DEFINE a == b * q + r
<1>1. a \in Int /\ b > 0
    OBVIOUS
<1>2. PICK x \in Int, y \in 0..b-1 : x = a \div b /\ y = a % b /\ a = b * x + y
    BY <1>1, DivMod
<1>3. ~(x < q)
  <2>1. SUFFICES ASSUME x < q PROVE FALSE
    OBVIOUS
  <2>2. b * x + b <= b * q /\ b * x \in Int /\ b * q \in Int
    BY <2>1, Multiple
  <2>3. QED
    BY <1>2, <2>2
<1>4. ~(q < x)
  <2>1. SUFFICES ASSUME q < x PROVE FALSE
    OBVIOUS
  <2>2. b * q + b <= b * x /\ b * x \in Int /\ b * q \in Int
    BY <2>1, Multiple
  <2>3. QED
    BY <1>2, <2>2
<1>5. x = q
    BY <1>3, <1>4
<1>6. QED
    BY <1>2, <1>5

\* Divisible: a place of the buffer has the lane of the offset.
LEMMA LaneOfPlace ==
    ASSUME NEW o \in Int, NEW L \in Nat, L > 0, NEW B \in Nat, B > 0, B % L = 0
    PROVE  (o % B) % L = o % L
<1>1. PICK k \in Int : B = L * k
    <2>1. B = L * (B \div L) + (B % L) /\ B \div L \in Int
        BY DivMod
    <2>2. B = L * (B \div L)
        BY <2>1
    <2>3. QED
        BY <2>1, <2>2
<1>2. PICK w \in Int, z \in 0..B-1 : w = o \div B /\ z = o % B /\ o = B * w + z
    BY DivMod
<1>3. PICK q \in Int, r \in 0..L-1 : q = z \div L /\ r = z % L /\ z = L * q + r
    BY DivMod
<1>4. o = L * (k * w + q) + r /\ k * w + q \in Int
    BY <1>1, <1>2, <1>3
<1>5. o % L = r
    BY <1>4, Unique
<1>6. QED
    BY <1>2, <1>3, <1>5

\* Within a block a step forward moves the remainder and not the quotient.
LEMMA OneFurther ==
    ASSUME NEW o \in Int, NEW b \in Nat, b > 0, NEW j \in Nat, (o % b) + j < b
    PROVE  (o + j) % b = (o % b) + j /\ (o + j) \div b = o \div b
<1>1. PICK q \in Int, r \in 0..b-1 : q = o \div b /\ r = o % b /\ o = b * q + r
    BY DivMod
<1>2. o + j = b * q + (r + j) /\ r + j \in 0..b-1
    BY <1>1
<1>3. QED
    BY <1>1, <1>2, Unique

\* The rest of a lane lies within the buffer.
LEMMA LaneFits ==
    ASSUME NEW x \in Nat, NEW L \in Nat, L > 0, NEW B \in Nat, B > 0, B % L = 0, x < B, NEW j \in Nat, (x % L) + j < L
    PROVE  x + j < B /\ (x \div L) * L + (x % L) = x
<1>1. PICK k \in Int : B = L * k
    <2>1. B = L * (B \div L) + (B % L) /\ B \div L \in Int
        BY DivMod
    <2>2. B = L * (B \div L)
        BY <2>1
    <2>3. QED
        BY <2>1, <2>2
<1>2. PICK q \in Int, r \in 0..L-1 : q = x \div L /\ r = x % L /\ x = L * q + r
    BY DivMod
<1>3. q < k
  <2>1. SUFFICES ASSUME k <= q PROVE FALSE
    OBVIOUS
  <2>2. L * k <= L * q /\ L * k \in Int /\ L * q \in Int
    BY <2>1, Multiple
  <2>3. QED
    BY <1>1, <1>2, <2>2
<1>4. L * q + L <= L * k
    BY <1>3, Multiple
<1>5. QED
    BY <1>1, <1>2, <1>4

\* From the start of a lane on, lanes are counted from 0.
LEMMA Aligned ==
    ASSUME NEW o \in Int, NEW L \in Nat, L > 0, o % L = 0, NEW j \in Nat
    PROVE  (o + j) % L = j % L
<1>1. PICK q \in Int : o = L * q
    <2>1. o = L * (o \div L) + (o % L) /\ o \div L \in Int
        BY DivMod
    <2>2. o = L * (o \div L)
        BY <2>1
    <2>3. QED
        BY <2>1, <2>2
<1>2. PICK a \in Int, r \in 0..L-1 : a = j \div L /\ r = j % L /\ j = L * a + r
    BY DivMod
<1>3. o + j = L * (q + a) + r /\ q + a \in Int
    BY <1>1, <1>2
<1>4. (L * (q + a) + r) % L = r
    BY <1>3, Unique
<1>5. QED
    BY <1>2, <1>3, <1>4

-----------------------------------------------------------------------------
(* rng: the stream *)

\* One call at a time, of a reader whose buffer is a whole number of lanes.
OneAtATime ==
    /\ Lanes \in Nat /\ Lanes > 0
    /\ BufferSize \in Nat /\ BufferSize > 0 /\ BufferSize % Lanes = 0
    /\ Sizes \subseteq Int /\ MaxOffset \in Nat /\ MaxLen \in Nat
    /\ ~Async

RCall == [op : {"none", "Read", "ReadAt"}, pc : {"done", "loop", "copy", "panic"}, start : Int, asked : Nat,
          off : Int, left : Int, out : Seq(Seq(Int)), eof : BOOLEAN]

RTypeOK ==
    /\ offset \in Int /\ size \in Int /\ seed \in Int /\ subxor \in Int
    /\ tmp \in [0..Lanes - 1 -> Seq(Int)]
    /\ call \in [Callers -> RCall]

\* n bytes, from an offset on, of the stream of a buffer and its subkeys.
Byte(sd, sx, o) == <<sd, o % BufferSize, sx, o % Lanes, o \div BufferSize>>
Stream(sd, sx, o, n) == [i \in 1..n |-> Byte(sd, sx, o + i - 1)]

\* What a call has to deliver.
Due(c) == IF call[c].eof THEN size - call[c].start ELSE call[c].asked

Solo == \A c, d \in Callers : c # d => call[c].pc = "done" \/ call[d].pc = "done"

\* A call that goes on has delivered the stream up to its position.
Underway(c) ==
    /\ call[c].op # "none"
    /\ call[c].left >= 0 /\ Due(c) - call[c].left >= 0
    /\ call[c].out = Stream(seed, subxor, call[c].start, Due(c) - call[c].left)
    /\ R!Position(c) = call[c].start + Due(c) - call[c].left
    /\ call[c].eof <=> (size >= 0 /\ call[c].start + call[c].asked >= size)
    /\ size >= 0 => call[c].start + Due(c) <= size

\* r.tmp has the lanes around the position.
Filled(c) ==
    /\ call[c].left > 0
    /\ \A i \in 0..Lanes - 1 : tmp[i] = R!xor32(R!startAligned(c) + i, i, R!Position(c) \div BufferSize)

CallOK(c) ==
    /\ call[c].pc \in {"loop", "copy"} => Underway(c)
    /\ call[c].pc = "copy" => Filled(c)
    /\ call[c].pc = "done" /\ call[c].op # "none" => R!Delivered(c)
    /\ call[c].pc = "panic" => call[c].start > size /\ (call[c].op = "Read" => strayed)

\* Only a Seek or ResetSize that failed puts the offset behind the end.
OnCourse == ~strayed /\ size >= 0 => offset <= size

RInv == RTypeOK /\ Solo /\ OnCourse /\ \A c \in Callers : CallOK(c)

-----------------------------------------------------------------------------
\* n bytes of the stream are a sequence of n bytes.
LEMMA StreamLen ==
    ASSUME OneAtATime, NEW sd \in Int, NEW sx \in Int, NEW o \in Int, NEW n \in Nat
    PROVE  Stream(sd, sx, o, n) \in Seq(Seq(Int)) /\ Len(Stream(sd, sx, o, n)) = n
<1>1. \A i \in 1..n : Byte(sd, sx, o + i - 1) \in Seq(Int)
  <2> TAKE i \in 1..n
  <2>1. (o + i - 1) \in Int
    OBVIOUS
  <2>2. (o + i - 1) % BufferSize \in Int /\ (o + i - 1) % Lanes \in Int /\ (o + i - 1) \div BufferSize \in Int
    BY <2>1 DEF OneAtATime
  <2>3. QED
    BY <2>2 DEF Byte
<1>2. QED
    BY <1>1 DEF Stream

\* Two pieces that follow each other are one ...
Joins(sd, sx, o, n, m) == Stream(sd, sx, o, n) \o Stream(sd, sx, o + n, m) = Stream(sd, sx, o, n + m)

\* ... wherever they begin.
LEMMA Glue ==
    ASSUME OneAtATime, NEW sd \in Int, NEW sx \in Int, NEW o \in Int, NEW n \in Nat, NEW m \in Nat
    PROVE  Joins(sd, sx, o, n, m)
<1> DEFINE a == Stream(sd, sx, o, n)
           b == Stream(sd, sx, o + n, m)
           c == Stream(sd, sx, o, n + m)
<1>1. a \in Seq(Seq(Int)) /\ b \in Seq(Seq(Int)) /\ c \in Seq(Seq(Int)) /\ Len(a) = n /\ Len(b) = m /\ Len(c) = n + m
    BY StreamLen
<1>2. \A i \in 1..n : a[i] = c[i]
    BY DEF Stream
<1>3. \A i \in 1..m : b[i] = c[n + i]
  <2> TAKE i \in 1..m
  <2>1. b[i] = Byte(sd, sx, o + n + i - 1)
    BY DEF Stream
  <2>2. c[n + i] = Byte(sd, sx, o + (n + i) - 1) /\ n + i \in 1..n+m
    BY DEF Stream
  <2>3. o + n + i - 1 = o + (n + i) - 1
    OBVIOUS
  <2>4. QED
    BY <2>1, <2>2, <2>3
<1> HIDE DEF a, b, c
<1>4. /\ a \o b \in Seq(Seq(Int)) /\ Len(a \o b) = n + m
      /\ \A i \in 1..Len(a) + Len(b) : (a \o b)[i] = IF i <= Len(a) THEN a[i] ELSE b[i - Len(a)]
    BY <1>1, ConcatProperties
<1>5. ASSUME NEW i \in 1..Len(a \o b) PROVE (a \o b)[i] = c[i]
  <2>1. i \in 1..n + m
    BY <1>4
  <2>2. CASE i <= n
    BY <1>1, <1>2, <1>4, <2>1, <2>2
  <2>3. CASE ~(i <= n)
    <3>1. i - n \in 1..m /\ (a \o b)[i] = b[i - n]
        BY <1>1, <1>4, <2>1, <2>3
    <3>2. n + (i - n) = i
        BY <2>1
    <3>3. b[i - n] = c[n + (i - n)]
        BY <1>3, <3>1, Zenon
    <3>4. QED
        BY <3>1, <3>2, <3>3
  <2>4. QED
    BY <2>2, <2>3
<1>6. a \o b = c
    BY <1>1, <1>4, <1>5, SeqEqual
<1>7. QED
    BY <1>6, Zenon DEF Joins, a, b, c

\* The bytes of r.tmp behind the position are the stream's ...
LEMMA TmpBytes ==
    ASSUME OneAtATime, NEW o \in Int, NEW k \in Nat, (o % Lanes) + k < Lanes
    PROVE  /\ ((o % BufferSize) \div Lanes) * Lanes + ((o % Lanes) + k) = (o + k) % BufferSize
           /\ (o % Lanes) + k = (o + k) % Lanes
           /\ o \div BufferSize = (o + k) \div BufferSize
<1> USE DEF OneAtATime
<1>1. (o + k) % Lanes = (o % Lanes) + k
    BY OneFurther
<1>2. (o % BufferSize) % Lanes = o % Lanes /\ o % BufferSize \in Nat /\ o % BufferSize < BufferSize
    BY LaneOfPlace
<1>3. (o % BufferSize) + k < BufferSize
    BY <1>2, LaneFits
<1>4. ((o % BufferSize) \div Lanes) * Lanes + (o % Lanes) = o % BufferSize
    BY <1>2, LaneFits
<1>5. (o + k) % BufferSize = (o % BufferSize) + k /\ (o + k) \div BufferSize = o \div BufferSize
    BY <1>3, OneFurther
<1>6. QED
  <2>1. ((o % BufferSize) \div Lanes) * Lanes \in Int /\ o % Lanes \in Int
    BY <1>2
  <2>2. QED
    BY <1>1, <1>4, <1>5, <2>1

\* ... and so are those of the buffer behind a position at the start of a lane.
LEMMA BufferBytes ==
    ASSUME OneAtATime, NEW o \in Int, o % Lanes = 0, NEW k \in Nat, (o % BufferSize) + k < BufferSize
    PROVE  /\ (o % BufferSize) + k = (o + k) % BufferSize
           /\ k % Lanes = (o + k) % Lanes
           /\ o \div BufferSize = (o + k) \div BufferSize
    BY Aligned, OneFurther DEF OneAtATime

-----------------------------------------------------------------------------
\* A step of one call: it says nothing of the others, which have returned.
LEMMA OneCall ==
    ASSUME RInv, NEW c \in Callers,
           \A d \in Callers \ {c} : call[d].pc = "done" /\ call'[d] = call[d],
           UNCHANGED <<size, seed, subxor>>,
           RTypeOK', OnCourse', CallOK(c)'
    PROVE  RInv'
<1>1. Solo'
    BY DEF Solo
<1>2. ASSUME NEW d \in Callers \ {c} PROVE CallOK(d)'
  <2>1. call'[d] = call[d] /\ call[d].pc = "done"
    BY <1>2
  <2>2. R!Delivered(d) => R!Delivered(d)'
    BY <2>1 DEF R!Delivered, R!Byte, R!xor32
  <2>3. QED
    BY <2>1, <2>2 DEF RInv, CallOK
<1>3. QED
    BY <1>1, <1>2 DEF RInv

\* What has been delivered, as Delivered says it.
LEMMA OutIsStream ==
    ASSUME NEW c, NEW n, n = Len(call[c].out), call[c].out = Stream(seed, subxor, call[c].start, n)
    PROVE  call[c].out = [i \in 1..n |-> R!Byte(call[c].start + i - 1)]
    BY DEF Stream, Byte, R!Byte, R!xor32

\* A new reader satisfies the invariant.
LEMMA RInit == ASSUME OneAtATime, R!Init PROVE RInv
<1>1. \A c \in Callers : call[c] = R!Idle
    BY DEF R!Init
<1>2. R!Idle \in RCall
    BY DEF R!Idle, RCall
<1>3. RTypeOK
    BY <1>2 DEF R!Init, RTypeOK, OneAtATime
<1>4. Solo /\ OnCourse /\ \A c \in Callers : CallOK(c)
    BY <1>1 DEF R!Init, R!Idle, Solo, OnCourse, CallOK
<1>5. QED
    BY <1>3, <1>4 DEF RInv

\* The beginning of Read and ReadAt: the length is cut at the end of the stream.
LEMMA REnter ==
    ASSUME OneAtATime, RInv, NEW c \in Callers, NEW op \in {"Read", "ReadAt"}, NEW start \in Int, NEW n \in Nat,
           op = "Read" => start = offset, R!Enter(c, op, start, n)
    PROVE  RInv'
<1> DEFINE eof == size >= 0 /\ n + start >= size
           left == IF eof THEN size - start ELSE n
           to == IF eof /\ size < start THEN "panic" ELSE "loop"
<1>1. /\ \A d \in Callers \ {c} : call[d].pc = "done"
      /\ call' = [call EXCEPT ![c] = [op |-> op, start |-> start, asked |-> n, off |-> start, out |-> <<>>, eof |-> eof,
                                      left |-> left, pc |-> to]]
      /\ UNCHANGED <<offset, size, seed, subxor, tmp, strayed>>
    BY DEF R!Enter, R!MayCall, OneAtATime, R!readerVars
<1>2. left \in Int /\ eof \in BOOLEAN /\ to \in {"panic", "loop"}
    BY DEF RInv, RTypeOK
<1>3. /\ call'[c] = [op |-> op, start |-> start, asked |-> n, off |-> start, out |-> <<>>, eof |-> eof,
                     left |-> left, pc |-> to]
      /\ \A d \in Callers \ {c} : call'[d] = call[d]
    BY <1>1 DEF RInv, RTypeOK
<1>4. call'[c] \in RCall
    BY <1>2, <1>3 DEF RCall
<1>5. RTypeOK'
    BY <1>1, <1>3, <1>4 DEF RInv, RTypeOK
<1>6. OnCourse'
    BY <1>1 DEF RInv, OnCourse
<1>7. CallOK(c)'
  <2>1. CASE to = "panic"
    BY <1>1, <1>3, <2>1 DEF CallOK, RInv, OnCourse, RTypeOK
  <2>2. CASE to = "loop"
    <3>0. /\ call'[c].op = op /\ call'[c].start = start /\ call'[c].asked = n /\ call'[c].out = <<>>
          /\ call'[c].left = left /\ (call'[c].eof <=> eof)
      <4> HIDE DEF eof, left, to
      <4>1. QED
        BY <1>3
    <3>1. left >= 0
        BY <2>2 DEF RInv, RTypeOK
    <3>7. Due(c)' = left
        BY <1>1, <3>0 DEF Due
    <3>2. <<>> = Stream(seed, subxor, start, 0)
        BY DEF Stream
    <3>3. R!Position(c)' = start
        BY <1>1, <1>3 DEF R!Position
    <3>4. size >= 0 => start + left <= size
        BY DEF RInv, RTypeOK
    <3> HIDE DEF left
    <3>5. Underway(c)'
        BY <1>1, <1>2, <3>0, <3>1, <3>2, <3>3, <3>4, <3>7 DEF Underway, RInv, RTypeOK
    <3>6. QED
        BY <1>3, <2>2, <3>5 DEF CallOK
  <2>3. QED
    BY <2>1, <2>2
<1>8. QED
    BY <1>1, <1>3, <1>5, <1>6, <1>7, OneCall

\* The next n bytes of the stream are delivered.
LEMMA RDeliver ==
    ASSUME OneAtATime, RInv, NEW c \in Callers, call[c].pc \in {"loop", "copy"},
           NEW n \in Nat, n <= call[c].left, NEW to \in {"loop", "done"},
           R!Deliver(c, Stream(seed, subxor, R!Position(c), n), to),
           to = "done" => call[c].op = "Read" /\ n > 0 /\ ~call[c].eof,
           UNCHANGED <<size, seed, subxor, tmp, strayed>>
    PROVE  RInv'
<1> DEFINE k == call[c]
           bytes == Stream(seed, subxor, R!Position(c), n)
<1>1. k \in RCall /\ Underway(c) /\ seed \in Int /\ subxor \in Int /\ size \in Int /\ offset \in Int
    BY DEF RInv, RTypeOK, CallOK
<1>2. k.start \in Int /\ k.left \in Int /\ Due(c) \in Int /\ k.off \in Int /\ k.asked \in Nat
    BY <1>1 DEF RCall, Due
<1>3. R!Position(c) \in Int
    BY <1>1, <1>2 DEF R!Position
<1>4. bytes \in Seq(Seq(Int)) /\ Len(bytes) = n
  <2> DEFINE o == R!Position(c)
  <2>1. seed \in Int /\ subxor \in Int /\ o \in Int
    BY <1>1, <1>3
  <2> HIDE DEF o
  <2>2. ASSUME NEW sd \in Int, NEW sx \in Int
        PROVE  Stream(sd, sx, o, n) \in Seq(Seq(Int)) /\ Len(Stream(sd, sx, o, n)) = n
    BY ONLY <2>1, n \in Nat, sd \in Int, sx \in Int, OneAtATime, StreamLen
  <2>3. QED
    BY <2>1, <2>2, Zenon DEF o
<1> HIDE DEF bytes
<1>5. /\ call' = [call EXCEPT ![c] = [op |-> k.op, start |-> k.start, asked |-> k.asked, eof |-> k.eof,
                                      off |-> IF k.op = "ReadAt" THEN k.off + n ELSE k.off,
                                      left |-> k.left - n, out |-> k.out \o bytes, pc |-> to]]
      /\ offset' = IF k.op = "Read" THEN offset + n ELSE offset
    BY <1>4 DEF R!Deliver, bytes
<1>6. /\ call'[c] = [op |-> k.op, start |-> k.start, asked |-> k.asked, eof |-> k.eof,
                     off |-> IF k.op = "ReadAt" THEN k.off + n ELSE k.off,
                     left |-> k.left - n, out |-> k.out \o bytes, pc |-> to]
      /\ \A d \in Callers \ {c} : call'[d] = call[d]
    BY <1>5 DEF RInv, RTypeOK
<1>7. /\ call'[c].op = k.op /\ call'[c].start = k.start /\ call'[c].asked = k.asked /\ call'[c].eof = k.eof
      /\ call'[c].off = (IF k.op = "ReadAt" THEN k.off + n ELSE k.off)
      /\ call'[c].left = k.left - n /\ call'[c].out = k.out \o bytes /\ call'[c].pc = to
    BY <1>6
<1>8. k.out \in Seq(Seq(Int)) /\ k.out \o bytes \in Seq(Seq(Int))
    BY <1>1, <1>4, ConcatProperties DEF RCall
<1>9. call'[c] \in RCall
  <2>1. /\ k.op \in {"none", "Read", "ReadAt"} /\ k.start \in Int /\ k.asked \in Nat /\ k.eof \in BOOLEAN
        /\ (IF k.op = "ReadAt" THEN k.off + n ELSE k.off) \in Int /\ k.left - n \in Int
    BY <1>1, <1>2 DEF RCall
  <2>2. QED
    BY <1>6, <1>8, <2>1 DEF RCall
<1>10. RTypeOK'
    BY <1>1, <1>5, <1>6, <1>9 DEF RInv, RTypeOK
<1>11. Due(c)' = Due(c)
    BY <1>7 DEF Due
<1>12. R!Position(c)' = R!Position(c) + n
    BY <1>1, <1>2, <1>5, <1>7 DEF R!Position, Underway, RCall
<1>13. k.out \o bytes = Stream(seed, subxor, k.start, Due(c) - (k.left - n))
  <2> DEFINE got == Due(c) - k.left
  <2>1. got \in Nat /\ k.out = Stream(seed, subxor, k.start, got) /\ R!Position(c) = k.start + got
    BY <1>1, <1>2 DEF Underway
  <2>2. got + n = Due(c) - (k.left - n)
    BY <1>2
  <2> HIDE DEF got
  <2>3. Stream(seed, subxor, k.start, got) \o Stream(seed, subxor, k.start + got, n) = Stream(seed, subxor, k.start, got + n)
    <3>1. seed \in Int /\ subxor \in Int /\ k.start \in Int /\ got \in Nat
        BY <1>1, <1>2, <2>1
    <3>2. Joins(seed, subxor, k.start, got, n)
        BY <3>1, Glue, Zenon
    <3>3. QED
        BY <3>2, Zenon DEF Joins
  <2>4. QED
    BY <2>1, <2>2, <2>3 DEF bytes
<1>20. /\ k.op # "none" /\ k.left >= 0 /\ Due(c) - k.left >= 0 /\ R!Position(c) = k.start + Due(c) - k.left
       /\ size >= 0 => k.start + Due(c) <= size
    BY <1>1 DEF Underway
<1>21. k.eof <=> (size >= 0 /\ k.start + k.asked >= size)
    BY <1>1 DEF Underway
<1>14. Underway(c)'
  <2>1. call'[c].eof <=> (size' >= 0 /\ call'[c].start + call'[c].asked >= size')
    BY <1>7, <1>21
  <2>2. call'[c].op # "none" /\ call'[c].left >= 0 /\ Due(c)' - call'[c].left >= 0
    BY <1>2, <1>7, <1>11, <1>20
  <2>3. call'[c].out = Stream(seed', subxor', call'[c].start, Due(c)' - call'[c].left)
    BY <1>7, <1>11, <1>13
  <2>4. R!Position(c)' = call'[c].start + Due(c)' - call'[c].left
    <3>1. R!Position(c) + n = k.start + Due(c) - (k.left - n)
        BY <1>2, <1>3, <1>20
    <3>2. QED
        BY <1>7, <1>11, <1>12, <3>1
  <2>5. size' >= 0 => call'[c].start + Due(c)' <= size'
    BY <1>7, <1>11, <1>20
  <2>6. QED
    BY <2>1, <2>2, <2>3, <2>4, <2>5 DEF Underway
<1>15. OnCourse'
  <2>1. CASE k.op = "Read"
    <3>1. offset' = k.start + Due(c) - (k.left - n) /\ (size >= 0 => k.start + Due(c) <= size)
      <4>1. R!Position(c) = offset /\ offset' = offset + n
        BY <1>5, <2>1 DEF R!Position
      <4>2. QED
        BY <1>1, <1>2, <1>20, <4>1
    <3>2. QED
        BY <1>1, <1>2, <3>1 DEF OnCourse
  <2>2. CASE k.op # "Read"
    BY <1>5, <2>2 DEF RInv, OnCourse
  <2>3. QED
    BY <2>1, <2>2
<1>16. to = "done" => R!Delivered(c)'
  <2> SUFFICES ASSUME to = "done" PROVE R!Delivered(c)'
    OBVIOUS
  <2> DEFINE m == Due(c) - (k.left - n)
  <2>1. m \in Nat /\ 0 < m /\ m <= Due(c)
    BY <1>1, <1>2, <1>20
  <2>2. Len(Stream(seed, subxor, k.start, m)) = m
    <3> HIDE DEF m
    <3> DEFINE o == k.start
    <3>1. seed \in Int /\ subxor \in Int /\ o \in Int /\ m \in Nat
        BY <1>1, <1>2, <2>1
    <3> HIDE DEF o
    <3>2. Len(Stream(seed, subxor, o, m)) = m
        BY <3>1, StreamLen
    <3>3. QED
        BY <3>2 DEF o
  <2>3. call'[c].out = Stream(seed', subxor', call'[c].start, m) /\ Len(call'[c].out) = m
    BY <1>7, <1>13, <2>2
  <2>6. m = Due(c) \/ (0 < m /\ m < Due(c))
    BY <1>2, <2>1
  <2> HIDE DEF m
  <2>4. call'[c].out = [i \in 1..m |-> R!Byte(call[c].start + i - 1)']
    BY <2>3 DEF Stream, Byte, R!Byte, R!xor32
  <2>5. QED
    <3>1. call'[c].out = [i \in 1..Len(call'[c].out) |-> R!Byte(call[c].start + i - 1)']
        BY <2>3, <2>4
    <3>2. call'[c].eof <=> (size' >= 0 /\ call'[c].start + call'[c].asked >= size')
        BY <1>14 DEF Underway
    <3>3. Due(c)' = IF call'[c].eof THEN size' - call'[c].start ELSE call'[c].asked
        BY DEF Due
    <3>4. /\ Len(call'[c].out) = Due(c)' \/ (call'[c].op = "Read" /\ 0 < Len(call'[c].out) /\ Len(call'[c].out) < Due(c)' /\ ~call'[c].eof)
        BY <1>7, <1>11, <2>3, <2>6
    <3>5. QED
        BY <3>1, <3>2, <3>3, <3>4 DEF R!Delivered
<1>17. CallOK(c)'
    BY <1>7, <1>14, <1>16 DEF CallOK
<1>18. \A d \in Callers \ {c} : call[d].pc = "done"
    BY DEF RInv, Solo
<1>19. QED
    BY <1>6, <1>10, <1>15, <1>17, <1>18, OneCall

\* Underway, with the types that the steps need.
LEMMA CallFacts ==
    ASSUME RInv, NEW c \in Callers, call[c].pc # "done"
    PROVE  /\ call[c] \in RCall /\ seed \in Int /\ subxor \in Int /\ size \in Int
           /\ call[c].left \in Int /\ R!Position(c) \in Int
           /\ \A d \in Callers \ {c} : call[d].pc = "done"
    BY DEF RInv, RTypeOK, RCall, Solo, R!Position

\* A call goes to another place, and nothing else about it changes.
LEMMA PcMoved ==
    ASSUME call \in [Callers -> RCall], NEW c \in Callers, NEW to \in {"copy", "done"},
           call' = [call EXCEPT ![c].pc = to]
    PROVE  /\ call'[c] \in RCall /\ call'[c].pc = to /\ call'[c].op = call[c].op /\ call'[c].start = call[c].start
           /\ call'[c].asked = call[c].asked /\ call'[c].off = call[c].off /\ call'[c].left = call[c].left
           /\ call'[c].out = call[c].out /\ call'[c].eof = call[c].eof
           /\ \A d \in Callers \ {c} : call'[d] = call[d]
           /\ call' \in [Callers -> RCall]
<1> DEFINE new == [call[c] EXCEPT !.pc = to]
<1>1. ASSUME NEW k \in RCall
      PROVE  LET m == [k EXCEPT !.pc = to]
             IN  /\ m \in RCall /\ m.pc = to /\ m.op = k.op /\ m.start = k.start /\ m.asked = k.asked
                 /\ m.off = k.off /\ m.left = k.left /\ m.out = k.out /\ m.eof = k.eof
    BY DEF RCall
<1>2. /\ new \in RCall /\ new.pc = to /\ new.op = call[c].op /\ new.start = call[c].start
      /\ new.asked = call[c].asked /\ new.off = call[c].off /\ new.left = call[c].left
      /\ new.out = call[c].out /\ new.eof = call[c].eof
    BY <1>1
<1>3. call' = [call EXCEPT ![c] = new]
    OBVIOUS
<1> HIDE DEF new
<1>4. call'[c] = new /\ \A d \in Callers \ {c} : call'[d] = call[d]
    BY <1>3
<1>5. call' \in [Callers -> RCall]
    BY <1>2, <1>3
<1>6. QED
    BY <1>2, <1>4, <1>5

\* An unaligned position: the lanes around it are put into r.tmp.
LEMMA RFillTmp == ASSUME OneAtATime, RInv, NEW c \in Callers, R!FillTmp(c) PROVE RInv'
<1> DEFINE o == R!Position(c)
<1>1. call[c].pc = "loop" /\ call[c].left > 0 /\ UNCHANGED <<offset, size, seed, subxor, strayed>>
    BY DEF R!FillTmp, R!readerVars
<1>2. Underway(c)
    BY <1>1 DEF RInv, CallOK
<1>3. call' = [call EXCEPT ![c].pc = "copy"]
    BY DEF R!FillTmp
<1>4. /\ call'[c] \in RCall /\ call'[c].pc = "copy" /\ call'[c].op = call[c].op /\ call'[c].start = call[c].start
      /\ call'[c].asked = call[c].asked /\ call'[c].off = call[c].off /\ call'[c].left = call[c].left
      /\ call'[c].out = call[c].out /\ call'[c].eof = call[c].eof
      /\ \A d \in Callers \ {c} : call'[d] = call[d]
      /\ call' \in [Callers -> RCall]
    BY <1>3, PcMoved DEF RInv, RTypeOK
<1>5. R!Position(c)' = o
    BY <1>1, <1>4 DEF R!Position
<1>6. /\ tmp' = [i \in 0..Lanes - 1 |-> R!xor32(R!startAligned(c) + i, i, o \div BufferSize)]
    BY DEF R!FillTmp
<1>7. RTypeOK'
  <2>1. o \in Int /\ o \div BufferSize \in Int /\ R!startAligned(c) \in Int
    BY <1>1, CallFacts DEF OneAtATime, R!startAligned
  <2>2. \A i \in 0..Lanes - 1 : R!xor32(R!startAligned(c) + i, i, o \div BufferSize) \in Seq(Int)
    BY <2>1 DEF RInv, RTypeOK, R!xor32
  <2>3. QED
    BY <1>1, <1>4, <1>6, <2>2 DEF RInv, RTypeOK
<1>8. R!startAligned(c)' = R!startAligned(c)
    BY <1>5 DEF R!startAligned
<1>9. Filled(c)'
  <2>1. \A i \in 0..Lanes - 1 : tmp'[i] = <<seed, R!startAligned(c) + i, subxor, i, o \div BufferSize>>
    BY <1>6 DEF R!xor32
  <2>2. QED
    BY <1>1, <1>4, <1>5, <1>8, <2>1 DEF Filled, R!xor32
<1>10. Underway(c)'
    BY <1>1, <1>2, <1>4, <1>5 DEF Underway, Due
<1>11. CallOK(c)' /\ OnCourse'
    BY <1>1, <1>4, <1>9, <1>10 DEF CallOK, OnCourse, RInv
<1>12. QED
    BY <1>1, <1>4, <1>7, <1>11, OneCall, CallFacts

\* The bytes of r.tmp behind the position are delivered.
LEMMA RCopyTmp == ASSUME OneAtATime, RInv, NEW c \in Callers, R!CopyTmp(c) PROVE RInv'
<1> DEFINE o == R!Position(c)
           copied == R!Less(call[c].left, Lanes - (o % Lanes))
<1>1. /\ call[c].pc = "copy" /\ UNCHANGED <<size, seed, subxor, tmp, strayed>>
      /\ R!Deliver(c, [i \in 1..copied |-> tmp[(o % Lanes) + i - 1]], "loop")
    BY DEF R!CopyTmp, R!readerVars
<1>2. Underway(c) /\ Filled(c) /\ o \in Int /\ call[c].left \in Int
    BY <1>1, CallFacts DEF RInv, CallOK
<1>3. o % Lanes \in 0..Lanes - 1
    BY <1>2 DEF OneAtATime
<1>4. copied \in Nat /\ copied <= call[c].left /\ (o % Lanes) + copied <= Lanes
  <2>1. call[c].left > 0 /\ Lanes \in Nat
    BY <1>2 DEF Filled, OneAtATime
  <2>2. ASSUME NEW r \in 0..Lanes - 1, NEW left \in Int, left > 0
        PROVE  LET k == R!Less(left, Lanes - r) IN k \in Nat /\ k <= left /\ r + k <= Lanes
    BY ONLY <2>1, <2>2, r \in 0..Lanes - 1, left \in Int DEF R!Less
  <2>3. QED
    BY <1>2, <1>3, <2>1, <2>2, Zenon
<1> HIDE DEF copied
<1>5. \A i \in 1..copied : tmp[(o % Lanes) + i - 1] = Byte(seed, subxor, o + i - 1)
  <2> TAKE i \in 1..copied
  <2>1. i - 1 \in Nat /\ (o % Lanes) + (i - 1) < Lanes /\ (o % Lanes) + i - 1 = (o % Lanes) + (i - 1) /\ o + i - 1 = o + (i - 1)
    BY <1>2, <1>3, <1>4 DEF OneAtATime
  <2>2. (o % Lanes) + (i - 1) \in 0..Lanes - 1
    BY <1>3, <2>1 DEF OneAtATime
  <2>3. tmp[(o % Lanes) + (i - 1)] = <<seed, R!startAligned(c) + ((o % Lanes) + (i - 1)), subxor, (o % Lanes) + (i - 1), o \div BufferSize>>
    BY <1>2, <2>2 DEF Filled, R!xor32
  <2>4. QED
    BY <1>2, <2>1, <2>3, TmpBytes DEF R!startAligned, Byte
<1>6. [i \in 1..copied |-> tmp[(o % Lanes) + i - 1]] = Stream(seed, subxor, o, copied)
    BY <1>5 DEF Stream
<1>7. QED
    BY <1>1, <1>4, <1>6, RDeliver

\* An aligned position: whole lanes are delivered up to the end of the buffer.
LEMMA RReadAligned == ASSUME OneAtATime, RInv, NEW c \in Callers, R!ReadAligned(c) PROVE RInv'
<1> DEFINE o == R!Position(c)
           first == o % BufferSize
           lenAligned == R!Less((call[c].left \div Lanes) * Lanes, BufferSize - first)
           to == IF call[c].op = "Read" /\ call[c].left - lenAligned < Lanes /\ ~call[c].eof THEN "done" ELSE "loop"
<1>1. /\ call[c].pc = "loop" /\ call[c].left > 0 /\ UNCHANGED <<size, seed, subxor, tmp, strayed>>
      /\ o % Lanes = 0 /\ call[c].left >= Lanes
      /\ R!Deliver(c, [i \in 1..lenAligned |-> R!xor32(first + i - 1, (i - 1) % Lanes, o \div BufferSize)], to)
    BY CallFacts DEF R!ReadAligned, R!Unaligned, R!readerVars, OneAtATime
<1>2. o \in Int /\ call[c].left \in Int
    BY <1>1, CallFacts
<1>3. first \in Nat /\ first < BufferSize
    BY <1>2 DEF OneAtATime
<1>4. /\ (call[c].left \div Lanes) * Lanes <= call[c].left /\ (call[c].left \div Lanes) * Lanes > 0
      /\ (call[c].left \div Lanes) * Lanes \in Int
  <2>1. PICK q \in Int, r \in 0..Lanes - 1 : q = call[c].left \div Lanes /\ call[c].left = Lanes * q + r
    BY <1>2, DivMod DEF OneAtATime
  <2>2. q > 0
    <3>1. SUFFICES ASSUME q <= 0 PROVE FALSE
        BY <2>1
    <3> DEFINE w == Lanes * q
    <3>2. w <= 0 /\ w \in Int /\ call[c].left = w + r
        BY <2>1, <3>1 DEF OneAtATime
    <3> HIDE DEF w
    <3>3. QED
        BY <1>1, <1>2, <3>2 DEF OneAtATime
  <2>3. Lanes * q > 0 /\ Lanes * q = q * Lanes /\ q * Lanes \in Int
    BY <2>2 DEF OneAtATime
  <2>4. QED
    BY <2>1, <2>3 DEF OneAtATime
<1>5. lenAligned \in Nat /\ lenAligned > 0 /\ lenAligned <= call[c].left /\ first + lenAligned <= BufferSize
    BY <1>2, <1>3, <1>4 DEF R!Less, OneAtATime
<1>6. \A i \in 1..lenAligned : R!xor32(first + i - 1, (i - 1) % Lanes, o \div BufferSize) = Byte(seed, subxor, o + i - 1)
  <2> TAKE i \in 1..lenAligned
  <2>1. i - 1 \in Nat /\ first + (i - 1) < BufferSize /\ first + i - 1 = first + (i - 1) /\ o + i - 1 = o + (i - 1)
    BY <1>2, <1>3, <1>5 DEF OneAtATime
  <2>2. QED
    BY <1>1, <1>2, <2>1, BufferBytes DEF R!xor32, Byte
<1>7. to \in {"loop", "done"} /\ (to = "done" => call[c].op = "Read" /\ ~call[c].eof)
    OBVIOUS
<1> HIDE DEF lenAligned, to
<1>8. [i \in 1..lenAligned |-> R!xor32(first + i - 1, (i - 1) % Lanes, o \div BufferSize)] = Stream(seed, subxor, o, lenAligned)
    BY <1>6 DEF Stream
<1>9. QED
    BY <1>1, <1>5, <1>7, <1>8, RDeliver

\* Nothing is left to deliver: the call returns.
LEMMA RReturn == ASSUME RInv, NEW c \in Callers, R!Return(c) PROVE RInv'
<1>1. call[c].pc = "loop" /\ call[c].left = 0 /\ UNCHANGED <<offset, size, seed, subxor, tmp, strayed>>
    BY DEF R!Return, R!readerVars
<1>2. Underway(c) /\ Due(c) \in Int
    BY <1>1 DEF RInv, CallOK, RTypeOK, RCall, Due
<1>3. call' = [call EXCEPT ![c].pc = "done"]
    BY DEF R!Return
<1>4. /\ call'[c] \in RCall /\ call'[c].pc = "done" /\ call'[c].op = call[c].op /\ call'[c].start = call[c].start
      /\ call'[c].asked = call[c].asked /\ call'[c].out = call[c].out /\ call'[c].eof = call[c].eof
      /\ \A d \in Callers \ {c} : call'[d] = call[d]
      /\ call' \in [Callers -> RCall]
    BY <1>3, PcMoved DEF RInv, RTypeOK
<1>5. Due(c) \in Nat /\ call[c].out = Stream(seed, subxor, call[c].start, Due(c))
    BY <1>1, <1>2 DEF Underway
<1>6. Len(call[c].out) = Due(c)
  <2>1. Len([i \in 1..Due(c) |-> Byte(seed, subxor, call[c].start + i - 1)]) = Due(c)
    BY <1>5
  <2>2. QED
    BY <1>5, <2>1 DEF Stream
<1>7. R!Delivered(c)
  <2>1. call[c].out = [i \in 1..Len(call[c].out) |-> R!Byte(call[c].start + i - 1)]
    BY <1>5, <1>6, OutIsStream
  <2>2. call[c].eof <=> (size >= 0 /\ call[c].start + call[c].asked >= size)
    BY <1>2 DEF Underway
  <2>3. QED
    BY <1>6, <2>1, <2>2 DEF R!Delivered, Due
<1>8. R!Delivered(c)'
    BY <1>1, <1>4, <1>7 DEF R!Delivered, R!Byte, R!xor32
<1>9. RTypeOK' /\ OnCourse' /\ CallOK(c)'
    BY <1>1, <1>4, <1>8 DEF RInv, RTypeOK, OnCourse, CallOK
<1>10. QED
    BY <1>1, <1>4, <1>9, OneCall, CallFacts

\* Seek moves the offset, also where it returns an error.
LEMMA RSeek == ASSUME RInv, NEW o \in Int, R!SeekTo(o) PROVE RInv'
<1>1. UNCHANGED <<size, seed, subxor, tmp, call>> /\ offset' = o /\ \A c \in Callers : call[c].pc = "done"
    BY DEF R!SeekTo, R!readerVars, R!Quiet
<1>2. strayed' = (o < 0 \/ (size >= 0 /\ o > size))
    BY DEF R!SeekTo
<1>3. RTypeOK' /\ Solo'
    BY <1>1 DEF RInv, RTypeOK, Solo
<1>4. OnCourse'
  <2>1. ~strayed' => ~(o < 0 \/ (size >= 0 /\ o > size))
    BY <1>2, Zenon
  <2>2. QED
    BY <1>1, <2>1 DEF RInv, RTypeOK, OnCourse
<1>5. \A c \in Callers : CallOK(c)'
    BY <1>1 DEF RInv, CallOK, R!Delivered, R!Byte, R!xor32
<1>6. QED
    BY <1>3, <1>4, <1>5 DEF RInv

\* Reset and ResetSize start another stream, also where they fail.
LEMMA RReset ==
    ASSUME OneAtATime, RInv,
           R!Reset \/ R!ResetFails \/ \E n \in Sizes : R!ResetSize(n) \/ R!ResetSizeFails(n)
    PROVE  RInv'
<1>1. /\ \A c \in Callers : call'[c] = R!Idle
      /\ offset' \in Int /\ size' \in Int /\ seed' \in Int /\ subxor' \in Int
      /\ call' = [c \in Callers |-> R!Idle] /\ tmp' = [i \in 0..Lanes - 1 |-> <<>>]
    BY DEF R!Reset, R!ResetFails, R!ResetSize, R!ResetSizeFails, R!Reseed, R!ReseedFails, RInv, RTypeOK, OneAtATime
<1>2. R!Idle \in RCall
    BY DEF R!Idle, RCall
<1>3. RTypeOK'
    BY <1>1, <1>2 DEF RTypeOK
<1>4. Solo' /\ \A c \in Callers : CallOK(c)'
    BY <1>1 DEF R!Idle, Solo, CallOK
<1>5. OnCourse'
  <2>1. CASE R!Reset \/ \E n \in Sizes : R!ResetSize(n)
    BY <1>1, <2>1 DEF R!Reset, R!ResetSize, R!Reseed, OnCourse
  <2>2. CASE R!ResetFails
    BY <2>2 DEF R!ResetFails, R!ReseedFails, OnCourse, RInv
  <2>3. ASSUME NEW n \in Sizes, R!ResetSizeFails(n) PROVE OnCourse'
    <3>1. strayed' = (offset < 0 \/ (n >= 0 /\ offset > n)) /\ offset' = offset /\ size' = n
        BY <2>3 DEF R!ResetSizeFails, R!ReseedFails
    <3>2. ~strayed' => ~(offset < 0 \/ (n >= 0 /\ offset > n))
        BY <3>1, Zenon
    <3>3. QED
        BY <3>1, <3>2 DEF OnCourse, RInv, RTypeOK, OneAtATime
  <2>4. QED
    BY <2>1, <2>2, <2>3
<1>6. QED
    BY <1>3, <1>4, <1>5 DEF RInv

\* Every step keeps the invariant.
LEMMA RNext == ASSUME OneAtATime, RInv, [R!Next]_(R!vars) PROVE RInv'
<1>1. ASSUME NEW c \in Callers, R!Calls(c) PROVE RInv'
  <2>1. ASSUME NEW n \in 0..MaxLen, R!Read(c, n) PROVE RInv'
    BY <2>1, REnter DEF R!Read, RInv, RTypeOK, OneAtATime
  <2>2. ASSUME NEW n \in 0..MaxLen, NEW off \in 0..MaxOffset, R!ReadAt(c, n, off) PROVE RInv'
    BY <2>2, REnter DEF R!ReadAt, OneAtATime
  <2>3. QED
    BY <1>1, <2>1, <2>2, RFillTmp, RCopyTmp, RReadAligned, RReturn DEF R!Calls
<1>2. ASSUME NEW o \in -1..MaxOffset, R!SeekStart(o) PROVE RInv'
    BY <1>2, RSeek DEF R!SeekStart, OneAtATime
<1>3. ASSUME NEW d \in -1..1, R!SeekCurrent(d) \/ R!SeekEnd(d) PROVE RInv'
    BY <1>3, RSeek DEF R!SeekCurrent, R!SeekEnd, RInv, RTypeOK
<1>4. CASE R!Reset \/ R!ResetFails \/ \E n \in Sizes : R!ResetSize(n) \/ R!ResetSizeFails(n)
    BY <1>4, RReset
<1>5. CASE UNCHANGED R!vars
  <2>1. UNCHANGED <<offset, size, seed, subxor, tmp, call, strayed>>
    BY <1>5 DEF R!vars, R!readerVars
  <2>2. \A c \in Callers : CallOK(c)'
    BY <2>1 DEF RInv, CallOK, Underway, Filled, Due, R!Position, R!startAligned, R!Delivered, R!Byte, R!xor32
  <2>3. QED
    BY <2>1, <2>2 DEF RInv, RTypeOK, Solo, OnCourse
<1>6. QED
    BY <1>1, <1>2, <1>3, <1>4, <1>5 DEF R!Next

\* For every stream, buffer and lane size: as long as calls do not overlap, Read and
\* ReadAt deliver exactly the bytes of the stream from where they start, however
\* the reads cut it, up to its end; Seek and Reset in between change nothing.
THEOREM EveryReadExact == ASSUME OneAtATime PROVE R!Spec => []StreamExact
<1>1. RInv => StreamExact
    BY DEF RInv, CallOK, StreamExact, R!StreamExact
<1>2. QED
    BY <1>1, RInit, RNext, PTL DEF R!Spec

-----------------------------------------------------------------------------
(* wildcard: the loop of Match and MatchSimple *)

\* Every iteration but the last moves (mark, p) up in lexicographic order.
WInv ==
    /\ pattern \in Seq(Letters \cup {"*", "?"}) /\ name \in Seq(Letters)
    /\ W!TypeOK
    /\ mark <= s /\ star < p
    /\ result = "call" => s = 0 /\ p = 0 /\ star = -1 /\ mark = 0 /\ steps = 0
    /\ result = "run" => steps <= mark * (Len(pattern) + 1) + p
    /\ result \in {"yes", "no"} => steps <= Len(name) * (Len(pattern) + 1) + Len(pattern) + 1

\* A row of the table of (mark, p) has Len(pattern) + 1 places.
LEMMA Rows ==
    ASSUME NEW a \in Nat, NEW b \in Nat, NEW n \in Nat, a <= b
    PROVE  a * n \in Nat /\ a * n <= b * n /\ (a + 1) * n = a * n + n
    OBVIOUS

\* The patterns and names of an instance are sequences.
LEMMA WordsAreSequences ==
    ASSUME NEW S, NEW n \in Nat, NEW word \in W!Words(S, n) PROVE word \in Seq(S)
<1>1. PICK k \in 0..n : word \in [1..k -> S]
    BY DEF W!Words
<1>2. QED
    BY <1>1

\* A call begins with the invariant.
LEMMA WInit == ASSUME MaxPattern \in Nat, MaxName \in Nat, W!Init PROVE WInv
<1>1. pattern \in Seq(Letters \cup {"*", "?"}) /\ name \in Seq(Letters)
    BY WordsAreSequences DEF W!Init
<1>2. Len(pattern) \in Nat /\ Len(name) \in Nat
    BY <1>1
<1>3. QED
    BY <1>1, <1>2 DEF W!Init, WInv, W!TypeOK

\* Every branch of the loop keeps the invariant.
LEMMA WNext == WInv /\ [W!Next]_(W!vars) => WInv'
<1> SUFFICES ASSUME WInv, [W!Next]_(W!vars) PROVE WInv'
    OBVIOUS
<1> DEFINE N == Len(name)
           P == Len(pattern)
           passed == mark * (P + 1)
<1>1. N \in Nat /\ P \in Nat /\ mark \in Nat /\ s \in Nat /\ mark <= s /\ s <= N
    BY DEF WInv, W!TypeOK
<1>2. /\ passed \in Nat /\ passed <= N * (P + 1) /\ N * (P + 1) \in Nat
      /\ passed <= s * (P + 1) /\ (mark + 1) * (P + 1) = passed + P + 1
  <2>1. P + 1 \in Nat
    BY <1>1
  <2>2. QED
    BY <1>1, <2>1, Rows
<1> USE DEF WInv, W!TypeOK, W!input, W!Return
<1>3. CASE W!Call
    BY <1>1, <1>2, <1>3 DEF W!Call
<1>4. CASE W!Star
    BY <1>1, <1>2, <1>4 DEF W!Star
<1>5. CASE W!QuestionAtEnd
    BY <1>1, <1>2, <1>5 DEF W!QuestionAtEnd
<1>6. CASE W!Advance
    BY <1>1, <1>2, <1>6 DEF W!Advance, W!Fits
<1>7. CASE W!Backtrack
  <2>1. /\ UNCHANGED <<pattern, name, simple, star>> /\ result = "run" /\ steps' = steps + 1
        /\ \/ result' = "no" /\ UNCHANGED <<s, p, mark>>
           \/ star >= 0 /\ mark + 1 <= N /\ mark' = mark + 1 /\ s' = mark + 1 /\ p' = star + 1 /\ result' = "run"
    BY <1>1, <1>7 DEF W!Backtrack
  <2>2. CASE result' = "no" /\ UNCHANGED <<s, p, mark>>
    BY <1>1, <1>2, <2>1, <2>2
  <2>3. CASE star >= 0 /\ mark + 1 <= N /\ mark' = mark + 1 /\ s' = mark + 1 /\ p' = star + 1 /\ result' = "run"
    <3>1. mark' * (Len(pattern') + 1) = passed + P + 1 /\ Len(pattern') = P /\ Len(name') = N
        BY <1>2, <2>1, <2>3
    <3>2. steps' <= passed + P + 1 /\ p' \in 1..P
        BY <1>1, <1>2, <2>1, <2>3
    <3>. HIDE DEF passed
    <3>3. QED
        BY <1>1, <1>2, <2>1, <2>3, <3>1, <3>2
  <2>4. QED
    BY <2>1, <2>2, <2>3
<1>8. CASE W!LoopEnd
    BY <1>1, <1>2, <1>8 DEF W!LoopEnd
<1>9. CASE UNCHANGED W!vars
    BY <1>9 DEF W!vars
<1>10. QED
    BY <1>3, <1>4, <1>5, <1>6, <1>7, <1>8, <1>9 DEF W!Next, W!Iterate, W!Finished

\* For patterns and names of every length: Match and MatchSimple take at most
\* quadratic work, whatever the stars in the pattern.
THEOREM WorkBounded == ASSUME MaxPattern \in Nat, MaxName \in Nat PROVE W!Spec => []QuadraticWork
<1>1. WInv => QuadraticWork
  <2> SUFFICES ASSUME WInv PROVE W!QuadraticWork
    BY DEF QuadraticWork
  <2>1. Len(pattern) \in Nat /\ Len(name) \in Nat /\ mark \in Nat /\ mark <= Len(name)
    BY DEF WInv, W!TypeOK
  <2>2. mark * (Len(pattern) + 1) <= Len(name) * (Len(pattern) + 1)
    BY <2>1, Rows
  <2>3. (Len(name) + 2) * (Len(pattern) + 1) = Len(name) * (Len(pattern) + 1) + 2 * (Len(pattern) + 1)
    BY <2>1
  <2>4. QED
    BY <2>1, <2>2, <2>3 DEF WInv, W!TypeOK, W!QuadraticWork
<1>2. QED
    BY <1>1, WInit, WNext, PTL DEF W!Spec

-----------------------------------------------------------------------------
(* wildcard: the answer *)

\* The meaning that W is checked against is the one of GlobProofs.
LEMMA SameMeaning ==
    ASSUME NEW pat, NEW text
    PROVE  /\ W!Matches(pat, text) = Accepts(pat, text, {})
           /\ W!MatchesSimple(pat, text) = Accepts(pat, text, {"?"})
           /\ W!Begins(pat, text) = Accepts(pat, text, {pat[i] : i \in DOMAIN pat})
<1>1. \A lenient : W!From(pat, text, lenient) = From(pat, text, lenient)
    BY DEF W!From, From
<1>2. \A lenient : W!Accepts(pat, text, lenient) = Accepts(pat, text, lenient)
    BY <1>1 DEF W!Accepts, Accepts
<1>3. QED
    BY <1>2 DEF W!Matches, W!MatchesSimple, W!Begins

\* What MatchSimple, and not Match, accepts at the end of the name.
Lenient == IF simple THEN {"?"} ELSE {}

\* The places of the name from which the pattern after q symbols matches.
Places(q) == After(pattern, name, Lenient, q)

\* From some place after m, '?' of the segment after q is reached with the name
\* exhausted.
Falls(q, m) ==
    \E end \in q..Len(pattern) - 1 :
        /\ \A i \in q + 1..end + 1 : pattern[i] # "*"
        /\ end - q <= Len(name) - m
        /\ pattern[end + 1] = "?"
        /\ W!matchFixedSuffix(q, end)

\* The one backtracking point is enough: what the loop has not refuted is what
\* is left from here or from a later place for the last star.
OnePoint ==
    Accepts(pattern, name, Lenient) <=>
        \/ s \in Places(p)
        \/ star >= 0 /\ \E k \in mark + 1..Len(name) : k \in Places(star + 1)

\* The segment since the last star has been matched byte by byte.
Segment ==
    star >= 0 =>
        /\ s - mark = p - star - 1
        /\ pattern[star + 1] = "*"
        /\ \A i \in star + 2..p : pattern[i] # "*"
        /\ simple => ~Falls(star + 1, mark)

CInv ==
    /\ WInv
    /\ simple \in BOOLEAN
    /\ result = "run" => OnePoint /\ Segment
    /\ result \in {"yes", "no"} => (result = "yes" <=> Accepts(pattern, name, Lenient))

\* What is needed of the types.
LEMMA WTypes ==
    ASSUME WInv
    PROVE  /\ pattern \in Seq(Letters \cup {"*", "?"}) /\ name \in Seq(Letters)
           /\ Len(pattern) \in Nat /\ Len(name) \in Nat
           /\ s \in 0..Len(name) /\ p \in 0..Len(pattern)
           /\ star \in -1..Len(pattern) - 1 /\ mark \in 0..Len(name) /\ mark <= s /\ star < p
    BY DEF WInv, W!TypeOK

\* The places from which a pattern matches, by its next symbol.
LEMMA PlacesBy ==
    ASSUME WInv, NEW q \in 0..Len(pattern)
    PROVE  /\ Accepts(pattern, name, Lenient) <=> 0 \in Places(0)
           /\ Places(Len(pattern)) = {Len(name)}
           /\ Places(q) \subseteq 0..Len(name)
           /\ q < Len(pattern) /\ pattern[q + 1] = "*" =>
                 \A j \in 0..Len(name) : j \in Places(q) <=> \E k \in Places(q + 1) : j <= k
           /\ q < Len(pattern) /\ pattern[q + 1] # "*" =>
                 \A j \in 0..Len(name) : j \in Places(q) <=>
                     IF j = Len(name) THEN pattern[q + 1] \in Lenient
                     ELSE pattern[q + 1] \in {"?", name[j + 1]} /\ j + 1 \in Places(q + 1)
<1>1. pattern \in Seq(Letters \cup {"*", "?"}) /\ name \in Seq(Letters) /\ (q < Len(pattern) => q \in 0..Len(pattern) - 1)
    BY WTypes
<1>2. QED
    BY <1>1, AfterAll, AfterEnd, AfterWithin, AfterStar, AfterOther DEF Places

\* While the inputs stay, so does what they mean.
LEMMA SameInput ==
    ASSUME UNCHANGED <<pattern, name, simple>>
    PROVE  /\ Lenient' = Lenient /\ Accepts(pattern, name, Lenient)' = Accepts(pattern, name, Lenient)
           /\ Len(pattern') = Len(pattern) /\ Len(name') = Len(name)
           /\ \A q : Places(q)' = Places(q)
           /\ OnePoint' <=> (Accepts(pattern, name, Lenient) <=>
                  \/ s' \in Places(p')
                  \/ star' >= 0 /\ \E k \in mark' + 1..Len(name) : k \in Places(star' + 1))
           /\ Segment' <=> (star' >= 0 =>
                  /\ s' - mark' = p' - star' - 1
                  /\ pattern[star' + 1] = "*"
                  /\ \A i \in star' + 2..p' : pattern[i] # "*"
                  /\ simple => ~Falls(star' + 1, mark'))
    BY DEF Lenient, Places, OnePoint, Segment, Falls, W!matchFixedSuffix

\* A call that is answered at once is answered rightly; the loop starts with the
\* whole pattern and the whole name.
LEMMA CallRight == ASSUME CInv, W!Call PROVE CInv'
<1>1. WInv' /\ UNCHANGED <<pattern, name, simple, s, p, star, mark>> /\ result = "call"
    BY WNext DEF CInv, W!Call, W!Next, W!Iterate, W!input
<1>2. s = 0 /\ p = 0 /\ star = -1 /\ Lenient' = Lenient /\ Places(0)' = Places(0)
    BY <1>1 DEF CInv, WInv, Lenient, Places
<1>3. Accepts(pattern, name, Lenient) <=> 0 \in Places(0)
    BY PlacesBy DEF CInv
<1>4. CASE pattern = <<>>
  <2>1. Len(pattern) = 0 /\ Places(0) = {Len(name)} /\ (Len(name) = 0 <=> name = <<>>)
    BY <1>4, PlacesBy, WTypes DEF CInv
  <2>2. QED
    BY <1>1, <1>2, <1>3, <1>4, <2>1 DEF CInv, W!Call, W!Return
<1>5. CASE pattern = <<"*">>
  <2>1. Len(pattern) = 1 /\ pattern[1] = "*" /\ Len(name) \in Nat
    BY <1>5, WTypes DEF CInv
  <2>2. Places(1) = {Len(name)}
    BY <2>1, PlacesBy DEF CInv
  <2>3. 0 \in Places(0)
    BY <2>1, <2>2, PlacesBy DEF CInv
  <2>4. QED
    BY <1>1, <1>2, <1>3, <1>5, <2>3 DEF CInv, W!Call, W!Return
<1>6. CASE pattern # <<>> /\ pattern # <<"*">>
  <2>1. result' = "run"
    BY <1>6 DEF W!Call
  <2>2. OnePoint' /\ Segment'
    BY <1>1, <1>2, <1>3, SameInput
  <2>3. QED
    BY <1>1, <2>1, <2>2 DEF CInv
<1>7. QED
    BY <1>4, <1>5, <1>6

\* At a star every place for an earlier star is covered by it: the segment
\* between the two lies behind that place as well.
LEMMA StarCovers ==
    ASSUME CInv, result = "run", p < Len(pattern), pattern[p + 1] = "*"
    PROVE  Accepts(pattern, name, Lenient) <=> s \in Places(p)
<1> DEFINE N == Len(name)
           P == Len(pattern)
<1>1. /\ pattern \in Seq(Letters \cup {"*", "?"}) /\ name \in Seq(Letters)
      /\ P \in Nat /\ N \in Nat /\ s \in 0..N /\ p \in 0..P
      /\ star \in -1..P - 1 /\ mark \in 0..N /\ mark <= s /\ star < p
    BY WTypes DEF CInv
<1>2. SUFFICES ASSUME star >= 0, NEW k \in mark + 1..N, k \in Places(star + 1)
               PROVE  s \in Places(p)
    BY DEF CInv, OnePoint
<1>3. /\ star + 1 \in 0..P /\ p \in star + 1..P /\ s - mark = p - star - 1
      /\ (\A i \in star + 1 + 1..p : pattern[i] # "*") /\ (simple => ~Falls(star + 1, mark))
    BY <1>1, <1>2 DEF CInv, Segment
<1>4. \/ k + (p - (star + 1)) \in Places(p)
      \/ \E d \in 0..p - (star + 1) - 1 : /\ k + d = N /\ pattern[star + 1 + d + 1] \in Lenient
                                          /\ Fit(pattern, name, star + 1, k, d)
    BY <1>1, <1>2, <1>3, SegmentWalk DEF Places
<1>5. CASE k + (p - (star + 1)) \in Places(p)
  <2> DEFINE j == k + (p - (star + 1))
  <2>1. j \in 0..N /\ s <= j
    BY <1>1, <1>2, <1>3, <1>5, PlacesBy DEF CInv
  <2>2. PICK m \in Places(p + 1) : j <= m
    BY <1>1, <1>5, <2>1, PlacesBy DEF CInv
  <2>3. m \in 0..N
    BY <1>1, <2>2, PlacesBy DEF CInv
  <2>4. s <= m
    BY <1>1, <2>1, <2>2, <2>3
  <2>5. QED
    BY <1>1, <2>2, <2>4, PlacesBy DEF CInv
<1>6. ASSUME NEW d \in 0..p - (star + 1) - 1, k + d = N, pattern[star + 1 + d + 1] \in Lenient,
             Fit(pattern, name, star + 1, k, d)
      PROVE  FALSE
  <2> DEFINE q == star + 1
             end == q + d
  <2>1. simple /\ pattern[end + 1] = "?"
    BY <1>6 DEF Lenient
  <2>2. end \in q..P - 1 /\ end - q = d /\ d <= N - mark /\ q \in Nat /\ N - d = k
    BY <1>1, <1>2, <1>3, <1>6
  <2>3. \A i \in q + 1..end + 1 : pattern[i] # "*"
    BY <1>1, <1>3, <1>6
  <2>4. W!matchFixedSuffix(q, end)
    BY <1>6, <2>2 DEF W!matchFixedSuffix, Fit
  <2>5. Falls(q, mark)
    BY <2>1, <2>2, <2>3, <2>4 DEF Falls
  <2>6. QED
    BY <1>3, <2>1, <2>5
<1>7. QED
    BY <1>4, <1>5, <1>6

\* If the name can be exhausted before a '?' of the segment behind a star,
\* MatchSimple accepts.
LEMMA FallsAccepts ==
    ASSUME CInv, simple, p < Len(pattern), pattern[p + 1] = "*", Falls(p + 1, s)
    PROVE  s \in Places(p)
<1> DEFINE N == Len(name)
           P == Len(pattern)
           q == p + 1
<1>1. /\ pattern \in Seq(Letters \cup {"*", "?"}) /\ name \in Seq(Letters)
      /\ P \in Nat /\ N \in Nat /\ s \in 0..N /\ p \in 0..P /\ q \in 0..P
    BY WTypes DEF CInv
<1>2. PICK end \in q..P - 1 :
        /\ \A i \in q + 1..end + 1 : pattern[i] # "*"
        /\ end - q <= N - s
        /\ pattern[end + 1] = "?"
        /\ W!matchFixedSuffix(q, end)
    BY DEF Falls
<1> HIDE DEF q
<1>3. end \in 0..P /\ end < P /\ end \in q..P /\ (\A i \in q + 1..end : pattern[i] # "*") /\ pattern[end + 1] # "*"
    BY <1>1, <1>2
<1>4. N \in Places(end)
  <2>1. pattern[end + 1] \in Lenient /\ N \in 0..N
    BY <1>1, <1>2 DEF Lenient
  <2>2. QED
    BY <1>3, <2>1, PlacesBy DEF CInv
<1> DEFINE k == N - (end - q)
<1>5. k \in Nat /\ k + (end - q) = N /\ s <= k /\ k \in 0..N
    BY <1>1, <1>2
<1>6. Fit(pattern, name, q, k, end - q)
    BY <1>2 DEF W!matchFixedSuffix, Fit
<1> HIDE DEF k
<1>7. k \in Places(q)
    BY <1>1, <1>3, <1>4, <1>5, <1>6, WalkBack DEF Places
<1>8. QED
    BY <1>1, <1>5, <1>7, PlacesBy DEF CInv, q

\* A star: what is found is right, or the star becomes the backtracking point.
LEMMA StarRight == ASSUME CInv, W!Star PROVE CInv'
<1> DEFINE N == Len(name)
           P == Len(pattern)
<1>1. /\ WInv' /\ UNCHANGED <<pattern, name, simple, s>> /\ result = "run"
      /\ p < P /\ pattern[p + 1] = "*" /\ star' = p /\ mark' = s /\ p' = p + 1
      /\ IF p + 1 = P \/ (simple /\ W!FallsOffEnd(p + 1)) THEN result' = "yes" ELSE result' = result
    BY WNext DEF CInv, W!Star, W!Next, W!Iterate, W!input, W!Return
<1>2. P \in Nat /\ N \in Nat /\ s \in 0..N /\ p \in 0..P /\ p + 1 \in 0..P
    BY <1>1, WTypes DEF CInv
<1>3. Accepts(pattern, name, Lenient) <=> s \in Places(p)
    BY <1>1, StarCovers
<1>4. s \in Places(p) <=> \E k \in Places(p + 1) : s <= k
    BY <1>1, <1>2, PlacesBy DEF CInv
<1>5. W!FallsOffEnd(p + 1) <=> Falls(p + 1, s)
    BY DEF W!FallsOffEnd, Falls
<1>6. CASE p + 1 = P
  <2>1. Places(p + 1) = {N} /\ s <= N
    BY <1>2, <1>6, PlacesBy DEF CInv
  <2>2. Accepts(pattern, name, Lenient)
    BY <1>3, <1>4, <2>1
  <2>3. QED
    BY <1>1, <1>6, <2>2, SameInput DEF CInv
<1>7. CASE simple /\ W!FallsOffEnd(p + 1)
  <2>1. Accepts(pattern, name, Lenient)
    BY <1>1, <1>3, <1>5, <1>7, FallsAccepts
  <2>2. QED
    BY <1>1, <1>7, <2>1, SameInput DEF CInv
<1>8. CASE p + 1 # P /\ ~(simple /\ W!FallsOffEnd(p + 1))
  <2>1. result' = "run" /\ (simple => ~Falls(p + 1, s))
    BY <1>1, <1>5, <1>8
  <2>2. Places(p + 1) \subseteq 0..N
    BY <1>2, PlacesBy DEF CInv
  <2>3. (\E k \in Places(p + 1) : s <= k) <=> s \in Places(p + 1) \/ \E k \in s + 1..N : k \in Places(p + 1)
    BY <1>2, <2>2
  <2>4. OnePoint'
    BY <1>1, <1>2, <1>3, <1>4, <2>3, SameInput
  <2>5. Segment'
    BY <1>1, <1>2, <2>1, SameInput
  <2>6. QED
    BY <1>1, <2>1, <2>4, <2>5 DEF CInv
<1>9. QED
    BY <1>6, <1>7, <1>8

\* A '?' with the name exhausted accepts in MatchSimple.
LEMMA QuestionRight == ASSUME CInv, W!QuestionAtEnd PROVE CInv'
<1>1. /\ WInv' /\ UNCHANGED <<pattern, name, simple>> /\ result = "run" /\ result' = "yes"
      /\ simple /\ p < Len(pattern) /\ pattern[p + 1] = "?" /\ s = Len(name)
    BY WNext DEF CInv, W!QuestionAtEnd, W!Next, W!Iterate, W!input, W!Return
<1>2. p \in 0..Len(pattern) /\ Len(name) \in 0..Len(name)
    BY WTypes DEF CInv
<1>3. s \in Places(p)
    BY <1>1, <1>2, PlacesBy DEF CInv, Lenient
<1>4. Accepts(pattern, name, Lenient)
    BY <1>1, <1>3 DEF CInv, OnePoint
<1>5. QED
    BY <1>1, <1>4, SameInput DEF CInv

\* One byte that fits: the same is left.
LEMMA AdvanceRight == ASSUME CInv, W!Advance PROVE CInv'
<1>1. /\ WInv' /\ UNCHANGED <<pattern, name, simple, star, mark, result>> /\ result = "run"
      /\ s' = s + 1 /\ p' = p + 1 /\ p < Len(pattern) /\ s < Len(name)
      /\ pattern[p + 1] # "*" /\ pattern[p + 1] \in {"?", name[s + 1]}
    BY WNext DEF CInv, W!Advance, W!Fits, W!Next, W!Iterate, W!input
<1>2. p \in 0..Len(pattern) /\ s \in 0..Len(name) /\ Len(name) \in Nat /\ star \in Int /\ mark \in Nat
    BY WTypes DEF CInv
<1>3. s \in Places(p) <=> s + 1 \in Places(p + 1)
    BY <1>1, <1>2, PlacesBy DEF CInv
<1>4. OnePoint'
    BY <1>1, <1>3, SameInput DEF CInv, OnePoint
<1>5. Segment'
  <2>1. Segment
    BY <1>1 DEF CInv
  <2>2. \A i \in star + 2..p + 1 : i \in star + 2..p \/ i = p + 1
    BY <1>2
  <2>3. QED
    BY <1>1, <1>2, <2>1, <2>2, SameInput DEF Segment
<1>6. QED
    BY <1>1, <1>4, <1>5 DEF CInv

\* A byte that does not fit: the star takes one more, if it can.
LEMMA BacktrackRight == ASSUME CInv, W!Backtrack PROVE CInv'
<1> DEFINE N == Len(name)
           P == Len(pattern)
<1>1. /\ WInv' /\ UNCHANGED <<pattern, name, simple, star>> /\ result = "run"
      /\ s < N \/ p < P
      /\ ~W!Fits /\ (p < P => pattern[p + 1] # "*")
      /\ ~(simple /\ p < P /\ pattern[p + 1] = "?" /\ s = N)
      /\ IF star < 0 \/ mark + 1 > N THEN result' = "no" /\ UNCHANGED <<s, p, mark>>
         ELSE mark' = mark + 1 /\ s' = mark + 1 /\ p' = star + 1 /\ UNCHANGED result
    BY WNext DEF CInv, W!Backtrack, W!Next, W!Iterate, W!input, W!Return
<1>2. /\ P \in Nat /\ N \in Nat /\ s \in 0..N /\ p \in 0..P
      /\ star \in -1..P - 1 /\ mark \in 0..N
    BY WTypes DEF CInv
<1>3. s \notin Places(p)
  <2>1. CASE p = P
    BY <1>1, <1>2, <2>1, PlacesBy DEF CInv
  <2>2. CASE p < P /\ s = N
    <3>1. pattern[p + 1] \notin Lenient
        BY <1>1, <2>2 DEF Lenient
    <3>2. QED
        BY <1>1, <1>2, <2>2, <3>1, PlacesBy DEF CInv
  <2>3. CASE p < P /\ s < N
    <3>1. pattern[p + 1] \notin {"?", name[s + 1]}
        BY <1>1, <2>3 DEF W!Fits
    <3>2. QED
        BY <1>1, <1>2, <2>3, <3>1, PlacesBy DEF CInv
  <2>4. QED
    BY <1>2, <2>1, <2>2, <2>3
<1>4. Accepts(pattern, name, Lenient) <=> star >= 0 /\ \E k \in mark + 1..N : k \in Places(star + 1)
    BY <1>1, <1>3 DEF CInv, OnePoint
<1>5. CASE star < 0 \/ mark + 1 > N
  <2>1. ~Accepts(pattern, name, Lenient)
    BY <1>2, <1>4, <1>5
  <2>2. QED
    BY <1>1, <1>5, <2>1, SameInput DEF CInv
<1>6. CASE ~(star < 0 \/ mark + 1 > N)
  <2>1. star >= 0 /\ mark' = mark + 1 /\ s' = mark + 1 /\ p' = star + 1 /\ result' = "run"
    BY <1>1, <1>2, <1>6
  <2>2. (\E k \in mark + 1..N : k \in Places(star + 1))
           <=> mark + 1 \in Places(star + 1) \/ \E k \in mark + 1 + 1..N : k \in Places(star + 1)
    <3>1. \A k \in mark + 1..N : k = mark + 1 \/ k \in mark + 1 + 1..N
        BY <1>2
    <3>2. mark + 1 \in mark + 1..N /\ \A k \in mark + 1 + 1..N : k \in mark + 1..N
        BY <1>2, <1>6
    <3>3. QED
        BY <3>1, <3>2
  <2>3. OnePoint'
    BY <1>1, <1>4, <2>1, <2>2, SameInput
  <2>4. Segment'
    <3>1. pattern[star + 1] = "*" /\ (simple => ~Falls(star + 1, mark))
        BY <1>1, <2>1 DEF CInv, Segment
    <3>2. Falls(star + 1, mark + 1) => Falls(star + 1, mark)
        BY <1>2 DEF Falls
    <3>3. star' + 2 > p' /\ s' - mark' = 0 /\ p' - star' - 1 = 0 /\ star' = star /\ mark' = mark + 1
        BY <1>1, <1>2, <2>1
    <3>4. \A i \in star' + 2..p' : FALSE
        BY <1>1, <1>2, <2>1
    <3>5. QED
        BY <3>1, <3>2, <3>3, <3>4, <1>1, SameInput
  <2>5. QED
    BY <1>1, <2>1, <2>3, <2>4 DEF CInv
<1>7. QED
    BY <1>5, <1>6

\* Both used up: accepted.
LEMMA EndRight == ASSUME CInv, W!LoopEnd PROVE CInv'
<1>1. /\ WInv' /\ UNCHANGED <<pattern, name, simple>> /\ result = "run" /\ result' = "yes"
      /\ s = Len(name) /\ p = Len(pattern)
    BY WNext DEF CInv, W!LoopEnd, W!Next, W!Iterate, W!input, W!Return
<1>2. s \in Places(p)
  <2>1. Len(pattern) \in 0..Len(pattern)
    BY WTypes DEF CInv
  <2>2. QED
    BY <1>1, <2>1, PlacesBy DEF CInv
<1>3. QED
    BY <1>1, <1>2, SameInput DEF CInv, OnePoint
\* The loop keeps the invariant.
LEMMA CNext == CInv /\ [W!Next]_(W!vars) => CInv'
<1> SUFFICES ASSUME CInv, [W!Next]_(W!vars) PROVE CInv'
    OBVIOUS
<1>1. CASE UNCHANGED W!vars
  <2>1. WInv' /\ UNCHANGED <<pattern, name, simple, s, p, star, mark, result>>
    BY <1>1, WNext DEF CInv, W!vars, W!input
  <2>2. (OnePoint' <=> OnePoint) /\ (Segment' <=> Segment)
    BY <2>1, SameInput DEF OnePoint, Segment
  <2>3. QED
    BY <2>1, <2>2, SameInput DEF CInv
<1>2. QED
    BY <1>1, CallRight, StarRight, QuestionRight, AdvanceRight, BacktrackRight, EndRight
       DEF W!Next, W!Iterate, W!Finished

\* MatchAsPatternPrefix accepts what some name matched by the pattern begins with.
LEMMA PrefixRight ==
    ASSUME NEW A, NEW pat \in Seq(A), NEW B, NEW text \in Seq(B)
    PROVE  W!MatchAsPatternPrefix(pat, text) <=> W!Begins(pat, text)
<1> DEFINE P == Len(pat)
           N == Len(text)
           lenient == {pat[i] : i \in DOMAIN pat}
           stop == {i \in 1..P : i <= N /\ (pat[i] = "*" \/ pat[i] \notin {"?", text[i]})}
<1>1. P \in Nat /\ N \in Nat /\ N \in 0..N /\ \A i \in 1..P : pat[i] \in lenient
    OBVIOUS
<1>2. W!Begins(pat, text) <=> 0 \in After(pat, text, lenient, 0)
    BY SameMeaning, AfterAll
<1>3. \A q \in 0..P : N \in After(pat, text, lenient, q)
    BY <1>1, EndAccepted
<1> HIDE DEF lenient
<1>4. ASSUME NEW d \in 0..P, d <= N, \A i \in 1..d : i \notin stop
      PROVE  0 \in After(pat, text, lenient, 0) <=> d \in After(pat, text, lenient, d)
  <2>1. /\ 0 \in 0..P /\ d \in 0..P /\ d - 0 = d /\ 0 + (d - 0) = d
        /\ \A i \in 0 + 1..d : i \in 1..P /\ pat[i] # "*" /\ pat[i] \in {"?", text[i]}
    BY <1>1, <1>4
  <2>2. Fit(pat, text, 0, 0, d)
    BY <2>1 DEF Fit
  <2>3. ASSUME 0 \in After(pat, text, lenient, 0) PROVE d \in After(pat, text, lenient, d)
    <3>1. \/ 0 + (d - 0) \in After(pat, text, lenient, d)
          \/ \E e \in 0..d - 0 - 1 : 0 + e = N /\ pat[0 + e + 1] \in lenient /\ Fit(pat, text, 0, 0, e)
        BY <2>1, <2>3, SegmentWalk
    <3>2. QED
        BY <1>1, <1>4, <2>1, <3>1
  <2>4. ASSUME d \in After(pat, text, lenient, d) PROVE 0 \in After(pat, text, lenient, 0)
    BY <2>1, <2>2, <2>4, WalkBack
  <2>5. QED
    BY <2>3, <2>4
<1>5. CASE stop = {}
  <2>1. W!MatchAsPatternPrefix(pat, text) <=> N <= P
    BY <1>5 DEF W!MatchAsPatternPrefix
  <2>2. CASE N <= P
    <3>1. N \in 0..P /\ N <= N /\ \A i \in 1..N : i \notin stop
        BY <1>1, <1>5, <2>2
    <3>2. QED
        BY <1>2, <1>3, <1>4, <2>1, <2>2, <3>1
  <2>3. CASE ~(N <= P)
    <3>1. P \in 0..P /\ P <= N /\ P # N /\ \A i \in 1..P : i \notin stop
        BY <1>1, <1>5, <2>3
    <3>2. After(pat, text, lenient, P) = {N}
        BY AfterEnd
    <3>3. QED
        BY <1>2, <1>4, <2>1, <2>3, <3>1, <3>2
  <2>4. QED
    BY <2>2, <2>3
<1>6. CASE stop # {}
  <2>1. PICK m \in stop : \A i \in stop : m <= i
    <3>1. stop \subseteq Nat
        BY <1>1
    <3> HIDE DEF stop
    <3>2. QED
        BY <1>6, <3>1, LeastNat
  <2>2. W!Min(stop) = m
    <3>1. \A x \in stop : (\A y \in stop : x <= y) => x = m
        BY <2>1
    <3>2. QED
        BY <2>1, <3>1 DEF W!Min
  <2>3. W!MatchAsPatternPrefix(pat, text) <=> pat[m] = "*"
    BY <1>6, <2>2 DEF W!MatchAsPatternPrefix
  <2> DEFINE d == m - 1
  <2>4. /\ d \in 0..P - 1 /\ d \in 0..P /\ d <= N /\ d # N /\ d \in 0..N /\ d + 1 = m /\ m \in 0..P
        /\ \A i \in 1..d : i \notin stop
    BY <1>1, <2>1
  <2>5. pat[m] = "*" \/ pat[m] \notin {"?", text[m]}
    BY <2>1
  <2> HIDE DEF d, stop
  <2>6. 0 \in After(pat, text, lenient, 0) <=> d \in After(pat, text, lenient, d)
    BY <1>4, <2>4
  <2>7. CASE pat[m] = "*"
    <3>1. N \in After(pat, text, lenient, d + 1)
        BY <1>3, <2>4
    <3>2. d \in After(pat, text, lenient, d)
        BY <2>4, <2>7, <3>1, AfterStar
    <3>3. QED
        BY <1>2, <2>3, <2>6, <2>7, <3>2
  <2>8. CASE pat[m] # "*"
    <3>1. d \notin After(pat, text, lenient, d)
        BY <2>4, <2>5, <2>8, AfterOther
    <3>2. QED
        BY <1>2, <2>3, <2>6, <2>8, <3>1
  <2>9. QED
    BY <2>7, <2>8
<1>7. QED
    BY <1>5, <1>6

\* For patterns and names of every length: Match, MatchSimple and
\* MatchAsPatternPrefix answer what the definition by all alternatives says.
THEOREM MatchRight == ASSUME MaxPattern \in Nat, MaxName \in Nat PROVE W!Spec => []Correct
<1>1. ASSUME W!Init PROVE CInv
    BY <1>1, WInit DEF W!Init, CInv
<1>2. ASSUME CInv PROVE Correct
  <2>1. W!MatchAsPatternPrefix(pattern, name) <=> W!Begins(pattern, name)
    BY <1>2, WTypes, PrefixRight DEF CInv
  <2>2. Accepts(pattern, name, Lenient) <=> IF simple THEN W!MatchesSimple(pattern, name) ELSE W!Matches(pattern, name)
    BY <1>2, SameMeaning DEF CInv, Lenient
  <2>3. QED
    BY <1>2, <2>1, <2>2 DEF CInv, Correct, W!Correct
<1>3. QED
    BY <1>1, <1>2, CNext, PTL DEF W!Spec

-----------------------------------------------------------------------------
(* ellipses: which arguments are refused *)

\* The symbols of patterns.
Opens == "{"
Shuts == "}"
Comma == ","
Dots  == "..."

\* They are no letters, and they differ.
LEMMA NotAlnum ==
    /\ Opens \notin E!Alnum /\ Shuts \notin E!Alnum /\ Comma \notin E!Alnum /\ Dots \notin E!Alnum
    /\ Opens # Shuts /\ Opens # Comma /\ Opens # Dots /\ Shuts # Comma /\ Shuts # Dots
<1>1. DOMAIN E!Symbols = 1..16
    BY DEF E!Symbols
<1>2. \A i \in 1..16 : E!Symbols[i] \in {"0", "1", "2", "3", "4", "5", "6", "7", "8", "9", "a", "b", "c", "d", "e", "f"}
  <2> TAKE i \in 1..16
  <2>1. i \in {1, 2, 3, 4, 5, 6, 7, 8, 9, 10, 11, 12, 13, 14, 15, 16}
    OBVIOUS
  <2>2. QED
    BY <2>1 DEF E!Symbols
<1>3. \A x \in E!Alnum : x \in {"0", "1", "2", "3", "4", "5", "6", "7", "8", "9", "a", "b", "c", "d", "e", "f", "z"}
    BY <1>1, <1>2 DEF E!Alnum, E!Hex, E!ToSet
<1>4. \A x \in {Opens, Shuts, Comma, Dots} :
        x \notin {"0", "1", "2", "3", "4", "5", "6", "7", "8", "9", "a", "b", "c", "d", "e", "f", "z"}
    BY Zenon DEF Opens, Shuts, Comma, Dots
<1>5. Opens # Shuts /\ Opens # Comma /\ Opens # Dots /\ Shuts # Comma /\ Shuts # Dots
    BY Zenon DEF Opens, Shuts, Comma, Dots
<1>6. QED
    BY <1>3, <1>4, <1>5, Zenon

\* A run of symbols of a set ends before the first other symbol.
LEMMA SpanIs ==
    ASSUME NEW A, NEW text \in Seq(A), NEW i \in Nat, i >= 1, NEW set
    PROVE  LET last == E!Span(text, i, set)
           IN  /\ last \in Nat
               /\ i <= Len(text) + 1 => last \in i..Len(text) + 1
               /\ \A j \in i..last - 1 : text[j] \in set
               /\ last <= Len(text) => last >= i /\ text[last] \notin set
<1> DEFINE stops == {j \in i..Len(text) : text[j] \notin set}
           last  == E!Span(text, i, set)
<1>1. Len(text) \in Nat /\ last = IF stops = {} THEN Len(text) + 1 ELSE E!Min(stops)
    BY DEF E!Span
<1>2. CASE stops = {}
    BY <1>1, <1>2
<1>3. CASE stops # {}
  <2>1. PICK m \in stops : \A k \in stops : m <= k
    <3>1. stops \subseteq Nat
        BY <1>1
    <3> HIDE DEF stops
    <3>2. QED
        BY <1>3, <3>1, LeastNat
  <2>2. E!Min(stops) = m
    <3>1. \A x \in stops : (\A y \in stops : x <= y) => x = m
        BY <1>1, <2>1
    <3>2. QED
        BY <2>1, <3>1 DEF E!Min
  <2>3. last = m /\ m \in i..Len(text) /\ text[m] \notin set
    BY <1>1, <1>3, <2>1, <2>2
  <2>4. \A j \in i..m - 1 : text[j] \in set
    BY <1>1, <2>1, <2>3
  <2> HIDE DEF last
  <2>5. m \in Nat /\ m \in i..Len(text) + 1 /\ m >= i
    BY <1>1, <2>3
  <2>6. /\ last \in Nat /\ last \in i..Len(text) + 1 /\ last >= i /\ text[last] \notin set
        /\ \A j \in i..last - 1 : text[j] \in set
    BY <2>3, <2>4, <2>5, Zenon
  <2>7. QED
    BY <2>6, Zenon DEF last
<1>4. QED
    BY <1>2, <1>3

\* Where the pattern that begins at i ends, and what a pattern stands for, in a
\* text of the given kind.
End(list, text, i) ==
    IF text[i] # Opens THEN 0 ELSE IF list THEN E!ListEnd(text, i) ELSE E!EllipsesEnd(text, i)
Begin(list, text) == {i \in DOMAIN text : End(list, text, i) # 0}

\* The part of the text from i up to e, without e, is a pattern.
IsPattern(list, text, i, e) ==
    /\ text[i] = Opens /\ text[e - 1] = Shuts
    /\ IF list
       THEN /\ e >= i + 4
            /\ text[i + 1] \in E!Alnum
            /\ \A j \in i + 1..e - 2 : text[j] \in E!Alnum \cup {Comma}
       ELSE \E dots \in i + 1..e - 2 :
               /\ text[dots] = Dots
               /\ \A j \in i + 1..e - 2 : j # dots => text[j] \in E!Alnum

\* The expressions, in these terms.
LEMMA EndsBy ==
    ASSUME NEW list, NEW text, NEW i
    PROVE  /\ text[i] # Opens => End(list, text, i) = 0
           /\ text[i] = Opens /\ list =>
                End(list, text, i) =
                  LET last == E!Span(text, i + 1, E!Alnum \cup {Comma})
                  IN  IF E!Symbol(text, i + 1) \in E!Alnum /\ last >= i + 3 /\ E!Symbol(text, last) = Shuts THEN last + 1 ELSE 0
           /\ text[i] = Opens /\ ~list =>
                End(list, text, i) =
                  LET dots == E!Span(text, i + 1, E!Alnum)
                      last == E!Span(text, dots + 1, E!Alnum)
                  IN  IF E!Symbol(text, dots) = Dots /\ E!Symbol(text, last) = Shuts THEN last + 1 ELSE 0
    BY Zenon DEF End, E!ListEnd, E!EllipsesEnd, Opens, Shuts, Comma, Dots

\* Outside of the text there is no symbol of a pattern.
LEMMA Other ==
    ASSUME NEW text, NEW k, E!Symbol(text, k) \in {Shuts, Dots}
    PROVE  k \in DOMAIN text /\ text[k] = E!Symbol(text, k)
    BY Zenon DEF E!Symbol, Shuts, Dots

\* The expressions find the patterns and no others.
LEMMA EndIs ==
    ASSUME NEW list \in BOOLEAN, NEW A, NEW text \in Seq(A), NEW i \in 1..Len(text)
    PROVE  LET e == End(list, text, i)
           IN  /\ e # 0 => e \in i + 3..Len(text) + 1 /\ IsPattern(list, text, i, e)
               /\ \A x \in i + 3..Len(text) + 1 : IsPattern(list, text, i, x) => e = x
<1> DEFINE e == End(list, text, i)
<1>1. Len(text) \in Nat /\ i \in Nat /\ i + 1 \in Nat /\ DOMAIN text = 1..Len(text) /\ i + 1 <= Len(text) + 1
    OBVIOUS
<1>2. \A k : E!Symbol(text, k) \in {Shuts, Dots} => k \in 1..Len(text) /\ text[k] = E!Symbol(text, k)
    BY <1>1, Other
<1>3. \A k \in 1..Len(text) : E!Symbol(text, k) = text[k]
    BY <1>1 DEF E!Symbol
<1>4. CASE text[i] # Opens
    BY <1>4, EndsBy DEF IsPattern
<1>5. CASE text[i] = Opens /\ list
  <2> DEFINE last == E!Span(text, i + 1, E!Alnum \cup {Comma})
  <2>1. /\ last \in i + 1..Len(text) + 1
        /\ \A j \in i + 1..last - 1 : text[j] \in E!Alnum \cup {Comma}
        /\ last <= Len(text) => text[last] \notin E!Alnum \cup {Comma}
    BY <1>1, SpanIs
  <2>2. e = IF E!Symbol(text, i + 1) \in E!Alnum /\ last >= i + 3 /\ E!Symbol(text, last) = Shuts THEN last + 1 ELSE 0
    BY <1>5, EndsBy
  <2> HIDE DEF last, e
  <2>3. ASSUME e # 0 PROVE e \in i + 3..Len(text) + 1 /\ IsPattern(list, text, i, e)
    <3>1. e = last + 1 /\ last >= i + 3 /\ last \in 1..Len(text) /\ text[last] = Shuts /\ E!Symbol(text, i + 1) \in E!Alnum
        BY <1>2, <2>1, <2>2, <2>3
    <3>2. text[i + 1] \in E!Alnum /\ e - 1 = last /\ e - 2 = last - 1
        BY <1>1, <1>3, <3>1
    <3>3. QED
        BY <1>1, <1>5, <2>1, <3>1, <3>2 DEF IsPattern
  <2>4. ASSUME NEW x \in i + 3..Len(text) + 1, IsPattern(list, text, i, x) PROVE e = x
    <3>1. /\ x >= i + 4 /\ text[x - 1] = Shuts /\ text[i + 1] \in E!Alnum
          /\ \A j \in i + 1..x - 2 : text[j] \in E!Alnum \cup {Comma}
        BY <1>5, <2>4 DEF IsPattern
    <3>2. Shuts \notin E!Alnum \cup {Comma}
        BY NotAlnum
    <3>3. x - 1 \in 1..Len(text) /\ x - 1 >= i + 1
        BY <1>1, <3>1
    <3>4. ~(x - 1 < last)
        BY <1>1, <2>1, <3>1, <3>2, <3>3
    <3>5. ~(last < x - 1)
        BY <1>1, <2>1, <3>1, <3>3
    <3>6. last = x - 1
        BY <1>1, <2>1, <3>3, <3>4, <3>5
    <3>7. E!Symbol(text, i + 1) \in E!Alnum /\ E!Symbol(text, last) = Shuts /\ last >= i + 3
        BY <1>1, <1>3, <3>1, <3>3, <3>6
    <3>8. QED
        BY <1>1, <2>2, <3>6, <3>7
  <2>5. QED
    BY <2>3, <2>4 DEF e
<1>6. CASE text[i] = Opens /\ ~list
  <2> DEFINE dots == E!Span(text, i + 1, E!Alnum)
             last == E!Span(text, dots + 1, E!Alnum)
  <2>1. /\ dots \in i + 1..Len(text) + 1
        /\ \A j \in i + 1..dots - 1 : text[j] \in E!Alnum
        /\ dots <= Len(text) => text[dots] \notin E!Alnum
    BY <1>1, SpanIs
  <2>2. dots + 1 \in Nat /\ dots + 1 >= 1
    BY <1>1, <2>1
  <2>3. /\ last \in Nat
        /\ dots <= Len(text) => last \in dots + 1..Len(text) + 1
        /\ \A j \in dots + 1..last - 1 : text[j] \in E!Alnum
        /\ last <= Len(text) => last >= dots + 1 /\ text[last] \notin E!Alnum
    <3> HIDE DEF dots
    <3>1. dots <= Len(text) => dots + 1 <= Len(text) + 1
        BY <1>1, <2>1
    <3>2. QED
        BY <2>2, <3>1, SpanIs
  <2>4. e = IF E!Symbol(text, dots) = Dots /\ E!Symbol(text, last) = Shuts THEN last + 1 ELSE 0
    BY <1>6, EndsBy
  <2> HIDE DEF last, dots, e
  <2>5. ASSUME e # 0 PROVE e \in i + 3..Len(text) + 1 /\ IsPattern(list, text, i, e)
    <3>1. e = last + 1 /\ last \in 1..Len(text) /\ text[last] = Shuts /\ dots \in 1..Len(text) /\ text[dots] = Dots
        BY <1>2, <2>4, <2>5
    <3>2. last >= dots + 1 /\ e \in i + 3..Len(text) + 1 /\ e - 1 = last /\ e - 2 = last - 1 /\ dots \in i + 1..e - 2
        BY <1>1, <2>1, <2>3, <3>1
    <3>3. \A j \in i + 1..e - 2 : j # dots => j \in i + 1..dots - 1 \/ j \in dots + 1..last - 1
        BY <1>1, <2>1, <2>3, <3>1, <3>2
    <3>4. QED
        BY <1>6, <2>1, <2>3, <3>1, <3>2, <3>3 DEF IsPattern
  <2>6. ASSUME NEW x \in i + 3..Len(text) + 1, IsPattern(list, text, i, x) PROVE e = x
    <3>1. text[x - 1] = Shuts /\ x - 1 \in i + 2..Len(text)
        BY <1>1, <2>6 DEF IsPattern
    <3>2. PICK d \in i + 1..x - 2 : /\ text[d] = Dots
                                    /\ \A j \in i + 1..x - 2 : j # d => text[j] \in E!Alnum
        BY <1>6, <2>6 DEF IsPattern
    <3>3. Shuts \notin E!Alnum /\ Dots \notin E!Alnum
        BY NotAlnum
    <3>4. d \in 1..Len(text) /\ d >= i + 1 /\ d <= x - 2
        BY <1>1, <3>1, <3>2
    <3>5. ~(d < dots) /\ ~(dots < d)
        BY <1>1, <2>1, <3>2, <3>3, <3>4
    <3>6. dots = d
        BY <1>1, <2>1, <3>4, <3>5
    <3>7. last \in d + 1..Len(text) + 1
        BY <1>1, <2>3, <3>4, <3>6
    <3>8. ~(x - 1 < last)
        BY <1>1, <2>3, <3>1, <3>3, <3>4, <3>6
    <3>9. ~(last < x - 1)
        BY <1>1, <2>3, <3>1, <3>2, <3>4, <3>6, <3>7
    <3>10. last = x - 1
        BY <1>1, <3>1, <3>7, <3>8, <3>9
    <3>11. E!Symbol(text, dots) = Dots /\ E!Symbol(text, last) = Shuts
        BY <1>1, <1>3, <3>1, <3>2, <3>4, <3>6, <3>10
    <3>12. QED
        BY <1>1, <2>4, <3>1, <3>10, <3>11
  <2>7. QED
    BY <2>5, <2>6 DEF e
<1>7. QED
    BY <1>4, <1>5, <1>6

\* Patterns do not overlap.
LEMMA Apart ==
    ASSUME NEW list \in BOOLEAN, NEW A, NEW text \in Seq(A), NEW i \in Begin(list, text), NEW k \in Begin(list, text), i < k
    PROVE  End(list, text, i) <= k
<1> DEFINE e == End(list, text, i)
<1>1. Len(text) \in Nat /\ i \in 1..Len(text) /\ k \in 1..Len(text) /\ e # 0 /\ End(list, text, k) # 0
    BY DEF Begin
<1>2. e \in i + 3..Len(text) + 1 /\ IsPattern(list, text, i, e) /\ text[k] = Opens
    BY <1>1, EndIs, EndsBy
<1> HIDE DEF e
<1>3. SUFFICES ASSUME k < e PROVE FALSE
    BY <1>1, <1>2 DEF e
<1>4. k \in i + 1..e - 2 \/ k = e - 1
    BY <1>1, <1>2, <1>3
<1>5. \A j \in i + 1..e - 2 : text[j] \in E!Alnum \cup {Comma, Dots}
    BY <1>1, <1>2 DEF IsPattern
<1>6. text[e - 1] = Shuts
    BY <1>2 DEF IsPattern
<1>7. QED
    BY <1>2, <1>4, <1>5, <1>6, NotAlnum

\* What is left of a text when its end is cut off.
IsStart(start, text) == Len(start) <= Len(text) /\ \A j \in 1..Len(start) : start[j] = text[j]

\* A pattern depends on nothing behind it.
LEMMA StartEnds ==
    ASSUME NEW list \in BOOLEAN, NEW A, NEW text \in Seq(A), NEW start \in Seq(A), IsStart(start, text),
           NEW i \in 1..Len(start)
    PROVE  /\ End(list, start, i) # 0 => End(list, text, i) = End(list, start, i)
           /\ End(list, text, i) # 0 /\ End(list, text, i) - 1 <= Len(start) => End(list, start, i) = End(list, text, i)
<1>1. Len(text) \in Nat /\ Len(start) \in Nat /\ Len(start) <= Len(text) /\ i \in 1..Len(text)
    BY DEF IsStart
<1>2. ASSUME NEW e \in i + 3..Len(start) + 1
      PROVE  IsPattern(list, start, i, e) <=> IsPattern(list, text, i, e)
  <2>1. i \in 1..Len(start) /\ i + 1 \in 1..Len(start) /\ e - 1 \in 1..Len(start) /\ i + 1..e - 2 \subseteq 1..Len(start)
    BY <1>1
  <2>2. /\ start[i] = text[i] /\ start[e - 1] = text[e - 1] /\ start[i + 1] = text[i + 1]
        /\ \A j \in i + 1..e - 2 : start[j] = text[j]
    BY <2>1, Zenon DEF IsStart
  <2>3. QED
    BY <2>2 DEF IsPattern
<1>3. ASSUME End(list, start, i) # 0 PROVE End(list, text, i) = End(list, start, i)
  <2> DEFINE e == End(list, start, i)
  <2>1. e \in i + 3..Len(start) + 1 /\ IsPattern(list, start, i, e)
    BY <1>3, EndIs
  <2> HIDE DEF e
  <2>2. e \in i + 3..Len(text) + 1 /\ IsPattern(list, text, i, e)
    BY <1>1, <1>2, <2>1
  <2>3. End(list, text, i) = e
    BY <1>1, <2>2, EndIs
  <2>4. QED
    BY <2>3 DEF e
<1>4. ASSUME End(list, text, i) # 0, End(list, text, i) - 1 <= Len(start) PROVE End(list, start, i) = End(list, text, i)
  <2> DEFINE e == End(list, text, i)
  <2>1. e \in i + 3..Len(text) + 1 /\ IsPattern(list, text, i, e) /\ e - 1 <= Len(start)
    BY <1>1, <1>4, EndIs
  <2> HIDE DEF e
  <2>2. e \in i + 3..Len(start) + 1
    BY <1>1, <2>1
  <2>3. IsPattern(list, start, i, e)
    BY <1>2, <2>1, <2>2
  <2>4. End(list, start, i) = e
    BY <2>2, <2>3, EndIs
  <2>5. QED
    BY <2>4 DEF e
<1>5. QED
    BY <1>3, <1>4

\* The last of some places.
LEMMA LastPlace ==
    ASSUME NEW n \in Nat, NEW S, S \subseteq 1..n, S # {}
    PROVE  E!Max(S) \in S /\ \A k \in S : k <= E!Max(S)
<1> DEFINE T == {n - k : k \in S}
<1>1. T \subseteq Nat /\ T # {}
    OBVIOUS
<1>2. PICK d \in T : \A c \in T : d <= c
    BY <1>1, LeastNat
<1>3. PICK m \in S : d = n - m
    BY <1>2
<1>4. \A k \in S : k <= m
  <2> TAKE k \in S
  <2>1. n - m <= n - k
    BY <1>2, <1>3
  <2>2. QED
    BY <2>1
<1>5. \E x \in S : \A y \in S : x >= y
    BY <1>4
<1>6. QED
    BY <1>5 DEF E!Max
\* What a pattern stands for, and the text between the braces of one.
Reading(list, inner) ==
    IF list THEN E!parseListRange(E!Split(inner, Comma))
    ELSE LET ends == E!Split(inner, Dots)
         IN IF E!Reads(ends[1], E!Hex) /\ E!Reads(ends[2], E!Hex) THEN E!parseEllipsesRange(ends[1], ends[2]) ELSE <<>>
Between(a, i) == SubSeq(a.text, i + 1, End(a.list, a.text, i) - 2)

\* A brace that is in no pattern.
Loose(a, j) ==
    /\ j \in DOMAIN a.text /\ a.text[j] \in {Opens, Shuts}
    /\ \A i \in Begin(a.list, a.text) : j \notin i..End(a.list, a.text, i) - 1

NoReading(a) ==
    \/ Begin(a.list, a.text) = {}
    \/ \E i \in Begin(a.list, a.text) : Reading(a.list, Between(a, i)) = <<>>
    \/ \E j : Loose(a, j)

Braced(text) == \E i \in DOMAIN text : text[i] \in {Opens, Shuts}

\* The module's definitions, in these terms.
LEMMA InTheseTerms ==
    /\ \A text, i : E!PatternEnd(text, i) = End(arg.list, text, i)
    /\ \A text : E!Starts(text) = Begin(arg.list, text)
    /\ \A inner : E!Parse(inner) = Reading(arg.list, inner)
    /\ \A text : E!Braces(text) <=> Braced(text)
    /\ E!Refused <=> NoReading(arg)
<1>1. \A text, i : E!PatternEnd(text, i) = End(arg.list, text, i)
    BY Zenon DEF E!PatternEnd, End, Opens
<1>2. \A text : E!Starts(text) = Begin(arg.list, text)
    BY <1>1, Zenon DEF E!Starts, Begin
<1>3. \A inner : E!Parse(inner) = Reading(arg.list, inner)
    BY Zenon DEF E!Parse, Reading, Comma, Dots
<1>4. \A text : E!Braces(text) <=> Braced(text)
    BY Zenon DEF E!Braces, Braced, Opens, Shuts
<1>5. \A i : E!Inner(i) = Between(arg, i)
    BY <1>1, Zenon DEF E!Inner, Between
<1>6. (\E j \in DOMAIN arg.text : /\ arg.text[j] \in {Opens, Shuts}
                                  /\ \A i \in Begin(arg.list, arg.text) : j \notin i..End(arg.list, arg.text, i) - 1)
        <=> \E j : Loose(arg, j)
    BY Zenon DEF Loose
<1>7. E!Refused <=> \/ Begin(arg.list, arg.text) = {}
                    \/ \E i \in Begin(arg.list, arg.text) : Reading(arg.list, Between(arg, i)) = <<>>
                    \/ \E j \in DOMAIN arg.text :
                          /\ arg.text[j] \in {Opens, Shuts}
                          /\ \A i \in Begin(arg.list, arg.text) : j \notin i..End(arg.list, arg.text, i) - 1
    BY <1>1, <1>2, <1>3, <1>5, Zenon DEF E!Refused, Opens, Shuts
<1>8. QED
    BY <1>1, <1>2, <1>3, <1>4, <1>6, <1>7, Zenon DEF NoReading

\* What has been found when the argument is done from its end to a place: that
\* place cuts no pattern, the patterns after it can be read, and the texts
\* between them have its loose braces.
Behind(a, start, found) ==
    LET n == Len(start)
    IN  /\ start \in Seq(STRING) /\ IsStart(start, a.text)
        /\ \A i \in Begin(a.list, a.text) : i <= n => End(a.list, a.text, i) - 1 <= n
        /\ \A i \in Begin(a.list, a.text) : i > n => Reading(a.list, Between(a, i)) # <<>>
        /\ (\E k \in DOMAIN found : Braced(found[k].suffix)) <=> \E j : j > n /\ Loose(a, j)

\* While patterns are looked for, there is one before those that were found.
Looking(a, start, found) ==
    /\ found = <<>> => start = a.text
    /\ found # <<>> => Begin(a.list, start) # {}
    /\ \A k \in DOMAIN found : ~Braced(found[k].prefix)

\* In the end the text before the first pattern is its prefix.
AllFound(a, start, found) ==
    /\ Begin(a.list, a.text) # {} /\ Begin(a.list, start) = {}
    /\ (\E k \in DOMAIN found : Braced(found[k].prefix)) <=> \E j : j <= Len(start) /\ Loose(a, j)

EInv ==
    /\ arg.list \in BOOLEAN /\ arg.text \in Seq(STRING)
    /\ \E S : patterns \in Seq(S)
    /\ epc \in {"find", "check", "expand", "done", "error"}
    /\ epc \in {"find", "check"} => Behind(arg, rest, patterns)
    /\ epc = "find" => Looking(arg, rest, patterns)
    /\ epc = "check" => AllFound(arg, rest, patterns)
    /\ epc \in {"expand", "done"} => ~NoReading(arg)
    /\ epc = "error" => NoReading(arg)

\* Nothing has been found before the search begins.
LEMMA EInit == ASSUME \A a \in Args : a.list \in BOOLEAN /\ a.text \in Seq(STRING), E!Init PROVE EInv
<1>1. /\ arg.list \in BOOLEAN /\ arg.text \in Seq(STRING) /\ rest = arg.text /\ patterns = <<>> /\ epc = "find"
      /\ patterns \in Seq({})
    BY DEF E!Init
<1>2. /\ \A i \in Begin(arg.list, arg.text) : /\ i \in 1..Len(arg.text) /\ End(arg.list, arg.text, i) - 1 <= Len(arg.text)
      /\ \A j : Loose(arg, j) => j \in 1..Len(arg.text)
  <2>1. \A j : Loose(arg, j) => j \in 1..Len(arg.text)
    BY <1>1 DEF Loose
  <2>2. ASSUME NEW i \in Begin(arg.list, arg.text) PROVE i \in 1..Len(arg.text) /\ End(arg.list, arg.text, i) - 1 <= Len(arg.text)
    <3>1. i \in 1..Len(arg.text) /\ End(arg.list, arg.text, i) # 0 /\ Len(arg.text) \in Nat
        BY <1>1 DEF Begin
    <3>2. End(arg.list, arg.text, i) \in i + 3..Len(arg.text) + 1
        BY <1>1, <3>1, EndIs
    <3>3. QED
        BY <3>1, <3>2
  <2>3. QED
    BY <2>1, <2>2
<1>3. Behind(arg, rest, patterns)
  <2>1. Len(arg.text) \in Nat /\ DOMAIN patterns = {}
    BY <1>1
  <2>2. \A i \in 1..Len(arg.text) : ~(i > Len(arg.text))
    BY <2>1
  <2>3. IsStart(rest, arg.text)
    BY <1>1, <2>1 DEF IsStart
  <2>4. QED
    BY <1>1, <1>2, <2>1, <2>2, <2>3, Zenon DEF Behind
<1>4. Looking(arg, rest, patterns)
    BY <1>1 DEF Looking
<1>5. QED
    BY <1>1, <1>3, <1>4 DEF EInv

\* A pattern of the text that starts before the cut is one of what is left.
LEMMA Left ==
    ASSUME NEW a, a.list \in BOOLEAN, a.text \in Seq(STRING), NEW start, NEW found, Behind(a, start, found)
    PROVE  /\ Len(start) \in Nat /\ Len(a.text) \in Nat /\ Len(start) <= Len(a.text)
           /\ \A i : i \in Begin(a.list, start) <=> i \in Begin(a.list, a.text) /\ i <= Len(start)
           /\ \A i \in Begin(a.list, start) :
                 /\ End(a.list, start, i) = End(a.list, a.text, i)
                 /\ i \in 1..Len(start) /\ End(a.list, a.text, i) \in i + 3..Len(start) + 1
           /\ \A i \in Begin(a.list, a.text) : i \in 1..Len(a.text) /\ End(a.list, a.text, i) \in i + 3..Len(a.text) + 1
<1>1. /\ Len(start) \in Nat /\ Len(a.text) \in Nat /\ Len(start) <= Len(a.text)
      /\ start \in Seq(STRING) /\ IsStart(start, a.text)
      /\ DOMAIN start = 1..Len(start) /\ DOMAIN a.text = 1..Len(a.text)
      /\ \A i \in Begin(a.list, a.text) : i <= Len(start) => End(a.list, a.text, i) - 1 <= Len(start)
    BY DEF Behind, IsStart
<1>2. ASSUME NEW i \in Begin(a.list, start)
      PROVE  /\ End(a.list, start, i) = End(a.list, a.text, i)
             /\ i \in 1..Len(start) /\ End(a.list, a.text, i) \in i + 3..Len(start) + 1
             /\ i \in Begin(a.list, a.text) /\ i <= Len(start)
  <2>1. i \in 1..Len(start) /\ End(a.list, start, i) # 0
    BY <1>1 DEF Begin
  <2>2. End(a.list, start, i) \in i + 3..Len(start) + 1
    BY <1>1, <2>1, EndIs
  <2>3. End(a.list, start, i) = End(a.list, a.text, i)
    BY <1>1, <2>1, StartEnds
  <2>4. i \in DOMAIN a.text /\ i <= Len(start)
    BY <1>1, <2>1
  <2>5. i \in Begin(a.list, a.text)
    BY <2>1, <2>3, <2>4, Zenon DEF Begin
  <2>6. QED
    BY <2>1, <2>2, <2>3, <2>4, <2>5
<1>3. ASSUME NEW i \in Begin(a.list, a.text)
      PROVE  /\ i \in 1..Len(a.text) /\ End(a.list, a.text, i) \in i + 3..Len(a.text) + 1
             /\ i <= Len(start) => i \in Begin(a.list, start)
  <2>1. i \in 1..Len(a.text) /\ End(a.list, a.text, i) # 0
    BY <1>1 DEF Begin
  <2>2. End(a.list, a.text, i) \in i + 3..Len(a.text) + 1
    BY <1>1, <2>1, EndIs
  <2>3. ASSUME i <= Len(start) PROVE i \in Begin(a.list, start)
    <3>1. i \in 1..Len(start) /\ End(a.list, a.text, i) - 1 <= Len(start)
        BY <1>1, <2>1, <2>3
    <3>2. End(a.list, start, i) = End(a.list, a.text, i)
        BY <1>1, <2>1, <3>1, StartEnds
    <3>3. QED
        BY <1>1, <2>1, <3>1, <3>2, Zenon DEF Begin
  <2>4. QED
    BY <2>1, <2>2, <2>3
<1>4. QED
    BY <1>1, <1>2, <1>3, Zenon

\* One more at the end of a sequence.
LEMMA AppendOne ==
    ASSUME NEW S, NEW q \in Seq(S), NEW x
    PROVE  /\ Append(q, x) \in Seq(S \cup {x}) /\ Append(q, x) # <<>>
           /\ DOMAIN Append(q, x) = DOMAIN q \cup {Len(q) + 1}
           /\ Append(q, x)[Len(q) + 1] = x
           /\ \A k \in DOMAIN q : Append(q, x)[k] = q[k]
<1>1. Len(q) \in Nat /\ DOMAIN q = 1..Len(q) /\ q \in Seq(S \cup {x})
    BY SeqDef, LenProperties
<1>2. /\ Append(q, x) \in Seq(S \cup {x}) /\ Len(Append(q, x)) = Len(q) + 1
      /\ \A k \in 1..Len(q) : Append(q, x)[k] = q[k]
      /\ Append(q, x)[Len(q) + 1] = x
    BY <1>1, AppendProperties
<1>3. DOMAIN Append(q, x) = 1..Len(q) + 1
    BY <1>2, LenProperties
<1>4. 1..Len(q) + 1 = 1..Len(q) \cup {Len(q) + 1}
    BY <1>1
<1>5. Append(q, x) # <<>>
    BY <1>1, <1>2
<1>6. QED
    BY <1>1, <1>2, <1>3, <1>4, <1>5

\* A part of a text, cut from what is left or from the whole.
LEMMA SamePart ==
    ASSUME NEW A, NEW text \in Seq(A), NEW start \in Seq(A), IsStart(start, text),
           NEW b \in Nat, NEW c \in Nat, 1 <= b, b <= c + 1, c <= Len(start)
    PROVE  SubSeq(start, b, c) = SubSeq(text, b, c)
<1>1. Len(start) \in Nat /\ Len(text) \in Nat /\ Len(start) <= Len(text)
    BY DEF IsStart
<1>2. b \in 1..Len(start) + 1 /\ c \in b - 1..Len(start) /\ b \in 1..Len(text) + 1 /\ c \in b - 1..Len(text)
    BY <1>1
<1>3. /\ SubSeq(start, b, c) \in Seq(A) /\ Len(SubSeq(start, b, c)) = c - b + 1
      /\ SubSeq(text, b, c) \in Seq(A) /\ Len(SubSeq(text, b, c)) = c - b + 1
      /\ \A m \in 1..c - b + 1 : SubSeq(start, b, c)[m] = start[b + m - 1] /\ SubSeq(text, b, c)[m] = text[b + m - 1]
    BY <1>1, <1>2, SubSeqProperties
<1>4. \A m \in 1..c - b + 1 : b + m - 1 \in 1..Len(start)
    BY <1>1
<1>5. \A m \in 1..c - b + 1 : SubSeq(start, b, c)[m] = SubSeq(text, b, c)[m]
    BY <1>3, <1>4 DEF IsStart
<1>6. QED
    BY <1>3, <1>5, SeqEqual

\* Places counted from another one.
LEMMA CountedFrom ==
    ASSUME NEW b \in Int, NEW n \in Int, NEW j \in b..n
    PROVE  j - b + 1 \in 1..n - b + 1 /\ b + (j - b + 1) - 1 = j
    OBVIOUS

\* And back.
LEMMA CountedBack ==
    ASSUME NEW b \in Nat, b >= 1, NEW n \in Nat, NEW m \in 1..n - b + 1
    PROVE  b + m - 1 \in b..n /\ b + m - 1 \in 1..n
    OBVIOUS

\* The text between the braces is within what is left.
LEMMA BetweenWithin ==
    ASSUME NEW A, NEW text \in Seq(A), NEW start \in Seq(A), IsStart(start, text),
           NEW i \in 1..Len(start), NEW e \in i + 3..Len(start) + 1
    PROVE  SubSeq(start, i + 1, e - 2) = SubSeq(text, i + 1, e - 2)
<1> DEFINE b == i + 1
           c == e - 2
<1>1. b \in Nat /\ c \in Nat /\ 1 <= b /\ b <= c + 1 /\ c <= Len(start)
  <2>1. Len(start) \in Nat
    OBVIOUS
  <2>2. QED
    BY <2>1
<1> HIDE DEF b, c
<1>2. SubSeq(start, b, c) = SubSeq(text, b, c)
    BY <1>1, SamePart
<1>3. QED
    BY <1>2 DEF b, c

\* One round of the search: the last pattern can be read, and what is left is
\* cut off before it.
LEMMA OneRound ==
    ASSUME NEW a, a.list \in BOOLEAN, a.text \in Seq(STRING), NEW start, NEW found, NEW S, found \in Seq(S),
           Behind(a, start, found), NEW i \in Begin(a.list, start), \A k \in Begin(a.list, start) : k <= i,
           Reading(a.list, Between(a, i)) # <<>>,
           NEW p1, p1.suffix = SubSeq(start, End(a.list, start, i), Len(start))
    PROVE  Behind(a, SubSeq(start, 1, i - 1), Append(found, p1))
<1> DEFINE T      == a.text
           n      == Len(start)
           stop   == End(a.list, T, i)
           before == SubSeq(start, 1, i - 1)
           B      == Begin(a.list, T)
<1>1. /\ n \in Nat /\ Len(T) \in Nat /\ n <= Len(T) /\ i \in 1..n /\ stop \in i + 3..n + 1
      /\ stop = End(a.list, start, i) /\ i \in B
    BY Left
<1>2. start \in Seq(STRING) /\ IsStart(start, T)
    BY DEF Behind
<1>3. /\ before \in Seq(STRING) /\ Len(before) = i - 1
      /\ \A j \in 1..i - 1 : before[j] = start[j]
    BY <1>1, <1>2
<1>4. IsStart(before, T)
    BY <1>1, <1>2, <1>3 DEF IsStart
<1>5. \A k \in B : k \in 1..Len(T) /\ End(a.list, T, k) \in k + 3..Len(T) + 1
    BY Left
<1>6. \A k \in B : k < i => End(a.list, T, k) <= i
    BY <1>1, Apart
<1>7. \A k \in B : k <= n => k <= i
    BY Left
<1> HIDE DEF B, stop, before, n
<1>8. \A k \in B : k <= i - 1 => End(a.list, T, k) - 1 <= i - 1
  <2> TAKE k \in B
  <2>1. SUFFICES ASSUME k <= i - 1 PROVE End(a.list, T, k) - 1 <= i - 1
    OBVIOUS
  <2>2. k < i
    BY <1>1, <1>5, <2>1
  <2>3. End(a.list, T, k) <= i /\ End(a.list, T, k) \in Int
    BY <1>5, <1>6, <2>2
  <2>4. QED
    BY <1>1, <2>3
<1>9. \A k \in B : k > i - 1 => Reading(a.list, Between(a, k)) # <<>>
  <2> TAKE k \in B
  <2>1. SUFFICES ASSUME k > i - 1 PROVE Reading(a.list, Between(a, k)) # <<>>
    OBVIOUS
  <2>2. k > n \/ k = i
    BY <1>1, <1>5, <1>7, <2>1
  <2>3. k > n => Reading(a.list, Between(a, k)) # <<>>
    BY DEF Behind, B, n
  <2>4. QED
    BY <2>2, <2>3
<1>10. (\E j : j > i - 1 /\ Loose(a, j)) <=> (\E j \in stop..n : T[j] \in {Opens, Shuts}) \/ \E j : j > n /\ Loose(a, j)
  <2>1. ASSUME NEW j \in stop..n, T[j] \in {Opens, Shuts} PROVE j > i - 1 /\ Loose(a, j)
    <3>1. j \in DOMAIN T /\ j > i - 1
        BY <1>1
    <3>2. ASSUME NEW k \in B, j \in k..End(a.list, T, k) - 1 PROVE FALSE
      <4>1. k <= n /\ k <= i
        <5>1. k \in Int /\ j \in Int /\ k <= j /\ j <= n
            BY <1>1, <1>5, <3>2
        <5>2. k <= n
            BY <1>1, <5>1
        <5>3. QED
            BY <1>7, <5>2
      <4>2. k # i
        BY <1>1, <3>2 DEF stop
      <4>3. End(a.list, T, k) <= i /\ End(a.list, T, k) \in Int
        BY <1>1, <1>5, <1>6, <4>1, <4>2
      <4>4. QED
        BY <1>1, <1>5, <3>2, <4>3
    <3>3. QED
        BY <2>1, <3>1, <3>2, Zenon DEF Loose, B
  <2>2. ASSUME NEW j, j > n, Loose(a, j) PROVE j > i - 1
    <3>1. j \in 1..Len(T)
        BY <2>2 DEF Loose
    <3>2. QED
        BY <1>1, <2>2, <3>1
  <2>3. ASSUME NEW j, j > i - 1, Loose(a, j) PROVE (j \in stop..n /\ T[j] \in {Opens, Shuts}) \/ j > n
    <3>1. j \in 1..Len(T) /\ T[j] \in {Opens, Shuts} /\ \A k \in B : j \notin k..End(a.list, T, k) - 1
        BY <2>3 DEF Loose, B
    <3>2. j \notin i..stop - 1
        BY <1>1, <3>1 DEF stop
    <3>3. j \in stop..n \/ j > n
        BY <1>1, <2>3, <3>1, <3>2
    <3>4. QED
        BY <3>1, <3>3
  <2>4. QED
    BY <2>1, <2>2, <2>3, Zenon
<1>11. Braced(p1.suffix) <=> \E j \in stop..n : T[j] \in {Opens, Shuts}
  <2> DEFINE suffix == SubSeq(start, stop, n)
  <2>1. /\ DOMAIN suffix = 1..n - stop + 1
        /\ \A m \in 1..n - stop + 1 : suffix[m] = start[stop + m - 1]
    <3>1. stop \in 1..n + 1 /\ n = Len(start)
        BY <1>1 DEF n
    <3>2. QED
        BY <1>2, <3>1
  <2>2. \A m \in 1..n - stop + 1 : stop + m - 1 \in stop..n /\ stop + m - 1 \in 1..n
    <3>1. stop \in Nat /\ stop >= 1
        BY <1>1
    <3>2. QED
        BY <1>1, <3>1, CountedBack
  <2>3. \A j \in stop..n : j - stop + 1 \in 1..n - stop + 1 /\ stop + (j - stop + 1) - 1 = j
    <3>1. stop \in Int /\ n \in Int
        BY <1>1
    <3>2. QED
        BY <3>1, CountedFrom
  <2>4. \A j \in 1..n : start[j] = T[j]
    BY <1>2 DEF IsStart, n
  <2>5. p1.suffix = suffix
    BY <1>1 DEF n
  <2> HIDE DEF suffix
  <2>6. \A m \in 1..n - stop + 1 : suffix[m] = T[stop + m - 1]
    BY <2>1, <2>2, <2>4
  <2>7. Braced(suffix) <=> \E m \in 1..n - stop + 1 : T[stop + m - 1] \in {Opens, Shuts}
    BY <2>1, <2>6, Zenon DEF Braced
  <2>8. QED
    BY <2>2, <2>3, <2>5, <2>7
<1>12. (\E k \in DOMAIN Append(found, p1) : Braced(Append(found, p1)[k].suffix))
            <=> Braced(p1.suffix) \/ \E k \in DOMAIN found : Braced(found[k].suffix)
  <2>1. /\ DOMAIN Append(found, p1) = DOMAIN found \cup {Len(found) + 1}
        /\ Append(found, p1)[Len(found) + 1] = p1
        /\ \A k \in DOMAIN found : Append(found, p1)[k] = found[k]
    BY AppendOne
  <2>2. QED
    BY <2>1, Zenon
<1>13. (\E k \in DOMAIN found : Braced(found[k].suffix)) <=> \E j : j > n /\ Loose(a, j)
    BY DEF Behind, n
<1>14. (\E k \in DOMAIN Append(found, p1) : Braced(Append(found, p1)[k].suffix)) <=> \E j : j > i - 1 /\ Loose(a, j)
    BY <1>10, <1>11, <1>12, <1>13, Zenon
<1>15. QED
    BY <1>3, <1>4, <1>8, <1>9, <1>14, Zenon DEF Behind, B, before

\* When no pattern is left, every brace before the first one is loose.
LEMMA LastRound ==
    ASSUME NEW a, a.list \in BOOLEAN, a.text \in Seq(STRING), NEW start, NEW found,
           Behind(a, start, found), Begin(a.list, start) = {}
    PROVE  Braced(start) <=> \E j : j <= Len(start) /\ Loose(a, j)
<1> DEFINE T == a.text
           n == Len(start)
<1>1. /\ n \in Nat /\ Len(T) \in Nat /\ n <= Len(T)
      /\ \A k \in Begin(a.list, T) : k \in 1..Len(T) /\ End(a.list, T, k) \in k + 3..Len(T) + 1 /\ ~(k <= n)
  <2>1. /\ n \in Nat /\ Len(T) \in Nat /\ n <= Len(T)
        /\ \A k \in Begin(a.list, T) : k \in 1..Len(T) /\ End(a.list, T, k) \in k + 3..Len(T) + 1
    BY Left
  <2>2. \A k : k \in Begin(a.list, start) <=> k \in Begin(a.list, T) /\ k <= n
    BY Left
  <2>3. QED
    BY <2>1, <2>2, Zenon
<1>2. DOMAIN start = 1..n /\ \A j \in 1..n : start[j] = T[j]
    BY DEF Behind, IsStart
<1> HIDE DEF n
<1>3. ASSUME NEW j \in 1..n, T[j] \in {Opens, Shuts} PROVE Loose(a, j) /\ j <= n
  <2>1. j \in DOMAIN T /\ j <= n /\ \A k \in Begin(a.list, T) : j \notin k..End(a.list, T, k) - 1
    BY <1>1
  <2>2. QED
    BY <1>3, <2>1, Zenon DEF Loose
<1>4. ASSUME NEW j, j <= n, Loose(a, j) PROVE j \in 1..n /\ T[j] \in {Opens, Shuts}
  <2>1. j \in 1..Len(T) /\ T[j] \in {Opens, Shuts}
    BY <1>4 DEF Loose
  <2>2. QED
    BY <1>1, <1>4, <2>1
<1>5. QED
    BY <1>2, <1>3, <1>4, Zenon DEF Braced, n

\* Every step keeps the invariant.
LEMMA ENext == ASSUME EInv, [E!Next]_E!vars PROVE EInv'
<1> DEFINE list == arg.list
           T    == arg.text
<1>1. list \in BOOLEAN /\ T \in Seq(STRING) /\ \E S : patterns \in Seq(S)
    BY DEF EInv
<1>2. ASSUME E!FindPattern PROVE EInv'
  <2> DEFINE i      == E!Max(Begin(list, rest))
             stop   == End(list, rest, i)
             before == SubSeq(rest, 1, i - 1)
             seq    == Reading(list, SubSeq(rest, i + 1, stop - 2))
             more   == Begin(list, before) # {}
             p1     == [prefix |-> IF more THEN <<>> ELSE before, suffix |-> SubSeq(rest, stop, Len(rest)), seq |-> seq]
  <2>1. /\ epc = "find" /\ arg' = arg /\ Begin(list, rest) # {}
        /\ IF seq = <<>> THEN epc' = "error" /\ patterns' = patterns /\ rest' = rest
           ELSE /\ patterns' = Append(patterns, p1) /\ rest' = before
                /\ epc' = IF more THEN "find" ELSE "check"
    BY <1>2, InTheseTerms, Zenon DEF E!FindPattern
  <2>2. Behind(arg, rest, patterns) /\ Looking(arg, rest, patterns)
    BY <2>1 DEF EInv
  <2>3. /\ Len(rest) \in Nat /\ Len(T) \in Nat /\ Len(rest) <= Len(T)
        /\ \A k \in Begin(list, rest) : k \in Begin(list, T) /\ k \in 1..Len(rest)
                /\ End(list, rest, k) = End(list, T, k) /\ End(list, T, k) \in k + 3..Len(rest) + 1
    BY <1>1, <2>2, Left
  <2>4. i \in Begin(list, rest) /\ \A k \in Begin(list, rest) : k <= i
    <3>1. Begin(list, rest) \subseteq 1..Len(rest)
        BY <2>3
    <3>2. QED
        BY <2>1, <2>3, <3>1, LastPlace
  <2> HIDE DEF i
  <2>5. SubSeq(rest, i + 1, stop - 2) = Between(arg, i)
    <3>1. i \in 1..Len(rest) /\ stop = End(list, T, i) /\ stop \in i + 3..Len(rest) + 1
        BY <2>3, <2>4
    <3> HIDE DEF stop
    <3>2. rest \in Seq(STRING) /\ IsStart(rest, T)
        BY <2>2 DEF Behind
    <3>3. SubSeq(rest, i + 1, stop - 2) = SubSeq(T, i + 1, stop - 2)
        BY <1>1, <3>1, <3>2, BetweenWithin
    <3>4. QED
        BY <3>1, <3>3 DEF Between
  <2>6. seq = Reading(list, Between(arg, i)) /\ i \in Begin(list, T)
    BY <2>3, <2>4, <2>5
  <2>7. CASE seq = <<>>
    <3>1. NoReading(arg)
        BY <2>6, <2>7, Zenon DEF NoReading
    <3>2. epc' = "error" /\ arg' = arg /\ patterns' = patterns
        BY <2>1, <2>7
    <3>3. QED
        BY <1>1, <3>1, <3>2 DEF EInv
  <2>8. CASE seq # <<>>
    <3>1. patterns' = Append(patterns, p1) /\ rest' = before /\ epc' = IF more THEN "find" ELSE "check"
        BY <2>1, <2>8
    <3>2. PICK S : patterns \in Seq(S)
        BY <1>1
    <3>3. p1.suffix = SubSeq(rest, stop, Len(rest)) /\ p1.prefix = IF more THEN <<>> ELSE before
        OBVIOUS
    <3> HIDE DEF p1, seq
    <3>4. Behind(arg, before, Append(patterns, p1))
        BY <1>1, <2>2, <2>4, <2>6, <2>8, <3>2, <3>3, OneRound
    <3> HIDE DEF before, more, stop
    <3>5. /\ Append(patterns, p1) \in Seq(S \cup {p1}) /\ Append(patterns, p1) # <<>>
          /\ DOMAIN Append(patterns, p1) = DOMAIN patterns \cup {Len(patterns) + 1}
          /\ Append(patterns, p1)[Len(patterns) + 1] = p1
          /\ \A k \in DOMAIN patterns : Append(patterns, p1)[k] = patterns[k]
        BY <3>2, AppendOne
    <3>6. (\E k \in DOMAIN Append(patterns, p1) : Braced(Append(patterns, p1)[k].prefix)) <=> Braced(p1.prefix)
        BY <2>2, <3>5, Zenon DEF Looking
    <3>7. ASSUME more PROVE Looking(arg, before, Append(patterns, p1))
      <4>1. ~Braced(p1.prefix)
        BY <3>3, <3>7 DEF Braced
      <4>2. Begin(list, before) # {}
        BY <3>7 DEF more
      <4>3. QED
        BY <3>5, <3>6, <4>1, <4>2, Zenon DEF Looking
    <3>8. ASSUME ~more PROVE AllFound(arg, before, Append(patterns, p1))
      <4>1. Begin(list, before) = {} /\ p1.prefix = before
        BY <3>3, <3>8 DEF more
      <4>2. Braced(before) <=> \E j : j <= Len(before) /\ Loose(arg, j)
        BY <1>1, <3>4, <4>1, LastRound
      <4>3. Begin(list, T) # {}
        BY <2>6
      <4>4. QED
        BY <3>6, <4>1, <4>2, <4>3, Zenon DEF AllFound
    <3>9. /\ epc' \in {"find", "check"} /\ (epc' = "find" => more) /\ (epc' = "check" => ~more)
        BY <3>1
    <3>10. QED
        BY <1>1, <2>1, <3>1, <3>4, <3>5, <3>7, <3>8, <3>9 DEF EInv
  <2>9. QED
    BY <2>7, <2>8
<1>3. ASSUME E!NoPattern PROVE EInv'
  <2>1. epc = "find" /\ arg' = arg /\ patterns' = patterns /\ Begin(list, rest) = {} /\ epc' = "error"
    BY <1>3, InTheseTerms, Zenon DEF E!NoPattern
  <2>2. NoReading(arg)
    BY <2>1, Zenon DEF EInv, Looking, NoReading
  <2>3. QED
    BY <1>1, <2>1, <2>2 DEF EInv
<1>4. ASSUME E!CheckBraces PROVE EInv'
  <2> DEFINE braced == \E k \in DOMAIN patterns : Braced(patterns[k].prefix) \/ Braced(patterns[k].suffix)
  <2>1. epc = "check" /\ arg' = arg /\ patterns' = patterns /\ epc' = IF braced THEN "error" ELSE "expand"
    BY <1>4, InTheseTerms, Zenon DEF E!CheckBraces
  <2>2. Behind(arg, rest, patterns) /\ AllFound(arg, rest, patterns)
    BY <2>1 DEF EInv
  <2>3. Len(rest) \in Nat /\ Len(T) \in Nat /\ \A k \in Begin(list, T) : k \in 1..Len(T) /\ ~(k <= Len(rest))
    BY <1>1, <2>2, Left DEF AllFound
  <2>4. \A k \in Begin(list, T) : k > Len(rest)
    BY <2>3
  <2>5. \A k \in Begin(list, T) : Reading(list, Between(arg, k)) # <<>>
    BY <2>2, <2>4, Zenon DEF Behind
  <2>6. \A j : Loose(arg, j) => j <= Len(rest) \/ j > Len(rest)
    <3>1. \A j : Loose(arg, j) => j \in 1..Len(T)
        BY <1>1 DEF Loose
    <3>2. QED
        BY <2>3, <3>1
  <2>7. braced <=> \E j : Loose(arg, j)
    BY <2>2, <2>6, Zenon DEF Behind, AllFound
  <2>8. braced <=> NoReading(arg)
    BY <2>2, <2>5, <2>7, Zenon DEF NoReading, AllFound
  <2> HIDE DEF braced
  <2>9. QED
    BY <1>1, <2>1, <2>8 DEF EInv
<1>5. ASSUME E!Expand PROVE EInv'
    BY <1>1, <1>5 DEF E!Expand, EInv
<1>6. ASSUME UNCHANGED E!vars PROVE EInv'
    BY <1>6 DEF E!vars, EInv
<1>7. QED
    BY <1>2, <1>3, <1>4, <1>5, <1>6 DEF E!Next

\* Exactly the arguments without a reading are refused, for arguments of every
\* length with any number of patterns.
THEOREM RefusedRight ==
    ASSUME \A a \in Args : a.list \in BOOLEAN /\ a.text \in Seq(STRING)
    PROVE  E!Spec => []E!RefusesExactly
<1>1. EInv => E!RefusesExactly
    BY InTheseTerms DEF EInv, E!RefusesExactly
<1>2. QED
    BY <1>1, EInit, ENext, PTL DEF E!Spec
=============================================================================
