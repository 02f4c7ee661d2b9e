------------------------------ MODULE SafeFile ------------------------------
(***************************************************************************)
(* safe/safe.go: a File is written under a temporary name and renamed to   *)
(* its own name when it is closed.                                         *)
(*                                                                         *)
(* Several Files, each of its own process, replace the same named file.    *)
(* Every system call is a step and may fail; a process may crash between   *)
(* any two.  The suffix os.CreateTemp draws is taken to be unique, so each *)
(* File has a temporary name of its own.  A refused Write or Abort changes *)
(* nothing and is left out.                                                *)
(***************************************************************************)
EXTENDS Naturals

CONSTANTS Files,      \* the File values created by CreateFile
          Nobody,     \* who wrote the named file before
          MaxWrites   \* bound: Writes per File

ASSUME NobodyAssumption == Nobody \notin Files
ASSUME MaxWritesAssumption == MaxWrites \in Nat

VARIABLES
    named,    \* the file at File.name
    temp,     \* the file at each tmpfile.Name()
    handle,   \* tmpfile: whether the descriptor is open
    closed, aborted,   \* the flags of File
    pc,       \* where the process of each File is
    wrote,    \* history: Writes that succeeded
    answer,   \* history: what the first Close returned
    stuck     \* history: Files whose os.Remove failed

vars == <<named, temp, handle, closed, aborted, pc, wrote, answer, stuck>>

\* A file is what one writer put in it: so many whole chunks, perhaps followed
\* by a part of one.
Content == [by : Files \cup {Nobody}, len : 0..MaxWrites, part : 0..1]
NoFile  == [by |-> Nobody, len |-> 0, part |-> 1]
Old     == [by |-> Nobody, len |-> 0, part |-> 0]

Init ==
    /\ named \in {NoFile, Old}
    /\ temp = [f \in Files |-> NoFile]
    /\ handle = [f \in Files |-> FALSE]
    /\ closed = [f \in Files |-> FALSE]
    /\ aborted = [f \in Files |-> FALSE]
    /\ pc = [f \in Files |-> "new"]
    /\ wrote = [f \in Files |-> 0]
    /\ answer = [f \in Files |-> "none"]
    /\ stuck = {}

At(f, here) == pc[f] = here
Goto(f, there) == pc' = [pc EXCEPT ![f] = there]

\* A method is called between two others, on a File still in use.
InUse(f) == At(f, "idle") /\ ~closed[f] /\ ~aborted[f]

\* os.Remove of the temporary name: it may fail, and then the file stays.
Remove(f) ==
    \/ temp' = [temp EXCEPT ![f] = NoFile] /\ UNCHANGED stuck
    \/ UNCHANGED temp /\ stuck' = stuck \cup {f}

-----------------------------------------------------------------------------
(* CreateFile *)

\* MkdirAll or CreateTemp fails: there is no File.
CreateFails(f) ==
    /\ At(f, "new")
    /\ Goto(f, "none")
    /\ UNCHANGED <<named, temp, handle, closed, aborted, wrote, answer, stuck>>

CreateTemp(f) ==
    /\ At(f, "new")
    /\ temp' = [temp EXCEPT ![f] = [by |-> f, len |-> 0, part |-> 0]]
    /\ handle' = [handle EXCEPT ![f] = TRUE]
    /\ Goto(f, "chmod")
    /\ UNCHANGED <<named, closed, aborted, wrote, answer, stuck>>

Chmod(f) ==
    /\ At(f, "chmod")
    /\ Goto(f, "idle") \/ Goto(f, "chmodErr")
    /\ UNCHANGED <<named, temp, handle, closed, aborted, wrote, answer, stuck>>

\* Mutant: the temporary file is left behind.
ChmodErrKeeps(f) ==
    /\ At(f, "chmodErr")
    /\ Goto(f, "none")
    /\ UNCHANGED <<named, temp, handle, closed, aborted, wrote, answer, stuck>>

\* The temporary file goes, its descriptor stays open.
ChmodErr(f) ==
    /\ At(f, "chmodErr")
    /\ Remove(f)
    /\ Goto(f, "none")
    /\ UNCHANGED <<named, handle, closed, aborted, wrote, answer>>

-----------------------------------------------------------------------------
(* Write *)

Write(f) ==
    /\ InUse(f) /\ wrote[f] < MaxWrites
    /\ temp' = [temp EXCEPT ![f].len = @ + 1]
    /\ wrote' = [wrote EXCEPT ![f] = @ + 1]
    /\ UNCHANGED <<named, handle, closed, aborted, pc, answer, stuck>>

\* Nothing or a part of the bytes is written.
WriteFails(f) ==
    /\ InUse(f)
    /\ \E part \in 0..1 : temp' = [temp EXCEPT ![f].part = part]
    /\ Goto(f, "writeErr")
    /\ UNCHANGED <<named, handle, closed, aborted, wrote, answer, stuck>>

\* Mutant: after an error the File can still be used.
WriteErrGoesOn(f) ==
    /\ At(f, "writeErr")
    /\ Remove(f)
    /\ Goto(f, "idle")
    /\ UNCHANGED <<named, handle, closed, aborted, wrote, answer>>

\* The deferred function after an error.
WriteErr(f) ==
    /\ At(f, "writeErr")
    /\ Remove(f)
    /\ aborted' = [aborted EXCEPT ![f] = TRUE]
    /\ Goto(f, "idle")
    /\ UNCHANGED <<named, handle, closed, wrote, answer>>

-----------------------------------------------------------------------------
(* Close *)

\* Close on a closed or aborted File is an error, and the deferred function
\* runs all the same.
CloseRefused(f) ==
    /\ At(f, "idle") /\ (closed[f] \/ aborted[f])
    /\ Goto(f, "closeErr")
    /\ UNCHANGED <<named, temp, handle, closed, aborted, wrote, answer, stuck>>

CloseHandle(f) ==
    /\ InUse(f)
    /\ handle' = [handle EXCEPT ![f] = FALSE]
    /\ Goto(f, "rename")
    /\ UNCHANGED <<named, temp, closed, aborted, wrote, answer, stuck>>

\* A descriptor is released even if closing it reports an error.
CloseHandleFails(f) ==
    /\ InUse(f)
    /\ handle' = [handle EXCEPT ![f] = FALSE]
    /\ answer' = [answer EXCEPT ![f] = "error"]
    /\ Goto(f, "closeErr")
    /\ UNCHANGED <<named, temp, closed, aborted, wrote, stuck>>

Rename(f) ==
    /\ At(f, "rename") /\ temp[f] # NoFile
    /\ named' = temp[f]
    /\ temp' = [temp EXCEPT ![f] = NoFile]
    /\ closed' = [closed EXCEPT ![f] = TRUE]
    /\ answer' = [answer EXCEPT ![f] = "ok"]
    /\ Goto(f, "idle")
    /\ UNCHANGED <<handle, aborted, wrote, stuck>>

\* closed is set although the rename failed.
RenameFails(f) ==
    /\ At(f, "rename")
    /\ closed' = [closed EXCEPT ![f] = TRUE]
    /\ answer' = [answer EXCEPT ![f] = "error"]
    /\ Goto(f, "closeErr")
    /\ UNCHANGED <<named, temp, handle, aborted, wrote, stuck>>

\* Mutant: the named file is removed after an error.
CloseErrNamed(f) ==
    /\ At(f, "closeErr")
    /\ named' = NoFile
    /\ aborted' = [aborted EXCEPT ![f] = TRUE]
    /\ Goto(f, "idle")
    /\ UNCHANGED <<temp, handle, closed, wrote, answer, stuck>>

\* The deferred function after an error.
CloseErr(f) ==
    /\ At(f, "closeErr")
    /\ Remove(f)
    /\ aborted' = [aborted EXCEPT ![f] = TRUE]
    /\ Goto(f, "idle")
    /\ UNCHANGED <<named, handle, closed, wrote, answer>>

-----------------------------------------------------------------------------
(* Abort *)

Abort(f) ==
    /\ InUse(f)
    /\ handle' = [handle EXCEPT ![f] = FALSE]
    /\ Goto(f, "abort")
    /\ UNCHANGED <<named, temp, closed, aborted, wrote, answer, stuck>>

AbortRemove(f) ==
    /\ At(f, "abort")
    /\ Remove(f)
    /\ aborted' = [aborted EXCEPT ![f] = TRUE]
    /\ Goto(f, "idle")
    /\ UNCHANGED <<named, handle, closed, wrote, answer>>

\* The process ends: descriptors go, files stay.
Crash(f) ==
    /\ pc[f] \notin {"new", "none", "crashed"}
    /\ handle' = [handle EXCEPT ![f] = FALSE]
    /\ Goto(f, "crashed")
    /\ UNCHANGED <<named, temp, closed, aborted, wrote, answer, stuck>>

Next ==
    \E f \in Files :
        \/ CreateFails(f) \/ CreateTemp(f) \/ Chmod(f) \/ ChmodErr(f)
        \/ Write(f) \/ WriteFails(f) \/ WriteErr(f)
        \/ CloseRefused(f) \/ CloseHandle(f) \/ CloseHandleFails(f)
        \/ Rename(f) \/ RenameFails(f) \/ CloseErr(f)
        \/ Abort(f) \/ AbortRemove(f) \/ Crash(f)

Spec == Init /\ [][Next]_vars

-----------------------------------------------------------------------------
TypeOK ==
    /\ named \in Content
    /\ temp \in [Files -> Content]
    /\ handle \in [Files -> BOOLEAN]
    /\ closed \in [Files -> BOOLEAN]
    /\ aborted \in [Files -> BOOLEAN]
    /\ pc \in [Files -> {"new", "none", "chmod", "chmodErr", "idle", "writeErr", "rename", "closeErr", "abort", "crashed"}]
    /\ wrote \in [Files -> 0..MaxWrites]
    /\ answer \in [Files -> {"none", "ok", "error"}]
    /\ stuck \subseteq Files

\* "The temporary file is renamed to the named file upon successful close to
\* safeguard intermediate state in the named file": whatever fails or crashes,
\* whoever opens the named file finds what was there before or all that one
\* writer wrote before it closed.
Intact ==
    \/ named \in {NoFile, Old}
    \/ \E f \in Files : named = [by |-> f, len |-> wrote[f], part |-> 0]

\* The error Close returns is the truth about the named file: after an error it
\* holds nothing of this File, and once any Close has succeeded it holds what
\* a successful one wrote.  A second Close, which is an error, takes nothing
\* away.
AnswerHolds ==
    /\ \A f \in Files : answer[f] = "error" => named.by # f
    /\ (\E f \in Files : answer[f] = "ok") => named.by # Nobody /\ answer[named.by] = "ok"

\* "The temporary file is removed if case of any intermediate failure": between
\* calls only a File in use, one whose process crashed and one whose removal
\* failed leave a temporary file.
NoLitter ==
    \A f \in Files :
        temp[f] # NoFile /\ (At(f, "none") \/ (At(f, "idle") /\ (closed[f] \/ aborted[f]))) => f \in stuck
=============================================================================
