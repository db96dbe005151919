---------------------------- MODULE EcmwfUpdate ----------------------------
(***************************************************************************)
(* ecmwf.sh, which every configuration runs (CMakeLists.txt:19) to make    *)
(* src/: the upstream sources, renamed by sed in src_tmp, with the files   *)
(* of extension/ linked over them.  The script goes on after a command     *)
(* that failed, may be interrupted anywhere, and is run again on what the  *)
(* last run left.                                                          *)
(*                                                                         *)
(* A file's content is its upstream version and how often the renaming     *)
(* has gone over it; the files are those of the kinds the loops look for.  *)
(* cmake/ and tools/ are copied once, like src/, and left out here.        *)
(***************************************************************************)
EXTENDS Naturals

CONSTANTS
  File,     \* the files, upstream or in extension/
  Ext,      \* those that extension/ may have
  DirOf,    \* DirOf[f]: the directory of f
  Tree,     \* bound: the trees upstream may have, in [File -> Nat], 0 for no file
  MaxRuns   \* bound: the script is started this many times

ASSUME ExtAssumption == Ext \subseteq File
ASSUME TreeAssumption == Tree \subseteq [File -> Nat]
ASSUME MaxRunsAssumption == MaxRuns \in Nat

VARIABLES
  origin,   \* the tree of the upstream branch
  clone,    \* oops-jcsda: the tree checked out, or NoTree
  srcTmp,   \* srcTmp[f]: the content of f in src_tmp
  dirs,     \* the directories in src
  made,     \* src exists
  src,      \* src[f]: the content of f in src, or a link to extension/f
  ext,      \* ext[f]: the content of f, for the files now in extension/
  pc,       \* the part of the script that runs
  todo,     \* the files its loop has still to visit
  runs      \* how often the script was started

vars == <<origin, clone, srcTmp, dirs, made, src, ext, pc, todo, runs>>

NoTree == [f \in {} |-> 0]
Content == [version : Nat, passes : Nat]
Absent == [version |-> 0, passes |-> 0]
Link == [link |-> "extension"]
Mine == [version |-> 0, passes |-> 1]

(* The renaming is complete after this many passes over a file.            *)
Passes == 2

Present(contents) == {f \in File : contents[f] # Absent}
DirsOf(files) == {DirOf[f] : f \in files}

(* What is read at src/f, through the link if it is one: nothing that any  *)
(* file has in it when the link leads nowhere.                             *)
Seen(f) ==
  IF src[f] # Link THEN src[f] ELSE IF f \in DOMAIN ext THEN ext[f] ELSE Absent

Init ==
  /\ origin \in Tree
  /\ clone = NoTree
  /\ srcTmp = [f \in File |-> Absent] /\ src = srcTmp
  /\ dirs = {} /\ made = FALSE
  /\ ext \in {[f \in files |-> Mine] : files \in SUBSET Ext}
  /\ pc = "idle" /\ todo = {} /\ runs = 0

------------------------------------------------------------------------------
(* The upstream branch moves on.                                           *)
Publish ==
  /\ pc \in {"idle", "done"} /\ runs < MaxRuns
  /\ origin' \in Tree \ {origin}
  /\ UNCHANGED <<clone, srcTmp, dirs, made, src, ext, pc, todo, runs>>

(* Developers put a file into extension/, or take it out: src is no longer *)
(* what the last run made it for.                                          *)
Develop ==
  /\ pc \in {"idle", "done"} /\ runs < MaxRuns
  /\ \E f \in Ext :
       ext' = IF f \in DOMAIN ext THEN [k \in DOMAIN ext \ {f} |-> ext[k]]
              ELSE [k \in DOMAIN ext \cup {f} |-> IF k = f THEN Mine ELSE ext[k]]
  /\ pc' = "idle"
  /\ UNCHANGED <<origin, clone, srcTmp, dirs, made, src, todo, runs>>

(* Update or clone the repository; without network it stays what it was.   *)
Fetch ==
  /\ pc \in {"idle", "done"} /\ runs < MaxRuns
  /\ runs' = runs + 1
  /\ clone' \in {clone, origin}
  /\ pc' = "copy to src_tmp"
  /\ UNCHANGED <<origin, srcTmp, dirs, made, src, ext, todo>>

(* The sources as they are in the clone.                                   *)
Unprocessed == [f \in File |-> IF clone = NoTree THEN Absent
                               ELSE [version |-> clone[f], passes |-> 0]]

(* The fault of leaving out the rm: sources still there are kept.          *)
CopyToTmpKept ==
  /\ pc = "copy to src_tmp"
  /\ srcTmp' = [f \in File |-> IF srcTmp[f] = Absent THEN Unprocessed[f] ELSE srcTmp[f]]
  /\ pc' = "copy to src"
  /\ UNCHANGED <<origin, clone, dirs, made, src, ext, todo, runs>>

(* src_tmp is removed and made again; nothing is copied without a clone.   *)
CopyToTmp ==
  /\ pc = "copy to src_tmp"
  /\ srcTmp' = Unprocessed
  /\ pc' = "copy to src"
  /\ UNCHANGED <<origin, clone, dirs, made, src, ext, todo, runs>>

(* Copy src_tmp into src, unless there is a src.                           *)
CopyToSrc ==
  /\ pc = "copy to src"
  /\ made' = TRUE
  /\ IF made THEN UNCHANGED <<src, dirs>>
     ELSE src' = srcTmp /\ dirs' = DirsOf(Present(srcTmp))
  /\ pc' = "rename" /\ todo' = Present(srcTmp)
  /\ UNCHANGED <<origin, clone, srcTmp, ext, runs>>

(* That copy interrupted: some of the directories are there.               *)
CutCopyToSrc ==
  /\ pc = "copy to src" /\ ~made
  /\ made' = TRUE
  /\ dirs' \in SUBSET DirsOf(Present(srcTmp))
  /\ src' = [f \in File |-> IF DirOf[f] \in dirs' THEN srcTmp[f] ELSE Absent]
  /\ pc' = "idle" /\ todo' = {}
  /\ UNCHANGED <<origin, clone, srcTmp, ext, runs>>

(* sed over one file, for the namespaces and prefixes, and then again for  *)
(* the Fortran names.                                                      *)
Pass(loop, f) ==
  /\ pc = loop /\ f \in todo
  /\ srcTmp' = [srcTmp EXCEPT ![f].passes = @ + 1]
  /\ todo' = todo \ {f}
  /\ UNCHANGED <<origin, clone, dirs, made, src, ext, pc, runs>>

Rename(f) == Pass("rename", f)
RenameFortran(f) == Pass("rename Fortran", f)

(* The next loop starts when one has visited all its files.                *)
Loop(this, next, files) ==
  /\ pc = this /\ todo = {}
  /\ pc' = next /\ todo' = files
  /\ UNCHANGED <<origin, clone, srcTmp, dirs, made, src, ext, runs>>

(* The fault of linking every file of src, not those of the extension.     *)
NextLoopLinkAll ==
  \/ Loop("rename", "rename Fortran", Present(srcTmp))
  \/ Loop("rename Fortran", "copy modified", Present(srcTmp))
  \/ Loop("copy modified", "link", File)

NextLoop ==
  \/ Loop("rename", "rename Fortran", Present(srcTmp))
  \/ Loop("rename Fortran", "copy modified", Present(srcTmp))
  \/ Loop("copy modified", "link", DOMAIN ext)

(* The faults of copying what src has not at all, and without removing     *)
(* what it has: cp writes through a link.                                  *)
CopyMissing(f) ==
  /\ pc = "copy modified" /\ f \in todo
  /\ src' = [src EXCEPT ![f] = IF @ = Absent /\ DirOf[f] \in dirs THEN srcTmp[f] ELSE @]
  /\ todo' = todo \ {f}
  /\ UNCHANGED <<origin, clone, srcTmp, dirs, made, ext, pc, runs>>

CopyThroughLink(f) ==
  /\ pc = "copy modified" /\ f \in todo
  /\ IF src[f] = Link /\ f \in DOMAIN ext
     THEN ext' = [ext EXCEPT ![f] = srcTmp[f]] /\ UNCHANGED src
     ELSE /\ src' = [src EXCEPT ![f] = IF DirOf[f] \in dirs THEN srcTmp[f] ELSE Absent]
          /\ UNCHANGED ext
  /\ todo' = todo \ {f}
  /\ UNCHANGED <<origin, clone, srcTmp, dirs, made, pc, runs>>

(* A modified file is removed from src and copied there; the copy fails in *)
(* a directory that src has not.                                           *)
CopyModified(f) ==
  /\ pc = "copy modified" /\ f \in todo
  /\ src' = IF Seen(f) = srcTmp[f] THEN src
            ELSE [src EXCEPT ![f] = IF DirOf[f] \in dirs THEN srcTmp[f] ELSE Absent]
  /\ todo' = todo \ {f}
  /\ UNCHANGED <<origin, clone, srcTmp, dirs, made, ext, pc, runs>>

(* Interrupted after the rm.                                               *)
CutCopyModified(f) ==
  /\ pc = "copy modified" /\ f \in todo /\ Seen(f) # srcTmp[f]
  /\ src' = [src EXCEPT ![f] = Absent]
  /\ pc' = "idle" /\ todo' = {}
  /\ UNCHANGED <<origin, clone, srcTmp, dirs, made, ext, runs>>

(* ln -sf, which fails in a directory that src has not.                    *)
LinkExtension(f) ==
  /\ pc = "link" /\ f \in todo
  /\ src' = [src EXCEPT ![f] = IF DirOf[f] \in dirs THEN Link ELSE @]
  /\ todo' = todo \ {f}
  /\ UNCHANGED <<origin, clone, srcTmp, dirs, made, ext, pc, runs>>

Clean ==
  /\ pc = "link" /\ todo = {}
  /\ srcTmp' = [f \in File |-> Absent]
  /\ pc' = "done"
  /\ UNCHANGED <<origin, clone, dirs, made, src, ext, todo, runs>>

(* Interrupted between two commands.                                       *)
Interrupt ==
  /\ pc \notin {"idle", "done"}
  /\ pc' = "idle" /\ todo' = {}
  /\ UNCHANGED <<origin, clone, srcTmp, dirs, made, src, ext, runs>>

Next ==
  \/ Publish \/ Develop \/ Fetch \/ CopyToTmp \/ CopyToSrc \/ CutCopyToSrc
  \/ \E f \in File : \/ Rename(f) \/ RenameFortran(f)
                     \/ CopyModified(f) \/ CutCopyModified(f)
                     \/ LinkExtension(f)
  \/ NextLoop \/ Clean \/ Interrupt

Spec == Init /\ [][Next]_vars

------------------------------------------------------------------------------
TypeOK ==
  /\ origin \in Tree /\ clone \in Tree \cup {NoTree}
  /\ srcTmp \in [File -> Content]
  /\ dirs \subseteq DirsOf(File) /\ made \in BOOLEAN
  /\ \A f \in File : src[f] \in Content \/ (src[f] = Link /\ f \in Ext)
  /\ DOMAIN ext \subseteq Ext /\ \A f \in DOMAIN ext : ext[f] \in Content
  /\ pc \in {"idle", "copy to src_tmp", "copy to src", "rename", "rename Fortran",
             "copy modified", "link", "done"}
  /\ todo \subseteq File
  /\ runs \in 0 .. MaxRuns

(* The script never writes to extension/, though src has links into it     *)
(* when the upstream files are copied over (ecmwf.sh:108-109).             *)
ExtensionIsKept == \A f \in DOMAIN ext : ext[f] = Mine

(* No source is renamed twice (oopsjedijedi), though an interrupted run    *)
(* leaves a src_tmp it has worked on (ecmwf.sh:34-36).                     *)
RenamedOnce ==
  \A f \in File : src[f] # Link => src[f].passes <= Passes

(* After a run that was not interrupted, whatever the ones before it left, *)
(* every directory of src has the upstream files as they are in the clone, *)
(* renamed, under the links to the extension as it now is: a link is       *)
(* replaced when its file has left extension/ (ecmwf.sh:103-120).          *)
SrcIsOverlay ==
  pc = "done" =>
    \A f \in File : DirOf[f] \in dirs =>
      IF f \in DOMAIN ext THEN src[f] = Link
      ELSE clone # NoTree /\ clone[f] # 0 =>
             src[f] = [version |-> clone[f], passes |-> Passes]

(* What the comment of ecmwf.sh:40 says: after the copy into src, it has   *)
(* the correct tree.                                                       *)
TreeIsCorrect ==
  pc = "done" /\ clone # NoTree =>
    \A f \in File : clone[f] # 0 => src[f] # Absent
=============================================================================
