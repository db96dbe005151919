------------------------- MODULE EcmwfUpdateProofs -------------------------
(***************************************************************************)
(* Proofs about EcmwfUpdate, for every set of files and directories, every *)
(* history of the upstream branch and of extension/, and every number of   *)
(* runs, interrupted anywhere.                                             *)
(*                                                                         *)
(* What a finished run leaves follows from what each loop has done so far: *)
(* Processed says how far the renaming has come over each file of src_tmp, *)
(* Copied and Linked which files of src are already as they should be.     *)
(***************************************************************************)
EXTENDS EcmwfUpdate, TLAPS

Upstream == {f \in File : clone # NoTree /\ clone[f] # 0}

Renamed(f, n) ==
  IF f \in Upstream THEN [version |-> clone[f], passes |-> n] ELSE Absent

PassesOver(f) ==
  IF pc = "copy to src" THEN 0
  ELSE IF pc = "rename" THEN IF f \in todo THEN 0 ELSE 1
  ELSE IF pc = "rename Fortran" THEN IF f \in todo THEN 1 ELSE 2
  ELSE 2

Types ==
  /\ TypeOK
  /\ src \in [File -> Content \cup {Link}]

(* src_tmp has the files of the clone, renamed as far as the loops are.    *)
Processed ==
  pc \in {"copy to src", "rename", "rename Fortran", "copy modified", "link"} =>
    \A f \in File : srcTmp[f] = Renamed(f, PassesOver(f))

(* The loops visit the files they should.                                  *)
Visits ==
  /\ pc \in {"rename", "rename Fortran", "copy modified"} => todo \subseteq Upstream
  /\ pc = "link" => todo \subseteq DOMAIN ext

(* The files of the clone that the copy has visited are in src.            *)
Copied ==
  pc = "copy modified" =>
    \A f \in Upstream \ todo : DirOf[f] \in dirs => src[f] = Renamed(f, 2)

(* All of them are, but for the links made over them.                      *)
Linked ==
  pc = "link" =>
    \A f \in File : DirOf[f] \in dirs =>
      /\ f \in DOMAIN ext \ todo => src[f] = Link
      /\ f \in Upstream \ DOMAIN ext => src[f] = Renamed(f, 2)

IInv ==
  /\ Types /\ ExtensionIsKept /\ RenamedOnce
  /\ Processed /\ Visits /\ Copied /\ Linked /\ SrcIsOverlay

------------------------------------------------------------------------------
(* A link is not the content of a file.                                    *)
LEMMA LinkIsNoContent == Link \notin Content
<1>1. SUFFICES ASSUME Link \in Content PROVE FALSE
  OBVIOUS
<1>2. DOMAIN Link = {"version", "passes"}
  BY <1>1 DEF Content
<1>3. DOMAIN Link = {"link"}
  BY DEF Link
<1> QED
  BY <1>2, <1>3

(* Contents of the files, and which of them are alike.                     *)
LEMMA Contents ==
  ASSUME clone \in Tree \cup {NoTree}, NEW f \in File
  PROVE  /\ Absent \in Content /\ Mine \in Content
         /\ \A n \in Nat : Renamed(f, n) \in Content
         /\ \A n \in Nat : Renamed(f, n) # Absent <=> f \in Upstream
         /\ Renamed(f, 0) = Unprocessed[f]
         /\ f \in Upstream => Renamed(f, 2) # Mine
<1>1. Absent \in Content /\ Mine \in Content
  BY DEF Absent, Mine, Content
<1>2. CASE f \in Upstream
  <2>1. clone \in [File -> Nat]
    BY <1>2, TreeAssumption DEF Upstream
  <2>2. clone[f] \in Nat \ {0}
    BY <2>1, <1>2 DEF Upstream
  <2>3. \A n \in Nat : Renamed(f, n) \in Content /\ Renamed(f, n) # Absent
    BY <2>2, <1>2 DEF Renamed, Content, Absent
  <2>4. Renamed(f, 0) = Unprocessed[f]
    BY <1>2 DEF Renamed, Unprocessed, Upstream
  <2>5. Renamed(f, 2) # Mine
    BY <2>2, <1>2 DEF Renamed, Mine
  <2> QED
    BY <1>1, <1>2, <2>3, <2>4, <2>5
<1>3. CASE f \notin Upstream
  <2>1. Unprocessed[f] = Absent
    BY <1>3 DEF Unprocessed, Upstream, Absent
  <2> QED
    BY <1>1, <1>3, <2>1 DEF Renamed
<1> QED
  BY <1>2, <1>3

(* What is seen of a file that is as it should be is the file itself.      *)
LEMMA SeenIsCopied ==
  ASSUME IInv, NEW f \in Upstream, Seen(f) = Renamed(f, 2)
  PROVE  src[f] = Renamed(f, 2)
<1>1. f \in File /\ Renamed(f, 2) # Absent /\ Renamed(f, 2) # Mine
  BY Contents DEF Upstream, IInv, Types, TypeOK
<1> QED
  BY <1>1 DEF Seen, IInv, ExtensionIsKept

LEMMA Initial == Init => IInv
<1>1. SUFFICES ASSUME Init PROVE IInv
  OBVIOUS
<1>2. Absent \in Content /\ Mine \in Content /\ Absent.passes <= Passes
  BY DEF Absent, Mine, Content, Passes
<1>3. Types
  <2>1. src \in [File -> Content \cup {Link}] /\ srcTmp \in [File -> Content]
    BY <1>1, <1>2 DEF Init
  <2>2. DOMAIN ext \subseteq Ext /\ \A f \in DOMAIN ext : ext[f] \in Content
    BY <1>1, <1>2 DEF Init
  <2>3. \A f \in File : src[f] \in Content
    BY <1>1, <1>2 DEF Init
  <2>4. dirs \subseteq DirsOf(File)
    BY <1>1 DEF Init
  <2>5. runs \in 0 .. MaxRuns
    BY <1>1, MaxRunsAssumption DEF Init
  <2> QED
    BY <1>1, <2>1, <2>2, <2>3, <2>4, <2>5 DEF Init, Types, TypeOK
<1>4. ExtensionIsKept /\ RenamedOnce
  BY <1>1, <1>2 DEF Init, ExtensionIsKept, RenamedOnce
<1> QED
  BY <1>1, <1>3, <1>4
     DEF Init, IInv, Processed, Visits, Copied, Linked, SrcIsOverlay

(* Between two runs.                                                       *)
LEMMA BetweenRuns ==
  ASSUME IInv, Publish \/ Develop \/ Fetch
  PROVE  IInv'
<1>1. CASE Publish
  <2>1. Types'
    BY <1>1 DEF Publish, IInv, Types, TypeOK
  <2>2. ExtensionIsKept' /\ RenamedOnce'
    BY <1>1 DEF Publish, IInv, ExtensionIsKept, RenamedOnce
  <2>3. SrcIsOverlay'
    BY <1>1 DEF Publish, IInv, SrcIsOverlay
  <2> QED
    BY <1>1, <2>1, <2>2, <2>3 DEF Publish, IInv, Processed, Visits, Copied, Linked
<1>2. CASE Develop
  <2>1. PICK f \in Ext :
          ext' = IF f \in DOMAIN ext THEN [k \in DOMAIN ext \ {f} |-> ext[k]]
                 ELSE [k \in DOMAIN ext \cup {f} |-> IF k = f THEN Mine ELSE ext[k]]
    BY <1>2 DEF Develop
  <2>2. ExtensionIsKept'
    BY <2>1 DEF IInv, ExtensionIsKept
  <2>3. DOMAIN ext' \subseteq Ext /\ \A k \in DOMAIN ext' : ext'[k] \in Content
    BY <2>1, <2>2 DEF IInv, Types, TypeOK, ExtensionIsKept, Mine, Content
  <2>4. Types'
    BY <1>2, <2>3 DEF Develop, IInv, Types, TypeOK
  <2>5. RenamedOnce'
    BY <1>2 DEF Develop, IInv, RenamedOnce
  <2> QED
    BY <1>2, <2>2, <2>4, <2>5
       DEF Develop, IInv, Processed, Visits, Copied, Linked, SrcIsOverlay
<1>3. CASE Fetch
  <2>1. runs' \in 0 .. MaxRuns
    <3>1. runs \in 0 .. MaxRuns /\ runs < MaxRuns /\ runs' = runs + 1
      BY <1>3 DEF Fetch, IInv, Types, TypeOK
    <3> QED
      BY <3>1, MaxRunsAssumption
  <2>2. clone' \in Tree \cup {NoTree}
    BY <1>3 DEF Fetch, IInv, Types, TypeOK
  <2>3. Types'
    BY <1>3, <2>1, <2>2 DEF Fetch, IInv, Types, TypeOK
  <2>4. ExtensionIsKept' /\ RenamedOnce'
    BY <1>3 DEF Fetch, IInv, ExtensionIsKept, RenamedOnce
  <2> QED
    BY <1>3, <2>3, <2>4
       DEF Fetch, IInv, Processed, Visits, Copied, Linked, SrcIsOverlay
<1> QED
  BY <1>1, <1>2, <1>3

(* src_tmp is made, and src from it.                                       *)
LEMMA Copies ==
  ASSUME IInv, CopyToTmp \/ CopyToSrc \/ CutCopyToSrc
  PROVE  IInv'
<1> USE DEF IInv, Types
<1>0. \A f \in File : Absent \in Content /\ Renamed(f, 0) \in Content
                      /\ Renamed(f, 0) = Unprocessed[f]
  BY Contents DEF TypeOK
<1>1. CASE CopyToTmp
  <2>1. srcTmp' \in [File -> Content]
    BY <1>0, <1>1 DEF CopyToTmp, Unprocessed
  <2>2. Types'
    BY <1>1, <2>1 DEF CopyToTmp, TypeOK
  <2>3. ExtensionIsKept' /\ RenamedOnce'
    BY <1>1 DEF CopyToTmp, ExtensionIsKept, RenamedOnce
  <2>4. Processed'
    <3>1. \A f \in File : Renamed(f, 0)' = Renamed(f, 0)
      BY <1>1 DEF CopyToTmp, Renamed, Upstream
    <3>2. \A f \in File : PassesOver(f)' = 0
      BY <1>1 DEF CopyToTmp, PassesOver
    <3>3. \A f \in File : srcTmp'[f] = Renamed(f, 0)'
      BY <1>0, <1>1, <3>1 DEF CopyToTmp
    <3> QED
      BY <3>2, <3>3 DEF Processed, Renamed
  <2> QED
    BY <1>1, <2>2, <2>3, <2>4 DEF CopyToTmp, Visits, Copied, Linked, SrcIsOverlay
<1>2. ASSUME CopyToSrc \/ CutCopyToSrc
      PROVE  /\ \A f \in File : srcTmp[f] = Renamed(f, 0)
             /\ \A f \in File : srcTmp[f] = Absent \/ srcTmp[f].passes = 0
             /\ Present(srcTmp) \subseteq Upstream
  <2>1. \A f \in File : srcTmp[f] = Renamed(f, 0)
    BY <1>2 DEF CopyToSrc, CutCopyToSrc, Processed, PassesOver
  <2>2. \A f \in File : srcTmp[f] # Absent => f \in Upstream
    BY <2>1, Contents DEF TypeOK
  <2>3. ASSUME NEW f \in File PROVE srcTmp[f] = Absent \/ srcTmp[f].passes = 0
    <3>1. srcTmp[f] = Renamed(f, 0)
      BY <2>1
    <3>2. CASE f \in Upstream
      <4>1. srcTmp[f] = [version |-> clone[f], passes |-> 0]
        BY <3>1, <3>2 DEF Renamed
      <4> QED
        BY <4>1
    <3>3. CASE f \notin Upstream
      BY <3>1, <3>3 DEF Renamed
    <3> QED
      BY <3>2, <3>3
  <2>4. Present(srcTmp) \subseteq Upstream
    BY <2>2 DEF Present
  <2> QED
    BY <2>1, <2>3, <2>4
<1>3. Absent.passes = 0 /\ Passes = 2
  BY DEF Absent, Passes
<1>4. CASE CopyToSrc
  <2>1. src' \in [File -> Content \cup {Link}] /\ dirs' \subseteq DirsOf(File)
    <3>1. CASE made
      BY <1>4, <3>1 DEF CopyToSrc, TypeOK
    <3>2. CASE ~made
      <4>1. src' = srcTmp /\ dirs' = DirsOf(Present(srcTmp))
        BY <1>4, <3>2 DEF CopyToSrc
      <4> QED
        BY <4>1 DEF TypeOK, DirsOf, Present
    <3> QED
      BY <3>1, <3>2
  <2>2. \A f \in File : src'[f] \in Content \/ (src'[f] = Link /\ f \in Ext)
    BY <1>4 DEF CopyToSrc, TypeOK
  <2>3. Types'
    BY <1>4, <2>1, <2>2 DEF CopyToSrc, TypeOK, Present
  <2>4. ExtensionIsKept'
    BY <1>4 DEF CopyToSrc, ExtensionIsKept
  <2>5. RenamedOnce'
    <3>1. CASE made
      BY <1>4, <3>1 DEF CopyToSrc, RenamedOnce
    <3>2. CASE ~made
      <4>1. src' = srcTmp
        BY <1>4, <3>2 DEF CopyToSrc
      <4>2. \A f \in File : src'[f].passes <= 2
        BY <1>2, <1>3, <1>4, <4>1
      <4> QED
        BY <1>3, <4>2 DEF RenamedOnce
    <3> QED
      BY <3>1, <3>2
  <2>6. Processed'
    <3>1. \A f \in File : f \notin Present(srcTmp) => srcTmp[f] = Absent
      BY DEF Present
    <3>2. \A f \in File : f \in Upstream => f \in Present(srcTmp)
      BY <1>2, <1>4, Contents DEF TypeOK, Present
    <3>3. \A f \in File : srcTmp'[f] = Renamed(f, PassesOver(f))'
      BY <1>2, <1>4, <3>1, <3>2 DEF CopyToSrc, Renamed, PassesOver, Upstream
    <3> QED
      BY <3>3 DEF Processed
  <2>7. Visits'
    BY <1>2, <1>4 DEF CopyToSrc, Visits, Upstream
  <2> QED
    BY <1>4, <2>3, <2>4, <2>5, <2>6, <2>7 DEF CopyToSrc, Copied, Linked, SrcIsOverlay
<1>5. CASE CutCopyToSrc
  <2>1. src' = [f \in File |-> IF DirOf[f] \in dirs' THEN srcTmp[f] ELSE Absent]
    BY <1>5 DEF CutCopyToSrc
  <2>2. \A f \in File : src'[f] \in Content /\ (src'[f] = Absent \/ src'[f].passes = 0)
    BY <1>0, <1>2, <1>5, <2>1 DEF TypeOK
  <2>3. dirs' \subseteq DirsOf(File)
    BY <1>5 DEF CutCopyToSrc, DirsOf, Present
  <2>4. Types'
    BY <1>5, <2>1, <2>2, <2>3 DEF CutCopyToSrc, TypeOK
  <2>5. \A f \in File : src'[f].passes <= 2
    BY <1>3, <2>2
  <2>6. RenamedOnce'
    BY <1>3, <2>5 DEF RenamedOnce
  <2>7. ExtensionIsKept'
    BY <1>5 DEF CutCopyToSrc, ExtensionIsKept
  <2> QED
    BY <1>5, <2>4, <2>6, <2>7
       DEF CutCopyToSrc, Processed, Visits, Copied, Linked, SrcIsOverlay
<1> QED
  BY <1>1, <1>4, <1>5

(* The renaming of one file.                                               *)
LEMMA Renames ==
  ASSUME IInv, NEW g \in File, Rename(g) \/ RenameFortran(g)
  PROVE  IInv'
<1> USE DEF IInv, Types
<1>1. /\ pc \in {"rename", "rename Fortran"} /\ g \in todo
      /\ srcTmp' = [srcTmp EXCEPT ![g].passes = @ + 1]
      /\ todo' = todo \ {g}
      /\ UNCHANGED <<origin, clone, dirs, made, src, ext, pc, runs>>
  BY DEF Rename, RenameFortran, Pass
<1>2. g \in Upstream
  BY <1>1 DEF Visits
<1>3. srcTmp' \in [File -> Content]
  <2>1. srcTmp[g] \in Content
    BY DEF TypeOK
  <2>2. [srcTmp[g] EXCEPT !.passes = @ + 1] \in Content
    BY <2>1 DEF Content
  <2> QED
    BY <1>1, <2>2 DEF TypeOK
<1>4. Types'
  BY <1>1, <1>3 DEF TypeOK
<1>5. Processed'
  <2>1. ASSUME NEW f \in File PROVE srcTmp'[f] = Renamed(f, PassesOver(f))'
    <3>1. srcTmp[f] = Renamed(f, PassesOver(f))
      BY <1>1 DEF Processed
    <3>2. CASE f = g
      <4>1. PassesOver(f) \in Nat /\ PassesOver(f)' = PassesOver(f) + 1
        <5>1. f \in todo /\ f \notin todo' /\ pc' = pc
          BY <1>1, <3>2
        <5>2. CASE pc = "rename"
          <6>1. PassesOver(f) = 0 /\ PassesOver(f)' = 1
            BY <5>1, <5>2 DEF PassesOver
          <6> QED
            BY <6>1
        <5>3. CASE pc = "rename Fortran"
          <6>1. PassesOver(f) = 1 /\ PassesOver(f)' = 2
            BY <5>1, <5>3 DEF PassesOver
          <6> QED
            BY <6>1
        <5> QED
          BY <1>1, <5>2, <5>3
      <4>2. srcTmp[g] = [version |-> clone[g], passes |-> PassesOver(f)]
        BY <1>2, <3>1, <3>2 DEF Renamed
      <4>3. srcTmp'[g] = [srcTmp[g] EXCEPT !.passes = @ + 1]
        BY <1>1 DEF TypeOK
      <4>4. srcTmp'[g] = [version |-> clone[g], passes |-> PassesOver(f) + 1]
        BY <4>2, <4>3
      <4>5. Renamed(f, PassesOver(f))' = [version |-> clone[g], passes |-> PassesOver(f)']
        BY <1>1, <1>2, <3>2 DEF Renamed, Upstream
      <4> QED
        BY <3>2, <4>1, <4>4, <4>5
    <3>3. CASE f # g
      <4>1. PassesOver(f)' = PassesOver(f) /\ srcTmp'[f] = srcTmp[f]
        BY <1>1, <3>3 DEF PassesOver, TypeOK
      <4> QED
        BY <1>1, <3>1, <4>1 DEF Renamed, Upstream
    <3> QED
      BY <3>2, <3>3
  <2> QED
    BY <2>1 DEF Processed
<1>6. ExtensionIsKept' /\ RenamedOnce' /\ Visits'
  BY <1>1 DEF ExtensionIsKept, RenamedOnce, Visits, Upstream
<1> QED
  BY <1>1, <1>4, <1>5, <1>6 DEF Copied, Linked, SrcIsOverlay

(* From one loop to the next.                                              *)
LEMMA Loops ==
  ASSUME IInv, NextLoop
  PROVE  IInv'
<1> USE DEF IInv, Types
<1>1. /\ todo = {}
      /\ UNCHANGED <<origin, clone, srcTmp, dirs, made, src, ext, runs>>
      /\ \/ pc = "rename" /\ pc' = "rename Fortran" /\ todo' = Present(srcTmp)
         \/ pc = "rename Fortran" /\ pc' = "copy modified" /\ todo' = Present(srcTmp)
         \/ pc = "copy modified" /\ pc' = "link" /\ todo' = DOMAIN ext
  BY DEF NextLoop, Loop
<1>2. pc \in {"rename", "rename Fortran"} => Present(srcTmp) = Upstream
  <2>1. SUFFICES ASSUME pc \in {"rename", "rename Fortran"}, NEW f \in File
                 PROVE  srcTmp[f] # Absent <=> f \in Upstream
    BY DEF Present, Upstream
  <2>2. srcTmp[f] = Renamed(f, PassesOver(f)) /\ PassesOver(f) \in Nat
    BY <2>1 DEF Processed, PassesOver
  <2> QED
    BY <2>2, Contents DEF TypeOK
<1>3. Upstream' = Upstream
  BY <1>1 DEF Upstream
<1>4. Types'
  BY <1>1, ExtAssumption DEF TypeOK, Present
<1>5. ASSUME NEW f \in File, pc \in {"rename", "rename Fortran", "copy modified"}
      PROVE  srcTmp'[f] = Renamed(f, PassesOver(f))'
  <2>1. srcTmp'[f] = Renamed(f, PassesOver(f))
    BY <1>1, <1>5 DEF Processed
  <2>2. CASE f \in Upstream
    <3>1. PassesOver(f)' = PassesOver(f)
      BY <1>1, <1>2, <2>2 DEF PassesOver
    <3> QED
      BY <1>1, <2>1, <3>1 DEF Renamed, Upstream
  <2>3. CASE f \notin Upstream
    BY <1>3, <2>1, <2>3 DEF Renamed
  <2> QED
    BY <2>2, <2>3
<1>6. Processed'
  BY <1>1, <1>5 DEF Processed
<1>7. ExtensionIsKept' /\ RenamedOnce'
  BY <1>1 DEF ExtensionIsKept, RenamedOnce
<1>8. Visits'
  BY <1>1, <1>2, <1>3 DEF Visits
<1>9. Copied'
  BY <1>1, <1>2, <1>3 DEF Copied
<1>10. Linked'
  <2>1. SUFFICES ASSUME pc' = "link" PROVE Linked'
    BY DEF Linked
  <2>2. pc = "copy modified" /\ todo' = DOMAIN ext /\ todo = {}
    BY <1>1, <2>1
  <2>3. \A f \in Upstream : DirOf[f] \in dirs => src[f] = Renamed(f, 2)
    BY <2>2 DEF Copied
  <2> QED
    BY <1>1, <1>3, <2>2, <2>3 DEF Linked, Renamed
<1> QED
  BY <1>1, <1>4, <1>6, <1>7, <1>8, <1>9, <1>10 DEF SrcIsOverlay

(* A modified file is copied, or the copy is cut short.                    *)
LEMMA Modifies ==
  ASSUME IInv, NEW g \in File, CopyModified(g) \/ CutCopyModified(g)
  PROVE  IInv'
<1> USE DEF IInv, Types
<1>1. /\ pc = "copy modified" /\ g \in todo
      /\ UNCHANGED <<origin, clone, srcTmp, dirs, made, ext, runs>>
  BY DEF CopyModified, CutCopyModified
<1>2. /\ g \in Upstream /\ srcTmp[g] = Renamed(g, 2)
      /\ Absent \in Content /\ Renamed(g, 2) \in Content
  BY <1>1, Contents DEF Processed, Visits, PassesOver, TypeOK
<1>3. Renamed(g, 2).passes = 2 /\ Absent.passes = 0 /\ Passes = 2
  <2>1. Renamed(g, 2) = [version |-> clone[g], passes |-> 2]
    BY <1>2 DEF Renamed
  <2> QED
    BY <2>1 DEF Absent, Passes
<1>4. ASSUME NEW c \in {Absent, Renamed(g, 2)}, src' = [src EXCEPT ![g] = c]
      PROVE  Types' /\ RenamedOnce'
  <2>1. src' \in [File -> Content \cup {Link}]
    BY <1>2, <1>4
  <2>2. \A f \in File : src'[f] = IF f = g THEN c ELSE src[f]
    BY <1>4
  <2>3. c \in Content /\ c.passes <= Passes
    BY <1>2, <1>3, <1>4
  <2>4. \A f \in File : src'[f] \in Content \/ (src'[f] = Link /\ f \in Ext)
    BY <2>2, <2>3 DEF TypeOK
  <2>5. todo' \subseteq File /\ pc' \in {"copy modified", "idle"}
    BY <1>1 DEF CopyModified, CutCopyModified, TypeOK
  <2>6. RenamedOnce'
    BY <2>2, <2>3 DEF RenamedOnce
  <2> QED
    BY <1>1, <2>1, <2>4, <2>5, <2>6 DEF TypeOK
<1>5. ExtensionIsKept'
  BY <1>1 DEF ExtensionIsKept
<1>6. CASE CopyModified(g)
  <2>1. /\ pc' = pc /\ todo' = todo \ {g}
        /\ src' = IF Seen(g) = srcTmp[g] THEN src
                  ELSE [src EXCEPT ![g] = IF DirOf[g] \in dirs THEN srcTmp[g] ELSE Absent]
    BY <1>6 DEF CopyModified
  <2>2. Types' /\ RenamedOnce'
    <3>1. CASE src' = src
      BY <1>1, <2>1, <3>1 DEF TypeOK, RenamedOnce
    <3>2. CASE src' # src
      BY <1>2, <1>4, <2>1, <3>2
    <3> QED
      BY <3>1, <3>2
  <2>3. Processed'
    <3>1. ASSUME NEW f \in File PROVE srcTmp'[f] = Renamed(f, PassesOver(f))'
      <4>1. srcTmp[f] = Renamed(f, PassesOver(f)) /\ PassesOver(f)' = PassesOver(f)
        BY <1>1, <2>1 DEF Processed, PassesOver
      <4> QED
        BY <1>1, <4>1 DEF Renamed, Upstream
    <3> QED
      BY <3>1 DEF Processed
  <2>4. Copied'
    <3>1. SUFFICES ASSUME NEW f \in Upstream, f \notin todo', DirOf[f] \in dirs
                   PROVE  src'[f] = Renamed(f, 2)
      BY <1>1 DEF Copied, Upstream, Renamed
    <3>2. CASE f = g
      <4>1. CASE Seen(g) = srcTmp[g]
        BY <1>2, <2>1, <3>2, <4>1, SeenIsCopied
      <4>2. CASE Seen(g) # srcTmp[g]
        BY <1>2, <2>1, <3>1, <3>2, <4>2
      <4> QED
        BY <4>1, <4>2
    <3>3. CASE f # g
      <4>1. src'[f] = src[f]
        BY <2>1, <3>3 DEF Upstream
      <4> QED
        BY <1>1, <2>1, <3>1, <3>3, <4>1 DEF Copied
    <3> QED
      BY <3>2, <3>3
  <2>5. Visits'
    BY <1>1, <2>1 DEF Visits, Upstream
  <2> QED
    BY <1>1, <1>5, <2>1, <2>2, <2>3, <2>4, <2>5 DEF Linked, SrcIsOverlay
<1>7. CASE CutCopyModified(g)
  <2>1. pc' = "idle" /\ src' = [src EXCEPT ![g] = Absent]
    BY <1>7 DEF CutCopyModified
  <2>2. Types' /\ RenamedOnce'
    BY <1>4, <2>1
  <2> QED
    BY <1>5, <2>1, <2>2 DEF Processed, Visits, Copied, Linked, SrcIsOverlay
<1> QED
  BY <1>6, <1>7

(* A file of extension/ is linked.                                         *)
LEMMA Links ==
  ASSUME IInv, NEW g \in File, LinkExtension(g)
  PROVE  IInv'
<1> USE DEF IInv, Types
<1>1. /\ pc = "link" /\ pc' = pc /\ g \in todo /\ todo' = todo \ {g}
      /\ src' = [src EXCEPT ![g] = IF DirOf[g] \in dirs THEN Link ELSE @]
      /\ UNCHANGED <<origin, clone, srcTmp, dirs, made, ext, runs>>
  BY DEF LinkExtension
<1>2. g \in DOMAIN ext /\ g \in Ext
  BY <1>1 DEF Visits, TypeOK
<1>3. \A f \in File : src'[f] = IF f = g /\ DirOf[g] \in dirs THEN Link ELSE src[f]
  BY <1>1
<1>4. Types'
  <2>1. src' \in [File -> Content \cup {Link}]
    BY <1>1
  <2>2. \A f \in File : src'[f] \in Content \/ (src'[f] = Link /\ f \in Ext)
    BY <1>2, <1>3 DEF TypeOK
  <2> QED
    BY <1>1, <2>1, <2>2 DEF TypeOK
<1>5. ExtensionIsKept' /\ RenamedOnce' /\ Visits'
  BY <1>1, <1>3 DEF ExtensionIsKept, RenamedOnce, Visits
<1>6. Processed'
  <2>1. ASSUME NEW f \in File PROVE srcTmp'[f] = Renamed(f, PassesOver(f))'
    <3>1. srcTmp[f] = Renamed(f, PassesOver(f)) /\ PassesOver(f)' = PassesOver(f)
      BY <1>1 DEF Processed, PassesOver
    <3> QED
      BY <1>1, <3>1 DEF Renamed, Upstream
  <2> QED
    BY <2>1 DEF Processed
<1>7. Linked'
  <2>1. \A f \in File : Renamed(f, 2)' = Renamed(f, 2) /\ (f \in Upstream)' = (f \in Upstream)
    BY <1>1 DEF Renamed, Upstream
  <2>2. ASSUME NEW f \in File, DirOf[f] \in dirs
        PROVE  /\ f \in DOMAIN ext \ todo' => src'[f] = Link
               /\ f \in Upstream \ DOMAIN ext => src'[f] = Renamed(f, 2)
    BY <1>1, <1>2, <1>3, <2>2 DEF Linked
  <2> QED
    BY <1>1, <2>1, <2>2 DEF Linked
<1> QED
  BY <1>1, <1>4, <1>5, <1>6, <1>7 DEF Copied, SrcIsOverlay

(* The run ends, or is interrupted.                                        *)
LEMMA Ends ==
  ASSUME IInv, Clean \/ Interrupt
  PROVE  IInv'
<1> USE DEF IInv, Types
<1>1. CASE Clean
  <2>1. srcTmp' \in [File -> Content]
    BY <1>1, Contents DEF Clean, TypeOK
  <2>2. Types' /\ ExtensionIsKept' /\ RenamedOnce'
    BY <1>1, <2>1 DEF Clean, TypeOK, ExtensionIsKept, RenamedOnce
  <2>3. SrcIsOverlay'
    <3>1. SUFFICES ASSUME NEW f \in File, DirOf[f] \in dirs
                   PROVE  IF f \in DOMAIN ext THEN src[f] = Link
                          ELSE clone # NoTree /\ clone[f] # 0 =>
                                 src[f] = [version |-> clone[f], passes |-> Passes]
      BY <1>1 DEF Clean, SrcIsOverlay
    <3>2. pc = "link" /\ todo = {}
      BY <1>1 DEF Clean
    <3>3. CASE f \in DOMAIN ext
      BY <3>1, <3>2, <3>3 DEF Linked
    <3>4. CASE f \notin DOMAIN ext
      <4>1. f \in Upstream => src[f] = Renamed(f, 2)
        BY <3>1, <3>2, <3>4 DEF Linked
      <4> QED
        BY <3>4, <4>1 DEF Renamed, Upstream, Passes
    <3> QED
      BY <3>3, <3>4
  <2> QED
    BY <1>1, <2>2, <2>3 DEF Clean, Processed, Visits, Copied, Linked
<1>2. CASE Interrupt
  <2>1. Types' /\ ExtensionIsKept' /\ RenamedOnce'
    BY <1>2 DEF Interrupt, TypeOK, ExtensionIsKept, RenamedOnce
  <2> QED
    BY <1>2, <2>1 DEF Interrupt, Processed, Visits, Copied, Linked, SrcIsOverlay
<1> QED
  BY <1>1, <1>2

LEMMA Preserved == IInv /\ [Next]_vars => IInv'
<1>1. ASSUME IInv, Next PROVE IInv'
  <2>1. ASSUME NEW f \in File, Rename(f) \/ RenameFortran(f) PROVE IInv'
    BY <1>1, <2>1, Renames
  <2>2. ASSUME NEW f \in File, CopyModified(f) \/ CutCopyModified(f) PROVE IInv'
    BY <1>1, <2>2, Modifies
  <2>3. ASSUME NEW f \in File, LinkExtension(f) PROVE IInv'
    BY <1>1, <2>3, Links
  <2> QED
    BY <1>1, <2>1, <2>2, <2>3, BetweenRuns, Copies, Loops, Ends DEF Next
<1>2. ASSUME IInv, UNCHANGED vars PROVE IInv'
  BY <1>2 DEF vars, IInv, Types, TypeOK, ExtensionIsKept, RenamedOnce, Processed,
              Visits, Copied, Linked, SrcIsOverlay, Renamed, PassesOver, Upstream
<1> QED
  BY <1>1, <1>2

------------------------------------------------------------------------------
(* The conjunction above holds throughout.                                 *)
THEOREM Invariance == Spec => []IInv
  BY Initial, Preserved, PTL DEF Spec

(* Every variable of the script keeps its type; src has links for files of *)
(* extension/ only (ecmwf.sh:113-121).                                     *)
THEOREM TypeCorrect == Spec => []TypeOK
<1>1. IInv => TypeOK
  BY DEF IInv, Types
<1> QED
  BY <1>1, Invariance, PTL

(* extension/ is never written, whatever src links to it                   *)
(* (ecmwf.sh:103-111).                                                     *)
THEOREM ExtensionIsNotWritten == Spec => []ExtensionIsKept
<1>1. IInv => ExtensionIsKept
  BY DEF IInv
<1> QED
  BY <1>1, Invariance, PTL

(* No file of src has been renamed twice, however the runs before were cut *)
(* short (ecmwf.sh:33-101).                                                *)
THEOREM NothingRenamedTwice == Spec => []RenamedOnce
<1>1. IInv => RenamedOnce
  BY DEF IInv
<1> QED
  BY <1>1, Invariance, PTL

(* A run that ends leaves the extension over the sources of the clone, in  *)
(* the directories that src has (ecmwf.sh:103-124).                        *)
THEOREM RunsMakeTheOverlay == Spec => []SrcIsOverlay
<1>1. IInv => SrcIsOverlay
  BY DEF IInv
<1> QED
  BY <1>1, Invariance, PTL
=============================================================================
