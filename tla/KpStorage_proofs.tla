--------------------------- MODULE KpStorage_proofs ---------------------------
(***************************************************************************)
(* Proofs about one safe file, for any number of saves and reads at a      *)
(* time, any sizes and any failures.                                       *)
(***************************************************************************)
EXTENDS KpStorage, TLAPS

Places == {"idle", "opened", "truncated", "encrypted", "header", "ok", "failed", "crashed"}
ReadState == [pc : {"idle", "opened", "header", "ok", "failed"},
              header : Writers \cup {None, Zeros}, floor : SUBSET Saves]

-----------------------------------------------------------------------------
(* Types                                                                    *)

BodyOK == body \in Seq(Writers \cup {Zeros}) /\ \E w \in Writers : Len(body) <= Size[w]

\* An overwritten file is as long as the longer of the two.
LEMMA OverwrittenType ==
  ASSUME BodyOK, NEW w \in Writers, NEW n \in 0..Size[w], body' = Overwritten(w, n)
  PROVE  BodyOK'
<1>1. Size[w] \in Nat /\ n \in Nat /\ n <= Size[w]
  BY SizeAssumption DEF Writers
<1>2. PICK v \in Writers : Len(body) <= Size[v]
  BY DEF BodyOK
<1> DEFINE m == IF n > Len(body) THEN n ELSE Len(body)
<1>3. body \in Seq(Writers \cup {Zeros}) /\ Len(body) \in Nat
  BY DEF BodyOK
<1>4. m \in Nat /\ body' = [i \in 1..m |-> IF i <= n THEN w ELSE body[i]]
  BY <1>1, <1>3 DEF Overwritten
<1>5. \A i \in 1..m : (IF i <= n THEN w ELSE body[i]) \in Writers \cup {Zeros}
  BY <1>1, <1>3
<1> HIDE DEF m
<1>6. body' \in Seq(Writers \cup {Zeros}) /\ Len(body') = m
  BY <1>4, <1>5
<1>7. \E u \in Writers : m <= Size[u]
  BY <1>1, <1>2 DEF m
<1> QED
  BY <1>6, <1>7 DEF BodyOK

\* Every step keeps the types.
LEMMA StorageTypeStep ==
  ASSUME StorageTypeOK, [StorageNext]_storageVars
  PROVE  StorageTypeOK'
<1> USE DEF Reach
<1>1. ASSUME NEW w \in Saves, Save(w)
      PROVE  StorageTypeOK'
  <2>1. save' \in [Saves -> Places] /\ UNCHANGED read
    <3>1. \E l \in Places : save' = [save EXCEPT ![w] = l]
      BY <1>1 DEF Save, OpenForSave, Truncate, Encrypt, WriteHeader, WriteBody, Crash, Places
    <3>2. UNCHANGED read
      BY <1>1 DEF Save, OpenForSave, Truncate, Encrypt, WriteHeader, WriteBody, Crash
    <3> QED
      BY <3>1, <3>2 DEF StorageTypeOK, Places
  <2>2. before' \in [Saves -> SUBSET (Saves \cup {Old})]
    BY <1>1
    DEF Save, OpenForSave, Truncate, Encrypt, WriteHeader, WriteBody, Crash, StorageTypeOK, Ended
  <2>3. exists' \in BOOLEAN
    BY <1>1
    DEF Save, OpenForSave, Truncate, Encrypt, WriteHeader, WriteBody, Crash, StorageTypeOK, fileVars
  <2>4. header' \in Writers \cup {None, Zeros}
    BY <1>1
    DEF Save, OpenForSave, Truncate, Encrypt, WriteHeader, WriteBody, Crash, StorageTypeOK, fileVars,
        Writers
  <2>5. BodyOK'
    <3>1. CASE WriteBody(w)
      BY <3>1, OverwrittenType DEF WriteBody, StorageTypeOK, BodyOK, Writers
    <3>2. CASE body' = <<>>
      <4>1. Len(body') = 0 /\ body' \in Seq(Writers \cup {Zeros}) /\ Size[Old] \in Nat
        BY <3>2, SizeAssumption
      <4> QED
        BY <4>1 DEF BodyOK, Writers
    <3>3. CASE UNCHANGED body
      BY <3>3 DEF StorageTypeOK, BodyOK
    <3> QED
      BY <1>1, <3>1, <3>2, <3>3
      DEF Save, OpenForSave, Truncate, Encrypt, WriteHeader, Crash, fileVars
  <2> QED
    BY <2>1, <2>2, <2>3, <2>4, <2>5 DEF StorageTypeOK, BodyOK, Places
<1>2. ASSUME NEW r \in Reads, Read(r)
      PROVE  StorageTypeOK'
  <2>1. UNCHANGED <<fileVars, save, before>>
    BY <1>2 DEF Read, OpenForRead, ReadHeader, ReadBody
  <2>2. read' \in [Reads -> ReadState]
    <3>1. read \in [Reads -> ReadState] /\ header \in Writers \cup {None, Zeros}
      BY DEF StorageTypeOK, ReadState
    <3>2. CASE OpenForRead(r)
      <4> DEFINE floor == {w \in Saves : save[w] = "ok"}
      <4>1. \E pc \in {"opened", "failed"} : read' = [read EXCEPT ![r].pc = pc, ![r].floor = floor]
        BY <3>2 DEF OpenForRead, Outcomes
      <4>2. floor \in SUBSET Saves
        OBVIOUS
      <4> HIDE DEF floor
      <4>3. PICK pc \in {"opened", "failed"} :
              read' = [read EXCEPT ![r].pc = pc, ![r].floor = floor]
        BY <4>1
      <4>4. read[r] \in ReadState
        BY <3>1
      <4>5. [[read[r] EXCEPT !.pc = pc] EXCEPT !.floor = floor] \in ReadState
        BY <4>2, <4>4 DEF ReadState
      <4>6. read' = [read EXCEPT ![r] = [[read[r] EXCEPT !.pc = pc] EXCEPT !.floor = floor]]
        BY <3>1, <4>3
      <4> QED
        BY <3>1, <4>5, <4>6
    <3>3. CASE ReadHeader(r)
      <4>1. \E pc \in {"header", "failed"} : read' = [read EXCEPT ![r].pc = pc, ![r].header = header]
        BY <3>3 DEF ReadHeader, Outcomes
      <4>2. PICK pc \in {"header", "failed"} :
              read' = [read EXCEPT ![r].pc = pc, ![r].header = header]
        BY <4>1
      <4>3. read[r] \in ReadState
        BY <3>1
      <4>4. [[read[r] EXCEPT !.pc = pc] EXCEPT !.header = header] \in ReadState
        BY <3>1, <4>3 DEF ReadState
      <4>5. read' = [read EXCEPT ![r] = [[read[r] EXCEPT !.pc = pc] EXCEPT !.header = header]]
        BY <3>1, <4>2
      <4> QED
        BY <3>1, <4>4, <4>5
    <3>4. CASE ReadBody(r)
      BY <3>1, <3>4 DEF ReadBody, Outcomes, ReadState
    <3> QED
      BY <1>2, <3>2, <3>3, <3>4 DEF Read
  <2> QED
    BY <2>1, <2>2 DEF fileVars, StorageTypeOK, ReadState
<1>3. CASE UNCHANGED storageVars
  BY <1>3 DEF storageVars, fileVars, StorageTypeOK
<1> QED
  BY <1>1, <1>2, <1>3 DEF StorageNext

LEMMA StorageTypeInit == StorageInit => StorageTypeOK
<1> SUFFICES ASSUME StorageInit PROVE StorageTypeOK
  OBVIOUS
<1>1. Size[Old] \in Nat /\ Old \in Writers
  BY SizeAssumption DEF Writers
<1>2. BodyOK
  <2>1. CASE body = Blocks(Old, Size[Old])
    <3>1. body \in Seq(Writers \cup {Zeros}) /\ Len(body) = Size[Old]
      BY <1>1, <2>1 DEF Blocks
    <3> QED
      BY <1>1, <3>1 DEF BodyOK
  <2>2. CASE body = <<>>
    <3>1. body \in Seq(Writers \cup {Zeros}) /\ Len(body) = 0
      BY <2>2
    <3> QED
      BY <1>1, <3>1 DEF BodyOK
  <2> QED
    BY <2>1, <2>2 DEF StorageInit
<1>3. exists \in BOOLEAN /\ header \in Writers \cup {None, Zeros}
  BY <1>1 DEF StorageInit
<1>4. save \in [Saves -> Places] /\ before \in [Saves -> SUBSET (Saves \cup {Old})]
  BY DEF StorageInit, Places
<1>5. read \in [Reads -> ReadState]
  BY DEF StorageInit, ReadState
<1> QED
  BY <1>2, <1>3, <1>4, <1>5 DEF StorageTypeOK, BodyOK, Places, ReadState

\* The file and its users keep their types: a body is never longer than the longest
\* save there has been, however saves overlap and break off.
THEOREM StorageTypes == StorageSpec => []StorageTypeOK
BY StorageTypeInit, StorageTypeStep, PTL DEF StorageSpec
-----------------------------------------------------------------------------
(* What a save leaves of those before it                                    *)

\* The saves that had ended when one began have ended still.
BeforeEnded == \A w \in Saves : before[w] \subseteq Ended

\* From its ftruncate on, the file has no header of a save before w.  (Of blocks it may
\* have none either; the header is all that a reader needs.)
Replaced(w) ==
  save[w] \in {"truncated", "encrypted", "header", "ok"} => header \notin before[w]

\* As long as no other save has begun, the file is what w has made of it.
Alone(w) ==
  /\ save[w] \in {"truncated", "encrypted"} => header = None /\ body = <<>>
  /\ save[w] = "header" => header = w /\ body = <<>>
  /\ save[w] = "ok" => header = w /\ (body = <<>> \/ body = Blocks(w, Size[w]))

SaveInv ==
  /\ BeforeEnded
  /\ \A w \in Saves : Replaced(w)
  /\ \A w \in Saves : Newest(w) => Alone(w)

\* A save that has ended does nothing, and one goes on by itself.
LEMMA SaveGoesOn ==
  ASSUME StorageTypeOK, NEW w \in Saves, Save(w)
  PROVE  /\ save[w] \in {"idle"} \cup {"opened", "truncated", "encrypted", "header"}
         /\ save'[w] # "idle"
         /\ \A v \in Saves \ {w} : save'[v] = save[v]
         /\ save[w] # "idle" => before' = before
         /\ \A v \in Saves \ {w} : before'[v] = before[v]
         /\ before'[w] \in {before[w], Ended}
BY DEF Save, OpenForSave, Truncate, Encrypt, WriteHeader, WriteBody, Crash, Reach, StorageTypeOK,
       Active

\* No save undoes the end of another.
LEMMA EndedStays ==
  ASSUME StorageTypeOK, BeforeEnded, NEW w \in Saves, Save(w)
  PROVE  Ended \subseteq Ended' /\ BeforeEnded'
<1>1. Ended \subseteq Ended'
  BY SaveGoesOn DEF Ended
<1> QED
  BY <1>1, SaveGoesOn DEF BeforeEnded

\* A save that still runs, or only begins, is none of those before another.
LEMMA NotBefore ==
  ASSUME StorageTypeOK, BeforeEnded, NEW w \in Saves, NEW v \in Saves, Save(v)
  PROVE  v \notin before[w]
BY SaveGoesOn, OldAssumption DEF BeforeEnded, Ended

\* The header is the last one's that has written it, or none.
LEMMA ReplacedStep ==
  ASSUME StorageTypeOK, SaveInv, NEW v \in Saves, Save(v), NEW w \in Saves
  PROVE  Replaced(w)'
<1>1. None \notin before[w] /\ Zeros \notin before[w] /\ before[w] \subseteq Saves \cup {Old}
  BY MarkAssumption DEF StorageTypeOK
<1>2. header' \in {header, None, Zeros, v}
  BY DEF Save, OpenForSave, Truncate, Encrypt, WriteHeader, WriteBody, Crash, fileVars
<1>3. header' = header \/ header' \notin before[w]
  BY <1>1, <1>2, NotBefore DEF SaveInv
<1>4. CASE v # w
  BY <1>3, <1>4, SaveGoesOn DEF SaveInv, Replaced
<1>5. CASE v = w
  <2>1. CASE OpenForSave(w)
    BY <2>1 DEF OpenForSave, Reach, Replaced, StorageTypeOK
  <2>2. CASE Truncate(w)
    BY <1>1, <2>2 DEF Truncate, Reach, Replaced, StorageTypeOK
  <2>3. CASE Encrypt(w) \/ WriteHeader(w) \/ WriteBody(w) \/ Crash(w)
    <3>1. before' = before
      BY <2>3 DEF Encrypt, WriteHeader, WriteBody, Crash
    <3>2. save[w] \in {"truncated", "encrypted", "header"} \/ save'[w] = "crashed"
      BY <2>3 DEF Encrypt, WriteHeader, WriteBody, Crash, Reach, StorageTypeOK
    <3> QED
      BY <1>3, <3>1, <3>2 DEF SaveInv, Replaced
  <2> QED
    BY <1>5, <2>1, <2>2, <2>3 DEF Save
<1> QED
  BY <1>4, <1>5

\* Nobody but the newest save can have touched the file.
LEMMA AloneStep ==
  ASSUME StorageTypeOK, SaveInv, NEW v \in Saves, Save(v), NEW w \in Saves, Newest(w)'
  PROVE  Alone(w)'
<1>1. CASE v # w
  <2>1. v \in before'[w] /\ before'[w] = before[w]
    BY <1>1, SaveGoesOn DEF Newest
  <2> QED
    BY <2>1, NotBefore DEF SaveInv
<1>2. CASE v = w
  <2>1. CASE OpenForSave(w)
    BY <2>1 DEF OpenForSave, Reach, Alone, StorageTypeOK
  <2>2. CASE ~OpenForSave(w)
    <3>1. before' = before
      BY <1>2, <2>2 DEF Save, Truncate, Encrypt, WriteHeader, WriteBody, Crash
    <3>2. Newest(w)
      BY <1>2, <3>1, SaveGoesOn DEF Newest
    <3>3. Alone(w)
      BY <3>2 DEF SaveInv
    <3>4. CASE Truncate(w)
      BY <3>4 DEF Truncate, Reach, Alone, StorageTypeOK
    <3>5. CASE Encrypt(w)
      BY <3>3, <3>5 DEF Encrypt, Reach, Alone, StorageTypeOK, fileVars
    <3>6. CASE WriteHeader(w)
      BY <3>3, <3>6 DEF WriteHeader, Reach, Alone, StorageTypeOK
    <3>7. CASE WriteBody(w)
      <4>1. PICK n \in 0..Size[w] :
              /\ n > 0 => header' = (IF header = None THEN Zeros ELSE header)
              /\ n = 0 => header' = header
              /\ body' = Overwritten(w, n)
              /\ \/ n = Size[w] /\ Reach(w, "ok")
                 \/ n \in 1..(Size[w] - 1) /\ Reach(w, "failed")
                 \/ n = 0 /\ Reach(w, "ok")
        BY <3>7 DEF WriteBody
      <4>2. header = w /\ Len(body) = 0 /\ Size[w] \in Nat /\ w # None
        BY <3>3, <3>7, SizeAssumption, MarkAssumption DEF WriteBody, Alone
      <4>3. header' = w
        BY <4>1, <4>2
      <4>4. body' = Blocks(w, n)
        BY <4>1, <4>2 DEF Overwritten, Blocks
      <4>5. n = 0 => body' = <<>>
        BY <4>4 DEF Blocks
      <4>6. save'[w] = "ok" => n \in {0, Size[w]}
        BY <4>1 DEF Reach, StorageTypeOK
      <4>7. save'[w] \in {"ok", "failed"}
        BY <4>1 DEF Reach, StorageTypeOK
      <4> QED
        BY <4>3, <4>4, <4>5, <4>6, <4>7 DEF Alone
    <3>8. CASE Crash(w)
      BY <3>8 DEF Crash, Reach, Alone, StorageTypeOK
    <3> QED
      BY <1>2, <2>2, <3>4, <3>5, <3>6, <3>7, <3>8 DEF Save
  <2> QED
    BY <2>1, <2>2
<1> QED
  BY <1>1, <1>2

\* Every step keeps SaveInv; reads change nothing it speaks of.
LEMMA SaveStep ==
  ASSUME StorageTypeOK, SaveInv, [StorageNext]_storageVars
  PROVE  SaveInv'
<1>1. CASE \E v \in Saves : Save(v)
  BY <1>1, EndedStays, ReplacedStep, AloneStep DEF SaveInv
<1>2. CASE UNCHANGED <<fileVars, save, before>>
  BY <1>2 DEF fileVars, SaveInv, BeforeEnded, Ended, Replaced, Newest, Alone
<1> QED
  BY <1>1, <1>2 DEF StorageNext, Read, OpenForRead, ReadHeader, ReadBody, storageVars

LEMMA SaveInit == StorageInit => SaveInv
BY DEF StorageInit, SaveInv, BeforeEnded, Replaced, Alone

\* A save that reports success and that no other one has overlapped has replaced
\* everything: header and blocks are its own, or (see WriteBody) there are no blocks.
THEOREM SavesReplace == StorageSpec => []SaveReplaces
<1>1. StorageInit => StorageTypeOK /\ SaveInv
  BY StorageTypeInit, SaveInit
<1>2. StorageTypeOK /\ SaveInv /\ [StorageNext]_storageVars => (StorageTypeOK /\ SaveInv)'
  BY StorageTypeStep, SaveStep
<1>3. StorageTypeOK /\ SaveInv => SaveReplaces
  BY DEF StorageTypeOK, SaveInv, Alone, SaveReplaces, Authentic, Writers
<1> QED
  BY <1>1, <1>2, <1>3, PTL DEF StorageSpec

-----------------------------------------------------------------------------
(* What a read returns                                                      *)

\* The saves a read may rely on have succeeded, and the header it has read is of none
\* of those before them.
ReadInv ==
  \A r \in Reads : \A w \in read[r].floor :
    /\ save[w] = "ok"
    /\ read[r].pc \in {"header", "ok"} => read[r].header \notin before[w]

LEMMA ReadStep ==
  ASSUME StorageTypeOK, SaveInv, ReadInv, [StorageNext]_storageVars
  PROVE  ReadInv'
<1>1. ASSUME NEW v \in Saves, Save(v)
      PROVE  ReadInv'
  <2>1. UNCHANGED read
    BY <1>1 DEF Save, OpenForSave, Truncate, Encrypt, WriteHeader, WriteBody, Crash
  <2>2. \A w \in Saves : save[w] = "ok" => save'[w] = "ok" /\ before'[w] = before[w]
    BY <1>1, SaveGoesOn
  <2> QED
    BY <2>1, <2>2 DEF ReadInv, StorageTypeOK
<1>2. ASSUME NEW r \in Reads, OpenForRead(r)
      PROVE  ReadInv'
  <2>1. /\ read'[r].floor = {w \in Saves : save[w] = "ok"} /\ read'[r].pc \in {"opened", "failed"}
        /\ \A q \in Reads \ {r} : read'[q] = read[q]
    BY <1>2 DEF OpenForRead, Outcomes, StorageTypeOK
  <2> QED
    BY <1>2, <2>1 DEF OpenForRead, ReadInv
<1>3. ASSUME NEW r \in Reads, ReadHeader(r)
      PROVE  ReadInv'
  <2>1. /\ read'[r].floor = read[r].floor /\ read'[r].header = header
        /\ \A q \in Reads \ {r} : read'[q] = read[q]
    BY <1>3 DEF ReadHeader, Outcomes, StorageTypeOK
  <2>2. \A w \in read[r].floor : w \in Saves /\ header \notin before[w]
    BY DEF ReadInv, SaveInv, Replaced, StorageTypeOK
  <2> QED
    BY <1>3, <2>1, <2>2 DEF ReadHeader, ReadInv
<1>4. ASSUME NEW r \in Reads, ReadBody(r)
      PROVE  ReadInv'
  <2>1. /\ read'[r].floor = read[r].floor /\ read'[r].header = read[r].header /\ read[r].pc = "header"
        /\ \A q \in Reads \ {r} : read'[q] = read[q]
    BY <1>4 DEF ReadBody, Outcomes, StorageTypeOK
  <2> QED
    BY <1>4, <2>1 DEF ReadBody, ReadInv
<1>5. CASE UNCHANGED storageVars
  BY <1>5 DEF storageVars, ReadInv
<1> QED
  BY <1>1, <1>2, <1>3, <1>4, <1>5 DEF StorageNext, Read

\* kp_storage_open never returns a safe that a successful save had replaced before it was
\* called: the save has cut the file after the end of all that were before it, and none
\* of them comes back, however many others tear the file meanwhile.
THEOREM ReadsAreLatest == StorageSpec => []ReadsLatest
<1>1. StorageInit => StorageTypeOK /\ SaveInv /\ ReadInv
  <2>1. StorageInit => ReadInv
    BY DEF StorageInit, ReadInv
  <2> QED
    BY <2>1, StorageTypeInit, SaveInit
<1>2. /\ StorageTypeOK /\ SaveInv /\ ReadInv /\ [StorageNext]_storageVars
      => (StorageTypeOK /\ SaveInv /\ ReadInv)'
  BY StorageTypeStep, SaveStep, ReadStep
<1>3. ReadInv => ReadsLatest
  BY DEF ReadInv, ReadsLatest
<1> QED
  BY <1>1, <1>2, <1>3, PTL DEF StorageSpec
=============================================================================
