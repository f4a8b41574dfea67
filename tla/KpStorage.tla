------------------------------ MODULE KpStorage ------------------------------
(***************************************************************************)
(* One safe file under the system calls of lib/storage.c: kp_storage_save  *)
(* and kp_storage_open as several kickpass commands run them at a time,    *)
(* each with a descriptor of its own.                                      *)
(*                                                                         *)
(* A file is its header and the blocks of cipher text behind it.  Every    *)
(* save draws a new salt and nonce and encrypts under them, so a header or *)
(* a block carries the identity of the save that wrote it: this is all the *)
(* authenticated encryption lets a reader tell apart.                      *)
(***************************************************************************)
EXTENDS Integers, Sequences, FiniteSets

CONSTANTS
  Saves,    \* calls of kp_storage_save
  Reads,    \* calls of kp_storage_open
  Old,      \* the save that wrote the file at first, if there is one
  Size,     \* Size[w]: blocks of cipher text w has to write
  None,     \* the file is shorter than its header
  Zeros,    \* a hole: never written, or bytes of two headers
  Failures, \* what may go wrong: "open", "truncate", "encrypt", "short" (write),
            \* "error" (write), "read"
  Overlap   \* may a save begin while another one runs?

ASSUME OldAssumption == Old \notin Saves
ASSUME SizeAssumption == Size \in [Saves \cup {Old} -> Nat \ {0}]
ASSUME MarkAssumption == {None, Zeros} \cap (Saves \cup {Old}) = {}

VARIABLES
  exists,  \* the file is there
  header,  \* who wrote the header
  body,    \* who wrote each block behind it
  save,    \* where each save is, or how it ended
  before,  \* history: the saves that had ended when this one began
  read     \* the calls of kp_storage_open

fileVars    == <<exists, header, body>>
storageVars == <<fileVars, save, before, read>>

Writers == Saves \cup {Old}

Active == {w \in Saves : save[w] \in {"opened", "truncated", "encrypted", "header"}}
Ended  == {Old} \cup {w \in Saves : save[w] \in {"ok", "failed", "crashed"}}

StorageTypeOK ==
  /\ exists \in BOOLEAN
  /\ header \in Writers \cup {None, Zeros}
  /\ body \in Seq(Writers \cup {Zeros}) /\ \E w \in Writers : Len(body) <= Size[w]
  /\ save \in [Saves -> {"idle", "opened", "truncated", "encrypted", "header",
                         "ok", "failed", "crashed"}]
  /\ before \in [Saves -> SUBSET (Saves \cup {Old})]
  /\ read \in [Reads -> [pc : {"idle", "opened", "header", "ok", "failed"},
                         header : Writers \cup {None, Zeros},
                         floor : SUBSET Saves]]

Blocks(w, n) == [i \in 1..n |-> w]

\* What crypto_aead_chacha20poly1305_decrypt accepts: one save, whole
Authentic(h, b) == h \in Writers /\ b = Blocks(h, Size[h])

StorageInit ==
  /\ \/ exists = TRUE /\ header = Old /\ body = Blocks(Old, Size[Old])
     \/ exists = FALSE /\ header = None /\ body = <<>>
  /\ save = [w \in Saves |-> "idle"]
  /\ before = [w \in Saves |-> {}]
  /\ read = [r \in Reads |-> [pc |-> "idle", header |-> None, floor |-> {}]]

-----------------------------------------------------------------------------
(* kp_storage_save                                                          *)

Reach(w, pc) == save' = [save EXCEPT ![w] = pc]

\* openat with O_CREAT, without O_TRUNC
OpenForSave(w) ==
  /\ save[w] = "idle"
  /\ Overlap \/ Active = {}
  /\ before' = [before EXCEPT ![w] = Ended]
  /\ \/ exists' = TRUE /\ Reach(w, "opened")
     \/ "open" \in Failures /\ exists' = exists /\ Reach(w, "failed")
  /\ UNCHANGED <<header, body, read>>

\* Bug: the file is not cut
BugTruncateNot(w) ==
  /\ save[w] = "opened"
  /\ Reach(w, "truncated")
  /\ UNCHANGED <<fileVars, before, read>>

\* Bug: ftruncate fails and ret stays KP_SUCCESS
BugTruncateFails(w) ==
  /\ save[w] = "opened"
  /\ \/ header' = None /\ body' = <<>> /\ Reach(w, "truncated")
     \/ "truncate" \in Failures /\ Reach(w, "ok") /\ UNCHANGED <<header, body>>
  /\ UNCHANGED <<exists, before, read>>

\* ftruncate to nothing, before there is anything new to write
Truncate(w) ==
  /\ save[w] = "opened"
  /\ \/ header' = None /\ body' = <<>> /\ Reach(w, "truncated")
     \/ "truncate" \in Failures /\ Reach(w, "failed") /\ UNCHANGED <<header, body>>
  /\ UNCHANGED <<exists, before, read>>

\* kp_storage_encrypt: scrypt may find no memory
Encrypt(w) ==
  /\ save[w] = "truncated"
  /\ \/ Reach(w, "encrypted")
     \/ "encrypt" \in Failures /\ Reach(w, "failed")
  /\ UNCHANGED <<fileVars, before, read>>

\* The first write; a short one leaves a header that is none
WriteHeader(w) ==
  /\ save[w] = "encrypted"
  /\ \/ header' = w /\ Reach(w, "header")
     \/ "short" \in Failures /\ header' \in {None, Zeros} /\ Reach(w, "failed")
     \/ "error" \in Failures /\ header' = header /\ Reach(w, "failed")
  /\ UNCHANGED <<exists, body, before, read>>

\* Bug: the descriptor is in append mode
BugOverwritten(w, n) == body \o Blocks(w, n)

\* n blocks of w from the start of the cipher text, over what others left there
Overwritten(w, n) ==
  [i \in 1..(IF n > Len(body) THEN n ELSE Len(body)) |-> IF i <= n THEN w ELSE body[i]]

\* The second write, behind a header that is no longer there when another save
\* has cut the file meanwhile.  A short write is a failure; -1 is compared as an
\* unsigned long long, which makes it none.
WriteBody(w) ==
  /\ save[w] = "header"
  /\ \E n \in 0..Size[w] :
       /\ n > 0 => header' = (IF header = None THEN Zeros ELSE header)
       /\ n = 0 => header' = header
       /\ body' = Overwritten(w, n)
       /\ \/ n = Size[w] /\ Reach(w, "ok")
          \/ n \in 1..(Size[w] - 1) /\ "short" \in Failures /\ Reach(w, "failed")
          \/ n = 0 /\ "error" \in Failures /\ Reach(w, "ok")
  /\ UNCHANGED <<exists, before, read>>

\* The command is killed between two system calls
Crash(w) ==
  /\ w \in Active
  /\ Reach(w, "crashed")
  /\ UNCHANGED <<fileVars, before, read>>

Save(w) == \/ OpenForSave(w) \/ Truncate(w) \/ Encrypt(w)
           \/ WriteHeader(w) \/ WriteBody(w) \/ Crash(w)

-----------------------------------------------------------------------------
(* kp_storage_open                                                          *)

\* The call goes on when the system call gave what it needs, and fails when not
Outcomes(good, next) ==
  (IF good THEN {next} ELSE {"failed"}) \cup (IF "read" \in Failures THEN {"failed"} ELSE {})

OpenForRead(r) ==
  /\ read[r].pc = "idle"
  /\ \E pc \in Outcomes(exists, "opened") :
       read' = [read EXCEPT ![r].pc = pc, ![r].floor = {w \in Saves : save[w] = "ok"}]
  /\ UNCHANGED <<fileVars, save, before>>

\* KP_INVALID_STORAGE when the file is too short
ReadHeader(r) ==
  /\ read[r].pc = "opened"
  /\ \E pc \in Outcomes(header # None, "header") :
       read' = [read EXCEPT ![r].pc = pc, ![r].header = header]
  /\ UNCHANGED <<fileVars, save, before>>

\* ... or ends before the cipher text; KP_EDECRYPT when it is not authentic
ReadBody(r) ==
  /\ read[r].pc = "header"
  /\ \E pc \in Outcomes(Authentic(read[r].header, body), "ok") :
       read' = [read EXCEPT ![r].pc = pc]
  /\ UNCHANGED <<fileVars, save, before>>

Read(r) == OpenForRead(r) \/ ReadHeader(r) \/ ReadBody(r)

StorageNext == (\E w \in Saves : Save(w)) \/ (\E r \in Reads : Read(r))

StorageSpec == StorageInit /\ [][StorageNext]_storageVars

-----------------------------------------------------------------------------
(* Properties                                                               *)

\* No save began since w did
Newest(w) == \A v \in Saves \ {w} : save[v] # "idle" => v \in before[w]

\* Once kp_storage_save has returned KP_SUCCESS and no other save has overlapped
\* it, nothing of the saves before it is left in the file, however they ended.  (That
\* the new one is whole does not hold: see WriteBody.)
SaveReplaces ==
  \A w \in Saves : save[w] = "ok" /\ Newest(w) =>
    header = w /\ (body = <<>> \/ Authentic(w, body))

\* kp_storage_open never returns a safe that a successful save had replaced
\* before it was called, not even while other saves tear the file.
ReadsLatest ==
  \A r \in Reads : read[r].pc = "ok" =>
    \A w \in read[r].floor : read[r].header \notin before[w]
=============================================================================
