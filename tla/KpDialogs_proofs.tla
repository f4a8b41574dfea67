--------------------------- MODULE KpDialogs_proofs ---------------------------
(***************************************************************************)
(* Proofs about the dialogs, for whatever may be typed, fail and be asked  *)
(* for, and for any number of X events.                                    *)
(***************************************************************************)
EXTENDS KpDialogs, TLAPS

-----------------------------------------------------------------------------
(* copy                                                                     *)

\* Answers are counted, and there is one at most when the loop is over, none before.
SelectionInv ==
  /\ pastes \in Nat /\ refused \in Nat
  /\ ~replied => pastes = 0 /\ refused = 0
  /\ pastes + refused <= 1

\* A round of the loop answers once, and then the loop is over.
LEMMA NextEventInv ==
  ASSUME SelectionInv, NextEvent
  PROVE  SelectionInv'
<1>1. ~replied /\ pastes = 0 /\ refused = 0
  BY DEF SelectionInv, NextEvent
<1>2. CASE Head(events) = "text"
  <2>1. replied' /\ pastes' = pastes + 1 /\ refused' = refused
    BY <1>2 DEF NextEvent
  <2> QED
    BY <1>1, <2>1 DEF SelectionInv
<1>3. CASE Head(events) = "strange"
  <2>1. replied' /\ pastes' = pastes /\ refused' = refused + 1
    BY <1>3 DEF NextEvent
  <2> QED
    BY <1>1, <2>1 DEF SelectionInv
<1>4. CASE Head(events) \notin {"text", "strange"}
  <2>1. pastes' = pastes /\ refused' = refused
    BY <1>4 DEF NextEvent
  <2>2. pastes = 0 /\ refused = 0
    BY <1>1
  <2> QED
    BY <1>1, <2>1, <2>2 DEF SelectionInv
<1> QED
  BY <1>2, <1>3, <1>4

\* Nothing but a round of the loop counts answers.
LEMMA SelectionStep ==
  ASSUME SelectionInv, [DialogsNext]_dialogVars
  PROVE  SelectionInv'
<1>1. CASE Loop
  <2>1. CASE NextEvent
    BY <2>1, NextEventInv
  <2>2. CASE CloseDisplay
    BY <2>2 DEF CloseDisplay, SelectionInv
  <2> QED
    BY <1>1, <2>1, <2>2 DEF Loop
<1>2. CASE ~Loop
  <2>1. UNCHANGED <<replied, pastes, refused>>
    <3>1. CASE OwnSelections \/ Daemon
      BY <3>1 DEF OwnSelections, Own, Daemon, selectionVars
    <3>2. CASE Clients
      BY <3>2 DEF Clients
    <3>3. CASE UNCHANGED selectionVars
      BY <3>3 DEF selectionVars
    <3> QED
      BY <1>2, <3>1, <3>2, <3>3
      DEF DialogsNext, Command, Start, PromptFails, Master, Secret, CreatePassword, EditPassword,
          Save, SaveMaster, Write, GetTmp, ForkEditor, Wait, ReadBack, EditorWrites, EditorExits,
          dialogVars
  <2> QED
    BY <2>1 DEF SelectionInv
<1> QED
  BY <1>1, <1>2

\* The password is given to one X client at most: copy.c leaves its loop with the
\* first request it answers or refuses.
THEOREM PastedOnce == DialogsSpec => []PasteOnce
<1>1. DialogsInit => SelectionInv
  BY DEF DialogsInit, SelectionInit, SelectionInv
<1>2. SelectionInv /\ [DialogsNext]_dialogVars => SelectionInv'
  BY SelectionStep
<1>3. SelectionInv => PasteOnce
  BY DEF SelectionInv, PasteOnce
<1> QED
  BY <1>1, <1>2, <1>3, PTL DEF DialogsSpec

-----------------------------------------------------------------------------
(* Clear text                                                               *)

\* A prompt is under way only where the command waits for one; an askpass program is
\* left behind only by a command that ends; the temporary file is there only while
\* kp_edit runs or once it could not be deleted, the editor only while kp_edit waits.
ClearInv ==
  /\ call # "none" => pc \in {"master", "secretasked", "saveasked"}
  /\ zombies # 0 => call = "error" \/ pc \in {"ended", "crashed"}
  /\ tmp # "none" /\ ~warned => pc \in {"fork", "wait", "readback", "crashed"}
  /\ editor # "none" => pc = "wait"

\* wait(NULL) finds the editor and no other child.
LEMMA WaitForEditor ==
  ASSUME ClearInv, Wait
  PROVE  zombies = 0 /\ editor' = "none" /\ zombies' = 0 /\ call' = "none"
<1>1. call = "none" /\ zombies = 0
  BY DEF ClearInv, Wait
<1> QED
  BY <1>1 DEF Wait

\* The prompts leave the file and the editor alone.
LEMMA ClearPrompt ==
  ASSUME ClearInv, UNCHANGED <<pc, tmp, editor, warned>>,
         \/ call # "none" /\ (zombies' # 0 => zombies' = zombies \/ call' = "error") /\ call # "error"
         \/ UNCHANGED <<call, zombies>>
  PROVE  ClearInv'
BY DEF ClearInv

\* Every step keeps ClearInv.
LEMMA ClearStep ==
  ASSUME ClearInv, [DialogsNext]_dialogVars
  PROVE  ClearInv'
<1> USE DEF ClearInv
<1>1. CASE Start
  BY <1>1 DEF Start, Ask, promptVars, editVars
<1>2. CASE PromptFails
  BY <1>2 DEF PromptFails, Answered, editVars
<1>3. CASE Master
  BY <1>3 DEF Master, Answered, editVars
<1>4. CASE Secret
  BY <1>4 DEF Secret, AfterSecret, Ask, promptVars, editVars
<1>5. CASE CreatePassword
  BY <1>5 DEF CreatePassword, AfterSecret, Answered, editVars
<1>6. CASE EditPassword
  BY <1>6 DEF EditPassword, AfterSecret, Answered, editVars
<1>7. CASE Save
  BY <1>7 DEF Save, Ask, promptVars, editVars
<1>8. CASE SaveMaster
  BY <1>8 DEF SaveMaster, Answered, editVars
<1>9. CASE Write
  BY <1>9 DEF Write, promptVars, editVars
<1>10. CASE GetTmp
  BY <1>10 DEF GetTmp, promptVars
<1>11. CASE ForkEditor
  BY <1>11 DEF ForkEditor, promptVars
<1>12. CASE Wait
  BY <1>12, WaitForEditor DEF Wait
<1>13. CASE ReadBack
  BY <1>13 DEF ReadBack, Remove, promptVars
<1>14. CASE OwnSelections \/ Daemon \/ Loop
  BY <1>14 DEF OwnSelections, Daemon, Loop, promptVars, editVars
<1>15. CASE Prompting /\ UNCHANGED <<pc, editVars>>
  BY <1>15, ClearPrompt DEF Prompting, ReadPass, ForkAskpass, GetLine, Reap, editVars
<1>16. CASE Program /\ Others
  BY <1>16 DEF Program, WriteLine, Exit, Others, editVars
<1>17. CASE EditorWrites \/ EditorExits
  BY <1>17 DEF EditorWrites, EditorExits, promptVars
<1>18. CASE UNCHANGED <<pc, editVars, promptVars>>
  BY <1>18 DEF promptVars, editVars
<1> QED
  BY <1>1, <1>2, <1>3, <1>4, <1>5, <1>6, <1>7, <1>8, <1>9, <1>10, <1>11, <1>12, <1>13, <1>14,
     <1>15, <1>16, <1>17, <1>18
  DEF DialogsNext, Command, Others, dialogVars

\* On every way out of kp_edit that is no crash the temporary clear text file is removed,
\* or the user has been told that it could not be; and no editor is left running: the
\* wait in it cannot take another child for the editor.
THEOREM ClearTextIsRemoved == DialogsSpec => []ClearTextRemoved
<1>1. DialogsInit => ClearInv
  BY DEF DialogsInit, PromptInit, ClearInv
<1>2. ClearInv /\ [DialogsNext]_dialogVars => ClearInv'
  BY ClearStep
<1>3. ClearInv => ClearTextRemoved
  BY DEF ClearInv, ClearTextRemoved
<1> QED
  BY <1>1, <1>2, <1>3, PTL DEF DialogsSpec

-----------------------------------------------------------------------------
(* The master password                                                      *)

Unproved == job.cmd = "create" /\ job.held

\* From its proof on the master password is the right one, unless nothing proved it;
\* only then does kp_safe_save ask for it again.
KeyInv ==
  /\ pc \in {"secret", "secretasked", "dump", "fork", "wait", "readback", "save", "write"} =>
       master = "right" \/ Unproved
  /\ pc = "saveasked" => Unproved
  /\ KeyProved

\* What leaves passwords alone and does not pass a proof keeps KeyInv.
LEMMA KeyQuiet ==
  ASSUME KeyInv, UNCHANGED <<job, master, saved>>,
         \/ pc' \in {pc, "master", "own", "daemon", "events", "ended", "crashed"}
         \/ /\ pc \in {"secret", "secretasked", "dump", "fork", "wait", "readback", "save"}
            /\ pc' # "saveasked"
  PROVE  KeyInv'
BY DEF KeyInv, Unproved, KeyProved

\* Every step keeps KeyInv.
LEMMA KeyStep ==
  ASSUME KeyInv, [DialogsNext]_dialogVars
  PROVE  KeyInv'
<1>1. CASE Master
  BY <1>1 DEF Master, KeyInv, Unproved, KeyProved
<1>2. CASE Save
  <2>1. CASE master = "empty"
    BY <1>2, <2>1 DEF Save, Ask, KeyInv, Unproved, KeyProved
  <2>2. CASE master # "empty"
    BY <1>2, <2>2 DEF Save, KeyInv, Unproved, KeyProved
  <2> QED
    BY <2>1, <2>2
<1>3. CASE SaveMaster
  BY <1>3 DEF SaveMaster, KeyInv, Unproved, KeyProved
<1>4. CASE Write
  BY <1>4 DEF Write, KeyInv, Unproved, KeyProved
<1>5. CASE Start \/ PromptFails \/ Secret \/ CreatePassword \/ EditPassword
  BY <1>5, KeyQuiet
  DEF Start, PromptFails, Secret, CreatePassword, EditPassword, AfterSecret, Ask
<1>6. CASE GetTmp \/ ForkEditor \/ Wait \/ ReadBack
  BY <1>6, KeyQuiet DEF GetTmp, ForkEditor, Wait, ReadBack
<1>7. CASE OwnSelections \/ Daemon \/ Loop
  BY <1>7, KeyQuiet DEF OwnSelections, Daemon, Loop
<1>8. CASE EditorWrites \/ EditorExits
  BY <1>8, KeyQuiet DEF EditorWrites, EditorExits
<1>9. CASE UNCHANGED <<pc, job, master, saved>>
  BY <1>9, KeyQuiet
<1> QED
  BY <1>1, <1>2, <1>3, <1>4, <1>5, <1>6, <1>7, <1>8, <1>9
  DEF DialogsNext, Command, Others, dialogVars

\* A safe is saved under a password that has opened another one: the second prompt, in
\* kp_safe_save, whose answer nothing proves, is reached by no command but a create with
\* the .config of the agent.  Of the password such a create saves under, the theorem says
\* nothing.
THEOREM KeyIsProved == DialogsSpec => []KeyProved
<1>1. DialogsInit => KeyInv
  BY DEF DialogsInit, KeyInv, KeyProved
<1>2. KeyInv /\ [DialogsNext]_dialogVars => KeyInv'
  BY KeyStep
<1>3. KeyInv => KeyProved
  BY DEF KeyInv
<1> QED
  BY <1>1, <1>2, <1>3, PTL DEF DialogsSpec

-----------------------------------------------------------------------------
(* Types                                                                    *)

\* There are no more events in the queue than there have been; getline has returned
\* something before the program is waited for.
TypeInv ==
  /\ DialogsTypeOK
  /\ Len(events) <= seen
  /\ call = "reap" => out # "nothing"

\* A prompt keeps the types, and gives what may be typed.
LEMMA PromptTypes ==
  ASSUME TypeInv, Prompting
  PROVE  PromptTypeOK' /\ (call' = "reap" => out' # "nothing")
<1> USE DEF TypeInv, DialogsTypeOK, PromptTypeOK, Returned
<1>1. CASE ReadPass
  BY <1>1 DEF ReadPass
<1>2. CASE ForkAskpass
  BY <1>2 DEF ForkAskpass
<1>3. CASE GetLine
  BY <1>3 DEF GetLine
<1>4. CASE Reap
  BY <1>4 DEF Reap
<1> QED
  BY <1>1, <1>2, <1>3, <1>4 DEF Prompting

\* The caller of a prompt keeps its types, and so does one that waits for a child.
LEMMA CallerTypes ==
  ASSUME TypeInv,
         \/ UNCHANGED promptVars
         \/ call' \in {"none", "readpass", "askpass"} /\ UNCHANGED <<tty, answer, program, out, writer, zombies>>
         \/ Wait
  PROVE  PromptTypeOK' /\ (call' = "reap" => out' # "nothing")
<1> USE DEF TypeInv, DialogsTypeOK, PromptTypeOK, Returned
<1>1. CASE UNCHANGED promptVars
  BY <1>1 DEF promptVars
<1>2. CASE call' \in {"none", "readpass", "askpass"} /\ UNCHANGED <<tty, answer, program, out, writer, zombies>>
  BY <1>2
<1>3. CASE Wait
  BY <1>3 DEF Wait
<1> QED
  BY <1>1, <1>2, <1>3

\* X clients and the loop of copy keep theirs.
LEMMA SelectionTypes ==
  ASSUME TypeInv,
         \/ Own \/ Clients \/ NextEvent \/ CloseDisplay
         \/ owner' \in BOOLEAN /\ UNCHANGED <<events, replied, seen, pastes, refused>>
         \/ UNCHANGED selectionVars
  PROVE  SelectionTypeOK' /\ Len(events') <= seen'
<1> USE BoundAssumption DEF TypeInv, DialogsTypeOK, SelectionTypeOK
<1>1. CASE Clients
  <2>1. PICK e \in Events : events' = Append(events, e) /\ owner' \in {TRUE, e # "other"}
    BY <1>1 DEF Clients
  <2>2. events' \in Seq(Events) /\ Len(events') = Len(events) + 1
    BY <2>1
  <2>3. owner' \in BOOLEAN
    BY <2>1, Zenon
  <2>4. UNCHANGED <<replied, pastes, refused>> /\ seen' = seen + 1 /\ seen < MaxEvents
    BY <1>1 DEF Clients
  <2>5. Len(events') <= seen' /\ seen' \in 0..MaxEvents
    BY <2>2, <2>4
  <2> QED
    BY <2>2, <2>3, <2>4, <2>5
<1>2. CASE NextEvent
  <2>1. events # <<>> /\ events' = Tail(events) /\ UNCHANGED <<owner, seen>>
    BY <1>2 DEF NextEvent
  <2>2. events' \in Seq(Events) /\ Len(events') <= Len(events)
    BY <2>1
  <2>3. pastes' \in Nat /\ refused' \in Nat
    BY <1>2 DEF NextEvent
  <2>4. replied' \in BOOLEAN
    <3>1. (Head(events) \in {"text", "strange"}) \in BOOLEAN
      OBVIOUS
    <3> QED
      BY <1>2, <3>1, Zenon DEF NextEvent
  <2> QED
    BY <2>1, <2>2, <2>3, <2>4
<1>3. CASE CloseDisplay
  <2>1. events' = <<>> /\ owner' \in BOOLEAN /\ UNCHANGED <<replied, seen, pastes, refused>>
    BY <1>3 DEF CloseDisplay
  <2>2. Len(events') = 0 /\ events' \in Seq(Events) /\ seen \in Nat
    BY <2>1
  <2> QED
    BY <2>1, <2>2
<1>4. CASE Own \/ UNCHANGED selectionVars \/ (owner' \in BOOLEAN /\ UNCHANGED <<events, replied, seen, pastes, refused>>)
  BY <1>4 DEF Own, selectionVars
<1> QED
  BY <1>1, <1>2, <1>3, <1>4

\* The types of what belongs to KpDialogs itself
OwnTypeOK ==
  /\ pc \in {"start", "master", "secret", "secretasked", "dump", "fork", "wait", "readback",
             "save", "saveasked", "write", "own", "daemon", "events", "ended", "crashed"}
  /\ job \in Jobs
  /\ master \in Typed
  /\ safe \in [secret : Secrets, meta : Metadata]
  /\ editor \in {"none", "running", "ended"}
  /\ tmp \in Metadata \cup {"none", "long"}
  /\ dumped \in BOOLEAN /\ wrote \in BOOLEAN /\ warned \in BOOLEAN
  /\ saved \subseteq [key : Typed, secret : Secrets, meta : Metadata]

LEMMA TypeParts ==
  DialogsTypeOK <=> PromptTypeOK /\ SelectionTypeOK /\ OwnTypeOK
BY DEF DialogsTypeOK, OwnTypeOK

\* The passwords go where they have the type.
LEMMA PasswordTypes ==
  ASSUME TypeInv,
         \/ Start \/ PromptFails \/ Master \/ Secret \/ CreatePassword \/ EditPassword
         \/ Save \/ SaveMaster \/ Write
  PROVE  OwnTypeOK'
<1> USE DEF TypeInv, DialogsTypeOK, OwnTypeOK
<1>1. answer \in Typed /\ answer \in Secrets
  BY DEF PromptTypeOK, Secrets
<1>2. CASE Start \/ PromptFails \/ Secret \/ Save
  BY <1>2 DEF Start, PromptFails, Secret, AfterSecret, Save, Ask, editVars
<1>3. CASE Master \/ SaveMaster
  BY <1>1, <1>3 DEF Master, SaveMaster, Given, editVars
<1>4. CASE CreatePassword
  BY <1>1, <1>4 DEF CreatePassword, AfterSecret, Given, editVars
<1>5. CASE EditPassword
  BY <1>1, <1>5 DEF EditPassword, AfterSecret, editVars
<1>6. CASE Write
  BY <1>6 DEF Write, editVars
<1> QED
  BY <1>2, <1>3, <1>4, <1>5, <1>6

\* The temporary file is read into the metadata only when it fits there.
LEMMA EditorTypes ==
  ASSUME TypeInv, GetTmp \/ ForkEditor \/ Wait \/ ReadBack \/ EditorWrites \/ EditorExits
  PROVE  OwnTypeOK'
<1> USE DEF TypeInv, DialogsTypeOK, OwnTypeOK
<1>1. CASE GetTmp
  BY <1>1 DEF GetTmp, Metadata
<1>2. CASE ForkEditor \/ Wait
  BY <1>2 DEF ForkEditor, Wait
<1>3. CASE ReadBack
  BY <1>3 DEF ReadBack, Remove
<1>4. CASE EditorWrites \/ EditorExits
  BY <1>4 DEF EditorWrites, EditorExits, Metadata
<1> QED
  BY <1>1, <1>2, <1>3, <1>4

\* Every step keeps the types.
LEMMA TypeStep ==
  ASSUME TypeInv, [DialogsNext]_dialogVars
  PROVE  TypeInv'
<1> SUFFICES /\ OwnTypeOK'
             /\ PromptTypeOK' /\ (call' = "reap" => out' # "nothing")
             /\ SelectionTypeOK' /\ Len(events') <= seen'
  BY DEF TypeInv, DialogsTypeOK, OwnTypeOK
<1>1. ASSUME UNCHANGED <<pc, job, master, safe, editVars, saved>>
      PROVE  OwnTypeOK'
  BY <1>1 DEF TypeInv, DialogsTypeOK, OwnTypeOK, editVars
<1>2. CASE Start \/ PromptFails \/ Master \/ Secret \/ CreatePassword \/ EditPassword
           \/ Save \/ SaveMaster \/ Write
  <2>1. UNCHANGED selectionVars
    BY <1>2 DEF Start, PromptFails, Master, Secret, CreatePassword, EditPassword, Save,
                SaveMaster, Write
  <2>2. \/ UNCHANGED promptVars
        \/ /\ call' \in {"none", "readpass", "askpass"}
           /\ UNCHANGED <<tty, answer, program, out, writer, zombies>>
    BY <1>2 DEF Start, PromptFails, Master, Secret, CreatePassword, EditPassword, Save,
                SaveMaster, Write, Ask, AskFor, Answered
  <2> QED
    BY <1>2, <2>1, <2>2, PasswordTypes, CallerTypes, SelectionTypes
<1>3. CASE GetTmp \/ ForkEditor \/ Wait \/ ReadBack \/ EditorWrites \/ EditorExits
  <2>1. UNCHANGED selectionVars /\ (UNCHANGED promptVars \/ Wait)
    BY <1>3 DEF GetTmp, ForkEditor, Wait, ReadBack, EditorWrites, EditorExits
  <2> QED
    BY <1>3, <2>1, EditorTypes, CallerTypes, SelectionTypes
<1>4. CASE OwnSelections \/ Daemon \/ Loop
  <2>1. OwnTypeOK'
    BY <1>4 DEF OwnSelections, Daemon, Loop, TypeInv, DialogsTypeOK, OwnTypeOK, editVars
  <2>2. UNCHANGED promptVars
    BY <1>4 DEF OwnSelections, Daemon, Loop
  <2>3. CASE OwnSelections \/ Loop
    BY <2>1, <2>2, <2>3, CallerTypes, SelectionTypes DEF OwnSelections, Loop
  <2>4. CASE Daemon
    <3>1. owner' \in BOOLEAN
      BY <2>4, Zenon DEF Daemon, TypeInv, DialogsTypeOK, SelectionTypeOK
    <3>2. UNCHANGED <<events, replied, seen, pastes, refused>>
      BY <2>4 DEF Daemon
    <3> QED
      BY <2>1, <2>2, <3>1, <3>2, CallerTypes, SelectionTypes
  <2> QED
    BY <1>4, <2>3, <2>4
<1>5. CASE Prompting /\ UNCHANGED <<pc, job, master, safe, editVars, saved, selectionVars>>
  BY <1>1, <1>5, PromptTypes, SelectionTypes
<1>6. CASE Program /\ Others /\ UNCHANGED selectionVars
  <2>1. PromptTypeOK' /\ (call' = "reap" => out' # "nothing")
    BY <1>6 DEF Program, WriteLine, Exit, TypeInv, DialogsTypeOK, PromptTypeOK
  <2> QED
    BY <1>1, <1>6, <2>1, SelectionTypes DEF Others
<1>7. CASE Clients /\ Others /\ UNCHANGED promptVars
  BY <1>1, <1>7, CallerTypes, SelectionTypes DEF Others
<1>8. CASE UNCHANGED dialogVars
  BY <1>1, <1>8, CallerTypes, SelectionTypes DEF dialogVars
<1> QED
  BY <1>2, <1>3, <1>4, <1>5, <1>6, <1>7, <1>8 DEF DialogsNext, Command

\* The types hold when a command starts.
LEMMA TypeInit == DialogsInit => TypeInv
<1> SUFFICES ASSUME DialogsInit PROVE TypeInv
  OBVIOUS
<1> USE DEF DialogsInit
<1>1. PromptTypeOK /\ call # "reap"
  BY DEF PromptInit, PromptTypeOK, Returned
<1>2. SelectionTypeOK /\ Len(events) <= seen
  <2>1. events = <<>> /\ seen = 0 /\ pastes = 0 /\ refused = 0
    BY DEF SelectionInit
  <2>2. owner \in BOOLEAN /\ replied \in BOOLEAN
    BY Zenon DEF SelectionInit
  <2>3. events \in Seq(Events) /\ Len(events) = 0
    BY <2>1
  <2>4. seen \in 0..MaxEvents /\ Len(events) <= MaxEvents
    BY <2>1, <2>3, BoundAssumption
  <2> QED
    BY <2>1, <2>2, <2>3, <2>4 DEF SelectionTypeOK
<1>3. OwnTypeOK
  BY TypedAssumption DEF OwnTypeOK, Secrets, Metadata
<1> QED
  BY <1>1, <1>2, <1>3, TypeParts DEF TypeInv

\* The dialogs keep their types: what comes from a pipe, a file or an X client fits.
THEOREM DialogsTypes == DialogsSpec => []DialogsTypeOK
<1>1. DialogsInit => TypeInv
  BY TypeInit
<1>2. TypeInv /\ [DialogsNext]_dialogVars => TypeInv'
  BY TypeStep
<1>3. TypeInv => DialogsTypeOK
  BY DEF TypeInv
<1> QED
  BY <1>1, <1>2, <1>3, PTL DEF DialogsSpec
-----------------------------------------------------------------------------
(* What is saved                                                            *)

LeftAs(meta) == (wrote => meta = "edited") /\ (~wrote /\ dumped => meta = "old")

\* What the user has written is in the file until it is read, then in the safe; what
\* was dumped is there when the user has written nothing.
LeftInv ==
  /\ pc \in {"start", "master", "secret", "secretasked", "dump"} =>
       safe.meta = "old" /\ ~wrote /\ ~dumped
  /\ pc = "fork" => ~wrote /\ (dumped => tmp = "old")
  /\ pc \in {"wait", "readback"} =>
       /\ wrote => tmp \in {"edited", "long"}
       /\ ~wrote /\ dumped => tmp \in {"old", "none"}
  /\ pc \in {"save", "saveasked", "write"} => LeftAs(safe.meta)
  /\ saved # {} => pc = "ended"
  /\ SavedAsLeft

\* Prompts change no metadata.
LEMMA SecretKeepsMeta ==
  ASSUME TypeInv, CreatePassword \/ EditPassword
  PROVE  safe'.meta = safe.meta
<1>1. safe \in [secret : Secrets, meta : Metadata]
  BY DEF TypeInv, DialogsTypeOK
<1> QED
  BY <1>1 DEF CreatePassword, EditPassword

\* What leaves file and metadata alone keeps LeftInv on the way to the end, too.
LEMMA LeftQuiet ==
  ASSUME LeftInv, UNCHANGED <<job, wrote, dumped, saved, tmp>>, safe'.meta = safe.meta,
         \/ pc' = pc
         \/ pc' \in {"own", "daemon", "events", "ended", "crashed"} /\ (saved # {} => pc' = "ended")
         \/ /\ pc \in {"start", "master", "secret", "secretasked"}
            /\ pc' \in {"master", "secret", "secretasked", "dump", "save"}
         \/ pc \in {"save", "saveasked"} /\ pc' \in {"saveasked", "write"}
         \/ pc = "wait" /\ pc' = "readback"
  PROVE  LeftInv'
BY DEF LeftInv, LeftAs, SavedAsLeft

\* Nothing has been saved by a command that has not ended.
LEMMA NothingSaved == LeftInv /\ pc # "ended" => saved = {}
BY DEF LeftInv

\* The steps that change the file or the metadata
LEMMA LeftEditor ==
  ASSUME TypeInv, ClearInv, LeftInv,
         GetTmp \/ ForkEditor \/ EditorWrites \/ ReadBack \/ Write
  PROVE  LeftInv'
<1> USE DEF LeftInv, LeftAs, SavedAsLeft
<1>1. CASE GetTmp
  BY <1>1 DEF GetTmp
<1>2. CASE ForkEditor
  BY <1>2 DEF ForkEditor
<1>3. CASE EditorWrites
  <2>1. pc = "wait"
    BY <1>3 DEF EditorWrites, ClearInv
  <2> QED
    BY <1>3, <2>1 DEF EditorWrites
<1>4. CASE ReadBack
  <2>1. safe \in [secret : Secrets, meta : Metadata]
    BY DEF TypeInv, DialogsTypeOK
  <2>2. saved' = {} /\ UNCHANGED <<wrote, dumped>>
    BY <1>4, NothingSaved DEF ReadBack
  <2>3. CASE pc' = "save"
    <3>1. tmp \in Metadata /\ safe'.meta = tmp
      BY <1>4, <2>1, <2>3 DEF ReadBack
    <3>2. LeftAs(tmp)
      BY <1>4, <3>1 DEF ReadBack, Metadata
    <3> QED
      BY <2>2, <2>3, <3>1, <3>2
  <2>4. CASE pc' \in {"ended", "crashed"}
    BY <2>2, <2>4
  <2> QED
    BY <1>4, <2>3, <2>4 DEF ReadBack
<1>5. CASE Write
  <2>1. LeftAs(safe.meta) /\ UNCHANGED <<wrote, dumped>> /\ pc' = "ended"
    BY <1>5 DEF Write, editVars
  <2>2. \A s \in saved' : s.meta = safe.meta
    BY <1>5 DEF Write
  <2> QED
    BY <2>1, <2>2
<1> QED
  BY <1>1, <1>2, <1>3, <1>4, <1>5

\* Every step keeps LeftInv.
LEMMA LeftStep ==
  ASSUME TypeInv, ClearInv, LeftInv, [DialogsNext]_dialogVars
  PROVE  LeftInv'
<1>1. CASE GetTmp \/ ForkEditor \/ EditorWrites \/ ReadBack \/ Write
  BY <1>1, LeftEditor
<1>2. CASE CreatePassword \/ EditPassword
  BY <1>2, SecretKeepsMeta, LeftQuiet, NothingSaved
  DEF CreatePassword, EditPassword, AfterSecret, editVars
<1>3. CASE Start \/ PromptFails \/ Master \/ Secret
  BY <1>3, LeftQuiet, NothingSaved
  DEF Start, PromptFails, Master, Secret, AfterSecret, Ask, editVars
<1>4. CASE Save \/ SaveMaster \/ Wait \/ EditorExits
  BY <1>4, LeftQuiet DEF Save, SaveMaster, Wait, EditorExits, Ask, editVars
<1>5. CASE OwnSelections \/ Daemon \/ Loop
  BY <1>5, LeftQuiet, NothingSaved DEF OwnSelections, Daemon, Loop, editVars
<1>6. CASE UNCHANGED <<pc, job, safe, editVars, saved>>
  BY <1>6, LeftQuiet DEF editVars
<1> QED
  BY <1>1, <1>2, <1>3, <1>4, <1>5, <1>6
  DEF DialogsNext, Command, Others, dialogVars

\* What create and edit save is what the user has left in the editor, whatever was asked
\* for before; with the editor closed unused it is what the safe had, when the dump had
\* not failed.
THEOREM WhatIsLeftIsSaved == DialogsSpec => []SavedAsLeft
<1>1. DialogsInit => TypeInv /\ ClearInv /\ LeftInv
  <2>1. DialogsInit => LeftInv
    BY DEF DialogsInit, LeftInv, SavedAsLeft
  <2>2. DialogsInit => ClearInv
    BY DEF DialogsInit, PromptInit, ClearInv
  <2> QED
    BY <2>1, <2>2, TypeInit
<1>2. TypeInv /\ ClearInv /\ LeftInv /\ [DialogsNext]_dialogVars => (TypeInv /\ ClearInv /\ LeftInv)'
  BY TypeStep, ClearStep, LeftStep
<1>3. LeftInv => SavedAsLeft
  BY DEF LeftInv
<1> QED
  BY <1>1, <1>2, <1>3, PTL DEF DialogsSpec
=============================================================================
