------------------------------ MODULE KpDialogs ------------------------------
(***************************************************************************)
(* What one kickpass command has to do with its user and with other        *)
(* programs: the prompts (KpPrompt), the editor of src/editor.c and the X  *)
(* selections (KpSelection), in the order in which create.c, edit.c and    *)
(* copy.c come to them.                                                    *)
(*                                                                         *)
(* The command, the askpass program, the editor and the X clients go at    *)
(* their own pace.  What the library does with files and the agent is in   *)
(* KpSafe; here a safe is opened or saved in one step.                     *)
(***************************************************************************)
EXTENDS KpPrompt, KpSelection

CONSTANT Jobs  \* the command lines

\* password, metadata: the safe's password is prompted for, the editor is opened.
\* held: the agent has the .config that create loads, the safe that copy opens.
Job == [cmd : {"create", "edit", "copy"}, password : BOOLEAN, metadata : BOOLEAN, held : BOOLEAN]

ASSUME JobsAssumption == Jobs \subseteq Job
ASSUME TypedAssumption == {"right", "empty"} \subseteq Typed

VARIABLES
  pc, job,
  master,  \* ctx->password; "right" is the master password
  safe,    \* the open safe's password and metadata
  editor,  \* the child that runs the editor
  tmp,     \* the temporary clear text file
  dumped,  \* history: kp_editor_get_tmp has written it all
  wrote,   \* history: the user has written the file
  warned,  \* the user has been told to delete the file, which unlink did not
  saved    \* history: what has been saved, if anything has, and the master password used

editVars   == <<editor, tmp, dumped, wrote, warned>>
dialogVars == <<pc, job, master, safe, editVars, saved, promptVars, selectionVars>>

Metadata == {"old", "part", "edited"}
Secrets  == Typed \cup {"old", "generated"}

DialogsTypeOK ==
  /\ PromptTypeOK /\ SelectionTypeOK
  /\ pc \in {"start", "master", "secret", "secretasked", "dump", "fork", "wait", "readback",
             "save", "saveasked", "write", "own", "daemon", "events", "ended", "crashed"}
  /\ job \in Jobs
  /\ master \in Typed
  /\ safe \in [secret : Secrets, meta : Metadata]
  /\ editor \in {"none", "running", "ended"}
  /\ tmp \in Metadata \cup {"none", "long"}
  /\ dumped \in BOOLEAN /\ wrote \in BOOLEAN /\ warned \in BOOLEAN
  /\ saved \subseteq [key : Typed, secret : Secrets, meta : Metadata]

DialogsInit ==
  /\ PromptInit /\ SelectionInit
  /\ pc = "start" /\ job \in Jobs
  /\ master = "empty"
  /\ safe = [meta |-> "old", secret |-> IF job.cmd # "create" THEN "old"
                                        ELSE IF job.password THEN "empty" ELSE "generated"]
  /\ editor = "none" /\ tmp = "none" /\ dumped = FALSE /\ wrote = FALSE /\ warned = FALSE
  /\ saved = {}

-----------------------------------------------------------------------------
(* Passwords                                                                *)

\* kp_password_prompt: the command goes on when the prompt has returned
Ask(next) ==
  /\ pc' = next /\ call' = AskFor
  /\ UNCHANGED <<tty, answer, program, out, writer, zombies>>

Answered == call' = "none" /\ UNCHANGED <<tty, answer, program, out, writer, zombies>>

Start ==
  /\ pc = "start"
  /\ \/ job.cmd = "copy" /\ job.held /\ pc' = "own" /\ UNCHANGED promptVars
     \/ ~(job.cmd = "copy" /\ job.held) /\ Ask("master")
  /\ UNCHANGED <<job, master, safe, editVars, saved, selectionVars>>

\* What a returned prompt leaves in the password it was asked for
Given(old) == IF call = "success" THEN answer ELSE old

\* A prompt that has failed ends the command
PromptFails ==
  /\ pc \in {"master", "secretasked", "saveasked"}
  /\ \/ call = "error" /\ pc' = "ended"
     \/ call = "crash" /\ pc' = "crashed"
  /\ Answered
  /\ UNCHANGED <<job, master, safe, editVars, saved, selectionVars>>

\* Bug: nobody decrypts anything with the password
BugMaster ==
  /\ pc = "master" /\ call \in {"success", "untouched"}
  /\ master' = Given(master)
  /\ pc' = IF job.cmd = "copy" THEN "own" ELSE "secret"
  /\ Answered
  /\ UNCHANGED <<job, safe, editVars, saved, selectionVars>>

\* The password has to open a safe, the .config or the command's own; only create
\* with a .config from the agent opens none
Master ==
  /\ pc = "master" /\ call \in {"success", "untouched"}
  /\ master' = Given(master)
  /\ pc' = IF master' # "right" /\ ~(job.cmd = "create" /\ job.held) THEN "ended"
           ELSE IF job.cmd = "copy" THEN "own" ELSE "secret"
  /\ Answered
  /\ UNCHANGED <<job, safe, editVars, saved, selectionVars>>

AfterSecret == IF job.metadata THEN "dump" ELSE "save"

Secret ==
  /\ pc = "secret"
  /\ \/ job.password /\ Ask("secretasked")
     \/ ~job.password /\ pc' = AfterSecret /\ UNCHANGED promptVars
  /\ UNCHANGED <<job, master, safe, editVars, saved, selectionVars>>

\* create prompts into the empty safe
CreatePassword ==
  /\ pc = "secretasked" /\ job.cmd = "create" /\ call \in {"success", "untouched"}
  /\ safe' = [safe EXCEPT !.secret = Given(@)]
  /\ pc' = AfterSecret
  /\ Answered
  /\ UNCHANGED <<job, master, editVars, saved, selectionVars>>

\* edit_password prompts into a buffer that has no end yet, and asks back when the
\* answer is empty
EditPassword ==
  /\ pc = "secretasked" /\ job.cmd = "edit"
  /\ \/ call = "untouched" /\ pc' = "crashed" /\ UNCHANGED safe
     \/ /\ call = "success" /\ pc' = AfterSecret
        /\ safe' = [safe EXCEPT !.secret = answer]
     \/ /\ call = "success" /\ answer = "empty"
        /\ pc' \in {AfterSecret, "ended"} /\ UNCHANGED safe
  /\ Answered
  /\ UNCHANGED <<job, master, editVars, saved, selectionVars>>

\* kp_safe_save prompts when there is no master password, or an empty one
Save ==
  /\ pc = "save"
  /\ \/ master = "empty" /\ Ask("saveasked")
     \/ master # "empty" /\ pc' = "write" /\ UNCHANGED promptVars
  /\ UNCHANGED <<job, master, safe, editVars, saved, selectionVars>>

SaveMaster ==
  /\ pc = "saveasked" /\ call \in {"success", "untouched"}
  /\ master' = Given(master) /\ pc' = "write"
  /\ Answered
  /\ UNCHANGED <<job, safe, editVars, saved, selectionVars>>

Write ==
  /\ pc = "write" /\ pc' = "ended"
  /\ saved' = {[key |-> master, secret |-> safe.secret, meta |-> safe.meta]}
  /\ UNCHANGED <<job, master, safe, editVars, promptVars, selectionVars>>

-----------------------------------------------------------------------------
(* The editor: kp_edit                                                      *)

\* kp_editor_get_tmp, whose result kp_edit ignores
GetTmp ==
  /\ pc = "dump" /\ pc' = "fork"
  /\ \/ tmp' = safe.meta /\ dumped' = TRUE
     \/ "dump" \in Failures /\ tmp' \in {"none", "part"} /\ UNCHANGED dumped
  /\ UNCHANGED <<job, master, safe, editor, wrote, warned, saved, promptVars, selectionVars>>

\* fork, whose failure is none.  When exec fails, the child goes to the end of
\* kp_edit; there it crashes or removes the file.
ForkEditor ==
  /\ pc = "fork" /\ pc' = "wait"
  /\ \/ editor' = "running" /\ UNCHANGED tmp
     \/ "fork" \in Failures /\ UNCHANGED <<editor, tmp>>
     \/ "exec" \in Failures /\ editor' = "ended" /\ tmp' \in {tmp, "none"}
  /\ UNCHANGED <<job, master, safe, dumped, wrote, warned, saved, promptVars, selectionVars>>

EditorWrites ==
  /\ editor = "running"
  /\ tmp' \in {"edited", "long"} /\ wrote' = TRUE
  /\ UNCHANGED <<pc, job, master, safe, editor, dumped, warned, saved, promptVars, selectionVars>>

\* Nobody looks at the exit status
EditorExits ==
  /\ editor = "running" /\ editor' = "ended"
  /\ UNCHANGED <<pc, job, master, safe, tmp, dumped, wrote, warned, saved, promptVars, selectionVars>>

\* wait(NULL) takes any child that has ended, and fails when there is no child
Wait ==
  /\ pc = "wait" /\ pc' = "readback"
  /\ \/ editor = "ended" /\ editor' = "none" /\ UNCHANGED zombies
     \/ zombies > 0 /\ zombies' = zombies - 1 /\ UNCHANGED editor
     \/ editor = "none" /\ zombies = 0 /\ UNCHANGED <<editor, zombies>>
  /\ UNCHANGED <<job, master, safe, tmp, dumped, wrote, warned, saved, tty, call, answer, program,
                 out, writer, selectionVars>>

\* unlink, of which a failure is only warned about
Remove ==
  \/ tmp' = "none" /\ UNCHANGED warned
  \/ "unlink" \in Failures /\ tmp # "none" /\ warned' = TRUE /\ UNCHANGED tmp

\* Bug: an error return before the file is removed
BugReadBack ==
  /\ pc = "readback"
  /\ \/ tmp \in Metadata /\ safe' = [safe EXCEPT !.meta = tmp] /\ Remove /\ pc' = "save"
     \/ (tmp \notin Metadata \/ "read" \in Failures) /\ pc' = "ended" /\ UNCHANGED <<safe, tmp, warned>>
  /\ UNCHANGED <<job, master, editor, dumped, wrote, saved, promptVars, selectionVars>>

\* Bug: of a file that is too long, what fits is kept
BugReadLong ==
  /\ pc = "readback"
  /\ \/ tmp # "none" /\ safe' = [safe EXCEPT !.meta = tmp] /\ Remove /\ pc' = "save"
     \/ tmp = "none" /\ pc' = "ended" /\ UNCHANGED <<safe, tmp, warned>>
  /\ UNCHANGED <<job, master, editor, dumped, wrote, saved, promptVars, selectionVars>>

\* The file is read and removed.  One that cannot be opened leaves a stream that is
\* NULL to be closed; 4096 bytes or more put the terminator behind the metadata.  In
\* both cases the command may crash, and the file stays.
ReadBack ==
  /\ pc = "readback"
  /\ \/ tmp \in Metadata /\ safe' = [safe EXCEPT !.meta = tmp] /\ Remove /\ pc' = "save"
     \/ /\ tmp \notin Metadata \/ "read" \in Failures
        /\ \/ pc' = "crashed" /\ UNCHANGED <<tmp, warned>>
           \/ pc' = "ended" /\ Remove
        /\ UNCHANGED safe
  /\ UNCHANGED <<job, master, editor, dumped, wrote, saved, promptVars, selectionVars>>

-----------------------------------------------------------------------------
(* copy                                                                     *)

\* Without a display, XInternAtom crashes
OwnSelections ==
  /\ pc = "own"
  /\ \/ Own /\ pc' = "daemon"
     \/ "display" \in Failures /\ pc' = "crashed" /\ UNCHANGED selectionVars
  /\ UNCHANGED <<job, master, safe, editVars, saved, promptVars>>

Daemon ==
  /\ pc = "daemon"
  /\ pc' \in {"events"} \cup (IF "fork" \in Failures THEN {"ended"} ELSE {})
  /\ owner' = (pc' = "events" /\ owner)
  /\ UNCHANGED <<job, master, safe, editVars, saved, promptVars, events, replied, seen, pastes, refused>>

Loop ==
  /\ pc = "events"
  /\ \/ NextEvent /\ UNCHANGED pc
     \/ CloseDisplay /\ pc' = "ended"
  /\ UNCHANGED <<job, master, safe, editVars, saved, promptVars>>

-----------------------------------------------------------------------------

Command ==
  \/ Start \/ PromptFails \/ Master \/ Secret \/ CreatePassword \/ EditPassword
  \/ Save \/ SaveMaster \/ Write \/ GetTmp \/ ForkEditor \/ Wait \/ ReadBack
  \/ OwnSelections \/ Daemon \/ Loop
  \/ Prompting /\ UNCHANGED <<pc, job, master, safe, editVars, saved, selectionVars>>

Others == UNCHANGED <<pc, job, master, safe, editVars, saved>>

DialogsNext ==
  \/ Command
  \/ Program /\ Others /\ UNCHANGED selectionVars
  \/ EditorWrites \/ EditorExits
  \/ Clients /\ Others /\ UNCHANGED promptVars

\* The command runs on.  The user closes the askpass program and the editor in the
\* end; no X client has to ask for anything.
DialogsSpec ==
  /\ DialogsInit /\ [][DialogsNext]_dialogVars
  /\ WF_dialogVars(Command)
  /\ WF_dialogVars(Exit /\ Others /\ UNCHANGED selectionVars)
  /\ WF_dialogVars(EditorExits)

-----------------------------------------------------------------------------
(* Properties                                                               *)

\* A command that has come to its end has not left clear text behind without telling its
\* user to delete it, and no editor that might write some.  (One that has crashed may
\* have.)
ClearTextRemoved == pc = "ended" => (tmp = "none" \/ warned) /\ editor # "running"

\* What is saved is what the user left in the editor, whatever was asked for before
\* with programs of its own; unless the dump had failed it is never a part.
SavedAsLeft ==
  \A s \in saved : job.metadata =>
    /\ wrote => s.meta = "edited"
    /\ ~wrote /\ dumped => s.meta = "old"

\* A safe is only saved under a password that has opened another one, however often its
\* user was asked and whatever a prompt has left.  A new safe is the exception when the
\* agent had the .config: nothing is opened then, and the safe is saved under what was
\* typed, or under the empty password that a failed askpass program leaves untouched.
KeyProved ==
  \A s \in saved : s.key = "right" \/ (job.cmd = "create" /\ job.held)

\* The password goes to one X client at most (kickpass.1: it can be pasted only once),
\* and to none after a request that could not be answered.
PasteOnce == pastes + refused <= 1

\* create and edit come to an end when the user closes what they opened
DialogEnds == job.cmd # "copy" ~> pc \in {"ended", "crashed"}

\* copy ends after a request for anything but TARGETS, how many ever it answers and
\* passes over before.  (It does not when another client takes the selections.)
CopyEnds ==
  (pc = "events" /\ \E i \in DOMAIN events : events[i] \in {"text", "strange"}) ~> pc = "ended"
=============================================================================
