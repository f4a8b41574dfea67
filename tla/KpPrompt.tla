------------------------------ MODULE KpPrompt -------------------------------
(***************************************************************************)
(* Asking for a password, src/prompt.c: kp_readpass on a terminal and      *)
(* kp_askpass without one, which starts a program and reads a line from    *)
(* it.  A caller sets call to what AskFor says and finds there, in the     *)
(* end, what the prompt has returned.                                      *)
(***************************************************************************)
EXTENDS Integers

CONSTANTS
  Typed,    \* what may be typed
  Failures  \* what may go wrong; here "fork"

VARIABLES
  tty,      \* there is a terminal
  call,     \* how far the prompt is, or what it returned
  answer,   \* the password it was given for its caller
  program,  \* the askpass program: how it ended, if it has
  out,      \* the line it has written into the pipe
  writer,   \* kickpass has the pipe open for writing, too
  zombies   \* askpass programs that have ended and were never waited for

promptVars == <<tty, call, answer, program, out, writer, zombies>>

\* "untouched": KP_SUCCESS, and the password is what it was before
Returned == {"success", "untouched", "error", "crash"}

PromptTypeOK ==
  /\ tty \in BOOLEAN
  /\ call \in {"none", "readpass", "askpass", "getline", "reap"} \cup Returned
  /\ answer \in Typed
  /\ program \in {"none", "running", "ok", "error"}
  /\ out \in Typed \cup {"nothing", "long"}
  /\ writer \in BOOLEAN
  /\ zombies \in Nat

\* setup_prompt
PromptInit ==
  /\ tty \in BOOLEAN
  /\ call = "none" /\ answer \in Typed
  /\ program = "none" /\ out = "nothing" /\ writer = FALSE /\ zombies = 0

AskFor == IF tty THEN "readpass" ELSE "askpass"

\* readpassphrase fails, or the confirmation is not the same
ReadPass ==
  /\ call = "readpass"
  /\ \/ answer' \in Typed /\ call' = "success"
     \/ answer' = answer /\ call' = "error"
  /\ UNCHANGED <<tty, program, out, writer, zombies>>

\* Bug: kickpass keeps its end for writing
BugForkAskpass ==
  /\ call = "askpass"
  /\ program' = "running" /\ out' = "nothing" /\ writer' = TRUE /\ call' = "getline"
  /\ UNCHANGED <<tty, answer, zombies>>

\* pipe and fork.  After a failed fork the stream to be closed is NULL: fclose may
\* crash.  A program that cannot be executed ends with an error, and writes nothing.
ForkAskpass ==
  /\ call = "askpass"
  /\ \/ program' = "running" /\ out' = "nothing" /\ writer' = FALSE /\ call' = "getline"
     \/ /\ "fork" \in Failures /\ call' \in {"error", "crash"}
        /\ UNCHANGED <<program, out, writer>>
  /\ UNCHANGED <<tty, answer, zombies>>

\* The program writes a line, of more than 4095 characters it may be
WriteLine ==
  /\ program = "running" /\ out = "nothing"
  /\ out' \in Typed \cup {"long"}
  /\ UNCHANGED <<tty, call, answer, program, writer, zombies>>

Exit ==
  /\ program = "running"
  /\ program' \in {"ok", "error"}
  /\ UNCHANGED <<tty, call, answer, out, writer, zombies>>

\* getline: a line, or the end of the file when nobody can write any more.  Then the
\* program has ended, or so it seems; nobody waits for it.
GetLine ==
  /\ call = "getline"
  /\ \/ out # "nothing" /\ call' = "reap" /\ UNCHANGED <<program, zombies>>
     \/ /\ out = "nothing" /\ program \in {"ok", "error"} /\ ~writer
        /\ call' = "error" /\ program' = "none" /\ zombies' = zombies + 1
  /\ UNCHANGED <<tty, answer, out, writer>>

\* Bug: nobody waits for the program
BugReap ==
  /\ call = "reap" /\ program \in {"ok", "error"}
  /\ program' = "none" /\ zombies' = zombies + 1
  /\ \/ out = "long" /\ call' = "error" /\ answer' = answer
     \/ out # "long" /\ call' = "success" /\ answer' = out
  /\ UNCHANGED <<tty, out, writer>>

\* waitpid of this child; with an exit status of its own the line does not count
Reap ==
  /\ call = "reap" /\ program \in {"ok", "error"}
  /\ program' = "none"
  /\ \/ program = "error" /\ call' = "untouched" /\ answer' = answer
     \/ program = "ok" /\ out = "long" /\ call' = "error" /\ answer' = answer
     \/ program = "ok" /\ out # "long" /\ call' = "success" /\ answer' = out
  /\ UNCHANGED <<tty, out, writer, zombies>>

Prompting == ReadPass \/ ForkAskpass \/ GetLine \/ Reap
Program   == WriteLine \/ Exit
=============================================================================
