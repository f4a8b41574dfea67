# kickpass: a verification project

kickpass keeps every secret in a file of its own (a *safe*), encrypted under the master password
of the *workspace* it lies in.  A background process, the *agent*, keeps opened safes in clear
text for a while and serves them to later commands over a Unix socket.  The cryptography is
libsodium's.  What is kickpass's own, and what this project models, is the coordination: an
event loop with timers, a small protocol without request numbers, library calls that change
two copies of a secret (the file and the agent's entry) one after the other, a daemon that
is started over two forks and three signals, a tree of workspaces that several commands change
at a time, and dialogs with prompts, an editor and X clients, each a process of its own.

The project holds TLA+ modules, TLC configurations, TLAPS proofs and `PROJECT.json`, which maps
every definition to the lines it stands for and lists runs, mutants, findings and hazards.

    tlc -config agent_safety.cfg MCAgent      # any run: module and cfg are in PROJECT.json
    tlapm KpWorkspace_proofs.tla                # any module named ..._proofs

## 1. The system

| Part (source) | State | Operations | Talks to |
|---|---|---|---|
| agent event loop (`src/command/agent.c`) | accepted connections (`struct conn`, malloc'd), armed timers (`struct timeout`) | `agent_accept`, `dispatch`, `store`, `timeout_discard`, `agent_kill` | libevent calls it back; calls the agent storage |
| agent storage and messages (`lib/kpagent.c`) | red-black tree of `kp_store`, one `imsgbuf` per connection | `kp_agent_connect/accept/send/receive/close/store/search/discard` | both ends of the socket |
| agent start and end (`src/command/agent.c`) | three processes, their signals, the listening socket | `agent()` | the shell's command as a child |
| imsg (`compat/bsd/imsg*.c`) | read buffer, queue of messages to be sent | `imsg_compose`, `imsg_flush`, `imsg_read`, `imsg_get` | the socket, byte by byte |
| safe library (`lib/safe.c`) | `struct kp_safe`: name, clear text, open flag | `kp_safe_open/save/store/delete/rename/close` | files, agent |
| storage (`lib/storage.c`) | one file: packed header, cipher text | `kp_storage_open`, `kp_storage_save` | file system, libsodium |
| configuration (`lib/config.c`) | `.config`, a safe whose metadata holds the KDF limits | `kp_cfg_find/create/load` | safe library, agent |
| workspace (`lib/kickpass.c`) | `kp_ctx`: directory, master password, limits | `kp_init`, `kp_init_workspace`, `kp_fini` | configuration |
| commands (`src/command/*.c`, `src/main.c`) | one process each | open, cat, create, edit, delete, rename, list, copy, init, agent | all of the above |
| list (`src/command/list.c`) | the safes found so far | `list_dir_r` | the directory tree |
| prompt (`src/prompt.c`) | a terminal, or a child and a pipe | `kp_readpass`, `kp_askpass` | the user, an askpass program |
| editor (`src/editor.c`) | a temporary clear text file, a child | `kp_edit` | the user's editor |
| copy (`src/command/copy.c`) | ownership of two X selections | the loop of `copy` | X clients |

The hard behaviours, each at its line in `PROJECT.json` under "hazards":

* `store()` arms one timer per STORE and cancels none; a timer keeps a pointer to the connection
  that armed it, which `dispatch` frees; the expiry of an entry that is already gone sends an
  ERROR to whoever is at that address now.
* An answer belongs to a request only by its position in the stream, so one ERROR too many puts
  every later answer one request late.
* `kp_safe_save`, `kp_safe_delete` and `kp_safe_rename` are several exchanges with the agent and
  one with the file.  Other commands, expiries, failures and kills come in between.
* `kp_storage_save` cuts the file before it has anything to write, without a lock.
* The agent never closes a connection's socket, so its descriptors only ever become fewer.
* The parent of a daemonized agent blocks its signals after the fork.
* A message comes in pieces, or with others in one read; a send that fails half way leaves the
  rest in the queue.
* Between what a command finds in the tree (a `.config`, a safe, no safe) and what it writes
  there, its user may take minutes and other commands may run.  The tree has no lock.
* `init` makes the directory first and its `.config` long after.
* The editor and the askpass program are children that may fail, never start, or outlive the
  prompt; `kp_edit` waits for *any* child.
* `copy` ends with the first request it can or cannot answer, if there ever is one.

What makes each part right: an entry of the agent never outlives its lifetime, and ends; an entry
shows what the file holds and belongs to its name; a command always comes to an end; a successful
save can be read, and a read never goes back to a replaced safe; the parent reports success only
for an agent that serves; messages arrive whole, once and in order; a safe is encrypted under the
password of its workspace and changed only by who knows it; clear text does not stay in a file;
what the user left in the editor is what is saved; a copied password is given away once.

## 2. The modules

| Module | Models | Composed of |
|---|---|---|
| `TimedCache` | what the agent promises: a map whose entries are not seen after their lifetime | |
| `KpAgent` | the agent and the connections of any number of clients | implements `TimedCache` |
| `KpSafe` | the commands as processes on one workspace | EXTENDS `KpAgent`: a command is a client |
| `KpStorage` | one safe file, system call by system call | |
| `AgentStartup` | parent, agent and child of `kickpass agent` | |
| `MessageChannel` | what imsg promises: a queue of whole messages | |
| `Imsg` | one connection, byte by byte, both ends | implements `MessageChannel` twice, as the `req` and `rep` of `KpAgent` |
| `KpWorkspace` | the directory tree, its `.config`s and the commands at work in it | |
| `KpPrompt` | `kp_readpass`, `kp_askpass` and the askpass program | |
| `KpSelection` | `copy` and the X clients | |
| `KpDialogs` | create, edit and copy with their user | EXTENDS `KpPrompt` and `KpSelection`, adds the editor |
| `KpAgent_proofs`, `KpSafe_proofs`, `KpStorage_proofs`, `AgentStartup_proofs`, `Imsg_proofs`, `KpWorkspace_proofs`, `KpDialogs_proofs` | the theorems about a module and their proofs | that module |
| `KpCoherence_proofs` | the theorems on agent and files together | EXTENDS `KpSafe_proofs` |
| `MC...` | constants for TLC | |

### KpAgent

The loop has one thread, so a callback is one action.  `storage` is the tree, `timers` the armed
`evtimer`s, `block[c]` the address of the connection's `struct conn`, `req` and `rep` the two
directions of the socket (whole messages in order, which is what imsg gives its callers).
`promise` is a history variable: when the lifetime that the manuals promise for the entry ends
(`PromiseOf`).  No action of the agent reads it, except to keep it.

* `Accept` (`agent_accept`) takes *any* address that no live connection has, those of freed ones
  included, as `malloc` may.
* `DispatchStore`, `DispatchSearch`, `DispatchDiscard`, `DispatchEof` are the branches of
  `dispatch`.  `dispatch` handles all messages of one read in one callback; here each is an
  action, which only adds interleavings.
* `TimeoutDiscard` splits into `ExpireFound`, `ExpireMissing` (the stray ERROR, to the connection
  that now has the address) and `ExpireDangling` (nobody has it: a use after free, modelled as
  "no effect or death of the process").
* `imsg_read` wants `Spare` free descriptors before it reads; when there are fewer
  (`OutOfFds`) it fails and `dispatch` frees the connection, though its socket stays open.
* `Stop` is the death of the process, `AgentKill` its SIGCHLD or a signal.
* `Tick` is the clock, one second a step.  A due timer runs before the clock moves on: the model
  assumes callbacks take no time next to lifetimes, which are seconds.

### KpSafe

Each connection is one command, a process with a program counter (`cmd[p].pc`) that names its next
exchange with the world.  `Check`, `Ask`, `Answered`, `ReadFile` are `kp_safe_open`; `SaveAsk`,
`SaveAnswered`, `SaveStore`, `WriteFile` are `kp_safe_save`; `Discard`, `Discarded`, `Unlink` are
`kp_safe_delete`; `Discard`, `Discarded`, `Restore`, `Move` are `kp_safe_rename`; `CfgStore` and
`Store` are `kp_safe_store` as `kp_cfg_load` and the commands call it.  `Opened` tells where each
command goes on once its safe is open.  `Refuse` is its failure, which rename turns into status 0.
`Edit` is the user at the prompts and in the editor: any value for this safe, or an error.
`BrokenPipe` is the SIGPIPE of a command that sends to a dead agent; `Interrupt` kills it anywhere.
A secret and its metadata are one value; `Of` records for which safe a value was written.

`kp_safe_save` tells the agent first and returns what `kp_storage_save` returns, which may fail
before it cuts the file (the old safe stays) or after (a `Torn` file stays), or succeed without a
cipher text (`WriteBody` below): the branches of `WriteFile`.  `meant` is a history field of a
file: what the last save that failed on it was to write.  `Unlink` may fail too.

Names of sub-workspaces, and with them several master passwords, are in `KpWorkspace`; here there
is one `.config`.  `KpDialogs` opens up `Edit` and `Password`, `KpStorage` opens up `WriteFile` and
`ReadFile`, `Imsg` opens up `Send` and `Hears`.

### KpStorage

A save is `OpenForSave`, `Truncate`, `Encrypt`, `WriteHeader`, `WriteBody`, with the failures of
each system call (open, ftruncate, encryption, short write, a write that returns -1) and `Crash`
between any two; a read is `OpenForRead`, `ReadHeader`, `ReadBody`.  Every save draws a new salt
and nonce, so header and blocks are written as the *identity* of the save, and `Authentic` (one
save, whole) is exactly what the authenticated decryption accepts.

### Imsg

`w[e]` is `imsgbuf.w` of an end, each `ibuf` with its `rpos`; `pipe[e]` what the kernel has of it;
`r[e]` is `imsgbuf.r`.  A byte is a pair of its message and its place in it, so that the code which
would take any byte for a header can be seen to take only first bytes (`Framed`).  `SendPiece` is
one `sendmsg` of `msgbuf_write` with `msgbuf_drain`; `Flushed` and `SendFails` are the two ends of
`imsg_flush`; `Read` is `imsg_read`, `HasMessage` and `Get` are `imsg_get`.  The command's side is
`kp_agent_receive` (first the buffer, then the socket), the agent's is `dispatch`: one read, then
every message there is (`Poll`, `Dispatch`, `DispatchEnd`).  An `imsg_read` that fails for want of
descriptors or memory takes nothing from the socket.  The command then returns an error and goes on
with an answer still on its way (`ReceiveFails`); the agent gives the connection up as at the end of
file (`FreeConn`): its buffers go with the `struct conn`, its socket stays open (`freed`), so the
command's sends still succeed until the kernel's buffer is full, and nobody reads them.  `failed` is
history: a `sendmsg` or an `imsg_read` has failed.  A STORE has no answer, every other
request has one, which stands for SEARCH and DISCARD alike.

The refinement: of each direction, the abstract queue holds the messages whose last byte is still
in the sender's queue, in the kernel or in the reader's buffer (`Completed`).  A composition is a `Put`, an
`imsg_get` a `Take`; the end of a process, and the agent giving the connection up, may lose the
newest (`Break`); and every other step stutters.

### KpWorkspace

`node` says what is at a path: nothing, a directory, a file that is no whole safe, or a safe,
which is the password it is encrypted with.  A command is a program counter with its arguments.
`InitWorkspace`, `SafeMkdir`, `Check`, `Write` are `init`; `CfgFind`, `CfgLoad` and what follows are
create and edit; `Open` and `Unlink` are delete; `Open`, `SafeMkdir`, `Move` are rename; `ListDir` is
`list_dir_r` of one directory, which may fail to open: that is warned about, the directory is
remembered in `unread`, and the result (`ok`) is overwritten by that of the next one, so that only a
failure of the last directory keeps `ListEnds` from printing.  Each step is one system call or one that finds and one that makes,
where the outcome of the race is the same.  `Fails` ends a command between any two steps, as an
error return, a closed prompt or a kill does.  There is no agent in this module.

`raced` and `lasting` are history: an `init` has overlapped another command; the safes that have
been there since a `list` began.

### KpPrompt, KpSelection, KpDialogs

`KpPrompt` is a procedure: a caller sets `call` and finds there what the prompt returned.
"untouched" is the return of `kp_askpass` when the program wrote a line and failed: KP_SUCCESS, with
the password as it was before.  `KpSelection` has the queue of X events and the loop of `copy`.
`KpDialogs` goes through create.c, edit.c and copy.c from prompt to prompt; a safe is opened
(`Master`) or saved (`Write`) in one step.  `GetTmp`, `ForkEditor`, `Wait`, `ReadBack` are `kp_edit`,
with the failures the code ignores: the dump, the fork, the exec, the editor's status, and the unlink
of the clear text file (`Remove`), after which a warning is all there is (`warned`, history).
`Wait` takes any child, as `wait(NULL)` does, and an askpass program that ended without a line is
one nobody has waited for (`zombies`); that `kp_edit` never meets it is what `SavedAsLeft` shows,
because a prompt that fails ends the command.  Undefined behaviour (a stream that is NULL is closed, a terminator behind the buffer) is a crash
or no effect.

### AgentStartup

`pc` says where parent, agent and child are; `Raise` delivers a signal to the parent or loses it
when it is not blocked yet; `End` is the end of any process with the SIGCHLD it causes.  `Detach`
and `EnterLoop` have the process as a parameter because a child whose `execvp` failed falls
through and runs them too.

## 3. The runs

Symmetry is used over model values that no module tells apart, never in a run that checks
liveness; the refinement in `agent_safety` is a safety property.
`CHECK_DEADLOCK FALSE` is in every cfg: commands are finite in number, the clock is bounded
and the agent may die, so the system really stops.

| Run | Shows | Bounds |
|---|---|---|
| `agent_safety` | `TypeOK`, `ExpiryInv`, `NoOverstay`, `ImplementsTimedCache` | 2 names, 2 connections, 2 addresses, 4 requests, lifetimes none/1/2 |
| `agent_ends` | `EntryEnds`, `RequestsHandled`, `AcceptedUnlessOutOfFds` | 3 connections, 2 descriptors of which `imsg_read` wants 1 free, 2 requests |
| `safe_serial` | `SafeTypeOK`, `Coherent`, `CatTruthful`, `DeleteComplete` | 3 commands one after the other out of open, cat, create -o, edit, delete, rename; right and wrong master passwords; saves and unlinks may fail, the agent may die |
| `safe_reading` | `EntriesOwnValues` | 3 concurrent commands on two safes, each may be killed anywhere |
| `safe_ends` | `CommandsEnd` | any 2 of all commands at a time, with or without an agent, renames and creations that fail included |
| `storage` | `StorageTypeOK`, `ReadsLatest`, `SaveReplaces` | 3 overlapping saves of 1 or 2 blocks over a file of 3 or none, 2 readers, every failure |
| `startup` | `StartupTypeOK`, `ParentTold`, `ParentReleased`, `AgentFollows` | with and without `-d` and a command, every failure, agent and child killed at any time |
| `imsg` | `ImsgTypeOK`, `Framed`, `RoomToRead`, `OneAnswer`, `ImplementsChannels`, `CallsReturn`, `RequestsTaken` | 3 requests; a sendmsg or imsg_read may fail anywhere; header of 2 bytes, messages of 2 to 4, a kernel that holds 4, a read buffer of 5 |
| `workspace` | `WorkspaceTypeOK`, `KeyedByWorkspace`, `ListTruthful`, `NoStranger`, `FindEnds` | a workspace with one sub-workspace and a safe in each, 2 commands at a time and any number in all, 2 passwords; any directory may fail to open |
| `dialogs` | `DialogsTypeOK`, `ClearTextRemoved`, `SavedAsLeft`, `KeyProved`, `PasteOnce`, `DialogEnds`, `CopyEnds` | create, edit -p, -m, -pm and copy, with and without terminal, right, wrong and empty passwords, every failure, 3 X events |

Why the bounds are enough.  `MaxSends` of 4: the hazards of a name take a store, a discard or
a second store, and a third request to see the timer of the first, so three requests of two
clients give every order of two timers and two entries; the fourth adds the second name.
`agent_ends` needs two: a store and what comes after it.  `MaxNow` only stops an idle clock: it
goes on while a timer is armed.  Lifetimes 1 and 2 give every order of two timers, and no lifetime
is the third case of `store()`.  Two addresses for more connections give reuse.
`MaxFds` is above what the clients can take in all runs but `agent_ends`.  Three commands in a row
allow open, change, look.  For imsg, the sizes are in the proportions that matter: the kernel
holds less than two requests with their data, so a send blocks half way; the read buffer holds the
longest message and a part of the next, so pieces and several messages both occur; three requests
give one before and one after a send that failed.  In the workspace one sub-workspace is the
smallest tree in which the nearest `.config` differs from the outer one; two commands give every
pair of steps, and because commands never stop coming, every history.  One request each of
TARGETS, text and an unknown target fit into three X events in any order.  For storage, a file longer than every save shows what `ftruncate` is
for, and saves of two sizes overlap in every way two can; the third makes a history before them.

What a run leaves out is the value of a constant:

* `Serial`: the user starts a command when the last one has ended and the agent has read what it
  sent (`Settled`).
* `Brisk`: no lifetime ends while a command runs.
* `Links`: whether KP_AGENT_SOCK is set.  Runs about agent and file together take `{TRUE}`,
  because a command without it cannot know the agent.
* `Unreachable`: names whose directory cannot be made.
* `Overlap`, `Failures`: whether saves overlap, which system calls fail.
* `MaxFds`: the descriptors of the agent.  In the runs of `MCSafe` there are enough (`CommandsEnd` does not
  hold otherwise); the theorems about `KpSafe` hold for any number.

`Coherent` and `CatTruthful` are checked where they can hold: under `Serial` and `Brisk`, without
kills, without renames that fail or replace a safe.  A save that fails after the agent was told leaves a secret in
the agent that no file holds; what the two properties still say then is that the agent and `cat`
show that secret or what the file holds, and no other (`Agrees`).  The last table of this section
says what happens elsewhere.  It is a hypothesis of every run and theorem
about `KpSafe` that no `imsg_read` of a command fails for want of descriptors or memory, and that a
`sendmsg` fails only when the agent is dead; `Imsg` has these failures, and shows what holds until the first.
`ListTruthful` excepts what lies below a directory that `list` could not open and has warned about,
`ClearTextRemoved` a file whose unlink has failed and that the user was told to delete.
`JobsAssumption` of `KpWorkspace` leaves out a rename of a path that is a directory's: where one has
come in the place of a safe meanwhile, `renameat` moves it with all that is in it.
`ParentTold` and `SaveReplaces` are likewise what remains true, with every failure admitted, of two
promises the code breaks: that the parent's status is that of the agent, and that a save that
reports a success can be read.  `KeyedByWorkspace` and `NoStranger` are checked with `OrdinaryJobs`: without renames from one
directory to another, and without creating, deleting or renaming a `.config` by hand.  `NoStranger`, and the nearest `.config` in
`KeyedByWorkspace`, are stated while no `init` has overlapped another command (`raced`);
`OneAnswer`, `CallsReturn` and `RequestsTaken` while no `sendmsg` and no `imsg_read` has failed for want
of memory or descriptors (`failed`).

### Fairness

`FairSpec` and `FairSafeSpec`: libevent serves every readable connection (`Accept`, `Dispatch`, per
connection) and every due timer, and in `KpAgent` time passes.  `FairSafeSpec` adds that a command
runs on and its user answers the prompts.  `FairStartupSpec`: the kernel runs the three
processes.  `FairImsgSpec`: each end runs on, and no more: nobody has to call, a send or a read may
fail, an end may go.  `WorkspaceSpec`: a command that searches
for its `.config` goes on searching.  `DialogsSpec`: the command runs on, and the
user closes the askpass program and the editor in the end, whatever they did; no X client has to
ask.  Weak fairness is what a level-triggered poll and a preemptive scheduler give.
Nothing is assumed of what clients send, that they close, that the child command ends, or
that anyone is killed.

### Disagreements found

Each "violation" run finds one statement of a manual that the code does not keep;
`PROJECT.json` quotes it under "findings".

| Run | Property | What happens |
|---|---|---|
| `agent_lifetime` | `LifetimeHonoured` | the timer of an earlier, shorter store ends an entry early |
| `edit_crosstalk` | `EntriesOwnValues` | an expiry sends an ERROR nobody asked for, the answers are one behind, and `kp_safe_save` files the secret of a safe under `.config` |

Other behaviour the models have, met while they were written, that a maintainer should know of.
It follows from the actions named; where a property is named, TLC finds it violated once the
constants are as said:

| Where | What happens |
|---|---|
| `Discarded` | delete of a safe the agent does not hold fails and leaves the file |
| `Discard`, `Unlink` with `Store` (`Serial = FALSE`) | an open that read the file before a delete stores the entry after it: the deleted safe stays in the agent (`Coherent`) |
| `SaveAnswered`, `SaveStore` (`Brisk = FALSE`) | an entry that expires inside `kp_safe_save` comes back without a lifetime and stays for ever |
| `SaveStore`, `WriteFile` | a save that fails leaves the new secret in the agent and the old safe, or a torn file, on disk: `cat` shows what no file holds until the entry ends (`Agrees` with `file[n].value` alone) |
| `Restore` | rename stores the new name with the timeout -1 of KP_UNSAFE_INIT: no timer is armed, though kp_safe_store.3 promises removal after the timeout |
| `SaveAnswered` (`Brisk = FALSE`, a lifetime of 2 for the safe and 1 for `.config`) | a stray ERROR makes `kp_safe_save` skip the agent, which keeps the old secret (`Coherent`) |
| `Restore`, `Move` (a rename to an unreachable name) | a rename that fails has already renamed the entry (`Coherent`) |
| `Move` (a rename onto an existing safe) | the safe that had the name is lost, and its entry, if it was open, shows the lost secret (`Coherent`); kp_safe_rename.3 lists EEXIST |
| `Refuse` | a rename that could not open its safe exits with 0 |
| `CfgLoad`, `Edit` | with `.config` in the agent no master password is checked, and create encrypts under whatever was typed |
| `WriteBody` | a `write` of the cipher text that returns -1 compares as a large unsigned number: the save reports a success and the file has no cipher text |
| `Wake`, `ExitStatus` | `exit(wstatus)` keeps nothing of the agent's exit code: the parent exits with 0 when the agent failed to make its socket |
| `SendFails` | the rest of a request whose send failed is sent by the next `kp_agent_send`: the command has gone on to the file, the agent answers all the same, and later answers are one behind (`OneAnswer`).  An answer whose send fails the agent forgets, and the command waits for ever (`CallsReturn`) |
| `ReceiveFails` | a command whose `imsg_read` fails leaves the answer on its way: its next request is answered by it (`OneAnswer`) |
| `PollFails` | an agent whose `imsg_read` fails gives the connection up with its socket open: the request stays in it (`RequestsTaken`), and the command waits for ever (`CallsReturn`) |
| `CfgFind` | without a `.config` in the workspace itself, create and edit search for ever; an `init` that was killed leaves such a workspace, and the next `init` says EEXIST |
| `InitWorkspace` with `CfgFind` | an `init` of a sub-workspace between the `.config` that create found and its save leaves a safe with the outer key in the new sub-workspace (`raced`) |
| `Check`, `Write` | two creates of one safe at a time: the second replaces the first without a word |
| `Move` | a safe renamed into another workspace keeps its key, and its next edit is refused; a safe of that name there is lost |
| `SafeMkdir` | `kp_safe_mkdir` and `kp_safe_rename` return `errno` where a `kp_error_t` is expected |
| `ListEnds`, `ListExit` | `list` of a directory that does not exist exits with 0 |
| `ListDir`, `ListEnds` | a subdirectory that cannot be opened is missing from the list, because the result of the next directory replaces the error (list.c:139); when it is the last, nothing at all is printed; the status is 0 either way |
| `Remove` | an unlink that fails leaves the clear text on disk, with a warning, and the command goes on to a success |
| `Reap` | an askpass program that writes a line and fails gives KP_SUCCESS and no password: create with `.config` from the agent goes on with an empty one, `edit_password` reads an uninitialised buffer |
| `ReadBack` | 4096 bytes or more in the editor put a terminator behind the metadata; a crash there leaves the clear text file |
| `ForkEditor` | an editor that cannot be executed leaves a second kickpass that closes a NULL stream and removes the file |
| `NextEvent` | a request for an unknown target uses up the one paste; a client that takes the selections leaves `copy` running for ever |
| `OwnSelections` | without a display `copy` crashes; a copy that could not open its safe exits with 0 |
| `WriteBody` (`Overlap = TRUE`) | two overlapping saves succeed and leave a file nobody can decrypt |
| `Mask` | a SIGCONT or SIGCHLD that comes before the parent blocks it is lost, and the parent waits for ever |
| `Exec` | a command that cannot be executed leaves two agents on one socket |

## 4. The proofs

`KpAgent_proofs` proves for every set of names, values, connections and addresses, every set of
integer lifetimes and every bound:

* `TypeCorrect`: `Spec => []TypeOK`.  The one part that is not immediate is that `timers` stays
  finite, which `Arm` needs to give the next timer its number.
* `ExpiryInvariant`: `Spec => []ExpiryInv`.
* `NeverOverstays`: `Spec => []NoOverstay`.
* `Implements`: `Spec => ImplementsTimedCache`.

The argument.  `NoOverstay` is not inductive: it says nothing of timers, so nothing keeps the
clock from passing an entry.  `ExpiryInv` has the missing half: an entry with a lifetime has a
timer of its name due no later (`ExpiryCovered`), and no timer is overdue (`TimersAhead`).
`IInv == TypeOK /\ ExpiryInv` is inductive: a store arms the timer that covers it or keeps the
promise its old timer covered (`StoreInv`); a timer that goes takes the entry it covered with it
(`TimeoutInv`); whatever leaves clock and timers alone and gives no entry a new promise keeps it
(`QuietInv`); the clock stops before the earliest timer (`TickInv`).  `NoOverstay` follows from
the two halves, and so does the refinement: the step of the abstract clock may not pass a
lifetime, which is what `IInv` says of the concrete one.

Assumptions used: the distinguished values (`Absent`, `NoConn`, `Freed`) are none of the ordinary
ones, lifetimes are integers, the bounds are naturals.  TLC evaluates them in every run of `MCAgent`.

`KpSafe_proofs` proves, for any safes, values, passwords, job lines and lifetimes and any number of
commands at a time:

* `SafeTypes`: `[]SafeTypeOK`.  The type of a STORE or of a file says that there is a secret to put in it;
  `Fit` says at which places a command has one (`value`), and at which it has a password.
* `EntriesOwn`: `[]EntriesOwnValues`, for commands that write no safe (`ReadingJobs`: open, cat,
  delete).  Lifetimes end, commands are killed and connections are given away meanwhile.  `ReadInv`
  adds what is on its way: a command asks only about the safe of its job (`OwnRequest`), so that an
  answer that comes late is an answer about that safe or an ERROR (`OwnReply`).  `ReadingJobs` is
  needed: edit asks about `.config` first, and `edit_crosstalk` shows what follows.
* `DeletesAreComplete`: `[]DeleteComplete`, for commands that run one after the other (`Serial`) and
  have KP_AGENT_SOCK set, with kills and with lifetimes that end under way.  `AloneInv` says that nothing of
  the other commands is left in a socket the agent still reads, so nothing brings the entry back; `DeleteInv` that
  whatever is no ERROR among the answers was sent when the entry was gone.

`KpCoherence_proofs` proves, for as many commands of every kind as there are connections:

* `AgentIsCoherent`: `[]Coherent`, and `CatIsTruthful`: `[]CatTruthful`, for commands one after the other
  (`Serial`), with KP_AGENT_SOCK set, without kills, without a lifetime that ends while one runs
  (`Brisk`), and in behaviours in which a safe is only renamed to a name that is free and can be
  made (`[]RenamesToNew`).  The agent may die anywhere, and any save or unlink may fail.  After a save that
  failed they say that the agent and `cat` show what that save was to write or what the file holds.

`Coherent` speaks of the moments between commands only, so `TellInv` has to say what holds inside one.
A command has one question under way at most, and its answer, once there, is what the agent
still holds and the file `Agrees` with (`Asked`, `Told`); the STOREs before the question are true of the files
(`Truths`); what a command has read is still in the file when it uses it (`Knows`).  An entry
agrees with its file, or a STORE for it is the next thing the agent reads, or the command is
about to write the file (`Entry`, `Promised`); in that window the agent may have the old entry
nowhere else (`Ahead`).  No timer is due while a command runs (`Timely`), so no stray ERROR
shifts the answers, and a dead agent has nothing (`Dead`).  None of the hypotheses can be dropped:
the table at the end of section 3 has what happens without `Serial` (open and delete at a time),
without `Brisk` (an edit skips the agent), and after a rename that fails or replaces a
safe; a kill between `SaveStore` and `WriteFile` leaves the new secret in the agent only, and an
edit without KP_AGENT_SOCK leaves the old one there.  `RenamesToNew` is a hypothesis on behaviours
because which names are free depends on the commands before.  TLC checked `TellInv` before it was proved, on the
constants of `safe_serial` with the hypothesis as a constraint.

Assumptions used: `ConfigAssumption` (a workspace has its `.config`), `ValuesAssumption` (at first each file
holds a value of its own safe), `PasswordAssumption`, `JobsAssumption` and `FileAssumption` (the marks
for "none" are no ordinary values, the commands are those of `Commands`) and those of `KpAgent`.
TLC evaluates them in the runs of `MCSafe`.

`KpDialogs_proofs` proves all safety properties of the run `dialogs`, for every set of jobs, of what
may be typed and of what may fail, and for any number of X events:

* `PastedOnce`: `[]PasteOnce`.  The counters alone do not say why there is no second answer;
  `SelectionInv` adds that none was given while `replied` is false.
* `ClearTextIsRemoved`: `[]ClearTextRemoved`.  That the editor has ended with the command rests on what
  `wait(NULL)` in `kp_edit` finds, so `ClearInv` has to say that no askpass program is left there
  (`WaitForEditor`): one is left behind only by a prompt that fails, and the command ends with it.
  A file that is still there is one whose unlink has failed, and the user was told.
* `KeyIsProved`: `[]KeyProved`.  `KeyInv` says that the second prompt for a master password, the one in
  `kp_safe_save`, is reached only by a `create` for which the agent had the `.config`.  That `create` is the exception of the
  property: what it saves under, the empty password of a failed askpass program included, nothing verified.
* `DialogsTypes`: `[]DialogsTypeOK`.  `TypeInv` adds that the line `getline` returned is there when the
  program is waited for, and that no more events are queued than there have been.
* `WhatIsLeftIsSaved`: `[]SavedAsLeft`.  `LeftInv` follows the text from the safe to the file and back;
  it needs `ClearInv` (an editor writes only while `kp_edit` waits) and the types of the safe.

Assumptions used: `TypedAssumption` (there is a right and an empty password) and `BoundAssumption`
(the number of X events is a natural); TLC evaluates them in the run of `MCDialogs`.

`AgentStartup_proofs` proves, for any ways to start the agent:

* `StartupTypes`: `[]StartupTypeOK`.
* `ParentIsTold`: `[]ParentTold`.  The parent's status is decided in `Wake` by which signal is
  pending, so `ToldInv` says what a pending signal stands for: a SIGCONT for an agent that has been
  ready, a SIGCHLD for one that has ended, which has a status and takes no further step.

Assumption used: `CommandLineAssumption` (a start is with or without `-d`, with or without a command).

`KpStorage_proofs` proves, for any number of saves and readers and any sizes of saves and of the file
before them:

* `StorageTypes`: `[]StorageTypeOK`.
* `SavesReplace`: `[]SaveReplaces`.  `SaveInv` adds to it what is in the file on the way there, for a
  save that no other one has followed (`Alone`), and for every save that the header of those before
  it has gone with its `ftruncate` and does not come back (`Replaced`), because they have ended
  (`BeforeEnded`).
* `ReadsAreLatest`: `[]ReadsLatest`.  `ReadInv` carries `Replaced` into the header a reader holds.

Assumptions used: the file before the first save is no save, and the marks for no header and a block
of zeros are none of either; every save has a block at least, as sizes do in `lib/storage.c`.

`KpWorkspace_proofs` proves, for any tree of paths, any `.config`s in it, any passwords and any number
of commands at a time:

* `WorkspaceTypes`: `[]WorkspaceTypeOK`, with its promise that the tree has no hole.  `TreeInv` says
  which commands can be at which place (`Passes`), and that what is about to be written is never the
  root (`Rooted`): only because a command that is no `init` has found a workspace there.
* `ListIsTruthful`: `[]ListTruthful`.  `Finds` is the invariant of `list_dir_r`: a safe that has been
  there all the time was found, or one of the directories above it is still to be read or could not be.
* `SafesAreKeyed`: `[]KeyedByWorkspace`, and `StrangersKeepOut`: `NoStranger`, both for ordinary
  jobs.  Neither property is inductive: nothing in the tree tells which password a directory has
  while its `.config` is torn, or is yet to be written.  `KeyInv` therefore says that *there is* a
  password for every directory (`key`), such that a whole `.config` has it, an `init` past its
  `mkdir` is going to write it, and every safe, and every command about to write one, has that of a
  configured directory above (`Keyed`).  A new `init` chooses it anew (`NewKey`), which it can
  because its directory is its own and empty.  `OneKey` then gives `NoStranger`: while no `init` has
  raced, the safe and the command that changes it both have the key of the innermost `.config`.

`Above` is recursive, and what is proved of it (transitive, irreflexive, the root above everything,
a next directory on the way down) is proved by induction over the tree: `TreeAssumption` says that
every set of paths has one whose parent is not in it, and `PathInduction` follows.

Assumptions used: `TreeAssumption` (cut at its last slash again and again, a path ends at the root),
`ConfigAssumption` (a `.config` is a file in its directory and no directory), `MarkAssumption`,
`JobsAssumption` (an `init` is of a directory, a rename of no directory).  `OrdinaryJobs` is a hypothesis of the last two
theorems: without it they are false, as the table above says.  TLC evaluates all of these in the
run of `MCWorkspace`.

`Imsg_proofs` proves, for any lengths of the messages that fit, any read buffer that holds the longest
one, any capacity of the kernel and any number of requests:

* `ImsgTypes`: `[]ImsgTypeOK`, with its limits: nothing is put where there is no room, and an ibuf in a
  queue always has something left to send.
* `StreamsFramed`: `[]Framed`, and `ReadsHaveRoom`: `[]RoomToRead`.
* `AnswersInTurn`: `[]OneAnswer`.
* `ImsgImplementsChannels`: `ImsgSpec => ImplementsChannels`, the refinement of `MessageChannel` in both
  directions.

The argument.  `Framed` looks at neighbouring bytes, which is not inductive: it allows a message
that breaks off and goes on as a longer one, and says nothing of what a cut or an `imsg_get` leaves.
`ImsgInv` says instead what the bytes *are*: the row between two ends (`Stream`: read buffer, kernel,
what is left of each queued ibuf) is `Sound`, that is the messages of `Queue` spelled out
one after the other and then the beginning of one more, which is there only once the sender has gone
(`Whole`).  Every action does one of four things to a row, whatever the sizes: it keeps it (a byte
goes from one buffer to the next: `FlowSend`, `FlowRead`), appends a message (`FlowCompose`), drops
the first (`FlowGet`) or cuts it (`FlowLeave`); and each of them does the same to `Queue` as the
channel's stutter, `Put`, `Take` and `Break` do.  `NothingLeft` (who has gone has no queue) and
`AllDispatched` (the agent goes back to the event loop only without a whole message in its buffer)
complete it: an agent that has given the connection up counts as gone, though its socket is open, and
a command whose read has failed keeps its row as it is.  `RoomToRead` follows because a full buffer holds a whole message: a longest message
fits it.  For `OneAnswer`, `Turns` says that a request that has an answer is the last in its
direction until the answer is there, and that the command waits meanwhile.  It holds until the first
`sendmsg` or `imsg_read` that fails (`failed`), as the property does.

All of this rests on `FlattenSeq`, a recursive function of the community modules.  What is proved of it
(`FlatAppend`, `FlatConcat`) and of rows spelled out of messages is proved by induction on a *set* of
numbers (`SetInduction`: the set of the numbers outside has no least element, by `WFMin`), which
needs no operator as parameter.

Assumptions used: `SizeAssumption`, `FitAssumption` (no message is longer than MAX_IMSGSIZE),
`BufferAssumption` (MAX_IMSGSIZE fits the read buffer: 16384 and 65535), `CallsAssumption`.  TLC
evaluates them in the run of `MCImsg`.

Only model-checked: the liveness properties of the runs `agent_ends`, `safe_ends`, `startup`, `imsg`,
`workspace` and `dialogs`, which rest on fairness and ENABLED and are beyond this prover; and the two
runs that find a violation.  Induction is over sets of numbers or of paths, as above, since the
provers take no lemma with an operator as parameter; the modules have no RECURSIVE operators.
Every safety property of a passing run is a theorem.

## 5. What is not modelled

* Failures of `malloc` (but in `imsg_read`), `sodium_malloc`, `fdopen` and `snprintf`; power loss (kickpass never syncs a
  file); files changed by other programs; the files of the agent's socket directory.
* Parsing of options, of which two lines are undefined: `kp_fini` of a context that `--help` and
  `--version` never set (main.c:136), and `usage` reading `cmds[-1]` (main.c:327).
* The text of `.config`: a line without a colon gives `atol` a NULL, and a limit that is too large
  makes every later save cut the file before it fails to encrypt.  `KpWorkspace` has such a save
  as one that leaves a torn file.
* Wording, logs, the order and layout of what `list` prints, which field of a safe `cat` prints; in `list`, paths
  that are too long and allocations that fail.
* A rename of a path at which a directory has come in the place of the safe (safe.c:332).
* In `KpStorage`, unlink and rename of the file under a save; `KpSafe` and `KpWorkspace` have them at
  the grain of whole saves.  The layout of the header: it is packed and unpacked in one order.
* In `Imsg`, passing of descriptors (kickpass passes none) and more than IOV_MAX queued messages.
  Messages of an unknown type or a wrong size: kickpass sends none.
* In `KpDialogs`, a killed command, an askpass program that fills the pipe behind its line, and
  children kickpass had before it was executed.
* The password generator: a loop over random bytes without state.

## 6. Plan

Done: `KpAgent` with `TimedCache` and its proofs, which every other part relies on; `KpSafe`,
`KpStorage`, `AgentStartup`; `Imsg` with `MessageChannel`, `KpWorkspace`, and `KpPrompt`, `KpSelection`
and `KpDialogs` with their proofs.

Every one of these has proofs of all the safety properties its runs check, `KpAgent` and `Imsg` of
their refinements too.

Next: action properties that say more of a single step than the invariants do (what a killed command
may have changed in files and agent, `KpSafe`; what a failing save may leave of the old file,
`KpStorage`), each with a run before its theorem; and the hazards `PROJECT.json` lists without
a property.
