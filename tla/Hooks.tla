-------------------------------- MODULE Hooks --------------------------------
(***************************************************************************)
(* The shell hooks and the daemon's hook server: the frames each prompt    *)
(* sends (shell/bash.sh, shit/send.rs) over a datagram socket or, when     *)
(* oversize, over a control connection; the single consumer that retries a *)
(* frame whose commands row is missing (shitd/server.rs); the stacks of    *)
(* active commands; the pre-command stashes that a post frame is compared  *)
(* with; and, from HelperLink, the wait for capture to be attached.        *)
(***************************************************************************)
EXTENDS HelperLink, SequencesExt

CONSTANTS
  Worlds,     \* name |-> [tier, helper, shells, seqs, tracks, ops, debugTrap, big,
              \*           and bounds: stops of a process, faults (failed sqlite
              \*           writes), prompts (redraws without a command)]
  Values,     \* states of what a track records (environment, shell options)
  RetryMax    \* ROW_RETRY_MAX

VARIABLES
  world, shell, dgram, ctl, hookq, naps,
  up, rows, active, stash, diffs, ran, stops, faults

hookVars == <<world, shell, dgram, ctl, hookq, naps, up, rows, active, stash, diffs, ran, stops, faults>>
serverVars == <<rows, active, stash, diffs, faults>>
netVars == <<dgram, ctl, hookq, naps>>
vars == <<hookVars, linkVars>>

World == Worlds[world]
Shells == World.shells
Tracks == World.tracks
TrackSet == Range(Tracks)

\* The hook-send calls of __shit_pre and of __shit_post, in order.
Step(kind, track) == [kind |-> kind, track |-> track]
PerTrack(kind) == [i \in DOMAIN Tracks |-> Step(kind, Tracks[i])]
PreScript == <<Step("PreExec", ""), Step("Wait", "")>> \o PerTrack("Pre")
PostScript == <<Step("PostExec", "")>> \o PerTrack("Post")

Current(s) == <<s, shell[s].seq>>
Frame(s, step) ==
  [kind |-> step.kind, track |-> step.track, cmd |-> Current(s),
   val |-> shell[s].val, prompt |-> shell[s].prompts]

Init ==
  /\ world \in DOMAIN Worlds
  /\ InitLink(World.tier, World.helper)
  /\ shell = [s \in Shells |-> [seq |-> 0, at |-> "prompt", todo |-> <<>>,
                                val |-> CHOOSE v \in Values : TRUE, prompts |-> 0]]
  /\ dgram = <<>> /\ ctl = {} /\ hookq = <<>> /\ naps = {}
  /\ up = TRUE /\ rows = [c \in Commands |-> "none"]
  /\ active = [s \in Shells |-> <<>>]
  /\ stash = [t \in TrackSet |-> <<>>] /\ diffs = <<>>
  /\ ran = [c \in Commands |-> <<>>] /\ stops = 0 /\ faults = 0

-----------------------------------------------------------------------------
(* The shell.                                                              *)

\* n steps of the script are done; a shell that is through goes on.
NextStep(s, n) ==
  shell' = [shell EXCEPT ![s].todo = SubSeq(@, n + 1, Len(@)),
                         ![s].at = IF Len(shell[s].todo) > n THEN @
                                   ELSE IF @ = "pre" THEN "run" ELSE "prompt"]

\* __shit_pre for the next command. The bash DEBUG trap fires for every simple
\* command of a line, so one may begin when another ended without a prompt.
BeginCommand(s) ==
  /\ shell[s].seq < World.seqs
  /\ shell[s].at \in {"prompt"} \cup (IF World.debugTrap THEN {"ran"} ELSE {})
  /\ shell' = [shell EXCEPT ![s].seq = @ + 1, ![s].at = "pre", ![s].todo = PreScript]
  /\ UNCHANGED <<world, netVars, up, serverVars, ran, stops, linkVars>>

\* The command runs and leaves the shell's tracked state as it likes.
RunCommand(s) ==
  /\ shell[s].at = "run"
  /\ \E v \in Values :
       /\ shell' = [shell EXCEPT ![s].at = "ran", ![s].val = v]
       /\ ran' = [ran EXCEPT ![Current(s)] = <<shell[s].val, v>>]
  /\ UNCHANGED <<world, netVars, up, serverVars, stops, linkVars>>

\* PROMPT_COMMAND: __shit_post with the current seq, after a command and also
\* when the prompt is redrawn and no command ran since.
BeginPost(s) == shell' = [shell EXCEPT ![s].todo = PostScript, ![s].at = "post",
                                       ![s].prompts = IF shell[s].at = "ran" THEN @ ELSE @ + 1]
Prompt(s) ==
  /\ shell[s].at = "ran" /\ BeginPost(s)
  /\ UNCHANGED <<world, netVars, up, serverVars, ran, stops, linkVars>>
Redraw(s) ==
  /\ shell[s].at = "prompt" /\ shell[s].seq > 0 /\ shell[s].prompts < World.prompts
  /\ BeginPost(s)
  /\ UNCHANGED <<world, netVars, up, serverVars, ran, stops, linkVars>>

\* send_message: small frames are datagrams, oversize ones (never PostExec)
\* travel on a control connection of their own. Without a daemon the frame is
\* lost and the hook goes on, after a PreExec without the wait.
send_message(s) ==
  /\ shell[s].todo # <<>> /\ Head(shell[s].todo).kind # "Wait"
  /\ LET f == Frame(s, Head(shell[s].todo))
     IN \/ up /\ dgram' = Append(dgram, f) /\ NextStep(s, 1) /\ UNCHANGED ctl
        \/ /\ up /\ f.kind \in World.big \ {"PostExec"}
           /\ ctl' = ctl \cup {f} /\ NextStep(s, 1) /\ UNCHANGED dgram
        \/ /\ ~up /\ NextStep(s, IF f.kind = "PreExec" THEN 2 ELSE 1)
           /\ UNCHANGED <<dgram, ctl>>
  /\ UNCHANGED <<world, hookq, naps, up, serverVars, ran, stops, linkVars>>

Waiting(s) == shell[s].todo # <<>> /\ Head(shell[s].todo).kind = "Wait"

\* wait_watch_ready: ask, then go on with the answer, with the client's own
\* timeout when the daemon has not even read the request, or with nobody there.
AskReady(s) ==
  /\ Waiting(s) /\ up /\ waits[Current(s)] = "none"
  /\ waits' = [waits EXCEPT ![Current(s)] = "asked"]
  /\ UNCHANGED <<hookVars, tier, helper, helperVars, ready, privVars>>

StopWaiting(s) ==
  /\ Waiting(s)
  /\ \/ waits[Current(s)] \in {"yes", "no"} /\ UNCHANGED waits
     \/ waits[Current(s)] = "asked" /\ waits' = [waits EXCEPT ![Current(s)] = "left"]
     \/ waits[Current(s)] = "none" /\ ~up /\ UNCHANGED waits
  /\ NextStep(s, 1)
  /\ UNCHANGED <<world, netVars, up, serverVars, ran, stops,
                 tier, helper, helperVars, ready, privVars>>

-----------------------------------------------------------------------------
(* The hook server.                                                        *)

\* A sqlite write succeeds, or one of the bounded faults makes it fail; the
\* handlers log the error and go on.
Writes(ok) == \/ ok /\ UNCHANGED faults
              \/ ~ok /\ faults < World.faults /\ faults' = faults + 1

Pushed(c) == active' = [active EXCEPT ![c[1]] = Append(@, c)]

\* A bug variant: the most recent command is popped, whichever one ended.
PopLast(stack, c) == IF stack = <<>> THEN stack ELSE Front(stack)
\* ActiveCommands::remove: the entry is found by identity.
remove(stack, c) == RemoveFirst(stack, c)

HandlePreExec(c) ==
  /\ Pushed(c)
  /\ \E ok \in BOOLEAN : /\ Writes(ok)
                         /\ rows' = IF ok THEN [rows EXCEPT ![c] = "open"] ELSE rows
  /\ SendRequest(Req("watch", c))
  /\ UNCHANGED <<stash, diffs, watchVars>>

\* Without a row only the helper and the readiness map hear of the end. The
\* extended-attribute sweep writes events of a kind this module does not keep.
HandlePostExec(c) ==
  /\ \/ /\ rows[c] # "none"
        /\ active' = [active EXCEPT ![c[1]] = remove(@, c)]
        /\ \E ok \in BOOLEAN : /\ Writes(ok)
                               /\ rows' = IF ok THEN [rows EXCEPT ![c] = "ended"] ELSE rows
     \/ rows[c] = "none" /\ UNCHANGED <<active, rows, faults>>
  /\ SendRequest(Req("unwatch", c))
  /\ IF helper = "none" THEN UNCHANGED watchVars ELSE forget(c)
  /\ UNCHANGED <<stash, diffs>>

\* handle_pre of env_track and shell_state_track: a map insert. The entries are
\* kept in the order of their age.
HandlePre(f) ==
  /\ stash' = [stash EXCEPT ![f.track] =
                 Append(SelectSeq(@, LAMBDA e : e.cmd # f.cmd), [cmd |-> f.cmd, val |-> f.val])]
  /\ UNCHANGED <<rows, active, diffs, faults, requests, watchVars>>

StashedFor(f) == {i \in DOMAIN stash[f.track] : stash[f.track][i].cmd = f.cmd}

\* A bug variant: the stash is read and not taken.
TakenNever(f) == UNCHANGED stash
\* EnvPreStash::take, ShellStatePreStash::take.
Taken(f) == stash' = [stash EXCEPT ![f.track] = SelectSeq(@, LAMBDA e : e.cmd # f.cmd)]

\* handle_post: an orphan and an unchanged state are dropped; the event's
\* foreign key refuses a command without a row.
HandlePost(f) ==
  /\ Taken(f)
  /\ IF \E i \in StashedFor(f) : stash[f.track][i].val # f.val
     THEN \E ok \in BOOLEAN :
            /\ Writes(ok)
            /\ diffs' = IF ok /\ rows[f.cmd] # "none"
                        THEN Append(diffs, [cmd |-> f.cmd, track |-> f.track,
                               change |-> <<stash[f.track][CHOOSE i \in StashedFor(f) : TRUE].val, f.val>>])
                        ELSE diffs
     ELSE UNCHANGED <<diffs, faults>>
  /\ UNCHANGED <<rows, active, requests, watchVars>>

handle(f) ==
  \/ f.kind = "PreExec" /\ HandlePreExec(f.cmd)
  \/ f.kind = "PostExec" /\ HandlePostExec(f.cmd)
  \/ f.kind = "Pre" /\ HandlePre(f)
  \/ f.kind = "Post" /\ HandlePost(f)

\* A bug variant: an attempt is counted twice.
RequeueTwice(f, attempt) == naps' = naps \cup {<<f, attempt + 2>>}
Requeue(f, attempt) == naps' = naps \cup {<<f, attempt + 1>>}

needs_command_row(f) == f.kind \in {"PostExec", "Post"}

\* serve's dispatch closure: a frame ahead of its row naps and comes back, up
\* to RetryMax times, and is then handled anyway.
dispatch(f, attempt) ==
  /\ \/ /\ needs_command_row(f) /\ rows[f.cmd] = "none" /\ attempt < RetryMax
        /\ Requeue(f, attempt)
        /\ UNCHANGED <<serverVars, requests, watchVars>>
     \/ /\ needs_command_row(f) => (rows[f.cmd] = "none" => attempt >= RetryMax)
        /\ handle(f) /\ UNCHANGED naps
  /\ UNCHANGED <<world, shell, up, ran, stops,
                 tier, helper, responses, pump, attached, privVars>>

RecvDatagram ==
  /\ dgram # <<>> /\ dgram' = Tail(dgram)
  /\ dispatch(Head(dgram), 0) /\ UNCHANGED <<ctl, hookq>>

RecvHook ==
  /\ hookq # <<>> /\ hookq' = Tail(hookq)
  /\ dispatch(Head(hookq)[1], Head(hookq)[2]) /\ UNCHANGED <<ctl, dgram>>

\* handle_client's Hook arm: every connection is a task of its own.
CtlHook(f) ==
  /\ f \in ctl /\ ctl' = ctl \ {f} /\ hookq' = Append(hookq, <<f, 0>>)
  /\ UNCHANGED <<world, shell, dgram, naps, up, serverVars, ran, stops, linkVars>>

NapOver(n) ==
  /\ n \in naps /\ naps' = naps \ {n} /\ hookq' = Append(hookq, n)
  /\ UNCHANGED <<world, shell, dgram, ctl, up, serverVars, ran, stops, linkVars>>

\* A bug variant: the environment stash is left out, as the shell-state one is.
JanitorNoEnv == FALSE

\* The janitor's tick: sweep_expired drops the oldest environment entries. The
\* shell-state stash has a sweep that nothing calls.
Janitor ==
  /\ up /\ "env" \in TrackSet
  /\ \E n \in 1..Len(stash["env"]) :
       stash' = [stash EXCEPT !["env"] = SubSeq(@, n + 1, Len(@))]
  /\ UNCHANGED <<world, shell, netVars, up, rows, active, diffs, ran, stops, faults, linkVars>>

-----------------------------------------------------------------------------
(* The link's actions, and the processes' exits.                           *)

Link ==
  /\ \/ \E c \in Commands : await_ready(c) \/ WaitTimeout(c)
     \/ \E k \in World.ops : OpStart(k) \/ OpTimeout(k) \/ OpGiveUp(k)
     \/ HelperRecv \/ PumpStep \/ DispatchResponse
  /\ UNCHANGED hookVars

HelperStops ==
  /\ stops < World.stops /\ stops' = stops + 1
  /\ HelperExit
  /\ UNCHANGED <<world, shell, netVars, up, serverVars, ran>>

\* The daemon exits (idle timeout, shutdown, crash): frames on the way, stacks,
\* stashes, readiness and waiters go with it, and so does the helper. Rows and
\* events are in sqlite.
DaemonStops ==
  /\ up /\ stops < World.stops /\ stops' = stops + 1
  /\ up' = FALSE
  /\ dgram' = <<>> /\ ctl' = {} /\ hookq' = <<>> /\ naps' = {}
  /\ active' = [s \in Shells |-> <<>>] /\ stash' = [t \in TrackSet |-> <<>>]
  /\ helper' = IF helper = "none" THEN "none" ELSE "down"
  /\ requests' = <<>> /\ responses' = <<>> /\ pump' = <<>> /\ attached' = {}
  /\ ready' = << >>
  /\ waits' = [c \in Commands |-> IF waits[c] \in {"none", "yes"} THEN waits[c] ELSE "no"]
  /\ waiters' = {} /\ ops' = [k \in PrivOps |-> IF ops[k] \in {"sent", "leaving"} THEN "failed" ELSE ops[k]]
  /\ UNCHANGED <<world, shell, rows, diffs, ran, faults, tier, applied>>

\* A start whose helper cannot be spawned goes on without one.
DaemonStarts ==
  /\ ~up /\ up' = TRUE
  /\ helper' \in {World.helper, "none"}
  /\ UNCHANGED <<world, shell, netVars, serverVars, ran, stops, tier, helperVars, watchVars, privVars>>

ShellSteps(s) == RunCommand(s) \/ Prompt(s) \/ send_message(s) \/ AskReady(s) \/ StopWaiting(s)
Next ==
  \/ \E s \in Shells : BeginCommand(s) \/ Redraw(s) \/ ShellSteps(s)
  \/ RecvDatagram \/ RecvHook \/ (\E f \in ctl : CtlHook(f)) \/ (\E n \in naps : NapOver(n))
  \/ Janitor \/ Link \/ HelperStops \/ DaemonStops \/ DaemonStarts

Spec == Init /\ [][Next]_vars

\* Commands end and hook scripts go on; the daemon's tasks and timers run while
\* it is up. Nothing is assumed of the user, of the helper, which may be stuck,
\* or of the daemon being started again.
Fairness ==
  /\ \A s \in {c[1] : c \in Commands} : WF_vars(s \in Shells /\ ShellSteps(s))
  /\ WF_vars(RecvDatagram) /\ WF_vars(RecvHook) /\ WF_vars(Janitor)
  /\ WF_vars(\E f \in ctl : CtlHook(f)) /\ WF_vars(\E n \in naps : NapOver(n))
  /\ WF_vars((\E c \in Commands : await_ready(c) \/ WaitTimeout(c)) /\ UNCHANGED hookVars)
  /\ WF_vars((\E k \in PrivOps : OpTimeout(k) \/ OpGiveUp(k)) /\ UNCHANGED hookVars)
FairSpec == Spec /\ Fairness

-----------------------------------------------------------------------------
(* Properties.                                                             *)

Frames == [kind : {"PreExec", "PostExec", "Pre", "Post"}, track : {"", "env", "state"},
           cmd : Commands, val : Values, prompt : Nat]

\* Every variable holds what its code counterpart can hold; a frame never
\* naps more than ROW_RETRY_MAX times.
TypeOK ==
  /\ world \in DOMAIN Worlds /\ up \in BOOLEAN /\ helper \in {"none", "up", "down"}
  /\ dgram \in Seq(Frames) /\ ctl \subseteq Frames
  /\ hookq \in Seq(Frames \X (0..RetryMax)) /\ naps \subseteq Frames \X (1..RetryMax)
  /\ rows \in [Commands -> {"none", "open", "ended"}]
  /\ active \in [Shells -> Seq(Commands)]
  /\ stash \in [TrackSet -> Seq([cmd : Commands, val : Values])]
  /\ DOMAIN ready \subseteq Commands /\ Range(ready) \subseteq {"pending", "ready", "failed"}
  /\ waits \in [Commands -> {"none", "asked", "left", "parked", "yes", "no"}]
  /\ waiters \subseteq PrivOps /\ applied \subseteq PrivOps /\ attached \subseteq Commands
  /\ ops \in [PrivOps -> {"idle", "sent", "leaving", "failed", "applied", "refused"}]

\* A command recorded as ended is on no stack of active commands, so no later
\* event is attributed to it: PostExec frames that come early, late, twice or
\* after a restart, and PreExec frames handled out of order, never leave it
\* there (server.rs PostExec, ActiveCommands::remove).
EndedNotActive ==
  \A c \in Commands : rows[c] = "ended" =>
    \A s \in Shells : c \notin Range(active[s])

\* A command that its hook let run with ready = true has its capture state
\* attached in the helper for as long as it runs and no process exits: the
\* detach of another command, a failed attach, a full control channel or a
\* late answer never make a false ready (bsd.rs attach_response, watch_ready.rs).
ReadyMeansAttached ==
  tier = "bsd" /\ stops = 0 =>
    \A s \in Shells : shell[s].at = "run" /\ waits[Current(s)] = "yes" => Current(s) \in attached

\* The journal holds at most one diff per command and track, and it is the
\* change that command made, whatever order its frames and those of other
\* commands were handled in and however often its post frame was sent
\* (env_track.rs and shell_state_track.rs handle_post).
DiffsFaithful ==
  \A i \in DOMAIN diffs :
    /\ diffs[i].change = ran[diffs[i].cmd]
    /\ \A j \in DOMAIN diffs : diffs[i].cmd = diffs[j].cmd /\ diffs[i].track = diffs[j].track => i = j

\* An undo that is told a privileged operation was applied can rely on it, and
\* no waiter outlives its requester: a reply that crosses the timeout reaches
\* nobody (request_priv_op_blocking, dispatch_response).
PrivOpHonest ==
  \A k \in PrivOps : /\ ops[k] = "applied" => k \in applied
                     /\ k \in waiters => ops[k] \in {"sent", "leaving"}

\* Once the user stops, everything settles: no hook is left waiting, also with
\* a helper that exits or never answers; no frame circulates for ever, also when
\* its row never comes; orphaned environment entries are swept; no privileged
\* operation is left pending (server.rs dispatch, wait_watch_ready, janitor).
Quiet ==
  /\ dgram = <<>> /\ ctl = {} /\ hookq = <<>> /\ naps = {}
  /\ \A s \in Shells : shell[s].at = "prompt"
  /\ "env" \in TrackSet => stash["env"] = <<>>
  /\ \A c \in Commands : waits[c] \in {"none", "yes", "no"}
  /\ \A k \in PrivOps : ops[k] \notin {"sent", "leaving"}
EventuallyQuiet == <>[]Quiet
=============================================================================
