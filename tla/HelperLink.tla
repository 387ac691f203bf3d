------------------------------ MODULE HelperLink ------------------------------
(***************************************************************************)
(* The daemon's link to the privileged helper: the request and response    *)
(* streams, the helper's request loop and capture pump, the readiness map  *)
(* that holds the shell's pre-exec hook until capture is attached          *)
(* (shitd/watch_ready.rs), and the waiters of privileged operations        *)
(* (shitd/helper_link.rs, shitd/priv_op_router.rs).                        *)
(*                                                                         *)
(* SendRequest and the readiness map's mark_ready, mark_failed and forget  *)
(* assign a few variables and are pieces of the handlers here and in       *)
(* Hooks; the operators that end in UNCHANGED of the link's other          *)
(* variables are actions.                                                  *)
(***************************************************************************)
EXTENDS Naturals, Sequences, FiniteSets, Functions

CONSTANTS
  Commands,   \* command identities (session, seq)
  PrivOps,    \* privileged operations: one correlation key each
  PumpCap     \* capacity of the capture pump's control channel

VARIABLES
  tier,       \* "linux" | "bsd" | "macos": where the helper attaches capture
  helper,     \* "up", "down" (exited), "none" (daemon booted without one)
  requests,   \* daemon to helper, in order
  responses,  \* helper to daemon, in order
  pump,       \* control messages queued for the capture pump
  attached,   \* commands whose capture state the helper holds
  ready,      \* WatchReadyMap: a function on the commands with an entry
  waits,      \* the WaitWatchReady call of each command's hook
  waiters,    \* priv_op_waiters: the keys with a registered sender
  ops,        \* what the requester of each privileged operation knows
  applied     \* operations the helper performed

watchVars == <<ready, waits>>
privVars == <<waiters, ops, applied>>
helperVars == <<requests, responses, pump, attached>>
linkVars == <<tier, helper, helperVars, watchVars, privVars>>

Req(kind, key) == [kind |-> kind, key |-> key]

\* HelperLink::send_request: a helper that exited makes the send fail, and the
\* callers only log it.
SendRequest(q) ==
  requests' = IF helper = "up" THEN Append(requests, q) ELSE requests

InitLink(t, h) ==
  /\ tier = t /\ helper = h
  /\ requests = <<>> /\ responses = <<>> /\ pump = <<>> /\ attached = {}
  /\ ready = << >> /\ waits = [c \in Commands |-> "none"]
  /\ waiters = {} /\ ops = [k \in PrivOps |-> "idle"] /\ applied = {}

-----------------------------------------------------------------------------
(* The readiness map.                                                      *)

SetEntry(c, s) == ready' = [x \in {c} \cup DOMAIN ready |-> IF x = c THEN s ELSE ready[x]]
DropEntry(c) == ready' = Restrict(ready, DOMAIN ready \ {c})

\* Resolve the parked call of c, if there is one.
Release(c, answer) ==
  waits' = [waits EXCEPT ![c] = IF @ = "parked" THEN answer ELSE @]

\* A bug variant: the entry of a failed attach reads as ready.
MarkFailedAsReady(c) == SetEntry(c, "ready") /\ Release(c, "yes")
mark_ready(c) == SetEntry(c, "ready") /\ Release(c, "yes")
mark_failed(c) == SetEntry(c, "failed") /\ Release(c, "no")
forget(c) == DropEntry(c) /\ Release(c, "no")

\* handle_wait_watch_ready up to its await. A call whose client already left
\* ("left") still creates the entry; nobody reads its answer.
await_ready(c) ==
  /\ waits[c] \in {"asked", "left"}
  /\ LET answer(a) == waits' = [waits EXCEPT ![c] = IF @ = "left" THEN "no" ELSE a]
     IN \/ helper = "none" /\ answer("no") /\ UNCHANGED ready
        \/ /\ helper # "none" /\ c \in DOMAIN ready
           /\ answer([ready |-> "yes", failed |-> "no", pending |-> "parked"][ready[c]])
           /\ UNCHANGED ready
        \/ helper # "none" /\ c \notin DOMAIN ready /\ answer("parked") /\ SetEntry(c, "pending")
  /\ UNCHANGED <<tier, helper, helperVars, privVars>>

\* A bug variant: the timer is tied to a live helper.
WaitTimeoutIfUp(c) ==
  /\ waits[c] = "parked" /\ helper = "up"
  /\ waits' = [waits EXCEPT ![c] = "no"]
  /\ UNCHANGED <<tier, helper, helperVars, ready, privVars>>

\* tokio::time::timeout on the parked receiver. The entry stays in the map.
WaitTimeout(c) ==
  /\ waits[c] = "parked"
  /\ waits' = [waits EXCEPT ![c] = "no"]
  /\ UNCHANGED <<tier, helper, helperVars, ready, privVars>>

-----------------------------------------------------------------------------
(* Privileged operations.                                                  *)

\* request_priv_op_blocking up to its recv_timeout. Without a helper at boot
\* the router is the no-op one, which denies.
OpStart(k) ==
  /\ ops[k] = "idle"
  /\ \/ /\ helper = "up" /\ SendRequest(Req("op", k))
        /\ waiters' = waiters \cup {k} /\ ops' = [ops EXCEPT ![k] = "sent"]
     \/ /\ helper # "up" /\ ops' = [ops EXCEPT ![k] = "failed"]
        /\ UNCHANGED <<requests, waiters>>
  /\ UNCHANGED <<tier, helper, responses, pump, attached, watchVars, applied>>

\* recv_timeout gives up; the waiter is removed under the lock afterwards.
OpTimeout(k) ==
  /\ ops[k] = "sent"
  /\ ops' = [ops EXCEPT ![k] = "leaving"]
  /\ UNCHANGED <<tier, helper, helperVars, watchVars, waiters, applied>>

\* A bug variant: the waiter stays registered.
OpGiveUpWaiterStays(k) ==
  /\ ops[k] = "leaving"
  /\ ops' = [ops EXCEPT ![k] = "failed"]
  /\ UNCHANGED <<tier, helper, helperVars, watchVars, waiters, applied>>

OpGiveUp(k) ==
  /\ ops[k] = "leaving"
  /\ ops' = [ops EXCEPT ![k] = "failed"]
  /\ waiters' = waiters \ {k}
  /\ UNCHANGED <<tier, helper, helperVars, watchVars, applied>>

-----------------------------------------------------------------------------
(* The helper's side.                                                      *)

\* What a watch request comes to. On Linux the request loop attaches and
\* reports ready whether or not the mark or the pre-open worked; on BSD the
\* pump attaches later and a full channel is reported at once; on macOS the
\* request loop reports ready and the pump attaches later, if the channel had room.
WatchTree(c) ==
  \/ /\ tier = "linux"
     /\ \E ok \in BOOLEAN : attached' = IF ok THEN attached \cup {c} ELSE attached
     /\ responses' = Append(responses, Req("ready", c)) /\ UNCHANGED pump
  \/ /\ tier = "bsd" /\ Len(pump) < PumpCap
     /\ pump' = Append(pump, Req("attach", c)) /\ UNCHANGED <<responses, attached>>
  \/ /\ tier = "bsd" /\ Len(pump) = PumpCap
     /\ responses' = Append(responses, Req("unready", c)) /\ UNCHANGED <<pump, attached>>
  \/ /\ tier = "macos"
     /\ pump' = IF Len(pump) < PumpCap THEN Append(pump, Req("attach", c)) ELSE pump
     /\ responses' = Append(responses, Req("ready", c)) /\ UNCHANGED attached

\* A full control channel drops the detach.
UnwatchTree(c) ==
  /\ UNCHANGED responses
  /\ IF tier = "linux"
     THEN attached' = attached \ {c} /\ UNCHANGED pump
     ELSE /\ pump' = IF Len(pump) < PumpCap THEN Append(pump, Req("detach", c)) ELSE pump
          /\ UNCHANGED attached

\* apply_chown and apply_mknod: performed or refused, and always answered.
ApplyPrivOp(k) ==
  /\ \E ok \in BOOLEAN :
       /\ applied' = IF ok THEN applied \cup {k} ELSE applied
       /\ responses' = Append(responses, Req(IF ok THEN "applied" ELSE "refused", k))
  /\ UNCHANGED <<pump, attached>>

HelperRecv ==
  /\ helper = "up" /\ requests # <<>>
  /\ requests' = Tail(requests)
  /\ LET q == Head(requests)
     IN \/ q.kind = "watch" /\ WatchTree(q.key) /\ UNCHANGED applied
        \/ q.kind = "unwatch" /\ UnwatchTree(q.key) /\ UNCHANGED applied
        \/ q.kind = "op" /\ ApplyPrivOp(q.key)
  /\ UNCHANGED <<tier, helper, watchVars, waiters, ops>>

\* One control message of the capture pump. An attach may fail; only BSD
\* reports how it went.
PumpStep ==
  /\ helper = "up" /\ pump # <<>>
  /\ pump' = Tail(pump)
  /\ LET m == Head(pump)
     IN \/ /\ m.kind = "detach"
           /\ attached' = attached \ {m.key} /\ UNCHANGED responses
        \/ /\ m.kind = "attach"
           /\ \E ok \in BOOLEAN :
                /\ attached' = IF ok THEN attached \cup {m.key} ELSE attached
                /\ responses' = IF tier = "bsd"
                                THEN Append(responses, Req(IF ok THEN "ready" ELSE "unready", m.key))
                                ELSE responses
  /\ UNCHANGED <<tier, helper, requests, watchVars, privVars>>

\* dispatch_response for the rendezvous messages. A result without a waiter is
\* dropped; one whose requester stopped listening frees the waiter only.
DispatchResponse ==
  /\ responses # <<>>
  /\ responses' = Tail(responses)
  /\ LET m == Head(responses)
     IN \/ m.kind = "ready" /\ mark_ready(m.key) /\ UNCHANGED <<waiters, ops>>
        \/ m.kind = "unready" /\ mark_failed(m.key) /\ UNCHANGED <<waiters, ops>>
        \/ /\ m.kind \in {"applied", "refused"}
           /\ waiters' = waiters \ {m.key}
           /\ ops' = IF m.key \in waiters /\ ops[m.key] = "sent"
                     THEN [ops EXCEPT ![m.key] = m.kind] ELSE ops
           /\ UNCHANGED watchVars
  /\ UNCHANGED <<tier, helper, requests, pump, attached, applied>>

\* The helper dies. Frames it already wrote may still be read, or be lost with
\* a connection reset; waiters and readiness entries are not touched.
HelperExit ==
  /\ helper = "up" /\ helper' = "down"
  /\ requests' = <<>> /\ pump' = <<>> /\ attached' = {}
  /\ responses' \in {responses, <<>>}
  /\ UNCHANGED <<tier, watchVars, privVars>>
=============================================================================
