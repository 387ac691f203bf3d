------------------------------- MODULE MCHooks -------------------------------
EXTENDS Hooks

MCWorld(t, h, S, n, T, O, trap, B, x, f, p) ==
  [tier |-> t, helper |-> h, shells |-> S, seqs |-> n, tracks |-> T, ops |-> O,
   debugTrap |-> trap, big |-> B, stops |-> x, faults |-> f, prompts |-> p]

MCCommands == {"s1", "s2"} \X (1..2)

\* late: command lines too long for a datagram, a line of two commands, a
\* redrawn prompt; env: tracked environments too long for a datagram; redraw: a
\* redrawn prompt and a failed write; pair: two shells share one capture pump;
\* bsd, mac and linux: the tiers, the first with the exit of either process;
\* ops: two privileged operations, and the exit of either process.
MCWorlds ==
  [ late   |-> MCWorld("linux", "none", {"s1"}, 2, <<>>, {}, TRUE, {"PreExec"}, 0, 0, 1),
    env    |-> MCWorld("linux", "none", {"s1"}, 2, <<"env">>, {}, TRUE, {"Pre"}, 0, 0, 0),
    redraw |-> MCWorld("linux", "none", {"s1"}, 1, <<"state">>, {}, FALSE, {"PreExec", "Post"}, 0, 1, 1),
    pair   |-> MCWorld("bsd", "up", {"s1", "s2"}, 1, <<>>, {}, FALSE, {}, 0, 0, 0),
    bsd    |-> MCWorld("bsd", "up", {"s1"}, 1, <<>>, {}, FALSE, {}, 1, 0, 0),
    mac    |-> MCWorld("macos", "up", {"s1"}, 2, <<>>, {}, FALSE, {}, 0, 0, 0),
    linux  |-> MCWorld("linux", "up", {"s1"}, 1, <<>>, {}, FALSE, {}, 0, 0, 0),
    ops    |-> MCWorld("linux", "up", {"s1"}, 0, <<>>, {"k1", "k2"}, FALSE, {}, 1, 0, 0) ]
=============================================================================
