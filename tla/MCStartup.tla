----------------------------- MODULE MCStartup ------------------------------
(* Startup for TLC: every command line with sound options on many hosts, and *)
(* the first use of kopsrox with the ini edited option by option.            *)
EXTENDS Startup

A(v, c, x) == [verb |-> v, cmd |-> c, arg |-> x]
Words == {A(v, c, TRUE) : v \in DOMAIN Cmds, c \in UNION {Cmds[w] : w \in DOMAIN Cmds}}

KnownArgvs == {a \in Words : Known(a)} \cup {A("node", "reboot", FALSE), NoArgv}

Ready == [o \in Options |-> IF o \in MustChange THEN "good" ELSE Shipped[o]]
Replaced == {<<o, "good">> : o \in MustChange}
Mistakes == {<<"s3_bucket", "blank">>, <<"localsshkey", "wrong">>, <<"cluster_id", "outside">>,
             <<"workers", "wrong">>, <<"extra_packages", "blank">>}
SomeEdits == Replaced \cup Mistakes

H == [pve |-> TRUE, sudo |-> "root", storage |-> TRUE, starts |-> TRUE, agent |-> TRUE,
      microvm |-> "new", bridge |-> "known",
      vm |-> [v \in {0, 1, 5, 10} |-> IF v \in {0, 10} THEN "stopped" ELSE "running"]]
Fleet(h) == {[h EXCEPT !.vm = f] : f \in
  {g \in [{0, 1, 5, 10} -> {"absent", "stopped", "running"}] : g[0] # "running" /\ g[10] = "stopped"}}
Odd == {H, [H EXCEPT !.pve = FALSE], [H EXCEPT !.sudo = "password"], [H EXCEPT !.sudo = "cached"],
        [H EXCEPT !.storage = FALSE], [H EXCEPT !.agent = FALSE, !.bridge = "unknown"], [H EXCEPT !.starts = FALSE], [H EXCEPT !.microvm = "old"],
        [H EXCEPT !.bridge = "malformed"], [H EXCEPT !.bridge = "unknown"]}

\* The first use on a sound host, and one command with sound options on any.
FirstUse   == [file |-> NoFile, host |-> H, edits |-> 0, invocations |-> 0, moves |-> 1]
Settled(h) == [file |-> Ready, host |-> h, edits |-> 6, invocations |-> 1, moves |-> 0]
BothUses   == {FirstUse} \cup {Settled(h) : h \in UNION {Fleet(g) : g \in Odd}}
=============================================================================
