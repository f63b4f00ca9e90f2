----------------------------- MODULE MCChannels -----------------------------
(* Each channel once, and the ways to name it. *)
EXTENDS Channels

Com(name, id) == [name |-> name, id |-> id]

\* No option; a plain name; a second instance under an id; an id that hides a
\* builtin channel; a chain of ids; an unknown name.
MCComOptions ==
    {<<>>, <<Com("ssh", "ssh")>>, <<Com("qemu", "vm")>>, <<Com("ltx", "shell"), Com("shell", "again")>>,
     <<Com("nothing", "shell")>>}
\* The QEMU channel alone.
QemuOnly == {<<Com("qemu", "qemu")>>}
\* Beside the commands one probe, or a call of stop(); or nothing.
MCLtLoads == {[probes |-> 1, stops |-> 0], [probes |-> 0, stops |-> 1]}
NoLtLoads == {[probes |-> 0, stops |-> 0]}
MCSutComs == {"shell", "ssh", "vm"}
=============================================================================
