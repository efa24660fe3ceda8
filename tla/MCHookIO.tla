------------------------------ MODULE MCHookIO ------------------------------
(* HookIO on small instances.                                              *)
EXTENDS HookIO, TLC

CONSTANTS reader, second, writer, connector, closer, sleeper, a, b, p1, p2

Does(fd, event, kind) == [fd |-> fd, event |-> event, kind |-> kind]

\* A connection read and closed by two fibers, another being made.
OneThread ==
  reader :> Does(a, "READ", "io") @@ closer :> Does(a, "READ", "close")
    @@ connector :> Does(b, "WRITE", "connect")

\* Two fibers read a connection, a third writes, a fourth closes it; a fifth sleeps
\* (its descriptor does not matter).
TwoThreads ==
  reader :> Does(a, "READ", "io") @@ second :> Does(a, "READ", "io")
    @@ writer :> Does(a, "WRITE", "io") @@ closer :> Does(a, "READ", "close")
    @@ sleeper :> Does(a, "READ", "sleep")
=============================================================================
